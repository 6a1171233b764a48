----------------------- MODULE OverlappedServer_proofs -----------------------
(***************************************************************************)
(* Proofs about OverlappedServer, for any number of connections, any       *)
(* buffer and array sizes and any faults.                                  *)
(***************************************************************************)
EXTENDS OverlappedServer, OverlappedIO_proofs

(* The block of a connection is its own. *)
OwnBlock == \A s \in Infos : Socket[s] \in {s, NoSocket}

(* The connection main is about to add is open and has no block yet. *)
AddingOK ==
  main = "add" => accepted \in Conns /\ conn[accepted] = "open" /\ Socket[accepted] = NoSocket

(* The entry the worker is about to squash is still where it found it: main *)
(* only appends.                                                            *)
SquashOK ==
  worker = "squash" => Index \in 1..Len(SocketArray) /\ conn[SocketArray[Index]] = "closed"

(* As long as main has not counted event 0, the worker cannot wait. *)
StartOK == main = "start" => worker \in {"wait", "waitFailed"}

IInv ==
  /\ TypeOK
  /\ IOInv
  /\ OwnBlock
  /\ AddingOK
  /\ SquashOK
  /\ StartOK
  /\ ArrayIsOpenSockets
  /\ WaitCoversAll

USE WinsockAssumption, OverlappedAssumption, ServerAssumption

-----------------------------------------------------------------------------
(* The server's steps are of the kinds that OverlappedIO_proofs knows. *)

\* A completed operation is of a block in use, whose connection is open.
LEMMA CompletedIsOpen ==
  ASSUME IInv, NEW k \in 1..Len(SocketArray), Completed(SocketArray[k])
  PROVE  /\ SocketArray[k] \in Infos /\ SocketArray[k] \in Conns
         /\ Socket[SocketArray[k]] = SocketArray[k]
         /\ conn[SocketArray[k]] = "open"
<1>1. SocketArray[k] \in Conns  BY DEF IInv, TypeOK
<1>2. io[SocketArray[k]] # Idle  BY DEF Completed, Idle
<1>3. SocketArray[k] \in InUse /\ ResultHolds(SocketArray[k])
  BY <1>1, <1>2, BlockInUse DEF IInv
<1>4. QED  BY <1>1, <1>3 DEF IInv, OwnBlock, InUse, ResultHolds

LEMMA AddIsIO ==
  ASSUME IInv, Add
  PROVE  accepted \in Infos /\ Starts(accepted, accepted)
<1>1. /\ accepted \in Conns /\ conn[accepted] = "open" /\ Socket[accepted] = NoSocket
  BY DEF IInv, AddingOK, Add
<1>2. NoBlock(accepted)
  BY <1>1 DEF IInv, OwnBlock, NoBlock
<1>3. QED  BY <1>1, <1>2 DEF Add, Starts

LEMMA StepIsIO == IInv /\ [Next]_vars => IOStep
<1> SUFFICES ASSUME IInv, [Next]_vars  PROVE IOStep
  OBVIOUS
<1>1. CASE CountEvents \/ AddFails \/ SignalWorker \/ BeginWait \/ WakeForAccept \/ ResetAccept
           \/ Remove
  BY <1>1 DEF CountEvents, AddFails, SignalWorker, BeginWait, WakeForAccept, ResetAccept, Remove,
     IOStep, Pauses
<1>2. CASE Accept \/ AcceptFails
  BY <1>2 DEF Accept, AcceptFails, IOStep, TakesBacklog
<1>3. CASE Add
  BY <1>3, AddIsIO DEF IOStep
<1>4. ASSUME NEW k \in 1..Len(SocketArray), Serve(k) \/ CloseSocket(k)  PROVE IOStep
  <2>1. SocketArray[k] \in Infos
    BY <1>4, CompletedIsOpen DEF Serve, CloseSocket, Wakes
  <2>2. CASE Serve(k)
    <3>1. Continues(SocketArray[k])  BY <2>2 DEF Serve, Continues
    <3>2. QED  BY <2>1, <3>1 DEF IOStep
  <2>3. CASE CloseSocket(k)
    <3>1. Ends(SocketArray[k])  BY <2>3 DEF CloseSocket, Ends
    <3>2. QED  BY <2>1, <3>1 DEF IOStep
  <2>4. QED  BY <1>4, <2>2, <2>3
<1>5. CASE \E s \in Infos : StackStep(s)
  BY <1>5 DEF StackStep, IOStep
<1>6. CASE \E c \in Conns : ClientStep(c)
  BY <1>6 DEF ClientStep, IOStep, ClientMoves
<1>7. CASE UNCHANGED vars
  BY <1>7 DEF vars, IOStep, Pauses
<1>8. QED
  BY <1>1, <1>2, <1>3, <1>4, <1>5, <1>6, <1>7 DEF Next, Server, MainThread, ProcessIO

-----------------------------------------------------------------------------
(* The conjuncts of the invariant, one at a time. *)

LEMMA IOInvStep == IInv /\ [Next]_vars => IOInv'
BY StepIsIO, IOStepInv DEF IInv

LEMMA TypeStep == IInv /\ [Next]_vars => TypeOK'
<1> SUFFICES ASSUME IInv, [Next]_vars  PROVE TypeOK'
  OBVIOUS
<1>0. NetTypeOK' /\ InfoTypeOK'  BY IOInvStep DEF IOInv
<1>1. /\ TypeOK /\ SocketArray \in Seq(Conns) /\ Len(SocketArray) \in Nat
      /\ EventTotal \in Nat
  BY DEF IInv, TypeOK, EventTotal
<1>2. CASE CountEvents \/ Accept \/ AcceptFails \/ AddFails \/ SignalWorker
  <2>1. backlog # <<>> => Head(backlog) \in Conns  BY HeadOfBacklog DEF IInv
  <2>2. /\ main' \in {"start", "accept", "add", "signal", "exit", "noMemory"}
        /\ accepted' \in Conns \cup {NoSocket} /\ acceptEvent' \in BOOLEAN
        /\ UNCHANGED <<worker, SocketArray, waitTotal, Index>>
    BY <1>1, <1>2, <2>1 DEF CountEvents, Accept, AcceptFails, AddFails, SignalWorker, SignalValue,
       TypeOK
  <2>3. QED  BY <1>0, <1>1, <2>2 DEF TypeOK
<1>3. CASE Add
  <2>1. accepted \in Conns  BY <1>3 DEF IInv, AddingOK, Add
  <2>2. SocketArray' \in Seq(Conns)  BY <1>1, <1>3, <2>1 DEF Add
  <2>3. QED  BY <1>0, <1>1, <1>3, <2>2 DEF Add, TypeOK
<1>4. CASE BeginWait \/ WakeForAccept \/ ResetAccept
  BY <1>0, <1>1, <1>4 DEF BeginWait, WakeForAccept, ResetAccept, AfterReset, TypeOK
<1>5. CASE Remove
  <2>1. Index \in 1..Len(SocketArray)  BY <1>5 DEF Remove, IInv, SquashOK
  <2>2. SocketArray' = Without(SocketArray, Index)  BY <1>5 DEF Remove, Squash, Without
  <2>3. SocketArray' \in Seq(Conns)  BY <1>1, <2>1, <2>2, WithoutListed
  <2>4. QED  BY <1>0, <1>1, <1>5, <2>3 DEF Remove, TypeOK
<1>6. ASSUME NEW k \in 1..Len(SocketArray), Serve(k) \/ CloseSocket(k)  PROVE TypeOK'
  <2>1. /\ worker' \in {"wait", "squash", "ioFailed"} /\ Index' = k
        /\ UNCHANGED <<main, SocketArray, acceptEvent, accepted, waitTotal>>
    BY <1>6 DEF Serve, CloseSocket
  <2>2. k \in Nat  BY <1>1
  <2>3. QED  BY <1>0, <1>1, <2>1, <2>2 DEF TypeOK
<1>7. CASE (\E s \in Infos : StackStep(s)) \/ (\E c \in Conns : ClientStep(c)) \/ UNCHANGED vars
  <2>1. UNCHANGED threadVars  BY <1>7 DEF StackStep, ClientStep, vars
  <2>2. QED  BY <1>0, <1>1, <2>1 DEF TypeOK, threadVars
<1>8. QED
  BY <1>2, <1>3, <1>4, <1>5, <1>6, <1>7 DEF Next, Server, MainThread, ProcessIO

LEMMA OwnBlockStep == IInv /\ [Next]_vars => OwnBlock'
<1> SUFFICES ASSUME IInv, [Next]_vars  PROVE OwnBlock'
  OBVIOUS
<1>0. OwnBlock /\ Socket \in [Infos -> Conns \cup {NoSocket}]
  BY DEF IInv, TypeOK, InfoTypeOK
<1>1. CASE UNCHANGED Socket  BY <1>0, <1>1 DEF OwnBlock
<1>2. CASE CountEvents \/ AddFails \/ SignalWorker \/ BeginWait \/ WakeForAccept \/ ResetAccept
           \/ Remove \/ Accept \/ AcceptFails
  BY <1>1, <1>2 DEF CountEvents, AddFails, SignalWorker, BeginWait, WakeForAccept, ResetAccept,
     Remove, Accept, AcceptFails, infoVars
<1>3. CASE Add
  BY <1>0, <1>3 DEF Add, NewInfo, OwnBlock
<1>4. ASSUME NEW k \in 1..Len(SocketArray), Serve(k) \/ CloseSocket(k)  PROVE OwnBlock'
  <2>1. CASE Serve(k)  BY <1>1, <2>1 DEF Serve, Continue
  <2>2. CASE CloseSocket(k)  BY <1>0, <2>2 DEF CloseSocket, FreeInfo, OwnBlock
  <2>3. QED  BY <1>4, <2>1, <2>2
<1>5. CASE \E s \in Infos : StackStep(s)
  BY <1>1, <1>5 DEF StackStep, Stack, CompleteFailed, CompleteRecv, CompleteSend
<1>6. CASE (\E c \in Conns : ClientStep(c)) \/ UNCHANGED vars
  BY <1>1, <1>6 DEF ClientStep, vars, infoVars
<1>7. QED
  BY <1>2, <1>3, <1>4, <1>5, <1>6 DEF Next, Server, MainThread, ProcessIO

(* What the stack, the clients and a stutter leave alone. *)
Others == (\E s \in Infos : StackStep(s)) \/ (\E c \in Conns : ClientStep(c)) \/ UNCHANGED vars

LEMMA OthersFrame ==
  ASSUME TypeOK, Others
  PROVE  /\ UNCHANGED <<threadVars, Socket>>
         /\ \A c \in Conns : /\ conn'[c] = "open" <=> conn[c] = "open"
                             /\ conn[c] = "closed" => conn'[c] = "closed"
<1>0. conn \in [Conns -> {"new", "pending", "open", "closed"}] /\ NetTypeOK
  BY DEF TypeOK, NetTypeOK
<1>1. CASE \E s \in Infos : StackStep(s)
  BY <1>1 DEF StackStep, Stack, CompleteFailed, CompleteRecv, CompleteSend, netVars
<1>2. ASSUME NEW c \in Conns, ClientStep(c)
      PROVE  /\ UNCHANGED <<threadVars, Socket>>
             /\ \A d \in Conns : /\ conn'[d] = "open" <=> conn[d] = "open"
                                 /\ conn[d] = "closed" => conn'[d] = "closed"
  <2>1. Connect(c) \/ UNCHANGED conn  BY <1>0, <1>2, ClientFrame DEF ClientStep
  <2>2. UNCHANGED <<threadVars, Socket>>  BY <1>2 DEF ClientStep, infoVars
  <2>3. QED  BY <1>0, <2>1, <2>2 DEF Connect
<1>3. CASE UNCHANGED vars  BY <1>3 DEF vars, netVars, infoVars
<1>4. QED  BY <1>1, <1>2, <1>3 DEF Others

(* The steps of the two threads that touch neither connections nor blocks   *)
(* nor the array.                                                           *)
Calm == CountEvents \/ AddFails \/ SignalWorker \/ BeginWait \/ WakeForAccept \/ ResetAccept

LEMMA CalmFrame == Calm => UNCHANGED <<netVars, infoVars, SocketArray, Index>>
BY DEF Calm, CountEvents, AddFails, SignalWorker, BeginWait, WakeForAccept, ResetAccept

LEMMA NextCases ==
  ASSUME [Next]_vars
  PROVE  \/ Running /\ (Calm \/ Accept \/ AcceptFails \/ Add \/ Remove)
         \/ Running /\ \E k \in 1..Len(SocketArray) : Serve(k) \/ CloseSocket(k)
         \/ Others
BY DEF Next, Server, MainThread, ProcessIO, Calm, Others

\* What an accept does to the connections: the oldest that waits is decided.
LEMMA AcceptFrame ==
  ASSUME IInv, Accept \/ AcceptFails
  PROVE  /\ Head(backlog) \in Conns /\ conn[Head(backlog)] = "pending"
         /\ conn'[Head(backlog)] = IF Accept THEN "open" ELSE "closed"
         /\ \A c \in Conns : c # Head(backlog) => conn'[c] = conn[c]
         /\ UNCHANGED <<infoVars, worker, SocketArray, Index, acceptEvent, waitTotal>>
<1>1. /\ Head(backlog) \in Conns /\ conn[Head(backlog)] = "pending"
  BY HeadOfBacklog DEF Accept, AcceptFails, IInv
<1>2. conn \in [Conns -> {"new", "pending", "open", "closed"}]
  BY DEF IInv, TypeOK, NetTypeOK
<1>3. CASE Accept  BY <1>1, <1>2, <1>3 DEF Accept
<1>4. CASE AcceptFails /\ ~Accept  BY <1>1, <1>2, <1>4 DEF AcceptFails
<1>5. QED  BY <1>3, <1>4

\* What CloseSocket(k) does to them: the one that completed is closed.
LEMMA CloseFrame ==
  ASSUME IInv, NEW k \in 1..Len(SocketArray), CloseSocket(k)
  PROVE  /\ SocketArray[k] \in Conns /\ conn[SocketArray[k]] = "open"
         /\ conn'[SocketArray[k]] = "closed"
         /\ \A c \in Conns : c # SocketArray[k] => conn'[c] = conn[c]
         /\ Socket'[SocketArray[k]] = NoSocket
         /\ \A s \in Infos : s # SocketArray[k] => Socket'[s] = Socket[s]
         /\ worker = "waiting" /\ worker' = "squash" /\ Index' = k
         /\ UNCHANGED <<main, SocketArray, acceptEvent, accepted, waitTotal>>
<1> DEFINE d == SocketArray[k]
<1>1. Completed(d) /\ worker = "waiting"  BY DEF CloseSocket, Wakes
<1>2. d \in Infos /\ d \in Conns /\ Socket[d] = d /\ conn[d] = "open"
  BY <1>1, CompletedIsOpen
<1>3. /\ conn \in [Conns -> {"new", "pending", "open", "closed"}]
      /\ Socket \in [Infos -> Conns \cup {NoSocket}]
  BY DEF IInv, TypeOK, NetTypeOK, InfoTypeOK
<1>4. /\ conn' = [conn EXCEPT ![d] = "closed"]
      /\ Socket' = [Socket EXCEPT ![d] = NoSocket]
  BY <1>2 DEF CloseSocket, FreeInfo
<1> HIDE DEF d
<1>5. /\ conn'[d] = "closed" /\ \A c \in Conns : c # d => conn'[c] = conn[c]
      /\ Socket'[d] = NoSocket /\ \A s \in Infos : s # d => Socket'[s] = Socket[s]
  BY <1>2, <1>3, <1>4
<1>6. /\ worker' = "squash" /\ Index' = k
      /\ UNCHANGED <<main, SocketArray, acceptEvent, accepted, waitTotal>>
  BY DEF CloseSocket
<1>7. QED  BY <1>1, <1>2, <1>5, <1>6 DEF d

LEMMA AddingStep == IInv /\ [Next]_vars => AddingOK'
<1> SUFFICES ASSUME IInv, [Next]_vars, main' = "add"
             PROVE  accepted' \in Conns /\ conn'[accepted'] = "open" /\ Socket'[accepted'] = NoSocket
  BY DEF AddingOK
<1>0. TypeOK /\ AddingOK  BY DEF IInv
<1>1. CASE Calm
  <2>1. main = "add" /\ accepted' = accepted
    BY <1>1 DEF Calm, CountEvents, AddFails, SignalWorker, BeginWait, WakeForAccept, ResetAccept
  <2>2. QED  BY <1>0, <1>1, <2>1, CalmFrame DEF AddingOK, netVars, infoVars
<1>2. CASE Accept
  <2>1. accepted' = Head(backlog)  BY <1>2 DEF Accept
  <2>2. /\ Head(backlog) \in Conns /\ conn[Head(backlog)] = "pending"
        /\ conn'[Head(backlog)] = "open" /\ UNCHANGED Socket
    BY <1>2, AcceptFrame DEF infoVars
  <2>3. Socket[Head(backlog)] = NoSocket
    <3>1. ASSUME Head(backlog) \in InUse  PROVE FALSE
      <4>1. ResultHolds(Head(backlog))  BY <3>1, InUseOK DEF IInv
      <4>2. Socket[Head(backlog)] = Head(backlog)
        BY <3>1 DEF IInv, OwnBlock, InUse
      <4>3. QED  BY <2>2, <4>1, <4>2 DEF ResultHolds
    <3>2. QED  BY <2>2, <3>1 DEF InUse
  <2>4. QED  BY <2>1, <2>2, <2>3
<1>3. CASE AcceptFails \/ Add
  BY <1>3 DEF AcceptFails, Add
<1>4. CASE Remove
  BY <1>0, <1>4 DEF Remove, AddingOK, netVars, infoVars
<1>5. ASSUME NEW k \in 1..Len(SocketArray), Serve(k) \/ CloseSocket(k)
      PROVE  accepted' \in Conns /\ conn'[accepted'] = "open" /\ Socket'[accepted'] = NoSocket
  <2>1. CASE Serve(k)
    BY <1>0, <2>1 DEF Serve, Continue, AddingOK, netVars
  <2>2. CASE CloseSocket(k)
    <3>1. main = "add" /\ accepted' = accepted  BY <2>2, CloseFrame
    <3>2. accepted \in Conns /\ conn[accepted] = "open" /\ Socket[accepted] = NoSocket
      BY <1>0, <3>1 DEF AddingOK
    <3>3. Socket[SocketArray[k]] = SocketArray[k] /\ SocketArray[k] \in Conns
      BY <2>2, CompletedIsOpen DEF CloseSocket, Wakes
    <3>4. accepted # SocketArray[k]  BY <3>2, <3>3
    <3>5. QED  BY <2>2, <3>1, <3>2, <3>4, CloseFrame
  <2>3. QED  BY <1>5, <2>1, <2>2
<1>6. CASE Others
  <2>1. UNCHANGED <<threadVars, Socket>> /\
        \A c \in Conns : conn'[c] = "open" <=> conn[c] = "open"
    BY <1>0, <1>6, OthersFrame
  <2>2. QED  BY <1>0, <2>1 DEF AddingOK, threadVars
<1>7. QED  BY <1>1, <1>2, <1>3, <1>4, <1>5, <1>6, NextCases

LEMMA SquashStep == IInv /\ [Next]_vars => SquashOK'
<1> SUFFICES ASSUME IInv, [Next]_vars, worker' = "squash"
             PROVE  Index' \in 1..Len(SocketArray') /\ conn'[SocketArray'[Index']] = "closed"
  BY DEF SquashOK
<1>0. /\ TypeOK /\ SquashOK /\ SocketArray \in Seq(Conns) /\ Len(SocketArray) \in Nat
  BY DEF IInv, TypeOK
<1>1. CASE Calm
  <2>1. worker = "squash"
    BY <1>1 DEF Calm, CountEvents, AddFails, SignalWorker, BeginWait, WakeForAccept, ResetAccept,
       AfterReset
  <2>2. QED  BY <1>0, <1>1, <2>1, CalmFrame DEF SquashOK, netVars
<1>2. CASE Accept \/ AcceptFails
  <2>1. worker = "squash" /\ UNCHANGED <<SocketArray, Index>>  BY <1>2, AcceptFrame
  <2>2. /\ Index \in 1..Len(SocketArray) /\ SocketArray[Index] \in Conns
        /\ conn[SocketArray[Index]] = "closed"
    BY <1>0, <2>1 DEF SquashOK
  <2>3. SocketArray[Index] # Head(backlog)  BY <1>2, <2>2, AcceptFrame
  <2>4. QED  BY <1>2, <2>1, <2>2, <2>3, AcceptFrame
<1>3. CASE Add
  <2>1. /\ worker = "squash" /\ UNCHANGED <<Index, conn>>
        /\ SocketArray' = Append(SocketArray, accepted)
    BY <1>3 DEF Add, netVars
  <2>2. accepted \in Conns  BY <1>3 DEF Add, IInv, AddingOK
  <2>3. Index \in 1..Len(SocketArray) /\ conn[SocketArray[Index]] = "closed"
    BY <1>0, <2>1 DEF SquashOK
  <2>4. QED  BY <1>0, <2>1, <2>2, <2>3
<1>4. CASE Remove  BY <1>4 DEF Remove
<1>5. ASSUME NEW k \in 1..Len(SocketArray), Serve(k) \/ CloseSocket(k)
      PROVE  Index' \in 1..Len(SocketArray') /\ conn'[SocketArray'[Index']] = "closed"
  <2>1. CASE Serve(k)  BY <2>1 DEF Serve
  <2>2. CASE CloseSocket(k)  BY <2>2, CloseFrame
  <2>3. QED  BY <1>5, <2>1, <2>2
<1>6. CASE Others
  <2>1. /\ UNCHANGED <<worker, SocketArray, Index>>
        /\ \A c \in Conns : conn[c] = "closed" => conn'[c] = "closed"
    BY <1>0, <1>6, OthersFrame DEF threadVars
  <2>2. Index \in 1..Len(SocketArray) /\ SocketArray[Index] \in Conns
    BY <1>0, <2>1 DEF SquashOK
  <2>3. QED  BY <1>0, <2>1, <2>2 DEF SquashOK
<1>7. QED  BY <1>1, <1>2, <1>3, <1>4, <1>5, <1>6, NextCases

LEMMA StartStep == IInv /\ [Next]_vars => StartOK'
<1> SUFFICES ASSUME IInv, [Next]_vars, main' = "start"  PROVE worker' \in {"wait", "waitFailed"}
  BY DEF StartOK
<1>0. TypeOK /\ (main = "start" => worker \in {"wait", "waitFailed"})  BY DEF IInv, StartOK
<1>1. CASE Calm
  BY <1>0, <1>1 DEF Calm, CountEvents, AddFails, SignalWorker, BeginWait, WakeForAccept, ResetAccept,
     EventTotal
<1>2. CASE Accept \/ AcceptFails \/ Add \/ Remove
  BY <1>0, <1>2 DEF Accept, AcceptFails, Add, Remove
<1>3. ASSUME NEW k \in 1..Len(SocketArray), Serve(k) \/ CloseSocket(k)  PROVE FALSE
  BY <1>0, <1>3 DEF Serve, CloseSocket, Wakes
<1>4. CASE Others
  BY <1>0, <1>4, OthersFrame DEF threadVars
<1>5. QED  BY <1>1, <1>2, <1>3, <1>4, NextCases

LEMMA WaitStep == IInv /\ [Next]_vars => WaitCoversAll'
<1> SUFFICES ASSUME IInv, [Next]_vars, worker' = "waiting", waitTotal' < EventTotal'
             PROVE  acceptEvent' \/ main' = "signal" \/ ~Running'
  BY DEF WaitCoversAll
<1>0. /\ TypeOK /\ StartOK /\ WaitCoversAll
      /\ SocketArray \in Seq(Conns) /\ Len(SocketArray) \in Nat /\ waitTotal \in Nat
  BY DEF IInv, TypeOK
<1>1. CASE CountEvents
  BY <1>0, <1>1 DEF CountEvents, StartOK
<1>2. CASE AddFails \/ AcceptFails
  BY <1>2 DEF AddFails, AcceptFails, Running
<1>3. CASE SignalWorker  BY <1>3 DEF SignalWorker, SignalValue
<1>4. CASE BeginWait
  BY <1>0, <1>4 DEF BeginWait, EventTotal
<1>5. CASE WakeForAccept \/ ResetAccept \/ Remove
  BY <1>5 DEF WakeForAccept, ResetAccept, Remove, AfterReset
<1>6. CASE Accept
  BY <1>0, <1>6 DEF Accept, WaitCoversAll, EventTotal, Running
<1>7. CASE Add  BY <1>7 DEF Add
<1>8. ASSUME NEW k \in 1..Len(SocketArray), Serve(k) \/ CloseSocket(k)  PROVE FALSE
  BY <1>8 DEF Serve, CloseSocket
<1>9. CASE Others
  <2>1. UNCHANGED threadVars  BY <1>0, <1>9, OthersFrame
  <2>2. QED  BY <1>0, <2>1 DEF threadVars, WaitCoversAll, EventTotal, Running
<1>10. QED
  BY <1>1, <1>2, <1>3, <1>4, <1>5, <1>6, <1>7, <1>8, <1>9, NextCases DEF Calm

-----------------------------------------------------------------------------
(* ArrayIsOpenSockets, said with the operators on arrays: the array lists   *)
(* the opened connections and the one whose entry is still to be squashed.  *)

Opened(c) == conn[c] = "open" /\ ~(main = "add" /\ accepted = c)
Squashed(c) == worker = "squash" /\ SocketArray[Index] = c

ArrayLists ==
  Running =>
    /\ Distinct(SocketArray)
    /\ \A c \in Conns : Lists(SocketArray, c) <=> Opened(c) \/ Squashed(c)

LEMMA ArrayAsLists == TypeOK /\ SquashOK => (ArrayIsOpenSockets <=> ArrayLists)
<1> SUFFICES ASSUME TypeOK, SquashOK, Running  PROVE ArrayIsOpenSockets <=> ArrayLists
  BY DEF ArrayIsOpenSockets, ArrayLists
<1> DEFINE Here(c) == \E k \in 1..Len(SocketArray) :
                        SocketArray[k] = c /\ ~(worker = "squash" /\ Index = k)
<1>1. ArrayIsOpenSockets <=> Distinct(SocketArray) /\ \A c \in Conns : Opened(c) <=> Here(c)
  BY DEF ArrayIsOpenSockets, Distinct, Opened
<1>2. worker = "squash" => Index \in 1..Len(SocketArray) /\ conn[SocketArray[Index]] = "closed"
  BY DEF SquashOK
<1>3. ASSUME Distinct(SocketArray), NEW c \in Conns
      PROVE  (Opened(c) <=> Here(c)) <=> (Lists(SocketArray, c) <=> Opened(c) \/ Squashed(c))
  <2>1. Here(c) => Lists(SocketArray, c)  BY DEF Lists
  <2>2. Lists(SocketArray, c) => Here(c) \/ Squashed(c)  BY DEF Lists, Squashed
  <2>3. Squashed(c) => Lists(SocketArray, c)  BY <1>2 DEF Lists, Squashed
  <2>4. ~(Squashed(c) /\ Opened(c))  BY <1>2 DEF Squashed, Opened
  <2>5. ~(Squashed(c) /\ Here(c))  BY <1>2, <1>3 DEF Squashed, Distinct
  <2> HIDE DEF Here
  <2>6. QED  BY <2>1, <2>2, <2>3, <2>4, <2>5
<1> HIDE DEF Here
<1>4. QED  BY <1>1, <1>3 DEF ArrayLists

LEMMA ArrayAsListsNext == TypeOK' /\ SquashOK' => (ArrayIsOpenSockets' <=> ArrayLists')
BY ArrayAsLists, PTL

LEMMA ArrayStep == IInv /\ [Next]_vars => ArrayIsOpenSockets'
<1> SUFFICES ASSUME IInv, [Next]_vars  PROVE ArrayIsOpenSockets'
  OBVIOUS
<1>0. /\ TypeOK /\ SquashOK /\ ArrayIsOpenSockets
      /\ SocketArray \in Seq(Conns) /\ Len(SocketArray) \in Nat
      /\ \A k \in 1..Len(SocketArray) : SocketArray[k] \in Conns
  BY DEF IInv, TypeOK
<1>a. TypeOK' /\ SquashOK'  BY TypeStep, SquashStep
<1> SUFFICES ASSUME Running'  PROVE ArrayLists'
  BY <1>a, ArrayAsListsNext DEF ArrayLists
<1>b. ASSUME Running
      PROVE  /\ Distinct(SocketArray)
             /\ \A c \in Conns : Lists(SocketArray, c) <=> Opened(c) \/ Squashed(c)
  BY <1>0, <1>b, ArrayAsLists DEF ArrayLists
\* A step that changes neither the array nor who is in it.
<1>1. ASSUME Running, UNCHANGED SocketArray,
             \A c \in Conns : (Opened(c)' <=> Opened(c)) /\ (Squashed(c)' <=> Squashed(c))
      PROVE  ArrayLists'
  BY <1>b, <1>1 DEF ArrayLists, Distinct, Lists
<1>2. CASE Running /\ Calm
  <2>1. /\ UNCHANGED <<conn, SocketArray, Index>>
        /\ worker' = "squash" <=> worker = "squash"
        /\ main' = "add" <=> main = "add"
        /\ main = "add" => accepted' = accepted
    BY <1>2 DEF Calm, CountEvents, AddFails, SignalWorker, BeginWait, WakeForAccept, ResetAccept,
       AfterReset, netVars, Running
  <2>2. QED  BY <1>1, <1>2, <2>1 DEF Opened, Squashed
<1>3. CASE Running /\ Accept
  <2>1. /\ main = "accept" /\ main' = "add" /\ accepted' = Head(backlog)
    BY <1>3 DEF Accept
  <2>2. QED  BY <1>1, <1>3, <2>1, AcceptFrame DEF Opened, Squashed
<1>4. CASE AcceptFails  BY <1>4 DEF AcceptFails, Running
<1>5. CASE Running /\ Add
  <2>1. /\ accepted \in Conns /\ conn[accepted] = "open" /\ main = "add"
    BY <1>5 DEF Add, IInv, AddingOK
  <2>2. /\ SocketArray' = Append(SocketArray, accepted) /\ main' = "signal"
        /\ UNCHANGED <<conn, worker, Index>>
    BY <1>5 DEF Add, netVars
  <2>3. ~Lists(SocketArray, accepted)
    BY <1>0, <1>b, <1>5, <2>1 DEF Opened, Squashed, SquashOK
  <2>4. /\ Distinct(SocketArray')
        /\ \A d : Lists(SocketArray', d) <=> Lists(SocketArray, d) \/ d = accepted
        /\ \A k \in 1..Len(SocketArray) : SocketArray'[k] = SocketArray[k]
    BY <1>0, <1>b, <1>5, <2>1, <2>2, <2>3, AppendListed
  <2>5. \A c \in Conns : Opened(c)' <=> Opened(c) \/ c = accepted
    BY <2>1, <2>2 DEF Opened
  <2>6. \A c \in Conns : Squashed(c)' <=> Squashed(c)
    BY <1>0, <2>2, <2>4 DEF Squashed, SquashOK
  <2>7. QED  BY <1>b, <1>5, <2>4, <2>5, <2>6 DEF ArrayLists
<1>6. CASE Running /\ Remove
  <2>1. /\ worker = "squash" /\ worker' = "wait" /\ UNCHANGED <<conn, main, accepted>>
        /\ SocketArray' = Without(SocketArray, Index)
    BY <1>6 DEF Remove, netVars, Squash, Without
  <2>2. Index \in 1..Len(SocketArray) /\ conn[SocketArray[Index]] = "closed"
    BY <1>0, <2>1 DEF SquashOK
  <2>3. /\ Distinct(SocketArray')
        /\ \A d : Lists(SocketArray', d) <=> Lists(SocketArray, d) /\ d # SocketArray[Index]
    BY <1>0, <1>b, <1>6, <2>1, <2>2, WithoutListed
  <2>4. \A c \in Conns : Opened(c)' <=> Opened(c) /\ c # SocketArray[Index]
    BY <2>1, <2>2 DEF Opened
  <2>5. \A c \in Conns : ~Squashed(c)'  BY <2>1 DEF Squashed
  <2>6. \A c \in Conns : Squashed(c) <=> c = SocketArray[Index]  BY <2>1 DEF Squashed
  <2>7. QED  BY <1>b, <1>6, <2>3, <2>4, <2>5, <2>6 DEF ArrayLists
<1>7. ASSUME NEW k \in 1..Len(SocketArray), Running, Serve(k) \/ CloseSocket(k)
      PROVE  ArrayLists'
  <2>1. CASE Serve(k)
    <3>1. /\ worker = "waiting" /\ worker' # "squash"
          /\ UNCHANGED <<conn, main, accepted, SocketArray>>
      BY <2>1 DEF Serve, Wakes, netVars
    <3>2. QED  BY <1>1, <1>7, <3>1 DEF Opened, Squashed
  <2>2. CASE CloseSocket(k)
    <3>1. \A c \in Conns : ~Squashed(c)  BY <2>2, CloseFrame DEF Squashed
    <3>2. \A c \in Conns : Squashed(c)' <=> c = SocketArray[k]
      BY <2>2, CloseFrame DEF Squashed
    <3>3. \A c \in Conns : Opened(c)' <=> Opened(c) /\ c # SocketArray[k]
      BY <2>2, CloseFrame DEF Opened
    <3>4. Lists(SocketArray, SocketArray[k])  BY DEF Lists
    <3>5. SocketArray' = SocketArray  BY <2>2, CloseFrame
    <3>6. QED  BY <1>b, <1>7, <3>1, <3>2, <3>3, <3>4, <3>5 DEF ArrayLists, Distinct, Lists
  <2>3. QED  BY <1>7, <2>1, <2>2
<1>8. CASE Others
  <2>1. /\ UNCHANGED threadVars
        /\ \A c \in Conns : conn'[c] = "open" <=> conn[c] = "open"
    BY <1>0, <1>8, OthersFrame
  <2>2. Running  BY <2>1 DEF threadVars, Running
  <2>3. QED  BY <1>1, <2>1, <2>2 DEF threadVars, Opened, Squashed
<1>9. QED  BY <1>2, <1>3, <1>4, <1>5, <1>6, <1>7, <1>8, NextCases

-----------------------------------------------------------------------------
(* The theorems. *)

LEMMA InvInit == Init => IInv
<1> SUFFICES ASSUME Init  PROVE IInv
  OBVIOUS
<1>1. IOInv  BY IOInit DEF Init
<1>2. TypeOK
  <2>1. NetTypeOK /\ InfoTypeOK  BY <1>1 DEF IOInv
  <2>2. /\ main = "start" /\ worker = "wait" /\ SocketArray = <<>> /\ acceptEvent = FALSE
        /\ accepted = NoSocket /\ waitTotal = 0 /\ Index = 0
    BY DEF Init
  <2>3. SocketArray \in Seq(Conns) /\ waitTotal \in Nat /\ Index \in Nat  BY <2>2
  <2>4. QED  BY <2>1, <2>2, <2>3 DEF TypeOK
<1>3. OwnBlock  BY DEF Init, InfoInit, OwnBlock
<1>4. AddingOK /\ SquashOK /\ StartOK /\ WaitCoversAll
  BY DEF Init, AddingOK, SquashOK, StartOK, WaitCoversAll
<1>5. ArrayIsOpenSockets
  BY DEF Init, NetInit, ArrayIsOpenSockets
<1>6. QED  BY <1>1, <1>2, <1>3, <1>4, <1>5 DEF IInv

LEMMA Invariance == Spec => []IInv
<1>1. IInv /\ [Next]_vars => IInv'
  BY IOInvStep, TypeStep, OwnBlockStep, AddingStep, SquashStep, StartStep, WaitStep, ArrayStep
     DEF IInv
<1>2. QED  BY InvInit, <1>1, PTL DEF Spec

(* Every variable keeps its type in every behaviour of the two threads, the *)
(* stack and the clients (the state of OverlappedModel.cpp, lines 72-112).  *)
THEOREM TypeCorrect == Spec => []TypeOK
BY Invariance, PTL DEF IInv

(* The arrays hold each open connection once, although main appends to them *)
(* and the worker squashes them, in steps that interleave freely            *)
(* (OverlappedModel.cpp, lines 254-336 and 434-476).                        *)
THEOREM ArrayHoldsOpenSockets == Spec => []ArrayIsOpenSockets
BY Invariance, PTL DEF IInv

(* No wake-up of the worker is lost: if it waits for fewer events than      *)
(* there are, event 0 is or will be signalled (lines 334-344 and 388-412).  *)
THEOREM NoLostWakeup == Spec => []WaitCoversAll
BY Invariance, PTL DEF IInv

(* Between a receive and the sends of its bytes none is lost, repeated or   *)
(* reordered, and the echo is a prefix of what was sent (lines 480-592).    *)
THEOREM EchoIsExact == Spec => [](HeldIsNext /\ EchoIsPrefix)
BY Invariance, IOInvHolds, PTL DEF IInv

(* The overlapped server implements EchoService: every behaviour of its     *)
(* threads, seen from its connections, is one that the header comment       *)
(* promises (OverlappedModel.cpp, lines 21-26 and 209-594).                 *)
THEOREM Implements == Spec => EchoServiceSpec
<1>1. Init => Promise!Init  BY IOInitRefines DEF Init
<1>2. IInv /\ [Next]_vars => [Promise!Next]_Promise!vars
  BY StepIsIO, IOStepRefines DEF IInv
<1>3. QED  BY <1>1, <1>2, Invariance, PTL DEF Spec, EchoServiceSpec, Promise!Spec

(* Seen by a client: its connection is closed only when it has shut down    *)
(* and got everything back, or was reset (OverlappedModel.cpp, lines        *)
(* 426-480).                                                                *)
THEOREM CloseIsGraceful == Spec => []GracefulClose
BY Implements, PromiseIsGraceful, PTL

(* Nothing that was echoed is taken back, and nothing happens on a          *)
(* connection after its close.                                              *)
THEOREM EchoIsFinal == Spec => [][EchoOnlyGrows]_Promise!vars
BY Implements, PromiseOnlyGrows, PTL
=============================================================================
