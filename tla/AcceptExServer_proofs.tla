------------------------ MODULE AcceptExServer_proofs ------------------------
(***************************************************************************)
(* Proofs about AcceptExServer, for any number of connections, any buffer  *)
(* and array sizes and any faults.                                         *)
(***************************************************************************)
EXTENDS AcceptExServer, OverlappedIO_proofs

(* The block of a connection is its own. *)
OwnBlock == \A s \in Infos : Socket[s] \in {s, NoSocket}

(* There is an accepted socket from the completion of AcceptEx until main    *)
(* has seen it, and until then it has no block.                             *)
AcceptedOK ==
  IF acceptOp = "done"
  THEN AcceptSocket \in Conns /\ conn[AcceptSocket] = "open" /\ Socket[AcceptSocket] = NoSocket
  ELSE AcceptSocket = NoSocket

IInv ==
  /\ TypeOK
  /\ IOInv
  /\ OwnBlock
  /\ AcceptedOK
  /\ ArrayIsOpenSockets

USE WinsockAssumption, OverlappedAssumption, ServerAssumption

-----------------------------------------------------------------------------
(* The server's steps are of the kinds that OverlappedIO_proofs knows. *)

\* A completed operation is of a block in use, whose connection is open.
LEMMA CompletedIsOpen ==
  ASSUME IInv, NEW k \in 1..Len(SocketArray), Completed(SocketArray[k])
  PROVE  /\ SocketArray[k] \in Infos /\ SocketArray[k] \in Conns
         /\ Socket[SocketArray[k]] = SocketArray[k]
         /\ conn[SocketArray[k]] = "open"
<1>1. SocketArray[k] \in Conns  BY DEF IInv, TypeOK
<1>2. io[SocketArray[k]] # Idle  BY DEF Completed, Idle
<1>3. SocketArray[k] \in InUse /\ ResultHolds(SocketArray[k])
  BY <1>1, <1>2, BlockInUse DEF IInv
<1>4. QED  BY <1>1, <1>3 DEF IInv, OwnBlock, InUse, ResultHolds

LEMMA AcceptIsIO ==
  ASSUME IInv, Accept
  PROVE  /\ AcceptSocket \in Infos /\ AcceptSocket \in Conns /\ conn[AcceptSocket] = "open"
         /\ Starts(AcceptSocket, AcceptSocket)
<1>1. AcceptSocket \in Conns /\ conn[AcceptSocket] = "open" /\ Socket[AcceptSocket] = NoSocket
  BY DEF IInv, AcceptedOK, Accept
<1>2. NoBlock(AcceptSocket)
  BY <1>1 DEF IInv, OwnBlock, NoBlock
<1>3. QED  BY <1>1, <1>2 DEF Accept, Starts

(* The steps of main, of the AcceptEx, and those that leave the array and   *)
(* AcceptSocket alone.                                                      *)
LEMMA NextCases ==
  ASSUME [Next]_vars
  PROVE  \/ Accept \/ AcceptFails \/ AcceptStep
         \/ \E k \in 1..Len(SocketArray) : ResultFails(k) \/ Close(k) \/ Serve(k)
         \/ (\E s \in Infos : StackStep(s)) \/ (\E c \in Conns : ClientStep(c)) \/ UNCHANGED vars
BY DEF Next, Server

LEMMA StepIsIO == IInv /\ [Next]_vars => IOStep
<1> SUFFICES ASSUME IInv, [Next]_vars  PROVE IOStep
  OBVIOUS
<1>1. CASE Accept
  BY <1>1, AcceptIsIO DEF IOStep
<1>2. CASE AcceptFails
  BY <1>2 DEF AcceptFails, IOStep, Pauses
<1>3. CASE AcceptStep
  BY <1>3 DEF AcceptStep, AcceptStack, CompleteAccept, CompleteAcceptFailed, IOStep, TakesBacklog
<1>4. ASSUME NEW k \in 1..Len(SocketArray), ResultFails(k) \/ Close(k) \/ Serve(k)
      PROVE  IOStep
  <2>1. SocketArray[k] \in Infos
    BY <1>4, CompletedIsOpen DEF ResultFails, Close, Serve, Wakes
  <2>2. CASE ResultFails(k)  BY <2>2 DEF ResultFails, IOStep, Pauses
  <2>3. CASE Close(k)
    <3>1. Ends(SocketArray[k])  BY <2>3 DEF Close, Ends, Ended
    <3>2. QED  BY <2>1, <3>1 DEF IOStep
  <2>4. CASE Serve(k)
    <3>1. Continues(SocketArray[k])  BY <2>4 DEF Serve, Continues
    <3>2. QED  BY <2>1, <3>1 DEF IOStep
  <2>5. QED  BY <1>4, <2>2, <2>3, <2>4
<1>5. CASE \E s \in Infos : StackStep(s)
  BY <1>5 DEF StackStep, IOStep
<1>6. CASE \E c \in Conns : ClientStep(c)
  BY <1>6 DEF ClientStep, IOStep, ClientMoves
<1>7. CASE UNCHANGED vars
  BY <1>7 DEF vars, IOStep, Pauses
<1>8. QED  BY <1>1, <1>2, <1>3, <1>4, <1>5, <1>6, <1>7, NextCases

-----------------------------------------------------------------------------
(* What each step does to the connections, the blocks and the array. *)

LEMMA IOInvStep == IInv /\ [Next]_vars => IOInv'
BY StepIsIO, IOStepInv DEF IInv

(* A completed AcceptEx, or one that failed, decides the oldest connection  *)
(* that waits, which has no block.                                          *)
LEMMA AcceptStepFrame ==
  ASSUME IInv, AcceptStep
  PROVE  /\ Head(backlog) \in Conns /\ conn[Head(backlog)] = "pending"
         /\ Socket[Head(backlog)] = NoSocket
         /\ \/ /\ acceptOp' = "done" /\ AcceptSocket' = Head(backlog)
               /\ conn'[Head(backlog)] = "open"
            \/ /\ acceptOp' = "failed" /\ AcceptSocket' = AcceptSocket
               /\ conn'[Head(backlog)] = "closed"
         /\ \A c \in Conns : c # Head(backlog) => conn'[c] = conn[c]
         /\ acceptOp = "pending"
         /\ UNCHANGED <<infoVars, pc, SocketArray>>
<1> DEFINE h == Head(backlog)
<1>1. h \in Conns /\ conn[h] = "pending"
  BY HeadOfBacklog DEF AcceptStep, AcceptStack, CompleteAccept, CompleteAcceptFailed, IInv
<1>2. conn \in [Conns -> {"new", "pending", "open", "closed"}]
  BY DEF IInv, TypeOK, NetTypeOK
<1>3. Socket[h] = NoSocket
  <2>1. ASSUME h \in InUse  PROVE FALSE
    <3>1. ResultHolds(h)  BY <2>1, InUseOK DEF IInv
    <3>2. Socket[h] = h  BY <2>1 DEF IInv, OwnBlock, InUse
    <3>3. QED  BY <1>1, <3>1, <3>2 DEF ResultHolds
  <2>2. QED  BY <1>1, <2>1 DEF InUse
<1>4. CASE CompleteAccept
  BY <1>1, <1>2, <1>3, <1>4 DEF CompleteAccept, AcceptStep
<1>5. CASE CompleteAcceptFailed
  BY <1>1, <1>2, <1>3, <1>5 DEF CompleteAcceptFailed, AcceptStep
<1>6. QED  BY <1>4, <1>5 DEF AcceptStep, AcceptStack

\* The connection whose receive brought nothing is closed and squashed.
LEMMA CloseFrame ==
  ASSUME IInv, NEW k \in 1..Len(SocketArray), Close(k)
  PROVE  /\ SocketArray[k] \in Conns /\ conn[SocketArray[k]] = "open"
         /\ Socket[SocketArray[k]] = SocketArray[k]
         /\ conn'[SocketArray[k]] = "closed"
         /\ \A c \in Conns : c # SocketArray[k] => conn'[c] = conn[c]
         /\ Socket'[SocketArray[k]] = NoSocket
         /\ \A s \in Infos : s # SocketArray[k] => Socket'[s] = Socket[s]
         /\ SocketArray' = Without(SocketArray, k)
         /\ UNCHANGED <<acceptVars, pc>>
<1> DEFINE d == SocketArray[k]
<1>1. d \in Infos /\ d \in Conns /\ Socket[d] = d /\ conn[d] = "open"
  BY CompletedIsOpen DEF Close, Wakes
<1>2. /\ conn \in [Conns -> {"new", "pending", "open", "closed"}]
      /\ Socket \in [Infos -> Conns \cup {NoSocket}]
  BY DEF IInv, TypeOK, NetTypeOK, InfoTypeOK
<1>3. /\ conn' = [conn EXCEPT ![d] = "closed"]
      /\ Socket' = [Socket EXCEPT ![d] = NoSocket]
  BY <1>1 DEF Close, FreeInfo
<1>4. SocketArray' = Without(SocketArray, k) /\ UNCHANGED <<acceptVars, pc>>
  BY DEF Close, Squash, Without
<1> HIDE DEF d
<1>5. /\ conn'[d] = "closed" /\ \A c \in Conns : c # d => conn'[c] = conn[c]
      /\ Socket'[d] = NoSocket /\ \A s \in Infos : s # d => Socket'[s] = Socket[s]
  BY <1>1, <1>2, <1>3
<1>6. QED  BY <1>1, <1>4, <1>5 DEF d

\* What the other steps leave alone.
Others ==
  \/ AcceptFails \/ (\E k \in 1..Len(SocketArray) : ResultFails(k) \/ Serve(k))
  \/ (\E s \in Infos : StackStep(s)) \/ (\E c \in Conns : ClientStep(c)) \/ UNCHANGED vars

LEMMA OthersFrame ==
  ASSUME TypeOK, Others
  PROVE  /\ UNCHANGED <<acceptVars, SocketArray, Socket>>
         /\ pc' \in {"wait", "exit", "noMemory"}
         /\ \A c \in Conns : conn'[c] = "open" <=> conn[c] = "open"
<1>0. /\ conn \in [Conns -> {"new", "pending", "open", "closed"}] /\ NetTypeOK
      /\ pc \in {"wait", "exit", "noMemory"}
  BY DEF TypeOK, NetTypeOK
<1>1. CASE AcceptFails
  BY <1>1 DEF AcceptFails, netVars, infoVars
<1>2. ASSUME NEW k \in 1..Len(SocketArray), ResultFails(k) \/ Serve(k)
      PROVE  UNCHANGED <<acceptVars, SocketArray, Socket, conn>> /\ pc' \in {"wait", "exit"}
  <2>1. CASE ResultFails(k)  BY <2>1 DEF ResultFails, netVars, infoVars
  <2>2. CASE Serve(k)  BY <2>2 DEF Serve, Continue, netVars
  <2>3. QED  BY <1>2, <2>1, <2>2
<1>3. CASE \E s \in Infos : StackStep(s)
  BY <1>0, <1>3 DEF StackStep, Stack, CompleteFailed, CompleteRecv, CompleteSend, netVars
<1>4. ASSUME NEW c \in Conns, ClientStep(c)
      PROVE  /\ UNCHANGED <<acceptVars, SocketArray, Socket, pc>>
             /\ \A d \in Conns : conn'[d] = "open" <=> conn[d] = "open"
  <2>1. Connect(c) \/ UNCHANGED conn  BY <1>0, <1>4, ClientFrame DEF ClientStep
  <2>2. UNCHANGED <<acceptVars, SocketArray, Socket, pc>>  BY <1>4 DEF ClientStep, infoVars
  <2>3. QED  BY <1>0, <2>1, <2>2 DEF Connect
<1>5. CASE UNCHANGED vars  BY <1>0, <1>5 DEF vars, netVars, infoVars
<1>6. QED  BY <1>0, <1>1, <1>2, <1>3, <1>4, <1>5 DEF Others

LEMMA StepCases ==
  ASSUME [Next]_vars
  PROVE  Accept \/ AcceptStep \/ (\E k \in 1..Len(SocketArray) : Close(k)) \/ Others
BY NextCases DEF Others

-----------------------------------------------------------------------------
(* The conjuncts of the invariant, one at a time. *)

LEMMA TypeStep == IInv /\ [Next]_vars => TypeOK'
<1> SUFFICES ASSUME IInv, [Next]_vars  PROVE TypeOK'
  OBVIOUS
<1>0. NetTypeOK' /\ InfoTypeOK'  BY IOInvStep DEF IOInv
<1>1. /\ TypeOK /\ AcceptTypeOK /\ SocketArray \in Seq(Conns)
      /\ pc \in {"wait", "exit", "noMemory"}
  BY DEF IInv, TypeOK
<1>2. CASE Accept
  <2>1. AcceptSocket \in Conns  BY <1>2, AcceptIsIO
  <2>2. SocketArray' \in Seq(Conns)  BY <1>1, <1>2, <2>1 DEF Accept
  <2>3. AcceptTypeOK'  BY <1>2 DEF Accept, Repost, PostAcceptEx, AcceptTypeOK
  <2>4. QED  BY <1>0, <1>1, <1>2, <2>2, <2>3 DEF Accept, TypeOK
<1>3. CASE AcceptStep
  <2>1. AcceptTypeOK'  BY <1>1, <1>3, AcceptStepFrame DEF AcceptTypeOK
  <2>2. QED  BY <1>0, <1>1, <1>3, <2>1, AcceptStepFrame DEF TypeOK
<1>4. ASSUME NEW k \in 1..Len(SocketArray), Close(k)  PROVE TypeOK'
  <2>1. SocketArray' \in Seq(Conns)  BY <1>1, <1>4, CloseFrame, WithoutListed
  <2>2. QED  BY <1>0, <1>1, <1>4, <2>1, CloseFrame DEF TypeOK, AcceptTypeOK, acceptVars
<1>5. CASE Others
  BY <1>0, <1>1, <1>5, OthersFrame DEF TypeOK, AcceptTypeOK, acceptVars
<1>6. QED  BY <1>2, <1>3, <1>4, <1>5, StepCases

LEMMA OwnBlockStep == IInv /\ [Next]_vars => OwnBlock'
<1> SUFFICES ASSUME IInv, [Next]_vars  PROVE OwnBlock'
  OBVIOUS
<1>0. TypeOK /\ OwnBlock /\ Socket \in [Infos -> Conns \cup {NoSocket}]
  BY DEF IInv, TypeOK, InfoTypeOK
<1>1. CASE Accept  BY <1>0, <1>1 DEF Accept, NewInfo, OwnBlock
<1>2. CASE AcceptStep  BY <1>0, <1>2, AcceptStepFrame DEF OwnBlock, infoVars
<1>3. ASSUME NEW k \in 1..Len(SocketArray), Close(k)  PROVE OwnBlock'
  BY <1>0, <1>3, CloseFrame DEF OwnBlock
<1>4. CASE Others  BY <1>0, <1>4, OthersFrame DEF OwnBlock
<1>5. QED  BY <1>1, <1>2, <1>3, <1>4, StepCases

LEMMA AcceptedStep == IInv /\ [Next]_vars => AcceptedOK'
<1> SUFFICES ASSUME IInv, [Next]_vars  PROVE AcceptedOK'
  OBVIOUS
<1>0. TypeOK /\ AcceptedOK  BY DEF IInv
<1>1. CASE Accept  BY <1>1 DEF Accept, Repost, PostAcceptEx, AcceptedOK
<1>2. CASE AcceptStep
  <2>1. AcceptSocket = NoSocket  BY <1>0, <1>2, AcceptStepFrame DEF AcceptedOK
  <2>2. QED  BY <1>2, <2>1, AcceptStepFrame DEF AcceptedOK, infoVars
<1>3. ASSUME NEW k \in 1..Len(SocketArray), Close(k)  PROVE AcceptedOK'
  <2>1. UNCHANGED <<AcceptSocket, acceptOp>>  BY <1>3, CloseFrame DEF acceptVars
  <2>2. CASE acceptOp = "done"
    <3>1. /\ AcceptSocket \in Conns /\ conn[AcceptSocket] = "open"
          /\ Socket[AcceptSocket] = NoSocket
      BY <1>0, <2>2 DEF AcceptedOK
    <3>2. AcceptSocket # SocketArray[k]  BY <1>3, <3>1, CloseFrame
    <3>3. QED  BY <1>3, <2>1, <2>2, <3>1, <3>2, CloseFrame DEF AcceptedOK
  <2>3. CASE acceptOp # "done"  BY <1>0, <2>1, <2>3 DEF AcceptedOK
  <2>4. QED  BY <2>2, <2>3
<1>4. CASE Others  BY <1>0, <1>4, OthersFrame DEF AcceptedOK, acceptVars
<1>5. QED  BY <1>1, <1>2, <1>3, <1>4, StepCases

(* The array lists the open connections that main has seen: an entry is     *)
(* appended when AcceptSocket becomes one of them, and goes with its close. *)
LEMMA ArrayStep == IInv /\ [Next]_vars => ArrayIsOpenSockets'
<1> SUFFICES ASSUME IInv, [Next]_vars  PROVE ArrayIsOpenSockets'
  OBVIOUS
<1> DEFINE Seen(c) == conn[c] = "open" /\ c # AcceptSocket
<1>0. TypeOK /\ SocketArray \in Seq(Conns) /\ AcceptedOK  BY DEF IInv, TypeOK
<1>a. /\ Distinct(SocketArray)
      /\ \A c \in Conns : Seen(c) <=> Lists(SocketArray, c)
  BY DEF IInv, ArrayIsOpenSockets, Distinct, Lists
<1> SUFFICES /\ Distinct(SocketArray')
             /\ \A c \in Conns : Seen(c)' <=> Lists(SocketArray', c)
  BY DEF ArrayIsOpenSockets, Distinct, Lists
<1>1. CASE Accept
  <2>1. /\ AcceptSocket \in Conns /\ conn[AcceptSocket] = "open"
    BY <1>1, AcceptIsIO
  <2>2. /\ SocketArray' = Append(SocketArray, AcceptSocket)
        /\ conn' = conn /\ AcceptSocket' = NoSocket
    BY <1>1 DEF Accept, Repost, PostAcceptEx, netVars
  <2>3. ~Lists(SocketArray, AcceptSocket)  BY <1>a, <2>1
  <2>4. /\ Distinct(SocketArray')
        /\ \A d : Lists(SocketArray', d) <=> Lists(SocketArray, d) \/ d = AcceptSocket
    BY <1>0, <1>a, <2>1, <2>2, <2>3, AppendListed
  <2>5. \A c \in Conns : Seen(c)' <=> Seen(c) \/ c = AcceptSocket
    BY <2>1, <2>2
  <2>6. QED  BY <1>a, <2>4, <2>5
<1>2. CASE AcceptStep
  <2>1. AcceptSocket = NoSocket  BY <1>0, <1>2, AcceptStepFrame DEF AcceptedOK
  <2>2. \A c \in Conns : Seen(c)' <=> Seen(c)
    BY <1>2, <2>1, AcceptStepFrame
  <2>3. SocketArray' = SocketArray  BY <1>2, AcceptStepFrame
  <2>4. QED  BY <1>a, <2>2, <2>3
<1>3. ASSUME NEW k \in 1..Len(SocketArray), Close(k)
      PROVE  /\ Distinct(SocketArray')
             /\ \A c \in Conns : Seen(c)' <=> Lists(SocketArray', c)
  <2>1. /\ Distinct(SocketArray')
        /\ \A d : Lists(SocketArray', d) <=> Lists(SocketArray, d) /\ d # SocketArray[k]
    BY <1>0, <1>a, <1>3, CloseFrame, WithoutListed
  <2>2. \A c \in Conns : Seen(c)' <=> Seen(c) /\ c # SocketArray[k]
    BY <1>3, CloseFrame DEF acceptVars
  <2>3. QED  BY <1>a, <2>1, <2>2
<1>4. CASE Others
  <2>1. SocketArray' = SocketArray /\ \A c \in Conns : Seen(c)' <=> Seen(c)
    BY <1>0, <1>4, OthersFrame DEF acceptVars
  <2>2. QED  BY <1>a, <2>1
<1>5. QED  BY <1>1, <1>2, <1>3, <1>4, StepCases

-----------------------------------------------------------------------------
(* The theorems. *)

LEMMA InvInit == Init => IInv
<1> SUFFICES ASSUME Init  PROVE IInv
  OBVIOUS
<1>1. IOInv  BY IOInit DEF Init
<1>2. /\ AcceptSocket = NoSocket /\ acceptOp = "pending" /\ pc = "wait" /\ SocketArray = <<>>
  BY DEF Init
<1>3. TypeOK
  <2>1. NetTypeOK /\ InfoTypeOK  BY <1>1 DEF IOInv
  <2>2. SocketArray \in Seq(Conns)  BY <1>2
  <2>3. QED  BY <1>2, <2>1, <2>2 DEF TypeOK, AcceptTypeOK
<1>4. OwnBlock  BY DEF Init, InfoInit, OwnBlock
<1>5. AcceptedOK  BY <1>2 DEF AcceptedOK
<1>6. ArrayIsOpenSockets
  BY <1>2 DEF Init, NetInit, ArrayIsOpenSockets
<1>7. QED  BY <1>1, <1>3, <1>4, <1>5, <1>6 DEF IInv

LEMMA Invariance == Spec => []IInv
<1>1. IInv /\ [Next]_vars => IInv'
  BY IOInvStep, TypeStep, OwnBlockStep, AcceptedStep, ArrayStep DEF IInv
<1>2. QED  BY InvInit, <1>1, PTL DEF Spec

(* Every variable keeps its type in every behaviour of main, the stack and  *)
(* the clients (the state of OverlappedModelAcceptEx.cpp, lines 80-112).    *)
THEOREM TypeCorrect == Spec => []TypeOK
BY Invariance, PTL DEF IInv

(* The arrays hold each open connection once, but for the one that AcceptEx *)
(* has accepted and main has not seen (OverlappedModelAcceptEx.cpp, lines    *)
(* 305-391 and 469-523).                                                    *)
THEOREM ArrayHoldsOpenSockets == Spec => []ArrayIsOpenSockets
BY Invariance, PTL DEF IInv

(* Between a receive and the sends of its bytes none is lost, repeated or   *)
(* reordered, and the echo is a prefix of what was sent (lines 469-590).    *)
THEOREM EchoIsExact == Spec => [](HeldIsNext /\ EchoIsPrefix)
BY Invariance, IOInvHolds, PTL DEF IInv

(* The server that accepts with AcceptEx implements EchoService: seen from  *)
(* its connections it behaves as the header comment promises, whatever      *)
(* completes in whatever order.                                             *)
THEOREM Implements == Spec => EchoServiceSpec
<1>1. Init => Promise!Init  BY IOInitRefines DEF Init
<1>2. IInv /\ [Next]_vars => [Promise!Next]_Promise!vars
  BY StepIsIO, IOStepRefines DEF IInv
<1>3. QED  BY <1>1, <1>2, Invariance, PTL DEF Spec, EchoServiceSpec, Promise!Spec

(* Seen by a client: its connection is closed only when it has shut down    *)
(* and got everything back, or was reset (OverlappedModelAcceptEx.cpp, lines*)
(* 469-523).                                                                *)
THEOREM CloseIsGraceful == Spec => []GracefulClose
BY Implements, PromiseIsGraceful, PTL

(* Nothing that was echoed is taken back, and nothing happens on a          *)
(* connection after its close.                                              *)
THEOREM EchoIsFinal == Spec => [][EchoOnlyGrows]_Promise!vars
BY Implements, PromiseOnlyGrows, PTL
=============================================================================
