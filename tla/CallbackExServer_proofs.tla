----------------------- MODULE CallbackExServer_proofs -----------------------
(***************************************************************************)
(* Proofs about the two servers with completion routines, CallbackExServer *)
(* and, below under the name Callback, CallbackServer: for any number of   *)
(* connections and of blocks, any buffer sizes and any faults.             *)
(***************************************************************************)
EXTENDS CallbackExServer, OverlappedIO_proofs, FiniteSetTheorems

HandedOver(c) == AcceptSocket = c /\ pc \in {"wait", "add"}

(* An AcceptEx is in flight only in the wait, and what it accepts is open    *)
(* until main has seen it.  After that AcceptSocket keeps its old value.    *)
AcceptedOK ==
  /\ acceptOp = "pending" => pc = "wait" /\ AcceptSocket = NoSocket
  /\ \A c \in Conns : HandedOver(c) => conn[c] = "open"

(* Every open connection has a block, but for the one that was handed over, *)
(* which has none.                                                          *)
ServedOK ==
  pc \notin {"exit", "noMemory"} =>
    \A c \in Conns : conn[c] = "open" => (NoBlock(c) <=> HandedOver(c))

IInv ==
  /\ TypeOK
  /\ IOInv
  /\ AcceptedOK
  /\ ServedOK

USE WinsockAssumption, OverlappedAssumption, CallbackExAssumption

-----------------------------------------------------------------------------
(* The server's steps are of the kinds that OverlappedIO_proofs knows. *)

\* The steps of main that touch neither connections nor blocks.
MainWaits == PostAccept \/ PostFails \/ Wake \/ AddFails

LEMMA NextCases ==
  ASSUME [Next]_vars
  PROVE  \/ MainWaits \/ Add \/ AcceptStep
         \/ \E s \in Infos : RoutineCloses(s) \/ RoutineContinues(s) \/ StackStep(s)
         \/ (\E c \in Conns : ClientStep(c)) \/ UNCHANGED vars
BY DEF Next, Server, MainWaits

LEMMA AddIsIO ==
  ASSUME IInv, Add
  PROVE  /\ AcceptSocket \in Conns /\ conn[AcceptSocket] = "open" /\ NoBlock(AcceptSocket)
         /\ \E s \in Infos : Starts(s, AcceptSocket)
<1>1. AcceptSocket \in Conns  BY DEF Add, IInv, TypeOK, AcceptTypeOK
<1>2. HandedOver(AcceptSocket) /\ pc = "add"  BY DEF Add, HandedOver
<1>3. conn[AcceptSocket] = "open" /\ NoBlock(AcceptSocket)
  BY <1>1, <1>2 DEF IInv, AcceptedOK, ServedOK
<1>4. PICK s \in Infos : NewInfo(s, AcceptSocket)  BY DEF Add
<1>5. Starts(s, AcceptSocket)  BY <1>3, <1>4 DEF Add, Starts
<1>6. QED  BY <1>1, <1>3, <1>5

LEMMA StepIsIO == IInv /\ [Next]_vars => IOStep
<1> SUFFICES ASSUME IInv, [Next]_vars  PROVE IOStep
  OBVIOUS
<1>1. CASE MainWaits
  BY <1>1 DEF MainWaits, PostAccept, PostFails, Wake, AddFails, IOStep, Pauses
<1>2. CASE Add
  BY <1>2, AddIsIO DEF IOStep
<1>3. CASE AcceptStep
  BY <1>3 DEF AcceptStep, AcceptStack, CompleteAccept, CompleteAcceptFailed, IOStep, TakesBacklog
<1>4. ASSUME NEW s \in Infos, RoutineCloses(s) \/ RoutineContinues(s) \/ StackStep(s)
      PROVE  IOStep
  <2>1. CASE RoutineCloses(s)  BY <2>1 DEF RoutineCloses, Ends, IOStep
  <2>2. CASE RoutineContinues(s)  BY <2>2 DEF RoutineContinues, Continues, IOStep
  <2>3. CASE StackStep(s)  BY <2>3 DEF StackStep, IOStep
  <2>4. QED  BY <1>4, <2>1, <2>2, <2>3
<1>5. CASE \E c \in Conns : ClientStep(c)
  BY <1>5 DEF ClientStep, IOStep, ClientMoves
<1>6. CASE UNCHANGED vars
  BY <1>6 DEF vars, IOStep, Pauses
<1>7. QED  BY <1>1, <1>2, <1>3, <1>4, <1>5, <1>6, NextCases

LEMMA IOInvStep == IInv /\ [Next]_vars => IOInv'
BY StepIsIO, IOStepInv DEF IInv

-----------------------------------------------------------------------------
(* What each step does to the connections and the blocks. *)

(* A completed AcceptEx, or one that failed, decides the oldest connection  *)
(* that waits, which has no block.                                          *)
LEMMA AcceptStepFrame ==
  ASSUME IInv, AcceptStep
  PROVE  /\ Head(backlog) \in Conns /\ conn[Head(backlog)] = "pending"
         /\ NoBlock(Head(backlog))
         /\ \/ /\ acceptOp' = "done" /\ AcceptSocket' = Head(backlog)
               /\ conn'[Head(backlog)] = "open"
            \/ /\ acceptOp' = "failed" /\ AcceptSocket' = AcceptSocket
               /\ conn'[Head(backlog)] = "closed"
         /\ \A c \in Conns : c # Head(backlog) => conn'[c] = conn[c]
         /\ acceptOp = "pending"
         /\ UNCHANGED <<infoVars, pc>>
<1> DEFINE h == Head(backlog)
<1>1. h \in Conns /\ conn[h] = "pending"
  BY HeadOfBacklog DEF AcceptStep, AcceptStack, CompleteAccept, CompleteAcceptFailed, IInv
<1>2. conn \in [Conns -> {"new", "pending", "open", "closed"}]
  BY DEF IInv, TypeOK, NetTypeOK
<1>3. NoBlock(h)
  <2>1. ASSUME NEW s \in Infos, Socket[s] = h  PROVE FALSE
    <3>1. s \in InUse  BY <1>1, <2>1 DEF InUse
    <3>2. ResultHolds(s)  BY <3>1, InUseOK DEF IInv
    <3>3. QED  BY <1>1, <2>1, <3>2 DEF ResultHolds
  <2>2. QED  BY <2>1 DEF NoBlock
<1>4. CASE CompleteAccept
  BY <1>1, <1>2, <1>3, <1>4 DEF CompleteAccept, AcceptStep
<1>5. CASE CompleteAcceptFailed
  BY <1>1, <1>2, <1>3, <1>5 DEF CompleteAcceptFailed, AcceptStep
<1>6. QED  BY <1>4, <1>5 DEF AcceptStep, AcceptStack

\* The connection of a block whose operation ended loses its only block.
LEMMA ClosesFrame ==
  ASSUME IInv, NEW s \in Infos, RoutineCloses(s)
  PROVE  /\ Socket[s] \in Conns /\ conn'[Socket[s]] = "closed" /\ ~NoBlock(Socket[s])
         /\ conn[Socket[s]] = "open"
         /\ \A c \in Conns : c # Socket[s] => conn'[c] = conn[c] /\ (NoBlock(c)' <=> NoBlock(c))
         /\ pc = "wait" /\ UNCHANGED <<acceptVars, pc>>
<1> DEFINE d == Socket[s]
<1>1. io[s] # Idle  BY DEF RoutineCloses, Completed, Idle
<1>2. d \in Conns /\ conn[d] = "open"  BY <1>1, BlockInUse DEF IInv, ResultHolds
<1>3. /\ conn \in [Conns -> {"new", "pending", "open", "closed"}]
      /\ Socket \in [Infos -> Conns \cup {NoSocket}]
  BY DEF IInv, TypeOK, NetTypeOK, InfoTypeOK
<1>4. /\ conn' = [conn EXCEPT ![d] = "closed"]
      /\ Socket' = [Socket EXCEPT ![s] = NoSocket]
      /\ pc = "wait" /\ UNCHANGED <<acceptVars, pc>>
  BY DEF RoutineCloses, FreeInfo
<1>5. ASSUME NEW c \in Conns, c # d
      PROVE  conn'[c] = conn[c] /\ (NoBlock(c)' <=> NoBlock(c))
  <2>1. conn'[c] = conn[c]  BY <1>3, <1>4, <1>5
  <2>2. \A t \in Infos : Socket'[t] = c <=> Socket[t] = c
    BY <1>3, <1>4, <1>5
  <2>3. QED  BY <2>1, <2>2 DEF NoBlock
<1>6. conn'[d] = "closed"  BY <1>2, <1>3, <1>4
<1>7. ~NoBlock(d)  BY DEF NoBlock
<1>8. QED  BY <1>2, <1>4, <1>5, <1>6, <1>7

\* What the other steps leave alone.
Others ==
  \/ (\E s \in Infos : RoutineContinues(s) \/ StackStep(s))
  \/ (\E c \in Conns : ClientStep(c)) \/ UNCHANGED vars

LEMMA OthersFrame ==
  ASSUME TypeOK, Others
  PROVE  /\ UNCHANGED <<acceptVars, pc>>
         /\ \A c \in Conns : (conn'[c] = "open" <=> conn[c] = "open") /\ (NoBlock(c)' <=> NoBlock(c))
<1>0. conn \in [Conns -> {"new", "pending", "open", "closed"}] /\ NetTypeOK
  BY DEF TypeOK, NetTypeOK
<1>1. ASSUME NEW s \in Infos, RoutineContinues(s) \/ StackStep(s)
      PROVE  UNCHANGED <<acceptVars, pc, Socket, conn>>
  <2>1. CASE RoutineContinues(s)  BY <2>1 DEF RoutineContinues, Continue, netVars
  <2>2. CASE StackStep(s)
    BY <2>2 DEF StackStep, Stack, CompleteFailed, CompleteRecv, CompleteSend, netVars
  <2>3. QED  BY <1>1, <2>1, <2>2
<1>2. ASSUME NEW c \in Conns, ClientStep(c)
      PROVE  /\ UNCHANGED <<acceptVars, pc, Socket>>
             /\ \A d \in Conns : conn'[d] = "open" <=> conn[d] = "open"
  <2>1. Connect(c) \/ UNCHANGED conn  BY <1>0, <1>2, ClientFrame DEF ClientStep
  <2>2. UNCHANGED <<acceptVars, pc, Socket>>  BY <1>2 DEF ClientStep, infoVars
  <2>3. QED  BY <1>0, <2>1, <2>2 DEF Connect
<1>3. CASE UNCHANGED vars  BY <1>3 DEF vars, netVars, infoVars, NoBlock
<1>4. QED  BY <1>1, <1>2, <1>3 DEF Others, NoBlock

LEMMA StepCases ==
  ASSUME [Next]_vars
  PROVE  MainWaits \/ Add \/ AcceptStep \/ (\E s \in Infos : RoutineCloses(s)) \/ Others
BY NextCases DEF Others

-----------------------------------------------------------------------------
(* The conjuncts of the invariant, one at a time. *)

LEMMA TypeStep == IInv /\ [Next]_vars => TypeOK'
<1> SUFFICES ASSUME IInv, [Next]_vars  PROVE TypeOK'
  OBVIOUS
<1>0. NetTypeOK' /\ InfoTypeOK'  BY IOInvStep DEF IOInv
<1>1. TypeOK /\ AcceptTypeOK  BY DEF IInv, TypeOK
<1> SUFFICES AcceptTypeOK' /\ pc' \in {"post", "wait", "add", "exit", "noMemory"}
  BY <1>0 DEF TypeOK
<1>2. CASE MainWaits
  BY <1>1, <1>2 DEF MainWaits, PostAccept, PostFails, Wake, AddFails, PostAcceptEx, AcceptTypeOK,
     acceptVars
<1>3. CASE Add
  BY <1>1, <1>3 DEF Add, AfterAdd, AcceptTypeOK, acceptVars
<1>4. CASE AcceptStep
  BY <1>1, <1>4, AcceptStepFrame DEF TypeOK, AcceptTypeOK
<1>5. CASE \E s \in Infos : RoutineCloses(s)
  BY <1>1, <1>5, ClosesFrame DEF TypeOK, AcceptTypeOK, acceptVars
<1>6. CASE Others
  BY <1>1, <1>6, OthersFrame DEF TypeOK, AcceptTypeOK, acceptVars
<1>7. QED  BY <1>2, <1>3, <1>4, <1>5, <1>6, StepCases

LEMMA AcceptedStep == IInv /\ [Next]_vars => AcceptedOK'
<1> SUFFICES ASSUME IInv, [Next]_vars  PROVE AcceptedOK'
  OBVIOUS
<1>0. /\ TypeOK /\ AcceptedOK /\ ServedOK
      /\ \A c \in Conns : c # NoSocket
  BY DEF IInv
<1>2. CASE MainWaits
  BY <1>0, <1>2 DEF MainWaits, PostAccept, PostFails, Wake, AddFails, PostAcceptEx, AcceptSignalled,
     AcceptedOK, HandedOver, acceptVars, netVars
<1>3. CASE Add
  BY <1>0, <1>3 DEF Add, AfterAdd, AcceptedOK, HandedOver, acceptVars
<1>4. CASE AcceptStep
  <2>1. AcceptSocket = NoSocket  BY <1>0, <1>4, AcceptStepFrame DEF AcceptedOK
  <2>2. QED  BY <1>0, <1>4, <2>1, AcceptStepFrame DEF AcceptedOK, HandedOver
<1>5. ASSUME NEW s \in Infos, RoutineCloses(s)  PROVE AcceptedOK'
  <2>1. ~HandedOver(Socket[s])  BY <1>0, <1>5, ClosesFrame DEF ServedOK
  <2>2. UNCHANGED <<pc, AcceptSocket, acceptOp>>  BY <1>5, ClosesFrame DEF acceptVars
  <2>3. QED  BY <1>0, <1>5, <2>1, <2>2, ClosesFrame DEF AcceptedOK, HandedOver
<1>6. CASE Others
  BY <1>0, <1>6, OthersFrame DEF AcceptedOK, HandedOver, acceptVars
<1>7. QED  BY <1>2, <1>3, <1>4, <1>5, <1>6, StepCases

LEMMA ServedStep == IInv /\ [Next]_vars => ServedOK'
<1> SUFFICES ASSUME IInv, [Next]_vars, pc' \notin {"exit", "noMemory"},
                    NEW c \in Conns, conn'[c] = "open"
             PROVE  NoBlock(c)' <=> HandedOver(c)'
  BY DEF ServedOK
<1>0. TypeOK /\ AcceptedOK /\ ServedOK  BY DEF IInv
<1>1. c # NoSocket  OBVIOUS
<1>2. CASE MainWaits
  <2>1. UNCHANGED <<conn, Socket>>
    BY <1>2 DEF MainWaits, PostAccept, PostFails, Wake, AddFails, netVars, infoVars
  <2>2. pc \in {"post", "wait"} /\ (HandedOver(c)' <=> HandedOver(c))
    BY <1>1, <1>2 DEF MainWaits, PostAccept, PostFails, Wake, AddFails, PostAcceptEx, acceptVars,
       HandedOver
  <2>3. QED  BY <1>0, <2>1, <2>2 DEF ServedOK, NoBlock
<1>3. CASE Add
  <2>1. PICK s \in Infos : NewInfo(s, AcceptSocket)  BY <1>3 DEF Add
  <2>2. /\ Socket[s] = NoSocket /\ Socket' = [Socket EXCEPT ![s] = AcceptSocket]
        /\ Socket \in [Infos -> Conns \cup {NoSocket}]
    BY <1>0, <2>1 DEF NewInfo, TypeOK, InfoTypeOK
  <2>3. pc = "add" /\ pc' = "post" /\ UNCHANGED conn  BY <1>3 DEF Add, AfterAdd, netVars
  <2>4. ~HandedOver(c)'  BY <2>3 DEF HandedOver
  <2>5. CASE c = AcceptSocket
    <3>1. Socket'[s] = c  BY <2>2, <2>5
    <3>2. QED  BY <2>4, <3>1 DEF NoBlock
  <2>6. CASE c # AcceptSocket
    <3>1. ~NoBlock(c)  BY <1>0, <2>3, <2>6 DEF ServedOK, HandedOver
    <3>2. \A t \in Infos : Socket'[t] = c <=> Socket[t] = c  BY <1>1, <2>2, <2>6
    <3>3. QED  BY <2>4, <3>1, <3>2 DEF NoBlock
  <2>7. QED  BY <2>5, <2>6
<1>4. CASE AcceptStep
  <2>1. pc = "wait" /\ AcceptSocket = NoSocket
    BY <1>0, <1>4, AcceptStepFrame DEF AcceptedOK
  <2>2. (NoBlock(c)' <=> NoBlock(c)) /\ pc' = pc
    BY <1>4, AcceptStepFrame DEF NoBlock, infoVars
  <2>3. CASE c = Head(backlog)
    BY <1>4, <2>1, <2>2, <2>3, AcceptStepFrame DEF HandedOver
  <2>4. CASE c # Head(backlog)
    <3>1. conn[c] = "open"  BY <1>4, <2>4, AcceptStepFrame
    <3>2. ~HandedOver(c) /\ ~NoBlock(c)  BY <1>0, <1>1, <2>1, <3>1 DEF ServedOK, HandedOver
    <3>3. ~HandedOver(c)'
      BY <1>1, <1>4, <2>1, <2>4, AcceptStepFrame DEF HandedOver
    <3>4. QED  BY <2>2, <3>2, <3>3
  <2>5. QED  BY <2>3, <2>4
<1>5. ASSUME NEW s \in Infos, RoutineCloses(s)  PROVE NoBlock(c)' <=> HandedOver(c)'
  <2>1. c # Socket[s]  BY <1>5, ClosesFrame
  <2>2. conn[c] = "open" /\ (NoBlock(c)' <=> NoBlock(c)) /\ pc = "wait"
    BY <1>5, <2>1, ClosesFrame
  <2>3. HandedOver(c)' <=> HandedOver(c)  BY <1>5, ClosesFrame DEF HandedOver, acceptVars
  <2>4. QED  BY <1>0, <2>2, <2>3 DEF ServedOK
<1>6. CASE Others
  <2>1. /\ UNCHANGED <<AcceptSocket, pc>> /\ conn[c] = "open" /\ (NoBlock(c)' <=> NoBlock(c))
    BY <1>0, <1>6, OthersFrame DEF acceptVars
  <2>2. QED  BY <1>0, <2>1 DEF ServedOK, HandedOver
<1>7. QED  BY <1>2, <1>3, <1>4, <1>5, <1>6, StepCases

-----------------------------------------------------------------------------
(* The theorems. *)

(* No block, or one block only, is what OnePlace counts. *)
LEMMA InvOnePlace == IInv => OnePlace
<1> SUFFICES ASSUME IInv, pc \notin {"exit", "noMemory"}, NEW c \in Conns, conn[c] = "open"
             PROVE  Cardinality({s \in Infos : Socket[s] = c})
                      = IF AcceptSocket = c /\ pc \in {"wait", "add"} THEN 0 ELSE 1
  BY DEF OnePlace
<1> DEFINE mine == {s \in Infos : Socket[s] = c}
<1>1. NoBlock(c) <=> HandedOver(c)  BY DEF IInv, ServedOK
<1>2. CASE HandedOver(c)
  <2>1. mine = {}  BY <1>1, <1>2 DEF NoBlock
  <2>2. Cardinality(mine) = 0  BY <2>1, FS_EmptySet
  <2>3. QED  BY <1>2, <2>2 DEF HandedOver
<1>3. CASE ~HandedOver(c)
  <2>1. PICK s \in Infos : Socket[s] = c  BY <1>1, <1>3 DEF NoBlock
  <2>2. ASSUME NEW t \in Infos, Socket[t] = c  PROVE t = s
    <3>1. s \in InUse /\ t \in InUse  BY <2>1, <2>2 DEF InUse
    <3>2. QED  BY <2>1, <2>2, <3>1 DEF IInv, IOInv, OneBlock
  <2>3. mine = {s}  BY <2>1, <2>2
  <2>4. Cardinality(mine) = 1  BY <2>3, FS_Singleton
  <2>5. QED  BY <1>3, <2>4 DEF HandedOver
<1>4. QED  BY <1>2, <1>3

LEMMA InvInit == Init => IInv
<1> SUFFICES ASSUME Init  PROVE IInv
  OBVIOUS
<1>1. IOInv  BY IOInit DEF Init
<1>2. AcceptSocket = NoSocket /\ acceptOp = "none" /\ pc = "post"  BY DEF Init
<1>3. TypeOK
  <2>1. NetTypeOK /\ InfoTypeOK  BY <1>1 DEF IOInv
  <2>2. QED  BY <1>2, <2>1 DEF TypeOK, AcceptTypeOK
<1>4. AcceptedOK  BY <1>2 DEF AcceptedOK, HandedOver
<1>5. ServedOK  BY DEF Init, NetInit, ServedOK
<1>6. QED  BY <1>1, <1>3, <1>4, <1>5 DEF IInv

LEMMA Invariance == Spec => []IInv
<1>1. IInv /\ [Next]_vars => IInv'
  BY IOInvStep, TypeStep, AcceptedStep, ServedStep DEF IInv
<1>2. QED  BY InvInit, <1>1, PTL DEF Spec

(* Every variable keeps its type in every behaviour of main, its completion *)
(* routines, the stack and the clients.                                     *)
THEOREM TypeCorrect == Spec => []TypeOK
BY Invariance, PTL DEF IInv

(* Every open connection has one place, AcceptSocket or one block: none is   *)
(* lost and none is served twice, although completion routines run in main's *)
(* waits (CallbackAcceptEx.cpp, lines 187-331).                             *)
THEOREM EveryOpenHasOnePlace == Spec => []OnePlace
BY Invariance, InvOnePlace, PTL

(* Between a receive and the sends of its bytes none is lost, repeated or   *)
(* reordered, and the echo is a prefix of what was sent (WorkerRoutine).     *)
THEOREM EchoIsExact == Spec => [](HeldIsNext /\ EchoIsPrefix)
BY Invariance, IOInvHolds, PTL DEF IInv

(* The server with completion routines and AcceptEx implements EchoService: *)
(* seen from its connections it behaves as the header comment promises.     *)
THEOREM Implements == Spec => EchoServiceSpec
<1>1. Init => Promise!Init  BY IOInitRefines DEF Init
<1>2. IInv /\ [Next]_vars => [Promise!Next]_Promise!vars
  BY StepIsIO, IOStepRefines DEF IInv
<1>3. QED  BY <1>1, <1>2, Invariance, PTL DEF Spec, EchoServiceSpec, Promise!Spec

(* Seen by a client: its connection is closed only when it has shut down and *)
(* got everything back, or was reset (WorkerRoutine, lines 349-383).         *)
THEOREM CloseIsGraceful == Spec => []GracefulClose
BY Implements, PromiseIsGraceful, PTL

(* Nothing that was echoed is taken back, and nothing happens on a           *)
(* connection after its close.                                              *)
THEOREM EchoIsFinal == Spec => [][EchoOnlyGrows]_Promise!vars
BY Implements, PromiseOnlyGrows, PTL

-----------------------------------------------------------------------------
(* CallbackServer: main accepts, and a second thread, the worker, runs the  *)
(* completion routines and picks the accepted socket up.  AcceptSocket is   *)
(* one variable in both servers.                                            *)

CONSTANT AcceptFaults
VARIABLES main, worker, acceptEvent, picked, pickedTwice

Callback == INSTANCE CallbackServer WITH Faults <- AcceptFaults

\* The instance has copies of what both servers extend: they are the same.
LEMMA SameState ==
  /\ Callback!NetTypeOK <=> NetTypeOK
  /\ Callback!InfoTypeOK <=> InfoTypeOK
  /\ Callback!NetTypeOK' <=> NetTypeOK'
  /\ Callback!InfoTypeOK' <=> InfoTypeOK'
  /\ Callback!NetInit <=> NetInit
  /\ Callback!InfoInit <=> InfoInit
BY DEF Callback!NetTypeOK, NetTypeOK, Callback!InfoTypeOK, InfoTypeOK, Callback!NetInit, NetInit,
   Callback!InfoInit, InfoInit, Callback!Idle, Idle

LEMMA SameFrames ==
  /\ UNCHANGED Callback!netVars <=> UNCHANGED netVars
  /\ UNCHANGED Callback!infoVars <=> UNCHANGED infoVars
  /\ UNCHANGED Callback!clientVars <=> UNCHANGED clientVars
BY DEF Callback!netVars, netVars, Callback!infoVars, infoVars, Callback!clientVars, clientVars

LEMMA SameCardinality ==
  ASSUME NEW S
  PROVE  Callback!Cardinality(S) = Cardinality(S)
BY DEF Callback!Cardinality, Cardinality

LEMMA SameHelpers ==
  /\ \A c : Callback!Dead(c) <=> Dead(c)
  /\ \A s : /\ Callback!Completed(s) <=> Completed(s)
            /\ Callback!Ended(s) <=> Ended(s)
            /\ Callback!FreeInfo(s) <=> FreeInfo(s)
  /\ \A s, c : Callback!NewInfo(s, c) <=> NewInfo(s, c)
BY DEF Callback!Dead, Dead, Callback!HardError, HardError, Callback!Completed, Completed,
   Callback!Ended, Ended, Callback!FreeInfo, FreeInfo, Callback!Idle, Idle,
   Callback!NewInfo, NewInfo, Callback!Posted, Posted

LEMMA SameContinue ==
  ASSUME NEW s, NEW posted
  PROVE  Callback!Continue(s, posted) <=> Continue(s, posted)
BY DEF Callback!Continue, Continue, Callback!MoreToSend, MoreToSend, Callback!Received, Received,
   Callback!SentBack, SentBack, Callback!WasReceive, WasReceive, Callback!Dead, Dead,
   Callback!HardError, HardError, Callback!Posted, Posted, Callback!Idle, Idle

LEMMA SameStack ==
  ASSUME NEW s
  PROVE  Callback!Stack(s) <=> Stack(s)
<1>1. Callback!CompleteFailed(s) <=> CompleteFailed(s)
  BY DEF Callback!CompleteFailed, CompleteFailed, Callback!Dead, Dead, Callback!HardError, HardError,
     Callback!netVars, netVars
<1>2. ASSUME NEW n  PROVE Callback!CompleteRecv(s, n) <=> CompleteRecv(s, n)
  BY DEF Callback!CompleteRecv, CompleteRecv, Callback!Posted, Posted, Callback!CanRecv, CanRecv,
     Callback!Avail, Avail, Callback!Overwrite, Overwrite, Callback!Incoming, Incoming,
     Callback!clientVars, clientVars
<1>3. ASSUME NEW n  PROVE Callback!CompleteSend(s, n) <=> CompleteSend(s, n)
  BY DEF Callback!CompleteSend, CompleteSend, Callback!Posted, Posted, Callback!CanSend, CanSend,
     Callback!Room, Room, Callback!Unsent, Unsent, Callback!clientVars, clientVars
<1>4. QED  BY <1>1, <1>2, <1>3 DEF Callback!Stack, Stack

LEMMA SameClient ==
  ASSUME NEW c
  PROVE  Callback!Client(c) <=> Client(c)
BY DEF Callback!Client, Client, Callback!Connect, Connect, Callback!ClientSend, ClientSend,
   Callback!ClientRead, ClientRead, Callback!ClientShutdown, ClientShutdown,
   Callback!ClientReset, ClientReset, Callback!Connected, Connected

LEMMA SamePromise ==
  /\ Callback!Promise!Init <=> Promise!Init
  /\ Callback!Promise!vars = Promise!vars
  /\ Callback!Promise!Next <=> Promise!Next
BY DEF Callback!Promise!Init, Promise!Init, Callback!Promise!vars, Promise!vars,
   Callback!Promise!Next, Promise!Next, Callback!Promise!Connect, Promise!Connect,
   Callback!Promise!ClientSend, Promise!ClientSend, Callback!Promise!Shutdown, Promise!Shutdown,
   Callback!Promise!Reset, Promise!Reset, Callback!Promise!Accept, Promise!Accept,
   Callback!Promise!Close, Promise!Close, Callback!Promise!Echo, Promise!Echo

-----------------------------------------------------------------------------
(* CallbackServer: the invariant. *)

ThreadTypeOK ==
  /\ main \in {"accept", "signal"}
  /\ worker \in {"wait", "reset", "take", "returned", "noMemory"}
  /\ AcceptSocket \in Conns \cup {NoSocket}
  /\ acceptEvent \in BOOLEAN
  /\ picked \subseteq Conns \cup {NoSocket}
  /\ pickedTwice \in BOOLEAN

(* The hand-over has gone wrong, or may have: an accept has failed, or a    *)
(* socket was overwritten before the worker read it.                       *)
Lost == SomeReset \/ \E c \in Conns : Callback!Overwritten(c)

(* What the worker has read has left the backlog, what waits for it in      *)
(* AcceptSocket is open, and only what it has read has a block.            *)
PickedOK ==
  /\ \A c \in Conns : c \in picked => conn[c] \in {"open", "closed"}
  /\ \A c \in Conns : AcceptSocket = c /\ c \notin picked => conn[c] = "open"
  /\ \A s \in Infos : Socket[s] # NoSocket => Socket[s] \in picked

\* The event, or the step before or after it, will make the worker read twice.
TwoWakeups ==
  \/ main = "signal" /\ (acceptEvent \/ worker = "take")
  \/ acceptEvent /\ worker = "take"

(* As long as nothing is lost, there is one wake-up for a socket that the   *)
(* worker has not read, and none for one it has read.                      *)
WakeupsOK ==
  /\ worker = "reset" => acceptEvent
  /\ AcceptSocket \notin Conns \ picked /\ Callback!WakeupComing => Lost
  /\ AcceptSocket \in Conns \ picked /\ TwoWakeups => Lost
  /\ AcceptSocket \in Conns \ picked /\ Callback!Serving => Callback!WakeupComing
  /\ pickedTwice => Lost

(* The open connections with a block are those that the worker has read.    *)
PickedServed ==
  Callback!Serving =>
    \A c \in Conns : conn[c] = "open" => (NoBlock(c) <=> c \notin picked)

CallbackInv ==
  /\ IOTypesOK /\ ThreadTypeOK
  /\ BacklogOK
  /\ PickedOK
  /\ WakeupsOK
  /\ ~pickedTwice => IOInv /\ PickedServed

-----------------------------------------------------------------------------
(* What each step of CallbackServer does. *)

pickedVars == <<picked, pickedTwice>>
threads == <<main, worker, AcceptSocket, acceptEvent, pickedVars>>

\* The steps that move the threads only.
ThreadMoves ==
  Callback!SignalWorker \/ Callback!WakeForAccept \/ Callback!ResetAccept \/ Callback!TakeFails

\* The steps that neither move the threads nor open or close a connection.
Quiet ==
  \/ \E s \in Infos : Callback!RoutineContinues(s) \/ Callback!StackStep(s)
  \/ \E c \in Conns : Callback!ClientStep(c)
  \/ UNCHANGED Callback!vars

LEMMA CallbackCases ==
  ASSUME [Callback!Next]_Callback!vars
  PROVE  \/ ThreadMoves \/ Callback!Accept \/ Callback!AcceptFails \/ Callback!Take
         \/ (\E s \in Infos : Callback!RoutineCloses(s)) \/ Quiet
BY DEF Callback!Next, Callback!MainThread, Callback!WorkerThread, ThreadMoves, Quiet

LEMMA ThreadMovesFrame ==
  ASSUME ThreadMoves
  PROVE  /\ Pauses /\ UNCHANGED AcceptSocket
         /\ \/ /\ main = "signal" /\ main' = "accept" /\ acceptEvent' = TRUE /\ worker' = worker
               /\ UNCHANGED pickedVars
            \/ /\ worker = "wait" /\ acceptEvent /\ worker' = "reset"
               /\ UNCHANGED <<main, acceptEvent, pickedVars>>
            \/ /\ worker = "reset" /\ worker' = "take" /\ acceptEvent' = FALSE /\ main' = main
               /\ UNCHANGED pickedVars
            \/ /\ worker = "take" /\ worker' \in {"returned", "noMemory"}
               /\ UNCHANGED <<main, acceptEvent>>
               /\ UNCHANGED pickedVars \/ Callback!PickUp
<1>1. Pauses
  <2>1. UNCHANGED <<Callback!netVars, Callback!infoVars>>
    BY DEF ThreadMoves, Callback!SignalWorker, Callback!WakeForAccept, Callback!ResetAccept,
       Callback!TakeFails
  <2>2. QED  BY <2>1, SameFrames DEF Pauses
<1>2. QED
  BY <1>1 DEF ThreadMoves, Callback!SignalWorker, Callback!WakeForAccept, Callback!ResetAccept,
     Callback!TakeFails, Callback!SignalValue, Callback!AfterReset, Callback!pickVars, pickedVars

LEMMA AcceptsFrame ==
  ASSUME Callback!Accept \/ Callback!AcceptFails
  PROVE  /\ TakesBacklog
         /\ main = "accept" /\ main' = "signal" /\ UNCHANGED <<worker, acceptEvent, pickedVars>>
         /\ \/ AcceptSocket' = Head(backlog) /\ conn' = [conn EXCEPT ![Head(backlog)] = "open"]
            \/ /\ AcceptSocket' = NoSocket /\ rst[Head(backlog)]
               /\ conn' = [conn EXCEPT ![Head(backlog)] = "closed"]
BY SameFrames DEF Callback!Accept, Callback!AcceptFails, TakesBacklog, Callback!pickVars, pickedVars

LEMMA TakeFrame ==
  ASSUME Callback!Take
  PROVE  /\ worker = "take" /\ worker' = "wait" /\ AcceptSocket # NoSocket
         /\ \E s \in Infos : NewInfo(s, AcceptSocket)
         /\ picked' = picked \cup {AcceptSocket}
         /\ pickedTwice' = (pickedTwice \/ AcceptSocket \in picked)
         /\ UNCHANGED <<netVars, main, AcceptSocket, acceptEvent>>
BY SameFrames, SameHelpers DEF Callback!Take, Callback!PickUp

LEMMA CallbackEndsFrame ==
  ASSUME NEW s \in Infos, Callback!RoutineCloses(s)
  PROVE  Ends(s) /\ Completed(s) /\ UNCHANGED threads
BY SameFrames, SameHelpers
   DEF Callback!RoutineCloses, Callback!threadVars, Callback!pickVars, Ends, threads, pickedVars

LEMMA RunsFrame ==
  ASSUME NEW s \in Infos, Callback!RoutineContinues(s) \/ Callback!StackStep(s)
  PROVE  /\ Continues(s) \/ Stack(s)
         /\ UNCHANGED <<threads, conn, backlog, rst, Socket>>
<1> USE DEF Callback!threadVars, Callback!pickVars, threads, pickedVars
<1>1. CASE Callback!RoutineContinues(s)
  <2>1. Continues(s)
    BY <1>1, SameFrames, SameContinue DEF Callback!RoutineContinues, Continues
  <2>2. UNCHANGED <<conn, backlog, rst, Socket>>  BY <2>1 DEF Continues, Continue, netVars
  <2>3. QED  BY <1>1, <2>1, <2>2 DEF Callback!RoutineContinues
<1>2. CASE Callback!StackStep(s)
  <2>1. Stack(s)  BY <1>2, SameStack DEF Callback!StackStep
  <2>2. UNCHANGED <<conn, backlog, rst, Socket>>
    BY <2>1 DEF Stack, CompleteFailed, CompleteRecv, CompleteSend, netVars, clientVars
  <2>3. QED  BY <1>2, <2>1, <2>2 DEF Callback!StackStep
<1>3. QED  BY <1>1, <1>2

LEMMA ClientsFrame ==
  ASSUME NetTypeOK, NEW c \in Conns, Callback!ClientStep(c)
  PROVE  /\ ClientMoves
         /\ UNCHANGED <<threads, infoVars>>
         /\ Connect(c) \/ UNCHANGED <<conn, backlog>>
         /\ \A d \in Conns : rst[d] => rst'[d]
<1>1. Client(c) /\ UNCHANGED infoVars  BY SameFrames, SameClient DEF Callback!ClientStep
<1>2. Connect(c) \/ UNCHANGED <<conn, backlog>>  BY <1>1, ClientFrame
<1>3. \A d \in Conns : rst[d] => rst'[d]
  BY <1>1 DEF NetTypeOK, Client, Connect, ClientSend, ClientRead, ClientShutdown, ClientReset
<1>4. UNCHANGED threads
  BY DEF Callback!ClientStep, Callback!threadVars, Callback!pickVars, threads, pickedVars
<1>5. QED  BY <1>1, <1>2, <1>3, <1>4 DEF ClientMoves

LEMMA CallbackStutter ==
  ASSUME UNCHANGED Callback!vars
  PROVE  Pauses /\ UNCHANGED threads
BY SameFrames DEF Callback!vars, Callback!threadVars, Callback!pickVars, threads, pickedVars, Pauses

LEMMA QuietFrame ==
  ASSUME NetTypeOK, BacklogOK, Quiet
  PROVE  /\ UNCHANGED <<threads, Socket>>
         /\ BacklogOK'
         /\ \A c \in Conns : /\ conn'[c] = conn[c] \/ (conn[c] = "new" /\ conn'[c] = "pending")
                             /\ rst[c] => rst'[c]
<1>1. CASE \E s \in Infos : Callback!RoutineContinues(s) \/ Callback!StackStep(s)
  BY <1>1, RunsFrame DEF BacklogOK
<1>2. ASSUME NEW c \in Conns, Callback!ClientStep(c)
      PROVE  /\ UNCHANGED <<threads, Socket>>
             /\ BacklogOK'
             /\ \A d \in Conns : conn'[d] = conn[d] \/ (conn[d] = "new" /\ conn'[d] = "pending")
             /\ \A d \in Conns : rst[d] => rst'[d]
  <2>1. CASE Connect(c)
    <3>1. BacklogOK'  BY <2>1, ConnectBacklog
    <3>2. \A d \in Conns : conn'[d] = conn[d] \/ (conn[d] = "new" /\ conn'[d] = "pending")
      BY <2>1 DEF Connect, NetTypeOK
    <3>3. QED  BY <1>2, <3>1, <3>2, ClientsFrame DEF infoVars
  <2>2. CASE UNCHANGED <<conn, backlog>>
    BY <1>2, <2>2, ClientsFrame DEF BacklogOK, infoVars
  <2>3. QED  BY <1>2, <2>1, <2>2, ClientsFrame
<1>3. CASE UNCHANGED Callback!vars
  BY <1>3, CallbackStutter DEF Pauses, netVars, infoVars, BacklogOK
<1>4. QED  BY <1>1, <1>2, <1>3 DEF Quiet

\* A block whose operation has completed is in use, and its connection is not in the backlog.
LEMMA ClosesPicked ==
  ASSUME CallbackInv, NEW s \in Infos, Callback!RoutineCloses(s)
  PROVE  /\ Socket[s] \in Conns /\ Socket[s] \in picked
         /\ conn' = [conn EXCEPT ![Socket[s]] = "closed"]
         /\ Socket' = [Socket EXCEPT ![s] = NoSocket]
         /\ UNCHANGED <<threads, clientVars, backlog>>
<1>1. Ends(s) /\ Completed(s) /\ UNCHANGED threads  BY CallbackEndsFrame
<1>2. Socket[s] # NoSocket
  BY <1>1 DEF CallbackInv, IOTypesOK, BytesOK, Completed, Idle
<1>3. Socket[s] \in Conns
  BY <1>2 DEF CallbackInv, IOTypesOK, InfoTypeOK
<1>4. QED  BY <1>1, <1>2, <1>3 DEF Ends, FreeInfo, CallbackInv, PickedOK

LEMMA AcceptsPending ==
  ASSUME CallbackInv, Callback!Accept \/ Callback!AcceptFails
  PROVE  /\ Head(backlog) \in Conns /\ conn[Head(backlog)] = "pending"
         /\ Head(backlog) \notin picked /\ NoBlock(Head(backlog))
         /\ conn'[Head(backlog)] \in {"open", "closed"}
         /\ AcceptSocket' = Head(backlog) => conn'[Head(backlog)] = "open"
         /\ \A c \in Conns : c # Head(backlog) => conn'[c] = conn[c]
         /\ UNCHANGED <<Socket, rst>>
<1> DEFINE h == Head(backlog)
<1>1. h \in Conns /\ conn[h] = "pending"
  BY AcceptsFrame, HeadIsPending DEF TakesBacklog, CallbackInv, IOTypesOK
<1>2. h \notin picked /\ NoBlock(h)
  BY <1>1 DEF CallbackInv, PickedOK, NoBlock
<1>3. conn \in [Conns -> {"new", "pending", "open", "closed"}]
  BY DEF CallbackInv, IOTypesOK, NetTypeOK
<1>4. \/ AcceptSocket' = h /\ conn' = [conn EXCEPT ![h] = "open"]
      \/ AcceptSocket' = NoSocket /\ conn' = [conn EXCEPT ![h] = "closed"]
  BY AcceptsFrame
<1>5. UNCHANGED <<Socket, rst>>
  BY AcceptsFrame DEF TakesBacklog, infoVars, clientVars
<1> HIDE DEF h
<1>6. QED  BY <1>1, <1>2, <1>3, <1>4, <1>5 DEF h

-----------------------------------------------------------------------------
(* Until a socket is read twice the steps are of the kinds that             *)
(* OverlappedIO_proofs knows.                                               *)

LEMMA TwiceIsFinal ==
  ASSUME CallbackInv, [Callback!Next]_Callback!vars, pickedTwice
  PROVE  pickedTwice'
<1>1. CASE ThreadMoves  BY <1>1, ThreadMovesFrame DEF Callback!PickUp, pickedVars
<1>2. CASE Callback!Accept \/ Callback!AcceptFails  BY <1>2, AcceptsFrame DEF pickedVars
<1>3. CASE Callback!Take  BY <1>3, TakeFrame
<1>4. CASE \E s \in Infos : Callback!RoutineCloses(s)
  BY <1>4, CallbackEndsFrame DEF threads, pickedVars
<1>5. CASE Quiet
  BY <1>5, QuietFrame DEF CallbackInv, IOTypesOK, threads, pickedVars
<1>6. QED  BY <1>1, <1>2, <1>3, <1>4, <1>5, CallbackCases

LEMMA TakeIsIO ==
  ASSUME CallbackInv, Callback!Take, ~pickedTwice'
  PROVE  /\ AcceptSocket \in Conns \ picked
         /\ \E s \in Infos : Starts(s, AcceptSocket)
<1>1. AcceptSocket \in Conns  BY TakeFrame DEF CallbackInv, ThreadTypeOK
<1>2. AcceptSocket \notin picked  BY TakeFrame
<1>3. conn[AcceptSocket] = "open" /\ NoBlock(AcceptSocket)
  BY <1>1, <1>2 DEF CallbackInv, PickedOK, NoBlock
<1>4. PICK s \in Infos : NewInfo(s, AcceptSocket)  BY TakeFrame
<1>5. Starts(s, AcceptSocket)  BY <1>3, <1>4, TakeFrame DEF Starts
<1>6. QED  BY <1>1, <1>2, <1>5

LEMMA CallbackStepIsIO ==
  ASSUME CallbackInv, [Callback!Next]_Callback!vars, ~pickedTwice'
  PROVE  IOInv /\ PickedServed /\ IOStep
<1>0. IOInv /\ PickedServed  BY TwiceIsFinal DEF CallbackInv
<1> SUFFICES IOStep  BY <1>0
<1>1. CASE ThreadMoves  BY <1>1, ThreadMovesFrame DEF IOStep
<1>2. CASE Callback!Accept \/ Callback!AcceptFails  BY <1>2, AcceptsFrame DEF IOStep
<1>3. CASE Callback!Take  BY <1>3, TakeIsIO DEF IOStep
<1>4. CASE \E s \in Infos : Callback!RoutineCloses(s)
  BY <1>4, CallbackEndsFrame DEF IOStep
<1>5. CASE Quiet
  <2>1. CASE \E s \in Infos : Callback!RoutineContinues(s) \/ Callback!StackStep(s)
    BY <2>1, RunsFrame DEF IOStep
  <2>2. CASE \E c \in Conns : Callback!ClientStep(c)
    BY <2>2, ClientsFrame DEF IOStep, CallbackInv, IOTypesOK
  <2>3. CASE UNCHANGED Callback!vars  BY <2>3, CallbackStutter DEF IOStep
  <2>4. QED  BY <1>5, <2>1, <2>2, <2>3 DEF Quiet
<1>6. QED  BY <1>1, <1>2, <1>3, <1>4, <1>5, CallbackCases

-----------------------------------------------------------------------------
(* The conjuncts of the invariant. *)

LEMMA CallbackTypeParts ==
  Callback!TypeOK <=> NetTypeOK /\ InfoTypeOK /\ ThreadTypeOK
BY SameState DEF Callback!TypeOK, ThreadTypeOK

LEMMA ThreadTypeStep == CallbackInv /\ [Callback!Next]_Callback!vars => ThreadTypeOK'
<1> SUFFICES ASSUME CallbackInv, [Callback!Next]_Callback!vars  PROVE ThreadTypeOK'
  OBVIOUS
<1>0. ThreadTypeOK /\ NetTypeOK /\ BacklogOK  BY DEF CallbackInv, IOTypesOK
<1> USE DEF ThreadTypeOK, pickedVars
<1>1. CASE ThreadMoves  BY <1>0, <1>1, ThreadMovesFrame DEF Callback!PickUp
<1>2. CASE Callback!Accept \/ Callback!AcceptFails
  BY <1>0, <1>2, AcceptsFrame, AcceptsPending
<1>3. CASE Callback!Take  BY <1>0, <1>3, TakeFrame
<1>4. CASE \E s \in Infos : Callback!RoutineCloses(s)
  BY <1>0, <1>4, CallbackEndsFrame DEF threads
<1>5. CASE Quiet  BY <1>0, <1>5, QuietFrame DEF threads
<1>6. QED  BY <1>1, <1>2, <1>3, <1>4, <1>5, CallbackCases

(* Also with two blocks for one socket, no send and no accounting of a      *)
(* completion passes what was received into the block.                     *)
LEMMA IOTypesStep == CallbackInv /\ [Callback!Next]_Callback!vars => IOTypesOK'
<1> SUFFICES ASSUME CallbackInv, [Callback!Next]_Callback!vars  PROVE IOTypesOK'
  OBVIOUS
<1>0. IOTypesOK /\ NetTypeOK /\ ThreadTypeOK  BY DEF CallbackInv, IOTypesOK
<1>1. CASE ThreadMoves  BY <1>0, <1>1, ThreadMovesFrame, NetOnlyTypes
<1>2. CASE Callback!Accept \/ Callback!AcceptFails
  BY <1>0, <1>2, AcceptsFrame, NetOnlyTypes
<1>3. CASE Callback!Take
  <2>1. AcceptSocket \in Conns  BY <1>0, <1>3, TakeFrame DEF ThreadTypeOK
  <2>2. QED  BY <1>0, <1>3, <2>1, TakeFrame, NewInfoTypes
<1>4. CASE \E s \in Infos : Callback!RoutineCloses(s)
  BY <1>0, <1>4, CallbackEndsFrame, EndsTypes
<1>5. CASE Quiet
  <2>1. CASE \E s \in Infos : Callback!RoutineContinues(s) \/ Callback!StackStep(s)
    BY <1>0, <2>1, RunsFrame, ContinuesTypes, StackTypes
  <2>2. CASE \E c \in Conns : Callback!ClientStep(c)
    BY <1>0, <2>2, ClientsFrame, NetOnlyTypes
  <2>3. CASE UNCHANGED Callback!vars  BY <1>0, <2>3, CallbackStutter, NetOnlyTypes
  <2>4. QED  BY <1>5, <2>1, <2>2, <2>3 DEF Quiet
<1>6. QED  BY <1>1, <1>2, <1>3, <1>4, <1>5, CallbackCases

LEMMA BacklogStep == CallbackInv /\ [Callback!Next]_Callback!vars => BacklogOK'
<1> SUFFICES ASSUME CallbackInv, [Callback!Next]_Callback!vars  PROVE BacklogOK'
  OBVIOUS
<1>0. NetTypeOK /\ BacklogOK /\ PickedOK  BY DEF CallbackInv, IOTypesOK
<1>1. CASE ThreadMoves  BY <1>0, <1>1, ThreadMovesFrame DEF Pauses, netVars, BacklogOK
<1>2. CASE Callback!Accept \/ Callback!AcceptFails
  BY <1>0, <1>2, AcceptsFrame, TakenBacklog
<1>3. CASE Callback!Take  BY <1>0, <1>3, TakeFrame DEF netVars, BacklogOK
<1>4. ASSUME NEW s \in Infos, Callback!RoutineCloses(s)  PROVE BacklogOK'
  <2>1. conn[Socket[s]] # "pending"  BY <1>0, <1>4, ClosesPicked DEF PickedOK
  <2>2. \A k \in 1..Len(backlog) : backlog[k] \in Conns  BY <1>0 DEF NetTypeOK
  <2>3. \A c \in Conns : c # Socket[s] => conn'[c] = conn[c]
    BY <1>0, <1>4, ClosesPicked DEF NetTypeOK
  <2>4. backlog' = backlog  BY <1>4, ClosesPicked
  <2>5. QED  BY <1>0, <2>1, <2>2, <2>3, <2>4 DEF BacklogOK
<1>5. CASE Quiet  BY <1>0, <1>5, QuietFrame
<1>6. QED  BY <1>1, <1>2, <1>3, <1>4, <1>5, CallbackCases

LEMMA PickedStep == CallbackInv /\ [Callback!Next]_Callback!vars => PickedOK'
<1> SUFFICES ASSUME CallbackInv, [Callback!Next]_Callback!vars  PROVE PickedOK'
  OBVIOUS
<1>0. /\ PickedOK /\ NetTypeOK /\ BacklogOK /\ ThreadTypeOK
      /\ conn \in [Conns -> {"new", "pending", "open", "closed"}]
      /\ Socket \in [Infos -> Conns \cup {NoSocket}]
  BY DEF CallbackInv, IOTypesOK, NetTypeOK, InfoTypeOK
<1>1. CASE ThreadMoves
  <2>1. UNCHANGED <<conn, Socket, AcceptSocket>>
    BY <1>1, ThreadMovesFrame DEF Pauses, netVars, infoVars
  <2>2. picked' = picked \/ picked' = picked \cup {AcceptSocket}
    BY <1>1, ThreadMovesFrame DEF Callback!PickUp, pickedVars
  <2>3. QED  BY <1>0, <2>1, <2>2 DEF PickedOK
<1>2. CASE Callback!Accept \/ Callback!AcceptFails
  <2>1. picked' = picked /\ AcceptSocket' \in {Head(backlog), NoSocket}
    BY <1>2, AcceptsFrame DEF pickedVars
  <2>2. QED  BY <1>0, <1>2, <2>1, AcceptsPending DEF PickedOK
<1>3. CASE Callback!Take
  <2>1. PICK s \in Infos : NewInfo(s, AcceptSocket)  BY <1>3, TakeFrame
  <2>2. Socket' = [Socket EXCEPT ![s] = AcceptSocket]  BY <2>1 DEF NewInfo
  <2>3. conn' = conn /\ AcceptSocket' = AcceptSocket /\ picked' = picked \cup {AcceptSocket}
    BY <1>3, TakeFrame DEF netVars
  <2>4. QED  BY <1>0, <2>2, <2>3 DEF PickedOK
<1>4. ASSUME NEW s \in Infos, Callback!RoutineCloses(s)  PROVE PickedOK'
  <2> DEFINE d == Socket[s]
  <2>1. /\ d \in Conns /\ d \in picked /\ conn' = [conn EXCEPT ![d] = "closed"]
        /\ Socket' = [Socket EXCEPT ![s] = NoSocket]
        /\ picked' = picked /\ AcceptSocket' = AcceptSocket
    BY <1>4, ClosesPicked DEF threads, pickedVars
  <2> HIDE DEF d
  <2>2. QED  BY <1>0, <2>1 DEF PickedOK
<1>5. CASE Quiet
  <2>1. UNCHANGED <<picked, AcceptSocket, Socket>>
    BY <1>0, <1>5, QuietFrame DEF threads, pickedVars
  <2>2. \A c \in Conns : conn[c] \in {"open", "closed"} => conn'[c] = conn[c]
    BY <1>0, <1>5, QuietFrame
  <2>3. QED  BY <1>0, <2>1, <2>2 DEF PickedOK
<1>6. QED  BY <1>1, <1>2, <1>3, <1>4, <1>5, CallbackCases

(* What was overwritten stays so: it is neither accepted again nor read.    *)
LEMMA LostIsFinal == CallbackInv /\ Lost /\ [Callback!Next]_Callback!vars => Lost'
<1> SUFFICES ASSUME CallbackInv, [Callback!Next]_Callback!vars,
                    NEW c \in Conns, rst[c] \/ Callback!Overwritten(c)
             PROVE  (rst[c] \/ Callback!Overwritten(c))'
  BY DEF Lost, SomeReset
<1>0. /\ PickedOK /\ NetTypeOK /\ BacklogOK /\ ThreadTypeOK
      /\ conn \in [Conns -> {"new", "pending", "open", "closed"}]
  BY DEF CallbackInv, IOTypesOK, NetTypeOK
<1> USE DEF Callback!Overwritten
<1>1. CASE ThreadMoves
  <2>1. UNCHANGED <<conn, rst, AcceptSocket>>  BY <1>1, ThreadMovesFrame DEF Pauses, netVars
  <2>2. picked' = picked \/ picked' = picked \cup {AcceptSocket}
    BY <1>1, ThreadMovesFrame DEF Callback!PickUp, pickedVars
  <2>3. QED  BY <2>1, <2>2
<1>2. CASE Callback!Accept \/ Callback!AcceptFails
  <2>1. picked' = picked /\ AcceptSocket' \in {Head(backlog), NoSocket}
    BY <1>2, AcceptsFrame DEF pickedVars
  <2>2. QED  BY <1>0, <1>2, <2>1, AcceptsPending
<1>3. CASE Callback!Take  BY <1>3, TakeFrame DEF netVars
<1>4. ASSUME NEW s \in Infos, Callback!RoutineCloses(s)
      PROVE  (rst[c] \/ Callback!Overwritten(c))'
  <2> DEFINE d == Socket[s]
  <2>1. /\ d \in picked /\ conn' = [conn EXCEPT ![d] = "closed"]
        /\ picked' = picked /\ AcceptSocket' = AcceptSocket /\ rst' = rst
    BY <1>4, ClosesPicked DEF threads, pickedVars, clientVars
  <2> HIDE DEF d
  <2>2. QED  BY <1>0, <2>1
<1>5. CASE Quiet
  BY <1>0, <1>5, QuietFrame DEF threads, pickedVars
<1>6. QED  BY <1>1, <1>2, <1>3, <1>4, <1>5, CallbackCases

(* A wake-up passes from main to the event and from the event to the        *)
(* worker; a second one comes only with a further accept, which overwrites  *)
(* what the first one was for.                                              *)
LEMMA WakeupsStep == CallbackInv /\ [Callback!Next]_Callback!vars => WakeupsOK'
<1> SUFFICES ASSUME CallbackInv, [Callback!Next]_Callback!vars  PROVE WakeupsOK'
  OBVIOUS
<1>0. PickedOK /\ WakeupsOK /\ ThreadTypeOK /\ NetTypeOK /\ BacklogOK
  BY DEF CallbackInv, IOTypesOK
<1>1. Lost => Lost'  BY LostIsFinal
<1>2. CASE ThreadMoves
  <2>0. AcceptSocket' = AcceptSocket  BY <1>2, ThreadMovesFrame
  <2> USE DEF WakeupsOK, ThreadTypeOK, TwoWakeups, Callback!WakeupComing, Callback!Serving
  <2>1. CASE /\ main = "signal" /\ main' = "accept" /\ acceptEvent' = TRUE /\ worker' = worker
             /\ UNCHANGED pickedVars
    BY <1>0, <1>1, <2>0, <2>1 DEF pickedVars
  <2>2. CASE /\ worker = "wait" /\ acceptEvent /\ worker' = "reset"
             /\ UNCHANGED <<main, acceptEvent, pickedVars>>
    BY <1>0, <1>1, <2>0, <2>2 DEF pickedVars
  <2>3. CASE /\ worker = "reset" /\ worker' = "take" /\ acceptEvent' = FALSE /\ main' = main
             /\ UNCHANGED pickedVars
    BY <1>0, <1>1, <2>0, <2>3 DEF pickedVars
  <2>4. CASE /\ worker = "take" /\ worker' \in {"returned", "noMemory"}
             /\ UNCHANGED <<main, acceptEvent>>
             /\ UNCHANGED pickedVars \/ Callback!PickUp
    <3>1. CASE Lost  BY <1>0, <1>1, <2>4, <3>1
    <3>2. CASE ~Lost
      <4>1. AcceptSocket \in Conns \ picked /\ ~pickedTwice /\ ~TwoWakeups
        BY <1>0, <2>4, <3>2
      <4>2. pickedTwice' = FALSE
        <5>1. ~pickedTwice /\ AcceptSocket \notin picked /\ pickedTwice \in BOOLEAN  BY <1>0, <4>1
        <5>2. CASE UNCHANGED pickedVars  BY <5>1, <5>2 DEF pickedVars
        <5>3. CASE Callback!PickUp
          <6>1. pickedTwice' = (pickedTwice \/ AcceptSocket \in picked)  BY <5>3 DEF Callback!PickUp
          <6>2. QED  BY <5>1, <6>1, Zenon
        <5>4. QED  BY <2>4, <5>2, <5>3
      <4>3. ~TwoWakeups' /\ ~Callback!WakeupComing'  BY <1>0, <2>4, <4>1
      <4>4. QED  BY <2>4, <4>2, <4>3
    <3>3. QED  BY <3>1, <3>2
  <2>5. QED  BY <1>2, <2>1, <2>2, <2>3, <2>4, ThreadMovesFrame
<1>3. CASE Callback!Accept \/ Callback!AcceptFails
  <2> DEFINE h == Head(backlog)
  <2>1. /\ h \in Conns /\ h \notin picked
        /\ \A c \in Conns : c # h => conn'[c] = conn[c]
        /\ rst' = rst
    BY <1>3, AcceptsPending
  <2>2. /\ main = "accept" /\ main' = "signal"
        /\ UNCHANGED <<worker, acceptEvent, picked, pickedTwice>>
        /\ AcceptSocket' = h \/ (AcceptSocket' = NoSocket /\ rst[h])
    BY <1>3, AcceptsFrame DEF pickedVars
  <2>3. conn[h] = "pending"  BY <1>3, AcceptsPending
  <2> HIDE DEF h
  <2>4. ASSUME Callback!WakeupComing  PROVE Lost'
    <3>1. CASE Lost  BY <1>1, <3>1
    <3>2. CASE ~Lost
      <4>1. PICK c \in Conns \ picked : c = AcceptSocket /\ conn[c] = "open"
        BY <1>0, <2>4, <3>2 DEF WakeupsOK, PickedOK
      <4>2. c # h /\ c # NoSocket /\ conn'[c] = "open"  BY <2>1, <2>3, <4>1
      <4>3. Callback!Overwritten(c)'  BY <2>2, <4>1, <4>2 DEF Callback!Overwritten
      <4>4. QED  BY <4>1, <4>3 DEF Lost
    <3>3. QED  BY <3>1, <3>2
  <2>5. CASE AcceptSocket' = h
    BY <1>0, <1>1, <2>1, <2>2, <2>4, <2>5
       DEF WakeupsOK, ThreadTypeOK, TwoWakeups, Callback!WakeupComing, Callback!Serving
  <2>6. CASE AcceptSocket' = NoSocket /\ rst[h]
    <3>1. Lost'  BY <2>1, <2>6 DEF Lost, SomeReset
    <3>2. QED  BY <1>0, <2>2, <2>6, <3>1 DEF WakeupsOK
  <2>7. QED  BY <2>2, <2>5, <2>6
<1>4. CASE Callback!Take
  BY <1>0, <1>1, <1>4, TakeFrame
     DEF WakeupsOK, ThreadTypeOK, TwoWakeups, Callback!WakeupComing, Callback!Serving
<1>5. CASE (\E s \in Infos : Callback!RoutineCloses(s)) \/ Quiet
  <2>1. UNCHANGED <<main, worker, AcceptSocket, acceptEvent, picked, pickedTwice>>
    BY <1>0, <1>5, CallbackEndsFrame, QuietFrame DEF threads, pickedVars
  <2>2. QED
    BY <1>0, <1>1, <2>1
       DEF WakeupsOK, TwoWakeups, Callback!WakeupComing, Callback!Serving
<1>6. QED  BY <1>2, <1>3, <1>4, <1>5, CallbackCases

LEMMA PickedServedStep ==
  ASSUME CallbackInv, [Callback!Next]_Callback!vars, ~pickedTwice'
  PROVE  PickedServed'
<1> SUFFICES ASSUME Callback!Serving', NEW c \in Conns, conn'[c] = "open"
             PROVE  NoBlock(c)' <=> c \notin picked'
  BY DEF PickedServed
<1>0. /\ PickedServed /\ PickedOK /\ NetTypeOK /\ BacklogOK /\ ThreadTypeOK
      /\ conn \in [Conns -> {"new", "pending", "open", "closed"}]
      /\ Socket \in [Infos -> Conns \cup {NoSocket}]
      /\ c # NoSocket
  BY CallbackStepIsIO DEF CallbackInv, IOTypesOK, NetTypeOK, InfoTypeOK
<1>1. CASE ThreadMoves
  <2>1. UNCHANGED <<conn, Socket>>  BY <1>1, ThreadMovesFrame DEF Pauses, netVars, infoVars
  <2>2. Callback!Serving /\ picked' = picked
    BY <1>1, ThreadMovesFrame DEF Callback!Serving, pickedVars
  <2>3. QED  BY <1>0, <2>1, <2>2 DEF PickedServed, NoBlock
<1>2. CASE Callback!Accept \/ Callback!AcceptFails
  <2>1. picked' = picked /\ worker' = worker  BY <1>2, AcceptsFrame DEF pickedVars
  <2>2. NoBlock(c)' <=> NoBlock(c)  BY <1>2, AcceptsPending DEF NoBlock
  <2>3. CASE c = Head(backlog)  BY <1>2, <2>1, <2>2, <2>3, AcceptsPending
  <2>4. CASE c # Head(backlog)
    <3>1. conn[c] = "open"  BY <1>2, <2>4, AcceptsPending
    <3>2. QED  BY <1>0, <2>1, <2>2, <3>1 DEF PickedServed, Callback!Serving
  <2>5. QED  BY <2>3, <2>4
<1>3. CASE Callback!Take
  <2>1. PICK s \in Infos : NewInfo(s, AcceptSocket)  BY <1>3, TakeFrame
  <2>2. Socket[s] = NoSocket /\ Socket' = [Socket EXCEPT ![s] = AcceptSocket]
    BY <2>1 DEF NewInfo
  <2>3. /\ conn' = conn /\ picked' = picked \cup {AcceptSocket} /\ worker = "take"
    BY <1>3, TakeFrame DEF netVars
  <2>4. CASE c = AcceptSocket
    <3>1. Socket'[s] = c  BY <1>0, <2>2, <2>4
    <3>2. QED  BY <2>3, <2>4, <3>1 DEF NoBlock
  <2>5. CASE c # AcceptSocket
    <3>1. \A t \in Infos : Socket'[t] = c <=> Socket[t] = c  BY <1>0, <2>2, <2>5
    <3>2. NoBlock(c)' <=> NoBlock(c)  BY <3>1 DEF NoBlock
    <3>3. QED  BY <1>0, <2>3, <2>5, <3>2 DEF PickedServed, Callback!Serving
  <2>6. QED  BY <2>4, <2>5
<1>4. ASSUME NEW s \in Infos, Callback!RoutineCloses(s)
      PROVE  NoBlock(c)' <=> c \notin picked'
  <2> DEFINE d == Socket[s]
  <2>1. /\ d \in Conns /\ conn' = [conn EXCEPT ![d] = "closed"]
        /\ Socket' = [Socket EXCEPT ![s] = NoSocket]
        /\ UNCHANGED <<picked, worker>>
    BY <1>4, ClosesPicked DEF threads, pickedVars
  <2>2. c # d /\ conn[c] = "open"  BY <1>0, <2>1
  <2>3. \A t \in Infos : Socket'[t] = c <=> Socket[t] = c  BY <1>0, <2>1, <2>2
  <2>4. NoBlock(c)' <=> NoBlock(c)  BY <2>3 DEF NoBlock
  <2>5. QED  BY <1>0, <2>1, <2>2, <2>4 DEF PickedServed, Callback!Serving
<1>5. CASE Quiet
  <2>1. UNCHANGED <<picked, worker, Socket>>
    BY <1>0, <1>5, QuietFrame DEF threads, pickedVars
  <2>2. conn[c] = "open"  BY <1>0, <1>5, QuietFrame
  <2>3. QED  BY <1>0, <2>1, <2>2 DEF PickedServed, NoBlock, Callback!Serving
<1>6. QED  BY <1>1, <1>2, <1>3, <1>4, <1>5, CallbackCases

LEMMA CallbackInit == Callback!Init => CallbackInv
<1> SUFFICES ASSUME Callback!Init  PROVE CallbackInv
  OBVIOUS
<1>1. NetInit /\ InfoInit  BY SameState DEF Callback!Init
<1>2. IOInv /\ IOTypesOK  BY <1>1, IOInit, IOInitTypes
<1>3. /\ main = "accept" /\ worker = "wait" /\ AcceptSocket = NoSocket /\ acceptEvent = FALSE
      /\ picked = {} /\ pickedTwice = FALSE
  BY DEF Callback!Init
<1>4. ThreadTypeOK /\ BacklogOK  BY <1>2, <1>3 DEF ThreadTypeOK, IOInv
<1>5. PickedOK  BY <1>1, <1>3 DEF PickedOK, InfoInit
<1>6. WakeupsOK  BY <1>3 DEF WakeupsOK, TwoWakeups, Callback!WakeupComing
<1>7. PickedServed  BY <1>1 DEF NetInit, PickedServed
<1>8. QED  BY <1>2, <1>4, <1>5, <1>6, <1>7 DEF CallbackInv

LEMMA CallbackInvariance == Callback!Spec => []CallbackInv
<1>1. CallbackInv /\ [Callback!Next]_Callback!vars => CallbackInv'
  <2> SUFFICES ASSUME CallbackInv, [Callback!Next]_Callback!vars  PROVE CallbackInv'
    OBVIOUS
  <2>1. IOTypesOK' /\ ThreadTypeOK' /\ BacklogOK' /\ PickedOK' /\ WakeupsOK'
    BY IOTypesStep, ThreadTypeStep, BacklogStep, PickedStep, WakeupsStep
  <2>2. ~pickedTwice' => IOInv' /\ PickedServed'
    BY CallbackStepIsIO, IOStepInv, PickedServedStep
  <2>3. QED  BY <2>1, <2>2 DEF CallbackInv
<1>2. QED  BY CallbackInit, <1>1, PTL DEF Callback!Spec

-----------------------------------------------------------------------------
(* The theorems about CallbackServer.  None of them restricts when clients  *)
(* connect: the hand-over race is among the behaviours, and what it spoils  *)
(* is part of what they say.                                               *)

(* Although two blocks may serve one socket, no send and no accounting of a *)
(* completion passes what was received into the block, and every variable   *)
(* keeps its type (WorkerRoutine, lines 368-526).                           *)
THEOREM CallbackTypeCorrect == Callback!Spec => []Callback!TypeOK
<1>1. CallbackInv => Callback!TypeOK  BY CallbackTypeParts DEF CallbackInv, IOTypesOK
<1>2. QED  BY <1>1, CallbackInvariance, PTL

(* The worker reads a socket from AcceptSocket twice only when another one  *)
(* was overwritten before it was read, or some client has reset its         *)
(* connection so that an accept failed; never by an interleaving of         *)
(* WSASetEvent, the wait and WSAResetEvent alone (lines 208-318).           *)
THEOREM CallbackTwiceHasCause ==
  Callback!Spec => [](pickedTwice => SomeReset \/ \E c \in Conns : Callback!Overwritten(c))
<1>1. CallbackInv => (pickedTwice => SomeReset \/ \E c \in Conns : Callback!Overwritten(c))
  BY DEF CallbackInv, WakeupsOK, Lost
<1>2. QED  BY <1>1, CallbackInvariance, PTL

(* The hand-over, under every interleaving of main's accept and WSASetEvent *)
(* with the worker's wait, WSAResetEvent and read of AcceptSocket: until a  *)
(* socket is read twice, what the worker has read keeps one block until its *)
(* close, what it has not read has none, and what waits in AcceptSocket has *)
(* a wake-up coming (CallbackAccept.cpp, lines 208-360).                    *)
THEOREM CallbackEveryOpenHasOnePlace == Callback!Spec => []Callback!OnePlace
<1>1. CallbackInv => Callback!OnePlace
  <2>1. ASSUME CallbackInv, pickedTwice
        PROVE  Callback!SomeReset \/ \E c \in Conns : Callback!Overwritten(c)
    BY <2>1 DEF CallbackInv, WakeupsOK, Lost, SomeReset, Callback!SomeReset
  <2>2. ASSUME CallbackInv, Callback!Serving, ~pickedTwice, NEW c \in Conns, conn[c] = "open"
        PROVE  /\ Cardinality({s \in Infos : Socket[s] = c}) = IF c \in picked THEN 1 ELSE 0
               /\ AcceptSocket = c /\ c \notin picked => Callback!WakeupComing
    <3> DEFINE mine == {s \in Infos : Socket[s] = c}
    <3>1. NoBlock(c) <=> c \notin picked  BY <2>2 DEF CallbackInv, PickedServed
    <3>2. CASE c \notin picked
      <4>1. mine = {}  BY <3>1, <3>2 DEF NoBlock
      <4>2. Cardinality(mine) = 0  BY <4>1, FS_EmptySet
      <4>3. AcceptSocket = c => Callback!WakeupComing
        BY <2>2, <3>2 DEF CallbackInv, WakeupsOK
      <4>4. QED  BY <3>2, <4>2, <4>3
    <3>3. CASE c \in picked
      <4>1. PICK s \in Infos : Socket[s] = c  BY <3>1, <3>3 DEF NoBlock
      <4>2. ASSUME NEW t \in Infos, Socket[t] = c  PROVE t = s
        <5>1. s \in InUse /\ t \in InUse  BY <4>1, <4>2 DEF InUse
        <5>2. QED  BY <2>2, <4>1, <4>2, <5>1 DEF CallbackInv, IOInv, OneBlock
      <4>3. mine = {s}  BY <4>1, <4>2
      <4>4. Cardinality(mine) = 1  BY <4>3, FS_Singleton
      <4>5. QED  BY <3>3, <4>4
    <3>4. QED  BY <3>2, <3>3
  <2>3. QED  BY <2>1, <2>2, SameCardinality DEF Callback!OnePlace
<1>2. QED  BY <1>1, CallbackInvariance, PTL

(* Until a socket is read twice, the bytes a block holds are the next of    *)
(* its stream, and the echo is a prefix of what was sent; the connections    *)
(* that were overwritten included (WorkerRoutine, lines 368-526).            *)
THEOREM CallbackEchoIsExact ==
  Callback!Spec => [](~pickedTwice => HeldIsNext /\ EchoIsPrefix)
<1>1. CallbackInv => (~pickedTwice => HeldIsNext /\ EchoIsPrefix)
  BY IOInvHolds DEF CallbackInv
<1>2. QED  BY <1>1, CallbackInvariance, PTL

\* The step of EchoService that a step is, if it reads no socket twice.
LEMMA CallbackStepRefines ==
  ASSUME CallbackInv, [Callback!Next]_Callback!vars, ~pickedTwice'
  PROVE  Promise!Next \/ UNCHANGED Promise!vars
BY CallbackStepIsIO, IOStepRefines

(* The server with completion routines implements EchoService up to the     *)
(* step in which it reads a socket twice, for any failing accepts and       *)
(* allocations and whenever the clients connect.                            *)
THEOREM CallbackImplements == Callback!Spec => Callback!EchoServiceUntilTwice
<1>1. Callback!Init => Callback!Promise!Init
  BY SameState, SamePromise, IOInitRefines DEF Callback!Init
<1>2. CallbackInv /\ [Callback!Next]_Callback!vars
        => [Callback!Promise!Next \/ pickedTwice']_Callback!Promise!vars
  <2> SUFFICES ASSUME CallbackInv, [Callback!Next]_Callback!vars, ~pickedTwice'
               PROVE  Callback!Promise!Next \/ UNCHANGED Callback!Promise!vars
    OBVIOUS
  <2>1. Promise!Next \/ UNCHANGED Promise!vars  BY CallbackStepRefines
  <2>2. UNCHANGED Promise!vars => UNCHANGED Callback!Promise!vars
    BY DEF Promise!vars, Callback!Promise!vars
  <2>3. QED  BY <2>1, <2>2, SamePromise
<1>3. QED
  BY <1>1, <1>2, CallbackInvariance, PTL DEF Callback!Spec, Callback!EchoServiceUntilTwice

(* Until a socket is read twice, a connection is closed only when its       *)
(* client has shut down and got everything back, or was reset (lines        *)
(* 390-412).                                                                *)
THEOREM CallbackCloseIsGraceful == Callback!Spec => [](pickedTwice \/ GracefulClose)
<1> DEFINE Graceful == pickedTwice \/ (PromiseTypeOK /\ GracefulClose)
<1>1. Callback!Init => Graceful
  <2>1. Callback!Init => Promise!Init  BY SameState, IOInitRefines DEF Callback!Init
  <2>2. Promise!Init => PromiseTypeOK /\ GracefulClose
    BY DEF Promise!Init, PromiseTypeOK, GracefulClose
  <2>3. QED  BY <2>1, <2>2
<1>2. CallbackInv /\ Graceful /\ [Callback!Next]_Callback!vars => Graceful'
  <2> SUFFICES ASSUME CallbackInv, Graceful, [Callback!Next]_Callback!vars, ~pickedTwice'
               PROVE  (PromiseTypeOK /\ GracefulClose)'
    OBVIOUS
  <2>1. PromiseTypeOK /\ GracefulClose  BY TwiceIsFinal
  <2>2. [Promise!Next]_Promise!vars  BY CallbackStepRefines
  <2>3. QED  BY <2>1, <2>2, PromiseStep, PromiseGracefulStep
<1>3. QED  BY <1>1, <1>2, CallbackInvariance, PTL DEF Callback!Spec
=============================================================================
