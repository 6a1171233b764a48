-------------------------- MODULE CallbackExServer --------------------------
(***************************************************************************)
(* CallbackAcceptEx/CallbackAcceptEx.cpp: the echo server built on         *)
(* overlapped I/O with completion routines and AcceptEx.  One thread posts *)
(* an AcceptEx, runs the completion routines of the connections while it   *)
(* waits for it, and posts the first receive of the accepted socket.       *)
(***************************************************************************)
EXTENDS AcceptExIO, FiniteSets

CONSTANT Faults   \* failures the behaviour may contain

ASSUME CallbackExAssumption == Faults \subseteq {"alloc"}

VARIABLE pc       \* "post", "wait", "add", or why main returned

vars == <<netVars, infoVars, acceptVars, pc>>

TypeOK ==
  /\ NetTypeOK /\ InfoTypeOK /\ AcceptTypeOK
  /\ pc \in {"post", "wait", "add", "exit", "noMemory"}

Init ==
  /\ NetInit /\ InfoInit
  /\ AcceptSocket = NoSocket /\ acceptOp = "none"
  /\ pc = "post"
-----------------------------------------------------------------------------
\* A plausible bug, for the mutation runs: back to the wait without a new AcceptEx.
AfterAddWait == "wait"

PostAccept ==
  /\ pc = "post"
  /\ PostAcceptEx
  /\ pc' = "wait"
  /\ UNCHANGED <<netVars, infoVars>>

\* No socket or no AcceptEx to be had: main returns.
PostFails ==
  /\ "alloc" \in Faults
  /\ pc = "post"
  /\ pc' = "noMemory"
  /\ UNCHANGED <<netVars, infoVars, acceptVars>>

Wake ==
  /\ pc = "wait" /\ AcceptSignalled
  /\ pc' = "add"
  /\ UNCHANGED <<netVars, infoVars, acceptVars>>

AfterAdd == "post"

(* A block for AcceptSocket and its first receive.  Whether the AcceptEx     *)
(* succeeded is not asked.                                                   *)
Add ==
  /\ pc = "add" /\ AcceptSocket # NoSocket
  /\ \E s \in Infos : NewInfo(s, AcceptSocket)
  /\ pc' = AfterAdd
  /\ UNCHANGED <<netVars, acceptVars>>

\* The allocation, or the receive on a socket that is not connected, fails.
AddFails ==
  /\ pc = "add"
  /\ \/ "alloc" \in Faults /\ pc' = "noMemory"
     \/ ~AcceptedAlive /\ pc' = "exit"
  /\ UNCHANGED <<netVars, infoVars, acceptVars>>

(* WorkerRoutine, run in the wait for the operation of s that has completed: *)
(* the connection is over, ...                                               *)
RoutineCloses(s) ==
  /\ pc = "wait" /\ Completed(s) /\ Ended(s)
  /\ FreeInfo(s)
  /\ UNCHANGED <<clientVars, backlog, taken, echo, acceptVars, pc>>

\* ... or the next operation is posted; if that fails at once, s is left as it is.
RoutineContinues(s) ==
  /\ pc = "wait" /\ Completed(s)
  /\ \E posted \in BOOLEAN : Continue(s, posted)
  /\ UNCHANGED <<netVars, acceptVars, pc>>

Server ==
  \/ PostAccept \/ PostFails \/ Wake \/ Add \/ AddFails
  \/ \E s \in Infos : RoutineCloses(s) \/ RoutineContinues(s)

StackStep(s) == Stack(s) /\ UNCHANGED <<acceptVars, pc>>
AcceptStep == AcceptStack /\ UNCHANGED pc
ClientStep(c) == Client(c) /\ UNCHANGED <<infoVars, acceptVars, pc>>

Next ==
  \/ Server \/ AcceptStep
  \/ \E s \in Infos : StackStep(s)
  \/ \E c \in Conns : ClientStep(c)

Spec == Init /\ [][Next]_vars

(* The thread runs, the stack completes what it can, clients read what      *)
(* comes back to them.                                                      *)
FairSpec ==
  /\ Spec
  /\ WF_vars(Server) /\ WF_vars(AcceptStep)
  /\ \A s \in Infos : WF_vars(StackStep(s))
  /\ \A c \in Conns : WF_vars(ClientRead(c) /\ UNCHANGED <<infoVars, acceptVars, pc>>)
-----------------------------------------------------------------------------
(* Every open connection has exactly one place, on its way from the AcceptEx *)
(* or in a block: none is lost and none is served twice, however accepts and *)
(* completion routines alternate (lines 187-331).                            *)
OnePlace ==
  pc \notin {"exit", "noMemory"} =>
    \A c \in Conns : conn[c] = "open" =>
      LET handedOver == AcceptSocket = c /\ pc \in {"wait", "add"}
      IN  Cardinality({s \in Infos : Socket[s] = c}) = IF handedOver THEN 0 ELSE 1

(* What may end main: memory, and a connection that was reset before it had *)
(* its first receive, which takes the service of all others with it.        *)
Stopped == pc = "noMemory" \/ (SomeReset /\ pc = "exit")

(* Liveness: a byte a client has sent is echoed, unless the connection is   *)
(* reset or main has returned ...                                           *)
EveryByteEchoed ==
  \A c \in Conns : \A k \in 1..MaxBytes :
    (conn[c] \in {"pending", "open"} /\ sent[c] >= k)
      ~> (Len(echo[c]) >= k \/ rst[c] \/ Stopped)

(* ... and a client that shuts down gets its connection closed.             *)
ShutdownIsClosed ==
  \A c \in Conns :
    (conn[c] # "new" /\ fin[c]) ~> (conn[c] = "closed" \/ rst[c] \/ Stopped)

(* A client gets back what it sends and its connection closed when it is    *)
(* done, however the others behave.                                         *)
ClientsAreServed == EveryByteEchoed /\ ShutdownIsClosed
=============================================================================
