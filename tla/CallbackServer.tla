--------------------------- MODULE CallbackServer ---------------------------
(***************************************************************************)
(* CallbackAccept/CallbackAccept.cpp: the echo server built on overlapped  *)
(* I/O with completion routines.  The main thread leaves each accepted     *)
(* socket in the global AcceptSocket and sets an event; the worker thread  *)
(* picks the socket up, and runs the completion routines of all            *)
(* connections while it waits for the event.                               *)
(***************************************************************************)
EXTENDS OverlappedIO, FiniteSets

CONSTANT Faults   \* failures the behaviour may contain

ASSUME CallbackAssumption == Faults \subseteq {"accept", "alloc"}

VARIABLES
  main,          \* where the main thread is
  worker,        \* where the worker thread is
  AcceptSocket,  \* the global: the socket of the last accept
  acceptEvent,   \* is AcceptEvent signalled?
  picked,        \* history: the sockets the worker has read from AcceptSocket
  pickedTwice    \* history: has it read one of them a second time?

pickVars == <<picked, pickedTwice>>
threadVars == <<main, worker, AcceptSocket, acceptEvent, pickVars>>
vars == <<netVars, infoVars, threadVars>>

TypeOK ==
  /\ NetTypeOK /\ InfoTypeOK
  /\ main \in {"accept", "signal"}
  /\ worker \in {"wait", "reset", "take", "returned", "noMemory"}
  /\ AcceptSocket \in Conns \cup {NoSocket}
  /\ acceptEvent \in BOOLEAN
  /\ picked \subseteq Conns \cup {NoSocket}
  /\ pickedTwice \in BOOLEAN

Init ==
  /\ NetInit /\ InfoInit
  /\ main = "accept" /\ worker = "wait"
  /\ AcceptSocket = NoSocket
  /\ acceptEvent = FALSE
  /\ picked = {} /\ pickedTwice = FALSE
-----------------------------------------------------------------------------
(* Plausible bugs, for the mutation runs: the event never reset, so that the *)
(* same socket is picked up twice; the event set to no effect.               *)
StaysSet == acceptEvent
NeverSet == acceptEvent

Accept ==
  /\ main = "accept" /\ backlog # <<>>
  /\ AcceptSocket' = Head(backlog)
  /\ conn' = [conn EXCEPT ![Head(backlog)] = "open"]
  /\ backlog' = Tail(backlog)
  /\ main' = "signal"
  /\ UNCHANGED <<clientVars, taken, echo, infoVars, worker, acceptEvent, pickVars>>

\* accept() fails for a connection that was reset; the result is not checked.
AcceptFails ==
  /\ "accept" \in Faults
  /\ main = "accept" /\ backlog # <<>> /\ rst[Head(backlog)]
  /\ AcceptSocket' = NoSocket
  /\ conn' = [conn EXCEPT ![Head(backlog)] = "closed"]
  /\ backlog' = Tail(backlog)
  /\ main' = "signal"
  /\ UNCHANGED <<clientVars, taken, echo, infoVars, worker, acceptEvent, pickVars>>

SignalValue == TRUE

SignalWorker ==
  /\ main = "signal"
  /\ acceptEvent' = SignalValue
  /\ main' = "accept"
  /\ UNCHANGED <<netVars, infoVars, worker, AcceptSocket, pickVars>>

MainThread == Accept \/ AcceptFails \/ SignalWorker
-----------------------------------------------------------------------------
\* The alertable wait ends because the event is signalled ...
WakeForAccept ==
  /\ worker = "wait" /\ acceptEvent
  /\ worker' = "reset"
  /\ UNCHANGED <<netVars, infoVars, main, AcceptSocket, acceptEvent, pickVars>>

AfterReset == FALSE

\* ... the event is reset ...
ResetAccept ==
  /\ worker = "reset"
  /\ acceptEvent' = AfterReset
  /\ worker' = "take"
  /\ UNCHANGED <<netVars, infoVars, main, AcceptSocket, pickVars>>

(* ... and only then the global is read.  What it held is kept in the       *)
(* history variables, which no step looks at.                              *)
PickUp ==
  /\ picked' = picked \cup {AcceptSocket}
  /\ pickedTwice' = (pickedTwice \/ AcceptSocket \in picked)

\* A block is made for what was read, and a receive posted.
Take ==
  /\ worker = "take" /\ AcceptSocket # NoSocket
  /\ \E s \in Infos : NewInfo(s, AcceptSocket)
  /\ PickUp
  /\ worker' = "wait"
  /\ UNCHANGED <<netVars, main, AcceptSocket, acceptEvent>>

\* The allocation, or the first receive on a dead socket, fails: the worker returns.
TakeFails ==
  /\ worker = "take"
  /\ \/ "alloc" \in Faults /\ worker' = "noMemory" /\ UNCHANGED pickVars
     \/ AcceptSocket \notin {c \in Conns : ~Dead(c)} /\ worker' = "returned" /\ PickUp
  /\ UNCHANGED <<netVars, infoVars, main, AcceptSocket, acceptEvent>>

(* WorkerRoutine, run in the worker's wait for the operation of s that has   *)
(* completed: the connection is over, ...                                   *)
RoutineCloses(s) ==
  /\ worker = "wait" /\ Completed(s) /\ Ended(s)
  /\ FreeInfo(s)
  /\ UNCHANGED <<clientVars, backlog, taken, echo, threadVars>>

\* ... or the next operation is posted; if that fails at once, s is left as it is.
RoutineContinues(s) ==
  /\ worker = "wait" /\ Completed(s)
  /\ \E posted \in BOOLEAN : Continue(s, posted)
  /\ UNCHANGED <<netVars, threadVars>>

WorkerThread ==
  \/ WakeForAccept \/ ResetAccept \/ Take \/ TakeFails
  \/ \E s \in Infos : RoutineCloses(s) \/ RoutineContinues(s)

StackStep(s) == Stack(s) /\ UNCHANGED threadVars
ClientStep(c) == Client(c) /\ UNCHANGED <<infoVars, threadVars>>

Next ==
  \/ MainThread \/ WorkerThread
  \/ \E s \in Infos : StackStep(s)
  \/ \E c \in Conns : ClientStep(c)

Spec == Init /\ [][Next]_vars

(* Both threads run, the stack completes what it can, clients read what     *)
(* comes back to them.                                                      *)
FairSpec ==
  /\ Spec
  /\ WF_vars(MainThread) /\ WF_vars(WorkerThread)
  /\ \A s \in Infos : WF_vars(StackStep(s))
  /\ \A c \in Conns : WF_vars(ClientRead(c) /\ UNCHANGED <<infoVars, threadVars>>)
-----------------------------------------------------------------------------
(* The hazard of the hand-over: main has stored another socket over c       *)
(* (line 208) before the worker has read c (line 318).  Nothing serves c     *)
(* any more.                                                               *)
Overwritten(c) == conn[c] = "open" /\ c \notin picked /\ AcceptSocket # c

\* The worker will read AcceptSocket again: the event is still to be set, set, or reset.
WakeupComing == main = "signal" \/ acceptEvent \/ worker = "take"

Serving == worker \notin {"returned", "noMemory"}

(* Whatever main's accept and WSASetEvent do between the worker's wait,      *)
(* reset and read of AcceptSocket (lines 208-212, 264-318): the worker       *)
(* reads a socket twice only if one was overwritten or an accept failed;     *)
(* until it does, and while it runs, a connection it has read keeps one      *)
(* block until its close, one it has not read has none, and the socket that  *)
(* waits in AcceptSocket always has a wake-up coming.                        *)
OnePlace ==
  /\ pickedTwice => SomeReset \/ \E c \in Conns : Overwritten(c)
  /\ Serving /\ ~pickedTwice =>
       \A c \in Conns : conn[c] = "open" =>
         /\ Cardinality({s \in Infos : Socket[s] = c}) = IF c \in picked THEN 1 ELSE 0
         /\ AcceptSocket = c /\ c \notin picked => WakeupComing

(* EchoService, up to the step in which a socket is read a second time.      *)
(* From then on two blocks receive from one connection, and nothing is       *)
(* promised any more.                                                      *)
EchoServiceUntilTwice ==
  Promise!Init /\ [][Promise!Next \/ pickedTwice']_Promise!vars

(* What may end the worker: memory, and a reset connection, which takes the *)
(* service of all others with it (line 346).                                *)
Stopped == worker = "noMemory" \/ (SomeReset /\ worker = "returned")

(* Liveness: a byte a client has sent is echoed, unless the connection is   *)
(* reset or the worker has returned.  The hand-over breaks it.              *)
EveryByteEchoed ==
  \A c \in Conns : \A k \in 1..MaxBytes :
    (conn[c] \in {"pending", "open"} /\ sent[c] >= k)
      ~> (Len(echo[c]) >= k \/ rst[c] \/ Stopped)

\* The client of c is not done: a byte of it is not echoed, or its shutdown not answered.
Waits(c) == conn[c] \in {"pending", "open"} /\ (Len(echo[c]) < sent[c] \/ fin[c])

(* Liveness: every client gets back what it sends, and its connection       *)
(* closed when it is done, however the others behave; unless its own socket  *)
(* was overwritten, or one has been read twice.                             *)
ClientsAreServed ==
  \A c \in Conns :
    Waits(c) ~> (~Waits(c) \/ rst[c] \/ Stopped \/ Overwritten(c) \/ pickedTwice)
=============================================================================
