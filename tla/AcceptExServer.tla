--------------------------- MODULE AcceptExServer ---------------------------
(***************************************************************************)
(* OverlappedModelAcceptEx/OverlappedModelAcceptEx.cpp: the echo server    *)
(* built on overlapped I/O with events and AcceptEx.  One thread waits for *)
(* the event of the AcceptEx, at index 0, and those of the connections.    *)
(*                                                                         *)
(* The block of connection c is c itself: Infos = Conns.                   *)
(***************************************************************************)
EXTENDS AcceptExIO, FiniteSets

CONSTANTS
  WSA_MAXIMUM_WAIT_EVENTS,  \* entries of EventArray and SocketArray
  Faults                    \* failures the behaviour may contain

(* The check against the size of the arrays (line 293) lets one connection *)
(* too many through; the module ends where the arrays do.                   *)
ASSUME ServerAssumption ==
  /\ Infos = Conns
  /\ WSA_MAXIMUM_WAIT_EVENTS \in Nat \ {0}
  /\ Faults \subseteq {"alloc"}

VARIABLES
  pc,           \* "wait", or why main returned
  SocketArray   \* the connections from index 1 on, in the order of the C array

vars == <<netVars, infoVars, acceptVars, pc, SocketArray>>

TypeOK ==
  /\ NetTypeOK /\ InfoTypeOK /\ AcceptTypeOK
  /\ pc \in {"wait", "exit", "noMemory"}
  /\ SocketArray \in Seq(Conns)

\* The first AcceptEx is posted before the loop.
Init ==
  /\ NetInit /\ InfoInit
  /\ AcceptSocket = NoSocket /\ acceptOp = "pending"
  /\ pc = "wait"
  /\ SocketArray = <<>>
-----------------------------------------------------------------------------
EventTotal == 1 + Len(SocketArray)

(* Plausible bugs, for the mutation runs: the squash off by one; AcceptEx    *)
(* not posted again.                                                         *)
SquashOffByOne(arr, x) == [k \in 1..(Len(arr) - 1) |-> IF k <= x THEN arr[k] ELSE arr[k + 1]]
NotReposted == AcceptSocket' = NoSocket /\ acceptOp' = "none"

\* The entry at index x goes and the later ones move up.
Squash(arr, x) == [k \in 1..(Len(arr) - 1) |-> IF k < x THEN arr[k] ELSE arr[k + 1]]

Repost == PostAcceptEx

(* Event 0, the lowest index: a block and an event for the accepted socket, *)
(* its first receive, and another AcceptEx.                                 *)
Accept ==
  /\ pc = "wait" /\ acceptOp = "done"
  /\ EventTotal < WSA_MAXIMUM_WAIT_EVENTS
  /\ NewInfo(AcceptSocket, AcceptSocket)
  /\ SocketArray' = Append(SocketArray, AcceptSocket)
  /\ Repost
  /\ UNCHANGED <<netVars, pc>>

(* The AcceptEx has failed, or something the accepted socket needs does:    *)
(* main returns.                                                            *)
AcceptFails ==
  /\ pc = "wait" /\ AcceptSignalled
  /\ \/ "alloc" \in Faults /\ pc' = "noMemory"
     \/ (acceptOp = "failed" \/ ~AcceptedAlive) /\ pc' = "exit"
  /\ UNCHANGED <<netVars, infoVars, acceptVars, SocketArray>>

-----------------------------------------------------------------------------
\* Of the signalled events, that of the connection at index k has the lowest index.
Wakes(k) ==
  /\ pc = "wait" /\ ~AcceptSignalled
  /\ Completed(SocketArray[k])
  /\ \A j \in 1..(k - 1) : ~Completed(SocketArray[j])

\* The operation failed: main returns.
ResultFails(k) ==
  /\ Wakes(k) /\ io[SocketArray[k]].status = "failed"
  /\ pc' = "exit"
  /\ UNCHANGED <<netVars, infoVars, acceptVars, SocketArray>>

\* Zero bytes: the client has closed the connection.
Close(k) ==
  /\ Wakes(k)
  /\ io[SocketArray[k]].status = "done" /\ io[SocketArray[k]].bytes = 0
  /\ FreeInfo(SocketArray[k])
  /\ SocketArray' = Squash(SocketArray, k)
  /\ UNCHANGED <<clientVars, backlog, taken, echo, acceptVars, pc>>

\* The next operation is posted; if that fails at once, main returns.
Serve(k) ==
  /\ Wakes(k)
  /\ \E posted \in BOOLEAN :
       /\ Continue(SocketArray[k], posted)
       /\ pc' = IF posted THEN "wait" ELSE "exit"
  /\ UNCHANGED <<netVars, acceptVars, SocketArray>>

Server ==
  \/ Accept \/ AcceptFails
  \/ \E k \in 1..Len(SocketArray) : ResultFails(k) \/ Close(k) \/ Serve(k)

StackStep(s) == Stack(s) /\ UNCHANGED <<acceptVars, pc, SocketArray>>
AcceptStep == AcceptStack /\ UNCHANGED <<pc, SocketArray>>
ClientStep(c) == Client(c) /\ UNCHANGED <<infoVars, acceptVars, pc, SocketArray>>

Next ==
  \/ Server \/ AcceptStep
  \/ \E s \in Infos : StackStep(s)
  \/ \E c \in Conns : ClientStep(c)

Spec == Init /\ [][Next]_vars

(* The thread runs, the stack completes what it can, clients read what      *)
(* comes back to them.                                                      *)
FairSpec ==
  /\ Spec
  /\ WF_vars(Server) /\ WF_vars(AcceptStep)
  /\ \A s \in Infos : WF_vars(StackStep(s))
  /\ \A c \in Conns :
       WF_vars(ClientRead(c) /\ UNCHANGED <<infoVars, acceptVars, pc, SocketArray>>)
-----------------------------------------------------------------------------
(* The arrays hold each open connection once and nothing else, but for the  *)
(* one that AcceptEx has accepted and main has not seen, in whatever order  *)
(* connections are added, closed and squashed (lines 305-391, 469-523).     *)
ArrayIsOpenSockets ==
  /\ \A c \in Conns :
       (conn[c] = "open" /\ c # AcceptSocket) <=> \E k \in 1..Len(SocketArray) : SocketArray[k] = c
  /\ \A j, k \in 1..Len(SocketArray) : SocketArray[j] = SocketArray[k] => j = k

(* What may end main: memory, and any failed operation of a connection that *)
(* was reset, which takes the service of all others with it (line 461).      *)
Stopped == pc = "noMemory" \/ (SomeReset /\ pc = "exit")

(* Liveness: as long as main runs, a byte a client has sent is echoed ...   *)
EveryByteEchoed ==
  \A c \in Conns : \A k \in 1..MaxBytes :
    (conn[c] \in {"pending", "open"} /\ sent[c] >= k) ~> (Len(echo[c]) >= k \/ Stopped)

(* ... and a client that shuts down gets its connection closed.             *)
ShutdownIsClosed ==
  \A c \in Conns : (conn[c] # "new" /\ fin[c]) ~> (conn[c] = "closed" \/ Stopped)

(* A client gets back what it sends and its connection closed when it is    *)
(* done, however the others behave.                                         *)
ClientsAreServed == EveryByteEchoed /\ ShutdownIsClosed
=============================================================================
