------------------------- MODULE EventSelectServer -------------------------
(***************************************************************************)
(* WSAEventSelect/WSAEventSelect.cpp: the echo server built on network     *)
(* events.  One thread waits for the event objects of the listening socket *)
(* and the connections, takes the lowest signalled one, fetches the network*)
(* events recorded for its socket, and acts on them.                       *)
(*                                                                         *)
(* The stack records an event of a socket once and records it again only   *)
(* after a call enabled it: a receive enables FD_READ, a send that would   *)
(* block enables FD_WRITE.                                                 *)
(***************************************************************************)
EXTENDS Winsock, FiniteSets

CONSTANTS
  DATA_BUFSIZE,             \* bytes of a SOCKET_INFORMATION's Buffer
  WSA_MAXIMUM_WAIT_EVENTS,  \* entries of EventArray and SocketArray
  Faults                    \* failures the behaviour may contain

(* The check against the size of the arrays (line 275) lets one connection *)
(* too many through; the module ends where the arrays do.                   *)
ASSUME EventAssumption ==
  /\ DATA_BUFSIZE \in Nat \ {0}
  /\ WSA_MAXIMUM_WAIT_EVENTS \in Nat \ {0}
  /\ Faults \subseteq {"accept", "alloc", "netdown"}

VARIABLES
  pc,             \* "wait", "read", "write", "close", or "exit" once main returned
  SocketArray,    \* the connections from index 1 on, in the order of the C array
  Buffer,         \* [Conns -> the DATA_BUFSIZE bytes of its SOCKET_INFORMATION]
  BytesRECV,      \* bytes the last receive put into Buffer
  BytesSEND,      \* how many of them have been sent back
  Event,          \* the index being handled
  NetworkEvents,  \* what was recorded for it
  recorded,       \* the events the stack has recorded for each socket
  enabled,        \* the events the stack will record
  orphans,        \* accepted sockets for which nothing was allocated
  refused         \* history: sockets on which a send did not take all it was given

ioVars == <<Buffer, BytesRECV, BytesSEND>>
eventVars == <<recorded, enabled>>
serverVars == <<pc, SocketArray, ioVars, Event, NetworkEvents, eventVars, orphans, refused>>
vars == <<netVars, serverVars>>

TypeOK ==
  /\ NetTypeOK
  /\ pc \in {"wait", "read", "write", "close", "exit"}
  /\ SocketArray \in Seq(Conns)
  /\ Buffer \in [Conns -> [1..DATA_BUFSIZE -> Nat]]
  /\ BytesRECV \in [Conns -> 0..DATA_BUFSIZE]
  /\ BytesSEND \in [Conns -> 0..DATA_BUFSIZE]
  /\ Event \in Nat
  /\ NetworkEvents \subseteq Events
  /\ recorded \in [Conns -> SUBSET Events]
  /\ enabled \in [Conns -> SUBSET Events]
  /\ orphans \subseteq Conns
  /\ refused \subseteq Conns

Init ==
  /\ NetInit
  /\ pc = "wait"
  /\ SocketArray = <<>>
  /\ Buffer = [c \in Conns |-> [k \in 1..DATA_BUFSIZE |-> 0]]
  /\ BytesRECV = [c \in Conns |-> 0]
  /\ BytesSEND = [c \in Conns |-> 0]
  /\ Event = 0 /\ NetworkEvents = {}
  /\ recorded = [c \in Conns |-> {}]
  /\ enabled = [c \in Conns |-> {}]
  /\ orphans = {} /\ refused = {}
-----------------------------------------------------------------------------
(* Plausible bugs, for the mutation runs: the squash off by one, or no more *)
(* than a cleared entry; the unsent bytes taken from the start of the       *)
(* buffer; an answer that would not enable FD_READ.                         *)
SquashOffByOne(arr, x) == [k \in 1..(Len(arr) - 1) |-> IF k <= x THEN arr[k] ELSE arr[k + 1]]
SquashLeavesHole(arr, x) == [arr EXCEPT ![x] = 0]
UnsentFromStart(c, n) == [k \in 1..n |-> Buffer[c][k]]
NotEnabled == UNCHANGED enabled

\* The connection being handled.
Current == SocketArray[Event]

EventTotal == 1 + Len(SocketArray)

\* The receive buffer is empty: only then is read.
Empty(c) == BytesRECV[c] = 0

\* The next n bytes that a send takes from the buffer.
Unsent(c, n) == [k \in 1..n |-> Buffer[c][BytesSEND[c] + k]]

\* A send of n bytes has emptied the buffer.
AllSent(c, n) == BytesSEND[c] + n = BytesRECV[c]

\* The entry at index x goes and the later ones move up.
Squash(arr, x) == [k \in 1..(Len(arr) - 1) |-> IF k < x THEN arr[k] ELSE arr[k + 1]]

FreeSocketInformation ==
  /\ conn' = [conn EXCEPT ![Current] = "closed"]
  /\ SocketArray' = Squash(SocketArray, Event)
  /\ recorded' = [recorded EXCEPT ![Current] = {}]
  /\ enabled' = [enabled EXCEPT ![Current] = {}]

\* Once reading and writing are done: FD_CLOSE, or back to the wait.
AfterIO == IF NetworkEvents \cap {"CLOSE", "ABORT"} # {} THEN "close" ELSE "wait"
-----------------------------------------------------------------------------
(* FD_ACCEPT, at index 0.  accept enables the event again, so that it comes *)
(* as long as a connection waits.                                           *)

\* CreateSocketInformation, then WSAEventSelect, which records from now on.
Accept ==
  /\ pc = "wait" /\ backlog # <<>>
  /\ EventTotal < WSA_MAXIMUM_WAIT_EVENTS
  /\ LET c == Head(backlog) IN
       /\ conn' = [conn EXCEPT ![c] = "open"]
       /\ SocketArray' = Append(SocketArray, c)
       /\ enabled' = [enabled EXCEPT ![c] = Events]
  /\ backlog' = Tail(backlog)
  /\ UNCHANGED <<clientVars, taken, echo, pc, ioVars, Event, NetworkEvents, recorded, orphans, refused>>

(* The allocation fails.  That is not checked: the socket is bound to the   *)
(* event of the last connection, where nobody looks for it.                 *)
CreateFails ==
  /\ "alloc" \in Faults
  /\ pc = "wait" /\ backlog # <<>>
  /\ EventTotal < WSA_MAXIMUM_WAIT_EVENTS
  /\ conn' = [conn EXCEPT ![Head(backlog)] = "open"]
  /\ orphans' = orphans \cup {Head(backlog)}
  /\ backlog' = Tail(backlog)
  /\ UNCHANGED <<clientVars, taken, echo, pc, SocketArray, ioVars, Event, NetworkEvents, eventVars,
                 refused>>

\* WSAEventSelect fails, whether or not the socket got its entry: main returns.
EventSelectFails ==
  /\ "netdown" \in Faults
  /\ pc = "wait" /\ backlog # <<>>
  /\ EventTotal < WSA_MAXIMUM_WAIT_EVENTS
  /\ LET c == Head(backlog) IN
       /\ conn' = [conn EXCEPT ![c] = "open"]
       /\ \/ SocketArray' = Append(SocketArray, c) /\ UNCHANGED orphans
          \/ "alloc" \in Faults /\ orphans' = orphans \cup {c} /\ UNCHANGED SocketArray
  /\ backlog' = Tail(backlog)
  /\ pc' = "exit"
  /\ UNCHANGED <<clientVars, taken, echo, ioVars, Event, NetworkEvents, eventVars, refused>>

\* accept fails for a connection that was reset: main leaves the loop.
AcceptFails ==
  /\ "accept" \in Faults
  /\ pc = "wait" /\ backlog # <<>> /\ rst[Head(backlog)]
  /\ conn' = [conn EXCEPT ![Head(backlog)] = "closed"]
  /\ backlog' = Tail(backlog)
  /\ pc' = "exit"
  /\ UNCHANGED <<clientVars, taken, echo, SocketArray, ioVars, Event, NetworkEvents, eventVars,
                 orphans, refused>>
-----------------------------------------------------------------------------
\* Of the signalled events, that of the connection at index k has the lowest index.
Wakes(k) ==
  /\ pc = "wait" /\ backlog = <<>>
  /\ recorded[SocketArray[k]] # {}
  /\ \A j \in 1..(k - 1) : recorded[SocketArray[j]] = {}

\* WSAEnumNetworkEvents takes what is recorded and resets the event.
Enumerate(k) ==
  /\ Wakes(k)
  /\ LET c == SocketArray[k] IN
       /\ NetworkEvents' = recorded[c]
       /\ recorded' = [recorded EXCEPT ![c] = {}]
       /\ pc' = IF recorded[c] \cap {"READ", "WRITE"} = {} THEN "close"
                ELSE IF Empty(c) THEN "read" ELSE "write"
  /\ Event' = k
  /\ UNCHANGED <<netVars, SocketArray, ioVars, enabled, orphans, refused>>

(* The wait or WSAEnumNetworkEvents fails, or an FD_ACCEPT, FD_READ or       *)
(* FD_WRITE comes with an error: main leaves the loop.                      *)
WaitFails ==
  /\ "netdown" \in Faults
  /\ pc = "wait"
  /\ pc' = "exit"
  /\ UNCHANGED <<netVars, SocketArray, ioVars, Event, NetworkEvents, eventVars, orphans, refused>>

\* Every receive, whatever it returns, enables FD_READ.
Received == enabled' = [enabled EXCEPT ![Current] = @ \cup {"READ"}]

Recv(n) ==
  /\ pc = "read"
  /\ n > 0 /\ CanRecv(Current, DATA_BUFSIZE, n)
  /\ Buffer' = [Buffer EXCEPT ![Current] = Overwrite(@, Incoming(Current, n))]
  /\ BytesRECV' = [BytesRECV EXCEPT ![Current] = n]
  /\ taken' = [taken EXCEPT ![Current] = @ + n]
  /\ Received
  /\ pc' = "write"
  /\ UNCHANGED <<clientVars, conn, backlog, echo, SocketArray, BytesSEND, Event, NetworkEvents,
                 recorded, orphans, refused>>

\* Zero bytes, or WSAEWOULDBLOCK: nothing to send either.
RecvNothing ==
  /\ pc = "read"
  /\ CanRecv(Current, DATA_BUFSIZE, 0) \/ RecvWouldBlock(Current)
  /\ Received
  /\ pc' = AfterIO
  /\ UNCHANGED <<netVars, SocketArray, ioVars, Event, NetworkEvents, recorded, orphans, refused>>

Send(n) ==
  /\ pc = "write"
  /\ CanSend(Current, BytesRECV[Current] - BytesSEND[Current], n)
  /\ echo' = [echo EXCEPT ![Current] = @ \o Unsent(Current, n)]
  /\ LET left == ~AllSent(Current, n) IN
       /\ BytesRECV' = [BytesRECV EXCEPT ![Current] = IF left THEN @ ELSE 0]
       /\ BytesSEND' = [BytesSEND EXCEPT ![Current] = IF left THEN @ + n ELSE 0]
       /\ refused' = IF left THEN refused \cup {Current} ELSE refused
  /\ pc' = AfterIO
  /\ UNCHANGED <<clientVars, conn, backlog, taken, SocketArray, Buffer, Event, NetworkEvents,
                 eventVars, orphans>>

\* A send that would block enables FD_WRITE.
SendBlocks ==
  /\ pc = "write" /\ SendWouldBlock(Current)
  /\ enabled' = [enabled EXCEPT ![Current] = @ \cup {"WRITE"}]
  /\ refused' = refused \cup {Current}
  /\ pc' = AfterIO
  /\ UNCHANGED <<netVars, SocketArray, ioVars, Event, NetworkEvents, recorded, orphans>>

\* WSARecv or WSASend fails for good: the socket is freed, and main returns.
Fail ==
  /\ pc \in {"read", "write"} /\ HardError(Current)
  /\ FreeSocketInformation
  /\ pc' = "exit"
  /\ UNCHANGED <<clientVars, backlog, taken, echo, ioVars, Event, NetworkEvents, orphans, refused>>

\* FD_CLOSE: the client has shut down ...
Close ==
  /\ pc = "close" /\ "ABORT" \notin NetworkEvents
  /\ FreeSocketInformation
  /\ pc' = "wait"
  /\ UNCHANGED <<clientVars, backlog, taken, echo, ioVars, Event, NetworkEvents, orphans, refused>>

\* ... or reset the connection, and main leaves the loop.
CloseFails ==
  /\ pc = "close" /\ "ABORT" \in NetworkEvents
  /\ pc' = "exit"
  /\ UNCHANGED <<netVars, SocketArray, ioVars, Event, NetworkEvents, eventVars, orphans, refused>>

Server ==
  \/ Accept \/ CreateFails \/ EventSelectFails \/ AcceptFails
  \/ WaitFails \/ \E k \in 1..Len(SocketArray) : Enumerate(k)
  \/ \E n \in 1..DATA_BUFSIZE : Recv(n) \/ Send(n)
  \/ RecvNothing \/ SendBlocks \/ Fail \/ Close \/ CloseFails
-----------------------------------------------------------------------------
\* The stack records what is enabled and is the case.
Stack(c) ==
  LET new == {e \in enabled[c] : IsTheCase(c, e)} IN
    /\ conn[c] = "open" /\ new # {}
    /\ recorded' = [recorded EXCEPT ![c] = @ \cup new]
    /\ enabled' = [enabled EXCEPT ![c] = @ \ UNION {SpentWith(e) : e \in new}]
    /\ UNCHANGED <<netVars, pc, SocketArray, ioVars, Event, NetworkEvents, orphans, refused>>

ClientStep(c) == Client(c) /\ UNCHANGED serverVars

\* Once main has returned nothing is of interest any more.
Running == pc # "exit"

Next == Server \/ (Running /\ \E c \in Conns : Stack(c) \/ ClientStep(c))

Spec == Init /\ [][Next]_vars

(* The thread runs, and its wait is not bound to fail because there is no   *)
(* event; the stack records what it should; clients read what comes back.   *)
FairSpec ==
  /\ Spec
  /\ WF_vars(Server /\ ~WaitFails)
  /\ \A c \in Conns : WF_vars(Running /\ Stack(c))
  /\ \A c \in Conns : WF_vars(Running /\ ClientRead(c) /\ UNCHANGED serverVars)
-----------------------------------------------------------------------------
(* The arrays hold each open connection once and nothing else, but for the  *)
(* sockets that got no block, however connections come and go between the   *)
(* wait and the use of its index (lines 209-227, 553-555, 591-601).         *)
ArrayIsOpenSockets ==
  /\ \A c \in Conns :
       (conn[c] = "open" /\ c \notin orphans) <=> \E k \in 1..Len(SocketArray) : SocketArray[k] = c
  /\ \A j, k \in 1..Len(SocketArray) : SocketArray[j] = SocketArray[k] => j = k

(* The echo is exact, and a connection is closed only once it was reset, or *)
(* was shut down and, if no send on it was ever refused, echoed in full:    *)
(* FD_CLOSE (lines 469-491) drops the bytes of a send that was.             *)
Promise == INSTANCE EchoService WITH lossy <- {c \in refused : fin[c]}
EchoServiceSpec == Promise!Spec

Excused(c) == rst[c] \/ c \in orphans \/ pc = "exit"

(* The header comment (lines 23-27): what a client sends is echoed, until   *)
(* it closes the connection.                                                *)
EveryByteEchoed ==
  \A c \in Conns : \A k \in 1..MaxBytes :
    (conn[c] \in {"pending", "open"} /\ sent[c] >= k)
      ~> (Len(echo[c]) >= k \/ fin[c] \/ Excused(c))

(* An event that a client waits for is never lost: as long as it is the case *)
(* it is recorded, will be, or is being handled.  This is what a server on   *)
(* once-recorded events lives by; it holds for a connection on which no send *)
(* was ever refused, for FD_READ is dropped when the buffer is not empty     *)
(* (lines 317-359, 469).                                                     *)
NoEventLost ==
  \A c \in Conns \ (orphans \cup refused) :
    LET upcoming == enabled[c] \cup recorded[c]
        handled(places) == pc \in places /\ Current = c
    IN  conn[c] = "open" /\ ~rst[c] /\ pc # "exit" =>
          /\ Avail(c) > 0 => "READ" \in upcoming \/ handled({"read"})
          /\ fin[c] => "CLOSE" \in upcoming
                         \/ (handled({"read", "write", "close"}) /\ "CLOSE" \in NetworkEvents)
=============================================================================
