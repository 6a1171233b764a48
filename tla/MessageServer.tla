--------------------------- MODULE MessageServer ---------------------------
(***************************************************************************)
(* WSAAsyncSelect/WSAAsyncSelect.cpp and wsaAsyncSelectServer/             *)
(* RockSocket.cpp: the echo servers built on window messages.  One thread  *)
(* takes messages from its queue, each of which names a socket and a       *)
(* network event, and handles them one at a time.                          *)
(*                                                                         *)
(* RockSocket's window procedure is a copy of the sample's with three      *)
(* differences, which make it a server of its own: a read that returns     *)
(* early still falls through to the write; a write does not look whether   *)
(* the socket is gone; and it returns before it resets the counters.  The  *)
(* variable program says which of the two is running.                      *)
(*                                                                         *)
(* Messages of a socket stay in the queue when it is closed, and a later   *)
(* accept may return the same socket number.                               *)
(***************************************************************************)
EXTENDS Winsock, FiniteSets

CONSTANTS
  DATA_BUFSIZE,  \* bytes of a SOCKET_INFORMATION's Buffer
  Sockets,       \* the socket numbers that accept may return
  Listen,        \* the listening socket
  Programs,      \* which of the two servers are looked at
  Faults         \* failures the behaviour may contain

\* INVALID_SOCKET, which is no socket's number.
NoSocket == "none"

ASSUME MessageAssumption ==
  /\ DATA_BUFSIZE \in Nat \ {0}
  /\ Listen \notin Sockets \cup Conns
  /\ NoSocket \notin Sockets \cup {Listen}
  /\ Programs \subseteq {"WSAAsyncSelect", "RockSocket"}
  /\ Faults \subseteq {"accept", "alloc"}

VARIABLES
  program,    \* the server that runs
  queue,      \* the messages in the thread's queue, oldest first
  handling,   \* the message being handled, or NoMessage
  crashed,    \* has a NULL SOCKET_INFORMATION been used?
  infos,      \* the connections in SocketInfoList
  socket,     \* [Conns -> the socket number of an open connection]
  Buffer,     \* [Conns -> the DATA_BUFSIZE bytes of its SOCKET_INFORMATION]
  BytesRECV,  \* bytes the last receive put into Buffer
  BytesSEND,  \* how many of them have been sent back
  RecvPosted, \* has an FD_READ been put off?
  enabled,    \* the events the stack will tell of each connection
  acceptEnabled,  \* will it tell of the next connection that waits?
  blocked,    \* history: connections on which a send would have blocked,
  short,      \* on which one took only a part,
  misled      \* and for which a message of an earlier connection was handled

ioVars == <<Buffer, BytesRECV, BytesSEND, RecvPosted>>
listVars == <<infos, socket, ioVars>>
stackVars == <<queue, enabled, acceptEnabled>>
history == <<blocked, short, misled>>
serverVars == <<program, handling, crashed, listVars, stackVars, history>>
vars == <<netVars, serverVars>>

(* wParam and lParam of a message, and, for the history, the connection it  *)
(* was posted for.                                                          *)
Message == [sock : Sockets \cup {Listen}, event : Events \cup {"ACCEPT"}, of : Conns \cup {Listen}]
NoMessage == [event |-> "none"]

TypeOK ==
  /\ NetTypeOK
  /\ program \in Programs
  /\ queue \in Seq(Message) /\ handling \in Message \cup {NoMessage}
  /\ crashed \in BOOLEAN
  /\ infos \in SUBSET Conns /\ socket \in [Conns -> Sockets \cup {NoSocket}]
  /\ Buffer \in [Conns -> [1..DATA_BUFSIZE -> Nat]]
  /\ BytesRECV \in [Conns -> 0..DATA_BUFSIZE] /\ BytesSEND \in [Conns -> Nat]
  /\ \A c \in Conns : BytesSEND[c] <= BytesRECV[c]
  /\ RecvPosted \in [Conns -> BOOLEAN]
  /\ enabled \in [Conns -> SUBSET Events] /\ acceptEnabled \in BOOLEAN
  /\ blocked \in SUBSET Conns /\ short \in SUBSET Conns /\ misled \in SUBSET Conns

Init ==
  /\ NetInit
  /\ program \in Programs
  /\ queue = <<>> /\ handling = NoMessage /\ crashed = FALSE
  /\ infos = {} /\ socket = [c \in Conns |-> NoSocket]
  /\ Buffer = [c \in Conns |-> [k \in 1..DATA_BUFSIZE |-> 0]]
  /\ BytesRECV = [c \in Conns |-> 0] /\ BytesSEND = [c \in Conns |-> 0]
  /\ RecvPosted = [c \in Conns |-> FALSE]
  /\ enabled = [c \in Conns |-> {}] /\ acceptEnabled = TRUE
  /\ blocked = {} /\ short = {} /\ misled = {}
-----------------------------------------------------------------------------
(* Plausible bugs, for the mutation runs: the unsent bytes taken from the   *)
(* start of the buffer, and one of the two counters not reset.              *)
UnsentFromStart(c, n) == [k \in 1..n |-> Buffer[c][k]]
ResetsOne(c) == BytesRECV' = [BytesRECV EXCEPT ![c] = 0] /\ UNCHANGED BytesSEND

IsRock == program = "RockSocket"

\* GetSocketInformation finds the entry of c for the message, or none.
Finds(c) == c \in infos /\ socket[c] = handling.sock
FindsNone == \A c \in infos : socket[c] # handling.sock

\* The receive buffer is empty: only then is read.
Empty(c) == BytesRECV[c] = 0

\* The next n bytes that a send takes from the buffer.
Unsent(c, n) == [k \in 1..n |-> Buffer[c][BytesSEND[c] + k]]

Msg(c, e) == [sock |-> socket[c], event |-> e, of |-> c]

Finish == handling' = NoMessage
GoOnTo(e) == handling' = [handling EXCEPT !.event = e]

\* onRead returns early: WindowProc returns with it, wndProc goes on to onWrite.
ReturnFromRead == IF IsRock THEN GoOnTo("WRITE") ELSE Finish

(* GetSocketInformation has returned NULL, and it is used all the same.     *)
Crash == crashed' = TRUE /\ Finish

\* closesocket and GlobalFree; the messages in the queue stay there.
FreeSocketInformation(c) ==
  /\ infos' = infos \ {c}
  /\ conn' = [conn EXCEPT ![c] = "closed"]
  /\ socket' = [socket EXCEPT ![c] = NoSocket]
  /\ enabled' = [enabled EXCEPT ![c] = {}]
  /\ UNCHANGED <<clientVars, backlog, taken, echo, program, queue, acceptEnabled, ioVars, history>>
-----------------------------------------------------------------------------
(* GetMessage and DispatchMessage. *)
Dispatch ==
  /\ handling = NoMessage /\ queue # <<>>
  /\ handling' = Head(queue)
  /\ queue' = Tail(queue)
  /\ misled' = misled \cup {c \in Conns : socket[c] = Head(queue).sock /\ c # Head(queue).of}
  /\ UNCHANGED <<netVars, program, crashed, listVars, enabled, acceptEnabled, blocked, short>>

\* accept returns a socket number nobody has; from then on its events are told.
TakeSocket(c) ==
  \E s \in Sockets :
    /\ \A d \in Conns : socket[d] # s
    /\ socket' = [socket EXCEPT ![c] = s]
    /\ conn' = [conn EXCEPT ![c] = "open"]
    /\ enabled' = [enabled EXCEPT ![c] = Events]

\* accept, which enables the event for the next connection, is over.
Accepted ==
  /\ backlog' = Tail(backlog)
  /\ acceptEnabled' = TRUE
  /\ Finish
  /\ UNCHANGED <<clientVars, taken, echo, program, crashed, queue, ioVars, history>>

Accept ==
  /\ handling.event = "ACCEPT"
  /\ TakeSocket(Head(backlog))
  /\ infos' = infos \cup {Head(backlog)}
  /\ Accepted

\* No SOCKET_INFORMATION is allocated, and nobody asks.
CreateFails ==
  /\ "alloc" \in Faults
  /\ handling.event = "ACCEPT"
  /\ TakeSocket(Head(backlog))
  /\ UNCHANGED infos
  /\ Accepted

\* accept fails for a connection that was reset.
AcceptFails ==
  /\ "accept" \in Faults
  /\ handling.event = "ACCEPT" /\ rst[Head(backlog)]
  /\ conn' = [conn EXCEPT ![Head(backlog)] = "closed"]
  /\ UNCHANGED <<infos, socket, enabled>>
  /\ Accepted
-----------------------------------------------------------------------------
(* FD_READ. *)

\* Every receive, whatever it returns, enables FD_READ.
Received(c) == enabled' = [enabled EXCEPT ![c] = @ \cup {"READ"}]

\* Bytes are still unsent: the read is put off.
PutOff(c) ==
  /\ handling.event = "READ" /\ Finds(c) /\ ~Empty(c)
  /\ RecvPosted' = [RecvPosted EXCEPT ![c] = TRUE]
  /\ ReturnFromRead
  /\ UNCHANGED <<netVars, program, crashed, infos, socket, Buffer, BytesRECV, BytesSEND,
                 stackVars, history>>

Recv(c, n) ==
  /\ handling.event = "READ" /\ Finds(c) /\ Empty(c)
  /\ n > 0 /\ CanRecv(c, DATA_BUFSIZE, n)
  /\ Buffer' = [Buffer EXCEPT ![c] = Overwrite(@, Incoming(c, n))]
  /\ BytesRECV' = [BytesRECV EXCEPT ![c] = n]
  /\ taken' = [taken EXCEPT ![c] = @ + n]
  /\ Received(c)
  /\ GoOnTo("WRITE")
  /\ UNCHANGED <<clientVars, conn, backlog, echo, program, crashed, infos, socket, BytesSEND,
                 RecvPosted, queue, acceptEnabled, history>>

\* Zero bytes or WSAEWOULDBLOCK.
RecvNothing(c) ==
  /\ handling.event = "READ" /\ Finds(c) /\ Empty(c)
  /\ CanRecv(c, DATA_BUFSIZE, 0) \/ RecvWouldBlock(c)
  /\ Received(c)
  /\ GoOnTo("WRITE")
  /\ UNCHANGED <<netVars, program, crashed, listVars, queue, acceptEnabled, history>>

RecvFails(c) ==
  /\ handling.event = "READ" /\ Finds(c) /\ Empty(c) /\ HardError(c)
  /\ FreeSocketInformation(c)
  /\ ReturnFromRead
  /\ UNCHANGED crashed

ReadGone ==
  /\ handling.event = "READ" /\ FindsNone
  /\ Crash
  /\ UNCHANGED <<netVars, program, listVars, stackVars, history>>
-----------------------------------------------------------------------------
(* FD_WRITE, by itself or after FD_READ. *)

\* Two more: an FD_READ that was put off is forgotten, or one is posted though none was.
ForgetsRead(c) == queue' = queue /\ RecvPosted' = [RecvPosted EXCEPT ![c] = FALSE]
AlwaysPosts(c) ==
  queue' = Append(queue, Msg(c, "READ")) /\ RecvPosted' = [RecvPosted EXCEPT ![c] = FALSE]

\* Everything received has been sent back: the buffer is empty ...
ResetCounts(c) ==
  /\ BytesRECV' = [BytesRECV EXCEPT ![c] = 0]
  /\ BytesSEND' = [BytesSEND EXCEPT ![c] = 0]

\* ... and the read that was put off, if any, is due.
PostReadAgain(c) ==
  /\ queue' = IF RecvPosted[c] THEN Append(queue, Msg(c, "READ")) ELSE queue
  /\ RecvPosted' = [RecvPosted EXCEPT ![c] = FALSE]

Writing(c) == handling.event = "WRITE" /\ Finds(c)

(* The sample empties the buffer at once; RockSocket returns before that,   *)
(* and does it on the next call that finds nothing to send.                 *)
Send(c, n) ==
  /\ Writing(c) /\ CanSend(c, BytesRECV[c] - BytesSEND[c], n)
  /\ echo' = [echo EXCEPT ![c] = @ \o Unsent(c, n)]
  /\ LET all == BytesSEND[c] + n = BytesRECV[c] IN
       /\ short' = IF all THEN short ELSE short \cup {c}
       /\ IF all /\ ~IsRock
          THEN ResetCounts(c) /\ PostReadAgain(c)
          ELSE /\ BytesSEND' = [BytesSEND EXCEPT ![c] = @ + n]
               /\ UNCHANGED <<BytesRECV, queue, RecvPosted>>
  /\ Finish
  /\ UNCHANGED <<clientVars, conn, backlog, taken, program, crashed, infos, socket, Buffer,
                 enabled, acceptEnabled, blocked, misled>>

NothingToSend(c) ==
  /\ Writing(c) /\ BytesSEND[c] = BytesRECV[c]
  /\ ResetCounts(c)
  /\ PostReadAgain(c)
  /\ Finish
  /\ UNCHANGED <<netVars, program, crashed, infos, socket, Buffer, enabled, acceptEnabled, history>>

\* A send that would block enables FD_WRITE.
SendBlocks(c) ==
  /\ Writing(c) /\ BytesRECV[c] > BytesSEND[c] /\ SendWouldBlock(c)
  /\ enabled' = [enabled EXCEPT ![c] = @ \cup {"WRITE"}]
  /\ blocked' = blocked \cup {c}
  /\ Finish
  /\ UNCHANGED <<netVars, program, crashed, listVars, queue, acceptEnabled, short, misled>>

SendFails(c) ==
  /\ Writing(c) /\ BytesRECV[c] > BytesSEND[c] /\ HardError(c)
  /\ FreeSocketInformation(c)
  /\ Finish
  /\ UNCHANGED crashed

\* The socket is gone: the sample looks, RockSocket does not.
WriteGone ==
  /\ handling.event = "WRITE" /\ FindsNone
  /\ IF IsRock THEN Crash ELSE Finish /\ UNCHANGED crashed
  /\ UNCHANGED <<netVars, program, listVars, stackVars, history>>
-----------------------------------------------------------------------------
(* FD_CLOSE, with an error ("ABORT") or without.  The other events come with *)
(* one only when the network is down (WSAENETDOWN); that is left out.       *)
Close(c) ==
  /\ handling.event \in {"CLOSE", "ABORT"} /\ Finds(c)
  /\ FreeSocketInformation(c)
  /\ Finish
  /\ UNCHANGED crashed

CloseGone ==
  /\ handling.event \in {"CLOSE", "ABORT"} /\ FindsNone
  /\ Finish
  /\ UNCHANGED <<netVars, program, crashed, listVars, stackVars, history>>

Read(c) ==
  \/ PutOff(c) \/ RecvNothing(c) \/ RecvFails(c)
  \/ \E n \in 1..DATA_BUFSIZE : Recv(c, n)

Write(c) ==
  \/ NothingToSend(c) \/ SendBlocks(c) \/ SendFails(c)
  \/ \E n \in 1..DATA_BUFSIZE : Send(c, n)

WindowThread ==
  \/ Dispatch \/ Accept \/ CreateFails \/ AcceptFails
  \/ ReadGone \/ WriteGone \/ CloseGone
  \/ \E c \in Conns : Read(c) \/ Write(c) \/ Close(c)
-----------------------------------------------------------------------------
(* The stack posts a message for what is enabled and is the case.           *)
Post(c, e) ==
  /\ conn[c] = "open" /\ e \in enabled[c] /\ IsTheCase(c, e)
  /\ queue' = Append(queue, Msg(c, e))
  /\ enabled' = [enabled EXCEPT ![c] = @ \ SpentWith(e)]
  /\ UNCHANGED <<netVars, program, handling, crashed, listVars, acceptEnabled, history>>

PostAccept ==
  /\ acceptEnabled /\ backlog # <<>>
  /\ queue' = Append(queue, [sock |-> Listen, event |-> "ACCEPT", of |-> Listen])
  /\ acceptEnabled' = FALSE
  /\ UNCHANGED <<netVars, program, handling, crashed, listVars, enabled, history>>

ClientStep(c) == Client(c) /\ UNCHANGED serverVars

\* Once the server has crashed nothing is of interest any more.
Next ==
  /\ ~crashed
  /\ \/ WindowThread \/ PostAccept
     \/ \E c \in Conns : ClientStep(c) \/ \E e \in Events : Post(c, e)

Spec == Init /\ [][Next]_vars
-----------------------------------------------------------------------------
(* What stops the flow on a connection: the sample is not told of room for  *)
(* the rest of a send that took a part; RockSocket, which empties the       *)
(* buffer one call late, does not survive a send that blocks either.        *)
Stuck == IF IsRock THEN short \cup blocked ELSE short

\* The accepted connections that got no SOCKET_INFORMATION.
Orphans == {c \in Conns : conn[c] = "open"} \ infos

\* The places in the queue of the messages of c that tell of e.
Told(c, e) == {k \in 1..Len(queue) : queue[k].of = c /\ queue[k].event = e}
Handled(c, e) == handling.event = e /\ handling.of = c

(* The one FD_READ of a connection is in exactly one place: to be told, in  *)
(* the queue, being handled, or put off; and one that is put off will be    *)
(* posted again, as the write that is due will see to it.  So no read is    *)
(* lost and none is doubled, however reads, writes and posts alternate      *)
(* (WSAAsyncSelect.cpp lines 338-475, RockSocket.cpp 402-490).              *)
ReadIsOwed ==
  \A c \in infos \ misled :
    /\ LET here(p) == IF p THEN 1 ELSE 0 IN
         here("READ" \in enabled[c]) + Cardinality(Told(c, "READ")) + here(Handled(c, "READ"))
           + here(RecvPosted[c]) = 1
    /\ RecvPosted[c] /\ c \notin Stuck =>
         "WRITE" \in enabled[c] \/ Told(c, "WRITE") # {} \/ Handled(c, "WRITE")

(* A SOCKET_INFORMATION that is gone is used (WSAAsyncSelect.cpp line 344,  *)
(* RockSocket.cpp 412 and 454) only if some connection was reset or got     *)
(* none at all, and by RockSocket also if a client has shut down.  So       *)
(* clients that close their connections do not take the sample down,        *)
(* although their messages stay in the queue.                               *)
CrashHasCause ==
  crashed => SomeReset \/ Orphans # {} \/ (IsRock /\ \E c \in Conns : fin[c])

(* The echo is exact; a connection is closed only once it was reset, or was *)
(* shut down and, if every send took all it was given, echoed in full; or   *)
(* if it has the socket number of one that was.                             *)
Lossy == misled \cup {c \in blocked \cup short : fin[c]}
Promise == INSTANCE EchoService WITH lossy <- Lossy
EchoServiceSpec == Promise!Spec
=============================================================================
