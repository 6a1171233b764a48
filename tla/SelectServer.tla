---------------------------- MODULE SelectServer ----------------------------
(***************************************************************************)
(* SocketioSelect/SocketioSelect.cpp: the echo server built on select().   *)
(* One thread; its main loop is the cycle Select, Accept, then one service *)
(* step per entry of SocketArray.  Clients act between any two of its      *)
(* calls, so what select() reported may be stale when it is used.          *)
(***************************************************************************)
EXTENDS Winsock, FiniteSets

CONSTANTS
  DATA_BUFSIZE,   \* bytes of a SOCKET_INFORMATION's Buffer
  FD_SETSIZE,     \* capacity of an FD_SET, and entries of SocketArray
  ListenSocket,   \* the listening socket
  Faults          \* failures the behaviour may contain

(* SocketArray has FD_SETSIZE entries and CreateSocketInformation writes    *)
(* the next one unchecked: more connections than that leave the program's   *)
(* defined behaviour, and this module.                                      *)
ASSUME SelectAssumption ==
  /\ DATA_BUFSIZE \in Nat \ {0}
  /\ FD_SETSIZE \in Nat \ {0}
  /\ ListenSocket \notin Conns
  /\ Faults \subseteq {"select", "accept", "alloc", "wouldblock"}

VARIABLES
  pc,           \* "select", "accept", "service", or "exit" once main returned
  SocketArray,  \* the connections served, in the order of the C array
  Buffer,       \* [Conns -> the DATA_BUFSIZE bytes of its SOCKET_INFORMATION]
  BytesRECV,    \* bytes the last receive put into Buffer
  BytesSEND,    \* how many of them have been sent back
  ReadSet,      \* the sockets select() left in each FD_SET
  WriteSet,
  Total,        \* ready sockets not yet handled
  i             \* index of the service loop (1-based)

serverVars == <<pc, SocketArray, Buffer, BytesRECV, BytesSEND, ReadSet, WriteSet, Total, i>>
vars == <<netVars, serverVars>>

TypeOK ==
  /\ NetTypeOK
  /\ pc \in {"select", "accept", "service", "exit"}
  /\ SocketArray \in Seq(Conns)
  /\ Buffer \in [Conns -> [1..DATA_BUFSIZE -> Nat]]
  /\ BytesRECV \in [Conns -> 0..DATA_BUFSIZE]
  /\ BytesSEND \in [Conns -> 0..DATA_BUFSIZE]
  /\ ReadSet \subseteq Conns \cup {ListenSocket}
  /\ WriteSet \subseteq Conns
  /\ Total \in Int
  /\ i \in Nat \ {0}

Init ==
  /\ NetInit
  /\ pc = "select"
  /\ SocketArray = <<>>
  /\ Buffer = [c \in Conns |-> [k \in 1..DATA_BUFSIZE |-> 0]]
  /\ BytesRECV = [c \in Conns |-> 0]
  /\ BytesSEND = [c \in Conns |-> 0]
  /\ ReadSet = {} /\ WriteSet = {}
  /\ Total = 0
  /\ i = 1
-----------------------------------------------------------------------------
TotalSockets == Len(SocketArray)

(* Plausible bugs, for the mutation runs: a partly sent buffer taken for    *)
(* empty; every socket asked about in both sets; the loop's last entry left *)
(* out; the squash off by one; the count not decremented; the offset of the *)
(* unsent bytes forgotten; Total counted for sockets that were not ready.   *)
PendingUnstarted(c) == BytesSEND[c] = 0 /\ BytesRECV[c] > 0
FdSetBoth(write, room) == {SocketArray[k] : k \in 1..TotalSockets}
FdSetButLast(write, room) ==
  {SocketArray[k] : k \in {k \in 1..TotalSockets - 1 :
     (BytesRECV[SocketArray[k]] > BytesSEND[SocketArray[k]]) <=> write}}
SquashOffByOne(arr, x) == [k \in 1..(Len(arr) - 1) |-> IF k <= x THEN arr[k] ELSE arr[k + 1]]
SquashKeepsCount(arr, x) ==
  [k \in 1..Len(arr) |-> IF k < x THEN arr[k] ELSE IF k < Len(arr) THEN arr[k + 1] ELSE ListenSocket]
UnsentFromStart(c, n) == [k \in 1..n |-> Buffer[c][k]]

\* A connection with unsent bytes waits to write, any other one to read.
Pending(c) == BytesRECV[c] > BytesSEND[c]

(* The sockets of SocketArray that wait for reading (write = FALSE) or for *)
(* writing; FD_SET silently ignores a socket once the set holds `room'.    *)
FdSet(write, room) ==
  LET wants == {k \in 1..TotalSockets : (Pending(SocketArray[k]) <=> write)}
  IN  {SocketArray[k] : k \in {k \in wants : Cardinality({j \in wants : j < k}) < room}}

\* The next n bytes that a send takes from the buffer.
Unsent(c, n) == [k \in 1..n |-> Buffer[c][BytesSEND[c] + k]]

\* FreeSocketInformation(Index): close the socket and close the gap.
Squash(arr, x) == [k \in 1..(Len(arr) - 1) |-> IF k < x THEN arr[k] ELSE arr[k + 1]]

FreeSocketInformation(c) ==
  /\ conn' = [conn EXCEPT ![c] = "closed"]
  /\ SocketArray' = Squash(SocketArray, i)
-----------------------------------------------------------------------------
(* select(): blocks until a watched socket is ready, then leaves exactly   *)
(* the ready ones in the sets.                                             *)
Select ==
  /\ pc = "select"
  /\ LET readable == {c \in FdSet(FALSE, FD_SETSIZE - 1) : Readable(c)}
         incoming == IF backlog # <<>> THEN {ListenSocket} ELSE {}
         writable == {c \in FdSet(TRUE, FD_SETSIZE) : Writable(c)}
     IN  /\ readable \cup incoming \cup writable # {}
         /\ ReadSet' = readable \cup incoming
         /\ WriteSet' = writable
         /\ Total' = Cardinality(readable \cup incoming) + Cardinality(writable)
  /\ pc' = "accept"
  /\ UNCHANGED <<netVars, SocketArray, Buffer, BytesRECV, BytesSEND, i>>

\* select() reports an error: main returns, and nobody looks at the sets or Total again.
SelectFails ==
  /\ "select" \in Faults
  /\ pc = "select"
  /\ pc' = "exit"
  /\ UNCHANGED <<netVars, SocketArray, Buffer, BytesRECV, BytesSEND, ReadSet, WriteSet, Total, i>>

\* The listening socket is not ready: on to the service loop.
NoArrival ==
  /\ pc = "accept" /\ ListenSocket \notin ReadSet
  /\ pc' = "service" /\ i' = 1
  /\ UNCHANGED <<netVars, SocketArray, Buffer, BytesRECV, BytesSEND, ReadSet, WriteSet, Total>>

\* accept() and CreateSocketInformation, with its buffer zeroed.
Accept ==
  /\ pc = "accept" /\ ListenSocket \in ReadSet
  /\ backlog # <<>>
  /\ TotalSockets < FD_SETSIZE
  /\ LET c == Head(backlog) IN
       /\ conn' = [conn EXCEPT ![c] = "open"]
       /\ SocketArray' = Append(SocketArray, c)
       /\ Buffer' = [Buffer EXCEPT ![c] = [k \in 1..DATA_BUFSIZE |-> 0]]
       /\ BytesRECV' = [BytesRECV EXCEPT ![c] = 0]
       /\ BytesSEND' = [BytesSEND EXCEPT ![c] = 0]
  /\ backlog' = Tail(backlog)
  /\ Total' = Total - 1
  /\ pc' = "service" /\ i' = 1
  /\ UNCHANGED <<clientVars, taken, echo, ReadSet, WriteSet>>

(* The connection was reset while it waited: the stack has dropped it.     *)
(* accept() reports WSAEWOULDBLOCK, and the loop goes on ...               *)
AcceptWouldBlock ==
  /\ pc = "accept" /\ ListenSocket \in ReadSet
  /\ backlog # <<>> /\ rst[Head(backlog)]
  /\ conn' = [conn EXCEPT ![Head(backlog)] = "closed"]
  /\ backlog' = Tail(backlog)
  /\ Total' = Total - 1
  /\ pc' = "service" /\ i' = 1
  /\ UNCHANGED <<clientVars, taken, echo, SocketArray, Buffer, BytesRECV, BytesSEND,
                 ReadSet, WriteSet>>

\* ... or it reports another error, and main returns.
AcceptFails ==
  /\ "accept" \in Faults
  /\ pc = "accept" /\ ListenSocket \in ReadSet
  /\ backlog # <<>> /\ rst[Head(backlog)]
  /\ conn' = [conn EXCEPT ![Head(backlog)] = "closed"]
  /\ backlog' = Tail(backlog)
  /\ Total' = Total - 1
  /\ pc' = "exit"
  /\ UNCHANGED <<clientVars, taken, echo, SocketArray, Buffer, BytesRECV, BytesSEND,
                 ReadSet, WriteSet, i>>

\* ioctlsocket or GlobalAlloc fails for the accepted socket: main returns.
CreateFails ==
  /\ "alloc" \in Faults
  /\ pc = "accept" /\ ListenSocket \in ReadSet
  /\ backlog # <<>>
  /\ conn' = [conn EXCEPT ![Head(backlog)] = "open"]
  /\ backlog' = Tail(backlog)
  /\ Total' = Total - 1
  /\ pc' = "exit"
  /\ UNCHANGED <<clientVars, taken, echo, SocketArray, Buffer, BytesRECV, BytesSEND,
                 ReadSet, WriteSet, i>>
-----------------------------------------------------------------------------
\* The service loop stands at connection c.
At(c) == pc = "service" /\ Total > 0 /\ i <= TotalSockets /\ SocketArray[i] = c

PassCounted(c) ==
  /\ At(c) /\ c \notin ReadSet \cup WriteSet
  /\ i' = i + 1 /\ Total' = Total - 1
  /\ UNCHANGED <<netVars, pc, SocketArray, Buffer, BytesRECV, BytesSEND, ReadSet, WriteSet>>

Pass(c) ==
  /\ At(c) /\ c \notin ReadSet \cup WriteSet
  /\ i' = i + 1
  /\ UNCHANGED <<netVars, pc, SocketArray, Buffer, BytesRECV, BytesSEND, ReadSet, WriteSet, Total>>

\* WSARecv of n > 0 bytes.  c is then not in WriteSet: the loop goes on.
Recv(c, n) ==
  /\ At(c) /\ c \in ReadSet
  /\ n > 0 /\ CanRecv(c, DATA_BUFSIZE, n)
  /\ Buffer' = [Buffer EXCEPT ![c] = Overwrite(@, Incoming(c, n))]
  /\ BytesRECV' = [BytesRECV EXCEPT ![c] = n]
  /\ taken' = [taken EXCEPT ![c] = @ + n]
  /\ Total' = Total - 1 /\ i' = i + 1
  /\ UNCHANGED <<clientVars, conn, backlog, echo, pc, SocketArray, BytesSEND, ReadSet, WriteSet>>

\* WSARecv of zero bytes: the client closed the connection.
RecvClose(c) ==
  /\ At(c) /\ c \in ReadSet
  /\ CanRecv(c, DATA_BUFSIZE, 0)
  /\ BytesRECV' = [BytesRECV EXCEPT ![c] = 0]
  /\ FreeSocketInformation(c)
  /\ Total' = Total - 1 /\ i' = i + 1
  /\ UNCHANGED <<clientVars, backlog, taken, echo, pc, Buffer, BytesSEND, ReadSet, WriteSet>>

\* WSASend of what is left of the buffer; n bytes of it are accepted.
Send(c, n) ==
  /\ At(c) /\ c \in WriteSet
  /\ CanSend(c, BytesRECV[c] - BytesSEND[c], n)
  /\ echo' = [echo EXCEPT ![c] = @ \o Unsent(c, n)]
  /\ IF BytesSEND[c] + n = BytesRECV[c]
       THEN /\ BytesSEND' = [BytesSEND EXCEPT ![c] = 0]
            /\ BytesRECV' = [BytesRECV EXCEPT ![c] = 0]
       ELSE /\ BytesSEND' = [BytesSEND EXCEPT ![c] = @ + n]
            /\ UNCHANGED BytesRECV
  /\ Total' = Total - 1 /\ i' = i + 1
  /\ UNCHANGED <<clientVars, conn, backlog, taken, pc, SocketArray, Buffer, ReadSet, WriteSet>>

(* WSARecv or WSASend fails with WSAEWOULDBLOCK: try again next time.  Only *)
(* this thread takes bytes or room away, so a socket that select() marked    *)
(* stays ready; the call fails so only when the stack says no all the same.  *)
WouldBlock(c) ==
  /\ "wouldblock" \in Faults
  /\ At(c) /\ c \in ReadSet \cup WriteSet /\ ~HardError(c)
  /\ Total' = Total - 1 /\ i' = i + 1
  /\ UNCHANGED <<netVars, pc, SocketArray, Buffer, BytesRECV, BytesSEND, ReadSet, WriteSet>>

\* WSARecv or WSASend fails with any other error: give the socket up.  The
\* entry that moves to index i is passed over until the next select().
Fail(c) ==
  /\ At(c) /\ c \in ReadSet \cup WriteSet /\ HardError(c)
  /\ FreeSocketInformation(c)
  /\ Total' = Total - 1 /\ i' = i + 1
  /\ UNCHANGED <<clientVars, backlog, taken, echo, pc, Buffer, BytesRECV, BytesSEND,
                 ReadSet, WriteSet>>

EndOfRound ==
  /\ pc = "service" /\ (Total = 0 \/ i > TotalSockets)
  /\ pc' = "select"
  /\ UNCHANGED <<netVars, SocketArray, Buffer, BytesRECV, BytesSEND, ReadSet, WriteSet, Total, i>>

Service(c) ==
  \/ Pass(c) \/ RecvClose(c) \/ WouldBlock(c) \/ Fail(c)
  \/ \E n \in 1..DATA_BUFSIZE : Recv(c, n) \/ Send(c, n)

Server ==
  \/ Select \/ SelectFails \/ NoArrival
  \/ Accept \/ AcceptWouldBlock \/ AcceptFails \/ CreateFails
  \/ EndOfRound
  \/ \E c \in Conns : Service(c)

ClientStep == \E c \in Conns : Client(c) /\ UNCHANGED serverVars

Next == Server \/ ClientStep

Spec == Init /\ [][Next]_vars

\* A call that does what select() said it could, or fails for good.
Answered(c) == RecvClose(c) \/ Fail(c) \/ \E n \in 1..DATA_BUFSIZE : Recv(c, n) \/ Send(c, n)

(* The server's thread keeps running, and select() is not bound to fail     *)
(* because it has nothing to report; the stack does not for ever refuse a   *)
(* call on a socket that it keeps reporting as ready; clients keep reading  *)
(* what comes back to them, but need not send, shut down or connect.        *)
FairSpec ==
  /\ Spec
  /\ WF_vars(Server /\ ~SelectFails)
  /\ \A c \in Conns : SF_vars(Answered(c))
  /\ \A c \in Conns : WF_vars(ClientRead(c) /\ UNCHANGED serverVars)
-----------------------------------------------------------------------------
(* What is echoed is what was sent, byte for byte and in order; what is    *)
(* still to be sent is the stream's next bytes; and nothing that was       *)
(* received is anywhere else.  (Lines 365-477: the buffer is refilled only *)
(* when it is empty, and its counters are moved together.)                 *)
EchoInv ==
  \A c \in Conns :
    /\ BytesSEND[c] <= BytesRECV[c]
    /\ taken[c] <= sent[c]
    /\ Len(echo[c]) + (BytesRECV[c] - BytesSEND[c]) = taken[c]
    /\ \A k \in 1..Len(echo[c]) : echo[c][k] = k
    /\ \A k \in BytesSEND[c]+1..BytesRECV[c] :
          Buffer[c][k] = Len(echo[c]) + (k - BytesSEND[c])

(* A socket the server has closed, and that was not reset, had been shut    *)
(* down by its client, and everything it sent was echoed (lines 405-411).   *)
GracefulClose ==
  \A c \in Conns :
    conn[c] = "closed" /\ ~rst[c] => fin[c] /\ Len(echo[c]) = sent[c]

(* Every open socket is in SocketArray exactly once and nothing else is:   *)
(* FreeSocketInformation's squash drops the right entry even when several  *)
(* sockets are freed while the service loop walks the array.               *)
ArrayIsOpenSockets ==
  pc # "exit" =>
    /\ \A c \in Conns : conn[c] = "open" <=> \E k \in 1..TotalSockets : SocketArray[k] = c
    /\ \A j, k \in 1..TotalSockets : SocketArray[j] = SocketArray[k] => j = k

(* The readiness sets stay right for the entries the loop has not reached: *)
(* a socket in ReadSet has an empty buffer, so that a receive cannot        *)
(* overwrite unsent bytes, and one in WriteSet has bytes to send (lines     *)
(* 237-245 against 357-439, with accept and frees in between).              *)
ReadinessHolds ==
  pc = "service" =>
    \A k \in i..TotalSockets :
      /\ SocketArray[k] \in ReadSet => ~Pending(SocketArray[k])
      /\ SocketArray[k] \in WriteSet => Pending(SocketArray[k])

(* Total, unsigned in the code, counts at least the marked sockets still    *)
(* ahead of the loop: it cannot pass below zero (lines 345, 361, 429).      *)
TotalCoversAhead ==
  pc = "service" =>
    Total >= Cardinality({SocketArray[k] : k \in i..TotalSockets} \cap (ReadSet \cup WriteSet))

(* Liveness: a byte a client has sent is echoed, unless the connection is   *)
(* reset or main has returned.                                              *)
EveryByteEchoed ==
  \A c \in Conns : \A k \in 1..MaxBytes :
    (conn[c] \in {"pending", "open"} /\ sent[c] >= k)
      ~> (Len(echo[c]) >= k \/ rst[c] \/ pc = "exit")

(* Liveness: a client that shuts down gets its connection closed. *)
ShutdownIsClosed ==
  \A c \in Conns :
    (conn[c] # "new" /\ fin[c]) ~> (conn[c] = "closed" \/ pc = "exit")

(* A client gets back what it sends and its connection closed when it is    *)
(* done, however the others behave.                                         *)
ClientsAreServed == EveryByteEchoed /\ ShutdownIsClosed

(* The server keeps the promise of the header comment. *)
Promise == INSTANCE EchoService WITH lossy <- {}
EchoServiceSpec == Promise!Spec
=============================================================================
