---------------------------- MODULE OverlappedIO ----------------------------
(***************************************************************************)
(* What the servers built on overlapped I/O share: the SOCKET_INFORMATION  *)
(* block of a connection, the one operation it has in flight, and what is  *)
(* done when that operation completes.  A completed operation signals its  *)
(* event (OverlappedModel) or queues its completion routine                *)
(* (CallbackAccept).                                                       *)
(*                                                                         *)
(* The blocks are identified by members of Infos: a server that is faulty  *)
(* may have two of them for one socket.                                    *)
(***************************************************************************)
EXTENDS Winsock

CONSTANTS
  DATA_BUFSIZE,   \* bytes of a block's Buffer
  Infos,          \* the SOCKET_INFORMATION blocks
  NoSocket        \* what an unused block has for a socket

ASSUME OverlappedAssumption ==
  /\ DATA_BUFSIZE \in Nat \ {0}
  /\ NoSocket \notin Conns

VARIABLES
  Socket,      \* [Infos -> Conns \cup {NoSocket}]
  Buffer,      \* [Infos -> DATA_BUFSIZE bytes]
  BytesRECV,   \* bytes that the last receive put into Buffer
  BytesSEND,   \* how many of them have been sent back
  io           \* the operation in flight: which, whether it is over, its result

infoVars == <<Socket, Buffer, BytesRECV, BytesSEND, io>>

Idle == [op |-> "none", status |-> "none", bytes |-> 0]
Posted(op) == [op |-> op, status |-> "pending", bytes |-> 0]

InfoTypeOK ==
  /\ Socket \in [Infos -> Conns \cup {NoSocket}]
  /\ Buffer \in [Infos -> [1..DATA_BUFSIZE -> Nat]]
  /\ BytesRECV \in [Infos -> 0..DATA_BUFSIZE]
  /\ BytesSEND \in [Infos -> 0..DATA_BUFSIZE]
  /\ io \in [Infos -> [op : {"none", "recv", "send"},
                       status : {"none", "pending", "done", "failed"},
                       bytes : 0..DATA_BUFSIZE]]

InfoInit ==
  /\ Socket = [s \in Infos |-> NoSocket]
  /\ Buffer = [s \in Infos |-> [k \in 1..DATA_BUFSIZE |-> 0]]
  /\ BytesRECV = [s \in Infos |-> 0]
  /\ BytesSEND = [s \in Infos |-> 0]
  /\ io = [s \in Infos |-> Idle]
-----------------------------------------------------------------------------
(* Plausible bugs, for the mutation runs: a receive that completed taken for *)
(* a send; sent bytes counted as received; the first send taken for a full   *)
(* one; the unsent bytes taken from the start of the buffer.                 *)
NeverReceived(s) == FALSE
SendsCounted(s) == BytesRECV[s] + io[s].bytes
SentAll(received, done) == done = 0
UnsentFromStart(s, n) == [k \in 1..n |-> Buffer[s][k]]

\* The blocks in use.
InUse == {s \in Infos : Socket[s] # NoSocket}

\* No call on socket c can succeed any more.
Dead(c) == HardError(c) \/ conn[c] = "closed"

\* The next n bytes that a send takes from the buffer.
Unsent(s, n) == [k \in 1..n |-> Buffer[s][BytesSEND[s] + k]]

(* A zeroed block for socket c, with its first receive posted.             *)
NewInfo(s, c) ==
  /\ Socket[s] = NoSocket
  /\ Socket' = [Socket EXCEPT ![s] = c]
  /\ Buffer' = [Buffer EXCEPT ![s] = [k \in 1..DATA_BUFSIZE |-> 0]]
  /\ BytesRECV' = [BytesRECV EXCEPT ![s] = 0]
  /\ BytesSEND' = [BytesSEND EXCEPT ![s] = 0]
  /\ io' = [io EXCEPT ![s] = Posted("recv")]

\* closesocket and GlobalFree.
FreeInfo(s) ==
  /\ conn' = [conn EXCEPT ![Socket[s]] = "closed"]
  /\ Socket' = [Socket EXCEPT ![s] = NoSocket]
  /\ io' = [io EXCEPT ![s] = Idle]
  /\ UNCHANGED <<Buffer, BytesRECV, BytesSEND>>

\* s's event is signalled, its completion routine queued.
Completed(s) == io[s].status \in {"done", "failed"}

\* The operation failed, or it is a receive after the client's shutdown.
Ended(s) == io[s].status = "failed" \/ (io[s].status = "done" /\ io[s].bytes = 0)

(* What has completed is told from BytesRECV alone: zero means a receive.  *)
WasReceive(s) == BytesRECV[s] = 0

\* BytesRECV and BytesSEND once the completed operation is accounted for.
Received(s) == IF WasReceive(s) THEN io[s].bytes ELSE BytesRECV[s]
SentBack(s) == IF WasReceive(s) THEN 0 ELSE BytesSEND[s] + io[s].bytes

MoreToSend(received, done) == received > done

(* An operation on s has moved some bytes: account for them, then post the *)
(* next one, a send as long as bytes are left and a receive after that.    *)
(* The post may fail at once (posted = FALSE) on a dead socket.             *)
Continue(s, posted) ==
  LET more == MoreToSend(Received(s), SentBack(s))
  IN  /\ io[s].status = "done" /\ io[s].bytes > 0
      /\ posted \/ Dead(Socket[s])
      /\ BytesRECV' = [BytesRECV EXCEPT ![s] = IF more THEN Received(s) ELSE 0]
      /\ BytesSEND' = [BytesSEND EXCEPT ![s] = SentBack(s)]
      /\ io' = [io EXCEPT ![s] = IF ~posted THEN Idle
                                 ELSE Posted(IF more THEN "send" ELSE "recv")]
      /\ UNCHANGED <<Socket, Buffer>>
-----------------------------------------------------------------------------
(* The stack completes what is in flight. *)

CompleteRecv(s, n) ==
  /\ io[s] = Posted("recv")
  /\ conn[Socket[s]] = "open" /\ CanRecv(Socket[s], DATA_BUFSIZE, n)
  /\ Buffer' = [Buffer EXCEPT ![s] = Overwrite(@, Incoming(Socket[s], n))]
  /\ taken' = [taken EXCEPT ![Socket[s]] = @ + n]
  /\ io' = [io EXCEPT ![s].status = "done", ![s].bytes = n]
  /\ UNCHANGED <<clientVars, conn, backlog, echo, Socket, BytesRECV, BytesSEND>>

CompleteSend(s, n) ==
  /\ io[s] = Posted("send")
  /\ conn[Socket[s]] = "open" /\ CanSend(Socket[s], BytesRECV[s] - BytesSEND[s], n)
  /\ echo' = [echo EXCEPT ![Socket[s]] = @ \o Unsent(s, n)]
  /\ io' = [io EXCEPT ![s].status = "done", ![s].bytes = n]
  /\ UNCHANGED <<clientVars, conn, backlog, taken, Socket, Buffer, BytesRECV, BytesSEND>>

CompleteFailed(s) ==
  /\ io[s].status = "pending" /\ Dead(Socket[s])
  /\ io' = [io EXCEPT ![s].status = "failed"]
  /\ UNCHANGED <<netVars, Socket, Buffer, BytesRECV, BytesSEND>>

Stack(s) ==
  \/ CompleteFailed(s)
  \/ \E n \in 0..DATA_BUFSIZE : CompleteRecv(s, n) \/ CompleteSend(s, n)
-----------------------------------------------------------------------------
(* The bytes of s that are received and not sent: Buffer's lo+1 to hi.       *)
(* BytesSEND is stale while a receive is in flight.                          *)
HeldFrom(s) ==
  IF io[s].op = "send" THEN BytesSEND[s] + io[s].bytes ELSE 0
HeldTo(s) ==
  IF io[s].op = "recv" THEN io[s].bytes ELSE BytesRECV[s]

(* No byte is lost, repeated or reordered between a completed receive and   *)
(* the sends of its bytes, in whatever pieces they go; that BytesRECV is    *)
(* zero exactly while a receive is out is what tells the two apart.          *)
HeldIsNext ==
  \A s \in InUse :
    /\ io[s].op = "recv" => BytesRECV[s] = 0
    /\ io[s].op = "send" => BytesRECV[s] > BytesSEND[s]
    /\ io[s].op # "none" =>
         /\ HeldFrom(s) <= HeldTo(s)
         /\ Len(echo[Socket[s]]) + (HeldTo(s) - HeldFrom(s)) = taken[Socket[s]]
         /\ \A k \in HeldFrom(s)+1..HeldTo(s) :
               Buffer[s][k] = Len(echo[Socket[s]]) + (k - HeldFrom(s))

\* What is echoed is what was sent, byte for byte and in order.
EchoIsPrefix ==
  \A c \in Conns :
    /\ Len(echo[c]) <= taken[c] /\ taken[c] <= sent[c]
    /\ \A k \in 1..Len(echo[c]) : echo[c][k] = k

(* The servers' promise. *)
Promise == INSTANCE EchoService WITH lossy <- {}
EchoServiceSpec == Promise!Spec
=============================================================================
