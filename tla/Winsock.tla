------------------------------ MODULE Winsock ------------------------------
(***************************************************************************)
(* The part of Winsock and of the remote clients that the echo servers of  *)
(* this repository see.  It is external: nothing of it is under src/; each *)
(* operator is the outcome set of a call as the servers use it.            *)
(*                                                                         *)
(* A connection carries one byte stream in each direction.  Byte number k  *)
(* of a client's stream is the number k itself, so a stream that is echoed *)
(* correctly reads 1, 2, 3, ...  Zero stands for a byte of a zeroed buffer *)
(* (GlobalAlloc(GPTR)) that no client ever sent.                           *)
(***************************************************************************)
EXTENDS Integers, Sequences

CONSTANTS
  Conns,          \* the connections clients may open in a behaviour
  MaxBytes,       \* bound: bytes a client may send on one connection
  SndBuf,         \* bytes a server's send can hold before it would block
  ListenBacklog   \* connections that may wait for accept (listen's 2nd argument)

ASSUME WinsockAssumption ==
  /\ MaxBytes \in Nat
  /\ SndBuf \in Nat \ {0}
  /\ ListenBacklog \in Nat \ {0}

VARIABLES
  conn,     \* [Conns -> {"new", "pending", "open", "closed"}], the server's side
  backlog,  \* connections waiting for accept, oldest first
  sent,     \* bytes each client has written
  fin,      \* has the client shut down its sending side?
  rst,      \* has the connection been reset?
  taken,    \* bytes the server has taken off the stream with its receives
  echo,     \* the bytes the server's sends have accepted, in order
  got       \* how many of them the client has read

netVars == <<conn, backlog, sent, fin, rst, taken, echo, got>>
clientVars == <<sent, fin, rst, got>>

NetTypeOK ==
  /\ conn \in [Conns -> {"new", "pending", "open", "closed"}]
  /\ backlog \in Seq(Conns)
  /\ sent \in [Conns -> Nat]
  /\ fin \in [Conns -> BOOLEAN]
  /\ rst \in [Conns -> BOOLEAN]
  /\ taken \in [Conns -> Nat]
  /\ echo \in [Conns -> Seq(Nat)]
  /\ got \in [Conns -> Nat]

NetInit ==
  /\ conn = [c \in Conns |-> "new"]
  /\ backlog = <<>>
  /\ sent = [c \in Conns |-> 0]
  /\ fin = [c \in Conns |-> FALSE]
  /\ rst = [c \in Conns |-> FALSE]
  /\ taken = [c \in Conns |-> 0]
  /\ echo = [c \in Conns |-> <<>>]
  /\ got = [c \in Conns |-> 0]
-----------------------------------------------------------------------------
(* What a client does, at any moment and independently of the server. *)

Connect(c) ==
  /\ conn[c] = "new"
  /\ Len(backlog) < ListenBacklog
  /\ conn' = [conn EXCEPT ![c] = "pending"]
  /\ backlog' = Append(backlog, c)
  /\ UNCHANGED <<sent, fin, rst, taken, echo, got>>

Connected(c) == conn[c] \in {"pending", "open"} /\ ~rst[c]

ClientSend(c) ==
  /\ Connected(c) /\ ~fin[c]
  /\ sent[c] < MaxBytes
  /\ sent' = [sent EXCEPT ![c] = @ + 1]
  /\ UNCHANGED <<conn, backlog, fin, rst, taken, echo, got>>

ClientRead(c) ==
  /\ ~rst[c]
  /\ got[c] < Len(echo[c])
  /\ got' = [got EXCEPT ![c] = @ + 1]
  /\ UNCHANGED <<conn, backlog, sent, fin, rst, taken, echo>>

ClientShutdown(c) ==
  /\ Connected(c) /\ ~fin[c]
  /\ fin' = [fin EXCEPT ![c] = TRUE]
  /\ UNCHANGED <<conn, backlog, sent, rst, taken, echo, got>>

ClientReset(c) ==
  /\ Connected(c)
  /\ rst' = [rst EXCEPT ![c] = TRUE]
  /\ UNCHANGED <<conn, backlog, sent, fin, taken, echo, got>>

Client(c) ==
  Connect(c) \/ ClientSend(c) \/ ClientRead(c) \/ ClientShutdown(c) \/ ClientReset(c)
-----------------------------------------------------------------------------
(* What the server's calls on connection c can return.  A receive gives at  *)
(* least one of the bytes that have arrived, or zero once the client's      *)
(* shutdown is all that is left; a send takes at least one byte if there is *)
(* room; a reset connection fails every call with a hard error.             *)

Avail(c) == sent[c] - taken[c]
Room(c)  == SndBuf - (Len(echo[c]) - got[c])

CanRecv(c, size, n) ==
  /\ ~rst[c]
  /\ \/ n \in 1..size /\ n <= Avail(c)
     \/ n = 0 /\ Avail(c) = 0 /\ fin[c]

RecvWouldBlock(c) == ~rst[c] /\ Avail(c) = 0 /\ ~fin[c]

CanSend(c, len, n) == ~rst[c] /\ n \in 1..len /\ n <= Room(c)

SendWouldBlock(c) == ~rst[c] /\ Room(c) <= 0

HardError(c) == rst[c]

\* Some client has reset its connection.
SomeReset == \E c \in Conns : rst[c]

\* select() marks a socket when the call it asks about would not block.
Readable(c) == ~RecvWouldBlock(c)
Writable(c) == ~SendWouldBlock(c)

\* The n bytes that a receive on c copies out.
Incoming(c, n) == [k \in 1..n |-> taken[c] + k]

\* A receive overwrites the front of the buffer and leaves the rest stale.
Overwrite(buf, data) ==
  [k \in 1..Len(buf) |-> IF k <= Len(data) THEN data[k] ELSE buf[k]]
-----------------------------------------------------------------------------
(* Network events, for the servers that are told of them.  The stack records *)
(* an event of a connection that is the case, once, and again only after a   *)
(* call enabled it: a receive enables READ, a send that would block WRITE.   *)
(* A connection's close is told once: CLOSE after a shutdown, when all data  *)
(* has been read, ABORT (FD_CLOSE with an error) after a reset.              *)
Events == {"READ", "WRITE", "CLOSE", "ABORT"}

IsTheCase(c, e) ==
  CASE e = "READ"  -> Avail(c) > 0 /\ ~rst[c]
    [] e = "WRITE" -> Writable(c) /\ ~rst[c]
    [] e = "CLOSE" -> fin[c] /\ Avail(c) = 0 /\ ~rst[c]
    [] e = "ABORT" -> rst[c]

\* The events that go with e: they are no longer enabled once e has been told.
SpentWith(e) == IF e \in {"CLOSE", "ABORT"} THEN {"CLOSE", "ABORT"} ELSE {e}
=============================================================================
