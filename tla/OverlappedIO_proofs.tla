------------------------ MODULE OverlappedIO_proofs ------------------------
(***************************************************************************)
(* What any server built from OverlappedIO preserves, whatever its threads *)
(* do: the invariant of its blocks, connections and streams (IOInv), and   *)
(* the step of EchoService that each of its steps is.  A server's own      *)
(* proof has to show that its actions are of the kinds listed in IOStep.   *)
(***************************************************************************)
EXTENDS OverlappedIO, TLAPS

(* Connections wait in the backlog once each, and only there. *)
BacklogOK ==
  /\ \A k \in 1..Len(backlog) : conn[backlog[k]] = "pending"
  /\ \A j, k \in 1..Len(backlog) : backlog[j] = backlog[k] => j = k

(* No connection has two blocks. *)
OneBlock == \A s, t \in InUse : Socket[s] = Socket[t] => s = t

NoBlock(c) == \A s \in Infos : Socket[s] # c

(* From a connection that has no block yet nothing has been received. *)
FreshOK ==
  \A c \in Conns :
    conn[c] # "closed" /\ NoBlock(c) => taken[c] = 0 /\ Len(echo[c]) = 0

(* HeldIsNext, for the operation in flight on block s: the bytes that have  *)
(* been received and not sent are the next ones of the stream.              *)
Held(s) ==
  /\ io[s].op = "recv" => BytesRECV[s] = 0
  /\ io[s].op = "send" => BytesRECV[s] > BytesSEND[s]
  /\ io[s].op # "none" =>
       /\ HeldFrom(s) <= HeldTo(s)
       /\ Len(echo[Socket[s]]) + (HeldTo(s) - HeldFrom(s)) = taken[Socket[s]]
       /\ \A k \in HeldFrom(s)+1..HeldTo(s) :
             Buffer[s][k] = Len(echo[Socket[s]]) + (k - HeldFrom(s))

(* What the result of an operation says of its connection, and still says   *)
(* when somebody looks at it: a failure that it was reset, zero bytes that  *)
(* the client has shut down and all it sent was received.                   *)
ResultHolds(s) ==
  /\ conn[Socket[s]] = "open"
  /\ io[s].op = "none" <=> io[s].status = "none"
  /\ io[s].status # "done" => io[s].bytes = 0
  /\ io[s].status = "failed" => rst[Socket[s]]
  /\ io[s].status = "done" /\ io[s].bytes = 0 =>
       io[s].op = "recv" /\ fin[Socket[s]] /\ taken[Socket[s]] = sent[Socket[s]]

BlockOK(s) == IF Socket[s] = NoSocket THEN io[s] = Idle ELSE Held(s) /\ ResultHolds(s)

Streamed(c) ==
  /\ Len(echo[c]) <= taken[c] /\ taken[c] <= sent[c]
  /\ \A k \in 1..Len(echo[c]) : echo[c][k] = k

IOInv ==
  /\ NetTypeOK /\ InfoTypeOK
  /\ BacklogOK
  /\ OneBlock
  /\ FreshOK
  /\ \A s \in Infos : BlockOK(s)
  /\ \A c \in Conns : Streamed(c)
-----------------------------------------------------------------------------
(* The kinds of step that a server, its clients and the stack take. *)

ClientMoves == (\E c \in Conns : Client(c)) /\ UNCHANGED infoVars

\* accept or AcceptEx takes the oldest connection, or finds that it was reset.
TakesBacklog ==
  /\ backlog # <<>> /\ backlog' = Tail(backlog)
  /\ \/ conn' = [conn EXCEPT ![Head(backlog)] = "open"]
     \/ rst[Head(backlog)] /\ conn' = [conn EXCEPT ![Head(backlog)] = "closed"]
  /\ UNCHANGED <<clientVars, taken, echo, infoVars>>

Starts(s, c) == conn[c] = "open" /\ NoBlock(c) /\ NewInfo(s, c) /\ UNCHANGED netVars

Continues(s) == (\E posted \in BOOLEAN : Continue(s, posted)) /\ UNCHANGED netVars

Ends(s) == Ended(s) /\ FreeInfo(s) /\ UNCHANGED <<clientVars, backlog, taken, echo>>

Pauses == UNCHANGED <<netVars, infoVars>>

IOStep ==
  \/ ClientMoves \/ TakesBacklog \/ Pauses
  \/ \E s \in Infos :
       \/ Stack(s) \/ Continues(s) \/ Ends(s)
       \/ \E c \in Conns : Starts(s, c)

USE WinsockAssumption, OverlappedAssumption

-----------------------------------------------------------------------------
(* Facts about blocks and the frame of a step. *)

LEMMA InfoFacts ==
  ASSUME InfoTypeOK, NEW s \in Infos
  PROVE  /\ io[s] = [op |-> io[s].op, status |-> io[s].status, bytes |-> io[s].bytes]
         /\ io[s].op \in {"none", "recv", "send"}
         /\ io[s].status \in {"none", "pending", "done", "failed"}
         /\ io[s].bytes \in 0..DATA_BUFSIZE
         /\ BytesRECV[s] \in 0..DATA_BUFSIZE /\ BytesSEND[s] \in 0..DATA_BUFSIZE
         /\ Buffer[s] \in [1..DATA_BUFSIZE -> Nat]
         /\ Socket[s] \in Conns \cup {NoSocket}
BY DEF InfoTypeOK

LEMMA NetFacts ==
  ASSUME NetTypeOK, NEW c \in Conns
  PROVE  /\ sent[c] \in Nat /\ taken[c] \in Nat /\ got[c] \in Nat
         /\ fin[c] \in BOOLEAN /\ rst[c] \in BOOLEAN
         /\ echo[c] \in Seq(Nat) /\ Len(echo[c]) \in Nat
         /\ conn[c] \in {"new", "pending", "open", "closed"}
         /\ c # NoSocket
BY DEF NetTypeOK

\* A block that is in use and the connection it serves.
LEMMA BlockInUse ==
  ASSUME IOInv, NEW s \in Infos, io[s] # Idle
  PROVE  s \in InUse /\ Socket[s] \in Conns /\ Held(s) /\ ResultHolds(s)
BY InfoFacts DEF IOInv, BlockOK, InUse

LEMMA InUseOK ==
  ASSUME IOInv, NEW s \in InUse
  PROVE  s \in Infos /\ Socket[s] \in Conns /\ Held(s) /\ ResultHolds(s)
BY InfoFacts DEF IOInv, BlockOK, InUse

\* What has to be unchanged of block s and its connection for BlockOK(s) to stay.
SameBlock(s) ==
  /\ Socket'[s] = Socket[s] /\ Buffer'[s] = Buffer[s] /\ io'[s] = io[s]
  /\ BytesRECV'[s] = BytesRECV[s] /\ BytesSEND'[s] = BytesSEND[s]

SameStream(c) ==
  /\ taken'[c] = taken[c] /\ echo'[c] = echo[c]
  /\ sent'[c] \in Nat /\ sent[c] <= sent'[c]
  /\ rst[c] => rst'[c]
  /\ fin[c] => fin'[c] /\ sent'[c] = sent[c]

LEMMA BlockFrame ==
  ASSUME NEW s \in Infos, InfoTypeOK, BlockOK(s), SameBlock(s),
         Socket[s] # NoSocket =>
            SameStream(Socket[s]) /\ conn'[Socket[s]] = conn[Socket[s]]
  PROVE  BlockOK(s)'
<1>1. CASE Socket[s] = NoSocket  BY <1>1 DEF BlockOK, SameBlock
<1>2. CASE Socket[s] # NoSocket
  <2>1. Held(s) /\ ResultHolds(s)  BY <1>2 DEF BlockOK
  <2>2. Held(s)'  BY <1>2, <2>1 DEF Held, HeldFrom, HeldTo, SameBlock, SameStream
  <2>3. ResultHolds(s)'  BY <1>2, <2>1 DEF ResultHolds, SameBlock, SameStream
  <2>4. QED  BY <1>2, <2>2, <2>3 DEF BlockOK, SameBlock
<1>3. QED  BY <1>1, <1>2

LEMMA StreamFrame ==
  ASSUME NEW c \in Conns, NetTypeOK, Streamed(c), SameStream(c)
  PROVE  Streamed(c)'
BY NetFacts DEF Streamed, SameStream

LEMMA HeadIsPending ==
  ASSUME NetTypeOK, BacklogOK, backlog # <<>>
  PROVE  /\ Head(backlog) \in Conns /\ conn[Head(backlog)] = "pending"
         /\ Tail(backlog) \in Seq(Conns)
         /\ Len(Tail(backlog)) = Len(backlog) - 1
         /\ \A k \in 1..Len(Tail(backlog)) :
              /\ Tail(backlog)[k] = backlog[k + 1] /\ k + 1 \in 1..Len(backlog)
              /\ Tail(backlog)[k] \in Conns /\ Tail(backlog)[k] # Head(backlog)
<1>1. backlog \in Seq(Conns) /\ Len(backlog) \in Nat  BY DEF NetTypeOK
<1>2. Head(backlog) = backlog[1] /\ 1 \in 1..Len(backlog)  BY <1>1
<1>3. /\ Tail(backlog) \in Seq(Conns) /\ Len(Tail(backlog)) = Len(backlog) - 1
      /\ \A k \in 1..Len(Tail(backlog)) :
           Tail(backlog)[k] = backlog[k + 1] /\ k + 1 \in 1..Len(backlog) /\ k + 1 # 1
  BY <1>1
<1>4. Head(backlog) \in Conns /\ conn[Head(backlog)] = "pending"
  BY <1>1, <1>2 DEF BacklogOK
<1>5. \A k \in 1..Len(Tail(backlog)) :
         Tail(backlog)[k] \in Conns /\ Tail(backlog)[k] # Head(backlog)
  BY <1>1, <1>2, <1>3 DEF BacklogOK
<1>6. QED  BY <1>3, <1>4, <1>5

LEMMA HeadOfBacklog ==
  ASSUME IOInv, backlog # <<>>
  PROVE  /\ Head(backlog) \in Conns /\ conn[Head(backlog)] = "pending"
         /\ Tail(backlog) \in Seq(Conns)
         /\ Len(Tail(backlog)) = Len(backlog) - 1
         /\ \A k \in 1..Len(Tail(backlog)) :
              /\ Tail(backlog)[k] = backlog[k + 1] /\ k + 1 \in 1..Len(backlog)
              /\ Tail(backlog)[k] \in Conns /\ Tail(backlog)[k] # Head(backlog)
BY HeadIsPending DEF IOInv

\* A new connection goes behind those that wait, an accepted one leaves.
LEMMA ConnectBacklog ==
  ASSUME NetTypeOK, BacklogOK, NEW c \in Conns, Connect(c)
  PROVE  BacklogOK'
<1>1. /\ backlog \in Seq(Conns) /\ Len(backlog) \in Nat
      /\ conn \in [Conns -> {"new", "pending", "open", "closed"}]
  BY DEF NetTypeOK
<1>2. /\ conn[c] = "new" /\ conn' = [conn EXCEPT ![c] = "pending"]
      /\ backlog' = Append(backlog, c)
  BY DEF Connect
<1>3. \A k \in 1..Len(backlog) : backlog[k] # c /\ backlog[k] \in Conns
  BY <1>1, <1>2 DEF BacklogOK
<1>4. /\ Len(backlog') = Len(backlog) + 1
      /\ backlog'[Len(backlog) + 1] = c
      /\ \A k \in 1..Len(backlog) : backlog'[k] = backlog[k]
  BY <1>1, <1>2
<1>5. QED  BY <1>1, <1>2, <1>3, <1>4 DEF BacklogOK

LEMMA TakenBacklog ==
  ASSUME NetTypeOK, BacklogOK, TakesBacklog
  PROVE  BacklogOK'
<1> DEFINE c == Head(backlog)
<1>1. /\ backlog' = Tail(backlog)
      /\ c \in Conns
      /\ Tail(backlog) \in Seq(Conns)
      /\ \A k \in 1..Len(Tail(backlog)) :
           /\ Tail(backlog)[k] = backlog[k + 1] /\ k + 1 \in 1..Len(backlog)
           /\ Tail(backlog)[k] \in Conns /\ Tail(backlog)[k] # c
  BY HeadIsPending DEF TakesBacklog
<1>2. \A d \in Conns : d # c => conn'[d] = conn[d]
  BY <1>1 DEF TakesBacklog, NetTypeOK
<1> HIDE DEF c
<1>3. ASSUME NEW k \in 1..Len(backlog')  PROVE conn'[backlog'[k]] = "pending"
  <2>1. /\ backlog'[k] = backlog[k + 1] /\ k + 1 \in 1..Len(backlog)
        /\ backlog'[k] \in Conns /\ backlog'[k] # c
    BY <1>1
  <2>2. conn[backlog[k + 1]] = "pending"  BY <2>1 DEF BacklogOK
  <2>3. QED  BY <1>2, <2>1, <2>2
<1>4. ASSUME NEW j \in 1..Len(backlog'), NEW k \in 1..Len(backlog'),
             backlog'[j] = backlog'[k]
      PROVE  j = k
  <2>1. backlog[j + 1] = backlog[k + 1] /\ j + 1 \in 1..Len(backlog) /\ k + 1 \in 1..Len(backlog)
    BY <1>1, <1>4
  <2>2. j + 1 = k + 1  BY <2>1 DEF BacklogOK
  <2>3. Len(backlog') \in Nat  BY <1>1
  <2>4. QED  BY <2>2, <2>3
<1>5. QED  BY <1>3, <1>4 DEF BacklogOK

\* A step that leaves the blocks alone.
LEMMA BlocksUnchanged ==
  ASSUME InfoTypeOK, UNCHANGED infoVars
  PROVE  /\ InfoTypeOK'
         /\ OneBlock => OneBlock'
         /\ \A c \in Conns : NoBlock(c)' <=> NoBlock(c)
         /\ \A s \in Infos : SameBlock(s)
BY DEF infoVars, InfoTypeOK, OneBlock, InUse, NoBlock, SameBlock

-----------------------------------------------------------------------------
(* Each kind of step preserves IOInv. *)

LEMMA ClientType ==
  ASSUME NetTypeOK, NEW c \in Conns, Client(c)
  PROVE  NetTypeOK'
<1> USE DEF NetTypeOK
<1>1. CASE Connect(c)  BY <1>1 DEF Connect
<1>2. CASE ClientSend(c)  BY <1>2 DEF ClientSend
<1>3. CASE ClientRead(c)
  <2>1. got' = [got EXCEPT ![c] = @ + 1] /\ got \in [Conns -> Nat]  BY <1>3 DEF ClientRead
  <2>2. got' \in [Conns -> Nat]  BY <2>1
  <2>3. QED  BY <1>3, <2>2 DEF ClientRead
<1>4. CASE ClientShutdown(c)  BY <1>4 DEF ClientShutdown
<1>5. CASE ClientReset(c)  BY <1>5 DEF ClientReset
<1>6. QED  BY <1>1, <1>2, <1>3, <1>4, <1>5 DEF Client

\* What a client's step leaves alone.
LEMMA ClientFrame ==
  ASSUME NetTypeOK, NEW c \in Conns, Client(c)
  PROVE  /\ UNCHANGED <<taken, echo>>
         /\ Connect(c) \/ UNCHANGED <<conn, backlog>>
         /\ \A d \in Conns : SameStream(d)
<1>1. UNCHANGED <<taken, echo>> /\ (Connect(c) \/ UNCHANGED <<conn, backlog>>)
  BY DEF Client, Connect, ClientSend, ClientRead, ClientShutdown, ClientReset
<1>2. ASSUME NEW d \in Conns  PROVE SameStream(d)
  <2>1. sent[d] \in Nat /\ sent[c] \in Nat  BY NetFacts
  <2>2. CASE ClientSend(c)
    BY <1>1, <2>1, <2>2 DEF ClientSend, SameStream, NetTypeOK
  <2>3. CASE ClientShutdown(c)
    BY <1>1, <2>1, <2>3 DEF ClientShutdown, SameStream, NetTypeOK
  <2>4. CASE ClientReset(c)
    BY <1>1, <2>1, <2>4 DEF ClientReset, SameStream, NetTypeOK
  <2>5. CASE Connect(c) \/ ClientRead(c)
    BY <1>1, <2>1, <2>5 DEF Connect, ClientRead, SameStream
  <2>6. QED  BY <2>2, <2>3, <2>4, <2>5 DEF Client
<1>3. QED  BY <1>1, <1>2

LEMMA ClientMovesInv == IOInv /\ ClientMoves => IOInv'
<1> SUFFICES ASSUME IOInv, ClientMoves  PROVE IOInv'
  OBVIOUS
<1>0. PICK c \in Conns : Client(c)  BY DEF ClientMoves
<1>1. /\ NetTypeOK /\ InfoTypeOK /\ backlog \in Seq(Conns) /\ Len(backlog) \in Nat
      /\ conn \in [Conns -> {"new", "pending", "open", "closed"}]
  BY DEF IOInv, NetTypeOK
<1>2. /\ InfoTypeOK' /\ OneBlock'
      /\ \A d \in Conns : NoBlock(d)' <=> NoBlock(d)
      /\ \A s \in Infos : SameBlock(s)
  BY BlocksUnchanged DEF IOInv, ClientMoves
<1>3. /\ UNCHANGED <<taken, echo>>
      /\ Connect(c) \/ UNCHANGED <<conn, backlog>>
      /\ \A d \in Conns : SameStream(d)
  BY <1>0, <1>1, ClientFrame
<1>4. NetTypeOK'  BY <1>0, <1>1, ClientType
<1>5. \A d \in Conns : conn'[d] = conn[d] \/ (conn[d] = "new" /\ conn'[d] = "pending")
  BY <1>1, <1>3 DEF Connect
<1>6. BacklogOK'
  <2>1. CASE Connect(c)  BY <1>1, <2>1, ConnectBacklog DEF IOInv
  <2>2. QED  BY <1>3, <2>1 DEF IOInv, BacklogOK
<1>7. FreshOK'  BY <1>2, <1>3, <1>5 DEF IOInv, FreshOK
<1>8. \A s \in Infos : BlockOK(s)'
  <2>1. ASSUME NEW s \in Infos  PROVE BlockOK(s)'
    <3>1. ASSUME Socket[s] # NoSocket
          PROVE  SameStream(Socket[s]) /\ conn'[Socket[s]] = conn[Socket[s]]
      <4>1. Socket[s] \in Conns /\ conn[Socket[s]] = "open"
        BY <3>1, InUseOK DEF InUse, ResultHolds
      <4>2. QED  BY <1>3, <1>5, <4>1
    <3>2. QED  BY <1>1, <1>2, <3>1, BlockFrame DEF IOInv
  <2>2. QED  BY <2>1
<1>9. \A d \in Conns : Streamed(d)'  BY <1>1, <1>3, StreamFrame DEF IOInv
<1>10. QED  BY <1>2, <1>4, <1>6, <1>7, <1>8, <1>9 DEF IOInv

LEMMA TakesBacklogInv == IOInv /\ TakesBacklog => IOInv'
<1> SUFFICES ASSUME IOInv, TakesBacklog  PROVE IOInv'
  OBVIOUS
<1> DEFINE c == Head(backlog)
<1>1. NetTypeOK /\ InfoTypeOK /\ conn \in [Conns -> {"new", "pending", "open", "closed"}]
  BY DEF IOInv, NetTypeOK
<1>2. /\ backlog' = Tail(backlog)
      /\ c \in Conns /\ conn[c] = "pending"
      /\ Tail(backlog) \in Seq(Conns)
      /\ \A k \in 1..Len(Tail(backlog)) :
           /\ Tail(backlog)[k] = backlog[k + 1] /\ k + 1 \in 1..Len(backlog)
           /\ Tail(backlog)[k] \in Conns /\ Tail(backlog)[k] # c
  BY HeadOfBacklog DEF TakesBacklog
<1>3. /\ conn' = [conn EXCEPT ![c] = "open"] \/ conn' = [conn EXCEPT ![c] = "closed"]
      /\ UNCHANGED <<clientVars, taken, echo, infoVars>>
  BY DEF TakesBacklog
<1> HIDE DEF c
<1>4. /\ conn' \in [Conns -> {"new", "pending", "open", "closed"}]
      /\ \A d \in Conns : d # c => conn'[d] = conn[d]
  BY <1>1, <1>2, <1>3
<1>5. NetTypeOK'  BY <1>1, <1>2, <1>3, <1>4 DEF NetTypeOK, clientVars
<1>6. /\ InfoTypeOK' /\ OneBlock'
      /\ \A d \in Conns : NoBlock(d)' <=> NoBlock(d)
      /\ \A s \in Infos : SameBlock(s)
  BY <1>1, <1>3, BlocksUnchanged DEF IOInv
<1>7. \A d \in Conns : SameStream(d)
  BY <1>1, <1>3, NetFacts DEF SameStream, clientVars
<1>8. BacklogOK'  BY TakenBacklog DEF IOInv
<1>9. FreshOK'
  <2>1. \A d \in Conns : conn'[d] # "closed" => conn[d] # "closed"  BY <1>2, <1>4
  <2>2. QED  BY <1>3, <1>6, <2>1 DEF IOInv, FreshOK
<1>10. \A s \in Infos : BlockOK(s)'
  <2>1. ASSUME NEW s \in Infos  PROVE BlockOK(s)'
    <3>1. ASSUME Socket[s] # NoSocket
          PROVE  SameStream(Socket[s]) /\ conn'[Socket[s]] = conn[Socket[s]]
      <4>1. Socket[s] \in Conns /\ conn[Socket[s]] = "open"
        BY <3>1, InUseOK DEF InUse, ResultHolds
      <4>2. QED  BY <1>2, <1>4, <1>7, <4>1
    <3>2. QED  BY <1>1, <1>6, <3>1, BlockFrame DEF IOInv
  <2>2. QED  BY <2>1
<1>11. \A d \in Conns : Streamed(d)'  BY <1>1, <1>7, StreamFrame DEF IOInv
<1>12. QED  BY <1>5, <1>6, <1>8, <1>9, <1>10, <1>11 DEF IOInv

LEMMA PausesInv == IOInv /\ Pauses => IOInv'
BY DEF Pauses, netVars, infoVars, IOInv, NetTypeOK, InfoTypeOK, BacklogOK, OneBlock, InUse,
       FreshOK, NoBlock, BlockOK, Held, HeldFrom, HeldTo, ResultHolds, Streamed

LEMMA StartsInv ==
  ASSUME IOInv, NEW s \in Infos, NEW c \in Conns, Starts(s, c)
  PROVE  IOInv'
<1>1. NetTypeOK /\ InfoTypeOK /\ UNCHANGED netVars  BY DEF IOInv, Starts
<1>2. /\ Socket[s] = NoSocket /\ conn[c] = "open" /\ NoBlock(c)
      /\ Socket' = [Socket EXCEPT ![s] = c]
      /\ Buffer' = [Buffer EXCEPT ![s] = [k \in 1..DATA_BUFSIZE |-> 0]]
      /\ BytesRECV' = [BytesRECV EXCEPT ![s] = 0]
      /\ BytesSEND' = [BytesSEND EXCEPT ![s] = 0]
      /\ io' = [io EXCEPT ![s] = Posted("recv")]
  BY DEF Starts, NewInfo
<1>3. InfoTypeOK'  BY <1>1, <1>2 DEF InfoTypeOK, Posted
<1>4. NetTypeOK' /\ BacklogOK' /\ \A d \in Conns : Streamed(d)'
  BY <1>1 DEF IOInv, netVars, NetTypeOK, BacklogOK, Streamed
<1>5. /\ Socket'[s] = c /\ c # NoSocket /\ io'[s] = Posted("recv")
      /\ BytesRECV'[s] = 0 /\ BytesSEND'[s] = 0
      /\ \A t \in Infos : t # s => SameBlock(t)
  BY <1>1, <1>2, NetFacts DEF InfoTypeOK, SameBlock
<1>6. OneBlock'
  <2>1. ASSUME NEW t \in InUse', NEW u \in InUse', Socket'[t] = Socket'[u]  PROVE t = u
    <3>1. t \in Infos /\ u \in Infos  BY DEF InUse
    <3>2. \A v \in Infos : v # s => Socket'[v] = Socket[v] /\ Socket[v] # c
      BY <1>2, <1>5 DEF NoBlock, SameBlock
    <3>3. CASE t = s \/ u = s  BY <1>5, <2>1, <3>1, <3>2, <3>3
    <3>4. CASE t # s /\ u # s
      <4>1. t \in InUse /\ u \in InUse /\ Socket[t] = Socket[u]
        BY <2>1, <3>1, <3>2, <3>4 DEF InUse
      <4>2. QED  BY <4>1 DEF IOInv, OneBlock
    <3>5. QED  BY <3>3, <3>4
  <2>2. QED  BY <2>1 DEF OneBlock
<1>7. FreshOK'
  <2>1. ASSUME NEW d \in Conns, NoBlock(d)'  PROVE NoBlock(d)
    <3>1. \A t \in Infos : t # s => Socket[t] # d  BY <1>5, <2>1 DEF NoBlock, SameBlock
    <3>2. Socket[s] # d  BY <1>2, NetFacts, <1>1
    <3>3. QED  BY <3>1, <3>2 DEF NoBlock
  <2>2. QED  BY <1>1, <2>1 DEF IOInv, FreshOK, netVars
<1>8. ASSUME NEW t \in Infos  PROVE BlockOK(t)'
  <2>1. CASE t = s
    <3>1. taken[c] = 0 /\ Len(echo[c]) = 0  BY <1>2 DEF IOInv, FreshOK
    <3>2. HeldFrom(s)' = 0 /\ HeldTo(s)' = 0  BY <1>5 DEF HeldFrom, HeldTo, Posted
    <3>3. (HeldFrom(s)' + 1)..HeldTo(s)' = {}  BY <3>2
    <3>4. UNCHANGED <<taken, echo, conn>>  BY <1>1 DEF netVars
    <3>5. Held(s)'  BY <1>5, <3>1, <3>2, <3>3, <3>4 DEF Held, Posted
    <3>6. ResultHolds(s)'  BY <1>2, <1>5, <3>4 DEF ResultHolds, Posted
    <3>7. QED  BY <1>5, <2>1, <3>5, <3>6 DEF BlockOK
  <2>2. CASE t # s
    <3>1. \A d \in Conns : SameStream(d) /\ conn'[d] = conn[d]
      BY <1>1, NetFacts DEF SameStream, netVars
    <3>2. QED  BY <1>1, <1>5, <2>2, <3>1, InfoFacts, BlockFrame DEF IOInv
  <2>3. QED  BY <2>1, <2>2
<1>9. QED  BY <1>3, <1>4, <1>6, <1>7, <1>8 DEF IOInv

(* What the accounting of a completed operation leaves: as many bytes held  *)
(* as before, and none exactly when a receive is next.                      *)
LEMMA ContinueAccounts ==
  ASSUME IOInv, NEW s \in Infos, NEW posted \in BOOLEAN, Continue(s, posted)
  PROVE  /\ s \in InUse /\ io[s].op \in {"recv", "send"}
         /\ Received(s) = HeldTo(s) /\ SentBack(s) = HeldFrom(s)
         /\ Received(s) \in 0..DATA_BUFSIZE /\ SentBack(s) \in 0..DATA_BUFSIZE
<1>1. io[s].status = "done" /\ io[s].bytes > 0  BY DEF Continue
<1>2. io[s] # Idle  BY <1>1 DEF Idle
<1>3. s \in InUse /\ Held(s) /\ ResultHolds(s)  BY <1>2, BlockInUse
<1>4. InfoTypeOK  BY DEF IOInv
<1>5. io[s].op \in {"recv", "send"}  BY <1>1, <1>3, <1>4, InfoFacts DEF ResultHolds
<1>6. CASE io[s].op = "recv"
  BY <1>3, <1>4, <1>6, InfoFacts
     DEF Held, HeldFrom, HeldTo, Received, SentBack, WasReceive
<1>7. CASE io[s].op = "send"
  <2>1. BytesRECV[s] > BytesSEND[s] /\ HeldFrom(s) <= HeldTo(s)  BY <1>3, <1>7 DEF Held
  <2>2. HeldFrom(s) = BytesSEND[s] + io[s].bytes /\ HeldTo(s) = BytesRECV[s]
    BY <1>7 DEF HeldFrom, HeldTo
  <2>3. BytesRECV[s] \in 0..DATA_BUFSIZE /\ BytesSEND[s] \in 0..DATA_BUFSIZE
        /\ io[s].bytes \in 0..DATA_BUFSIZE
    BY <1>4, InfoFacts
  <2>4. ~WasReceive(s)  BY <2>1, <2>3 DEF WasReceive
  <2>5. Received(s) = BytesRECV[s] /\ SentBack(s) = BytesSEND[s] + io[s].bytes
    BY <2>4 DEF Received, SentBack
  <2>6. QED  BY <1>3, <1>7, <2>1, <2>2, <2>3, <2>5
<1>8. QED  BY <1>3, <1>5, <1>6, <1>7

LEMMA ContinuesInv ==
  ASSUME IOInv, NEW s \in Infos, Continues(s)
  PROVE  IOInv'
<1>1. PICK posted \in BOOLEAN : Continue(s, posted)  BY DEF Continues
<1> DEFINE more == Received(s) > SentBack(s)
<1>2. /\ s \in InUse /\ io[s].op \in {"recv", "send"}
      /\ Received(s) = HeldTo(s) /\ SentBack(s) = HeldFrom(s)
      /\ Received(s) \in 0..DATA_BUFSIZE /\ SentBack(s) \in 0..DATA_BUFSIZE
  BY <1>1, ContinueAccounts
<1>3. /\ BytesRECV' = [BytesRECV EXCEPT ![s] = IF more THEN Received(s) ELSE 0]
      /\ BytesSEND' = [BytesSEND EXCEPT ![s] = SentBack(s)]
      /\ io' = [io EXCEPT ![s] = IF ~posted THEN Idle
                                 ELSE Posted(IF more THEN "send" ELSE "recv")]
      /\ UNCHANGED <<Socket, Buffer>>
  BY <1>1 DEF Continue, MoreToSend
<1>4. NetTypeOK /\ InfoTypeOK /\ UNCHANGED netVars  BY DEF IOInv, Continues
<1>5. NetTypeOK' /\ BacklogOK' /\ OneBlock' /\ FreshOK' /\ \A d \in Conns : Streamed(d)'
  BY <1>3, <1>4 DEF IOInv, netVars, NetTypeOK, BacklogOK, OneBlock, InUse, FreshOK, NoBlock,
     Streamed
<1>6. /\ BytesRECV'[s] = IF more THEN Received(s) ELSE 0
      /\ BytesSEND'[s] = SentBack(s)
      /\ io'[s] = IF ~posted THEN Idle ELSE Posted(IF more THEN "send" ELSE "recv")
      /\ Socket'[s] = Socket[s] /\ Buffer'[s] = Buffer[s]
      /\ \A t \in Infos : t # s => SameBlock(t)
  BY <1>3, <1>4 DEF InfoTypeOK, SameBlock
<1>7. InfoTypeOK'
  <2>1. /\ BytesRECV' \in [Infos -> 0..DATA_BUFSIZE] /\ BytesSEND' \in [Infos -> 0..DATA_BUFSIZE]
    BY <1>2, <1>3, <1>4 DEF InfoTypeOK
  <2>2. io' \in [Infos -> [op : {"none", "recv", "send"},
                           status : {"none", "pending", "done", "failed"},
                           bytes : 0..DATA_BUFSIZE]]
    BY <1>3, <1>4 DEF InfoTypeOK, Idle, Posted
  <2>3. QED  BY <1>3, <1>4, <2>1, <2>2 DEF InfoTypeOK
<1>8. Held(s) /\ ResultHolds(s) /\ Socket[s] \in Conns /\ Socket[s] # NoSocket
  BY <1>2, InUseOK DEF InUse
<1>9. UNCHANGED <<conn, sent, fin, rst, taken, echo>>  BY <1>4 DEF netVars
<1>10. BlockOK(s)'
  <2>1. ResultHolds(s)'
    BY <1>6, <1>8, <1>9 DEF ResultHolds, Idle, Posted
  <2>2. Held(s)'
    <3>1. CASE ~posted  BY <1>6, <3>1 DEF Held, Idle
    <3>2. CASE posted /\ more
      <4>1. /\ io'[s].op = "send" /\ io'[s].bytes = 0
            /\ BytesRECV'[s] = Received(s) /\ BytesSEND'[s] = SentBack(s)
        BY <1>6, <3>2 DEF Posted
      <4>2. HeldFrom(s)' = HeldFrom(s) /\ HeldTo(s)' = HeldTo(s)
        BY <1>2, <4>1 DEF HeldFrom, HeldTo
      <4>3. BytesRECV'[s] > BytesSEND'[s]  BY <3>2, <4>1
      <4>4. QED  BY <1>2, <1>6, <1>8, <1>9, <4>1, <4>2, <4>3 DEF Held
    <3>3. CASE posted /\ ~more
      <4>1. io'[s].op = "recv" /\ io'[s].bytes = 0 /\ BytesRECV'[s] = 0
        BY <1>6, <3>3 DEF Posted
      <4>2. HeldFrom(s)' = 0 /\ HeldTo(s)' = 0  BY <4>1 DEF HeldFrom, HeldTo
      <4>3. HeldTo(s) = HeldFrom(s)  BY <1>2, <1>8, <3>3 DEF Held
      <4>4. (HeldFrom(s)' + 1)..HeldTo(s)' = {}  BY <4>2
      <4>5. Len(echo[Socket[s]]) = taken[Socket[s]]
        BY <1>2, <1>4, <1>8, <4>3, NetFacts DEF Held
      <4>6. QED  BY <1>4, <1>6, <1>8, <1>9, <4>1, <4>2, <4>4, <4>5, NetFacts DEF Held
    <3>4. QED  BY <3>1, <3>2, <3>3
  <2>3. QED  BY <1>6, <1>8, <2>1, <2>2 DEF BlockOK
<1>11. ASSUME NEW t \in Infos, t # s  PROVE BlockOK(t)'
  <2>1. \A d \in Conns : SameStream(d) /\ conn'[d] = conn[d]
    BY <1>4, NetFacts DEF SameStream, netVars
  <2>2. QED  BY <1>4, <1>6, <1>11, <2>1, InfoFacts, BlockFrame DEF IOInv
<1>12. QED  BY <1>5, <1>7, <1>10, <1>11 DEF IOInv

LEMMA EndsInv ==
  ASSUME IOInv, NEW s \in Infos, Ends(s)
  PROVE  IOInv'
<1> DEFINE c == Socket[s]
<1>1. NetTypeOK /\ InfoTypeOK  BY DEF IOInv
<1>2. io[s] # Idle  BY DEF Ends, Ended, Idle
<1>3. s \in InUse /\ c \in Conns /\ conn[c] = "open"  BY <1>2, BlockInUse DEF ResultHolds
<1>4. /\ conn' = [conn EXCEPT ![c] = "closed"]
      /\ Socket' = [Socket EXCEPT ![s] = NoSocket]
      /\ io' = [io EXCEPT ![s] = Idle]
      /\ UNCHANGED <<Buffer, BytesRECV, BytesSEND, clientVars, backlog, taken, echo>>
  BY DEF Ends, FreeInfo
<1>5. \A t \in Infos : t # s => SameBlock(t) /\ Socket[t] # c
  <2>1. ASSUME NEW t \in Infos, t # s  PROVE SameBlock(t) /\ Socket[t] # c
    <3>1. SameBlock(t)  BY <1>1, <1>4, <2>1 DEF InfoTypeOK, SameBlock
    <3>2. Socket[t] = c => t \in InUse  BY <1>3 DEF InUse
    <3>3. QED  BY <1>3, <2>1, <3>1, <3>2 DEF IOInv, OneBlock
  <2>2. QED  BY <2>1
<1>6. Socket'[s] = NoSocket /\ io'[s] = Idle  BY <1>1, <1>4 DEF InfoTypeOK
<1> HIDE DEF c
<1>7. InfoTypeOK'
  <2>1. Socket' \in [Infos -> Conns \cup {NoSocket}]  BY <1>1, <1>4 DEF InfoTypeOK
  <2>2. io' \in [Infos -> [op : {"none", "recv", "send"},
                           status : {"none", "pending", "done", "failed"},
                           bytes : 0..DATA_BUFSIZE]]
    BY <1>1, <1>4 DEF InfoTypeOK, Idle
  <2>3. QED  BY <1>1, <1>4, <2>1, <2>2 DEF InfoTypeOK
<1>8. /\ conn' \in [Conns -> {"new", "pending", "open", "closed"}]
      /\ conn'[c] = "closed" /\ \A d \in Conns : d # c => conn'[d] = conn[d]
  BY <1>1, <1>3, <1>4 DEF NetTypeOK
<1>9. NetTypeOK'  BY <1>1, <1>4, <1>8 DEF NetTypeOK, clientVars
<1>10. \A d \in Conns : SameStream(d)  BY <1>1, <1>4, NetFacts DEF SameStream, clientVars
<1>11. BacklogOK'
  <2>1. backlog' = backlog /\ backlog \in Seq(Conns)  BY <1>1, <1>4 DEF NetTypeOK
  <2>2. \A k \in 1..Len(backlog) : backlog[k] # c /\ backlog[k] \in Conns
    BY <1>3, <2>1 DEF IOInv, BacklogOK
  <2>3. QED  BY <1>8, <2>1, <2>2 DEF IOInv, BacklogOK
<1>12. OneBlock'
  <2>1. \A t \in InUse' : t \in InUse /\ Socket'[t] = Socket[t]
    BY <1>5, <1>6 DEF InUse, SameBlock
  <2>2. QED  BY <2>1 DEF IOInv, OneBlock
<1>13. FreshOK'
  <2>1. ASSUME NEW d \in Conns, conn'[d] # "closed", NoBlock(d)'
        PROVE  conn[d] # "closed" /\ NoBlock(d)
    <3>1. d # c /\ conn[d] # "closed"  BY <1>8, <2>1
    <3>2. \A t \in Infos : t # s => Socket[t] # d  BY <1>5, <2>1 DEF NoBlock, SameBlock
    <3>3. QED  BY <3>1, <3>2 DEF NoBlock, c
  <2>2. QED  BY <1>4, <2>1 DEF IOInv, FreshOK
<1>14. ASSUME NEW t \in Infos  PROVE BlockOK(t)'
  <2>1. CASE t = s  BY <1>6, <2>1 DEF BlockOK
  <2>2. CASE t # s
    <3>1. Socket[t] # NoSocket =>
            SameStream(Socket[t]) /\ conn'[Socket[t]] = conn[Socket[t]]
      BY <1>1, <1>5, <1>8, <1>10, <2>2, InfoFacts
    <3>2. QED  BY <1>1, <1>5, <2>2, <3>1, BlockFrame DEF IOInv
  <2>3. QED  BY <2>1, <2>2
<1>15. \A d \in Conns : Streamed(d)'  BY <1>1, <1>10, StreamFrame DEF IOInv
<1>16. QED  BY <1>7, <1>9, <1>11, <1>12, <1>13, <1>14, <1>15 DEF IOInv

-----------------------------------------------------------------------------
(* The stack's steps. *)

LEMMA ConcatFacts ==
  ASSUME NEW x \in Seq(Nat), NEW y \in Seq(Nat)
  PROVE  /\ x \o y \in Seq(Nat)
         /\ Len(x \o y) = Len(x) + Len(y)
         /\ \A k \in 1..Len(x) : (x \o y)[k] = x[k]
         /\ \A k \in 1..Len(y) : (x \o y)[Len(x) + k] = y[k]
OBVIOUS

\* What a step on block s that only moves its operation and its stream preserves.
LEMMA StackFrame ==
  ASSUME IOInv, NEW s \in InUse,
         UNCHANGED <<clientVars, conn, backlog, Socket, BytesRECV, BytesSEND>>,
         NetTypeOK', InfoTypeOK',
         \A t \in Infos : t # s => SameBlock(t),
         \A d \in Conns : d # Socket[s] => taken'[d] = taken[d] /\ echo'[d] = echo[d],
         Held(s)', ResultHolds(s)', Streamed(Socket[s])'
  PROVE  IOInv'
<1>1. NetTypeOK /\ InfoTypeOK /\ s \in Infos /\ Socket[s] \in Conns /\ Socket[s] # NoSocket
  BY InUseOK DEF IOInv, InUse
<1>2. BacklogOK' /\ OneBlock'  BY DEF IOInv, BacklogOK, OneBlock, InUse
<1>3. \A d \in Conns : NoBlock(d)' => NoBlock(d) /\ d # Socket[s]  BY <1>1 DEF NoBlock
<1>4. FreshOK'  BY <1>3 DEF IOInv, FreshOK
<1>5. \A d \in Conns : d # Socket[s] => SameStream(d)
  BY <1>1, NetFacts DEF SameStream, clientVars
<1>6. ASSUME NEW t \in Infos, t # s  PROVE BlockOK(t)'
  <2>1. Socket[t] # NoSocket => Socket[t] \in Conns /\ Socket[t] # Socket[s]
    BY <1>1, <1>6, InfoFacts DEF IOInv, OneBlock, InUse
  <2>2. Socket[t] # NoSocket =>
          SameStream(Socket[t]) /\ conn'[Socket[t]] = conn[Socket[t]]
    BY <1>5, <2>1
  <2>3. QED  BY <1>1, <1>6, <2>2, BlockFrame DEF IOInv
<1>7. BlockOK(s)'  BY <1>1 DEF BlockOK
<1>8. \A d \in Conns : Streamed(d)'
  BY <1>1, <1>5, StreamFrame DEF IOInv
<1>9. QED  BY <1>2, <1>4, <1>6, <1>7, <1>8 DEF IOInv

LEMMA CompleteFailedInv ==
  ASSUME IOInv, NEW s \in Infos, CompleteFailed(s)
  PROVE  IOInv'
<1>1. /\ io[s].status = "pending" /\ Dead(Socket[s])
      /\ io' = [io EXCEPT ![s].status = "failed"]
      /\ UNCHANGED <<netVars, Socket, Buffer, BytesRECV, BytesSEND>>
  BY DEF CompleteFailed
<1>2. io[s] # Idle  BY <1>1 DEF Idle
<1>3. s \in InUse /\ Socket[s] \in Conns /\ Held(s) /\ ResultHolds(s)  BY <1>2, BlockInUse
<1>4. NetTypeOK /\ InfoTypeOK  BY DEF IOInv
<1>5. /\ io'[s].op = io[s].op /\ io'[s].bytes = io[s].bytes /\ io'[s].status = "failed"
      /\ \A t \in Infos : t # s => SameBlock(t)
  BY <1>1, <1>4 DEF InfoTypeOK, SameBlock
<1>6. InfoTypeOK' /\ NetTypeOK'
  BY <1>1, <1>4 DEF InfoTypeOK, NetTypeOK, netVars
<1>7. UNCHANGED <<conn, sent, fin, rst, taken, echo>>  BY <1>1 DEF netVars
<1>8. Held(s)'  BY <1>1, <1>3, <1>5, <1>7 DEF Held, HeldFrom, HeldTo
<1>9. rst[Socket[s]]  BY <1>1, <1>3 DEF Dead, HardError, ResultHolds
<1>10. ResultHolds(s)'  BY <1>1, <1>3, <1>5, <1>7, <1>9 DEF ResultHolds
<1>11. Streamed(Socket[s])'  BY <1>1, <1>3, <1>7 DEF IOInv, Streamed
<1>12. UNCHANGED <<clientVars, backlog>>  BY <1>1 DEF netVars, clientVars
<1>13. QED  BY <1>1, <1>3, <1>5, <1>6, <1>7, <1>8, <1>10, <1>11, <1>12, StackFrame

LEMMA CompleteRecvInv ==
  ASSUME IOInv, NEW s \in Infos, NEW n \in 0..DATA_BUFSIZE, CompleteRecv(s, n)
  PROVE  IOInv'
<1> DEFINE c == Socket[s]
<1>1. /\ io[s] = Posted("recv") /\ CanRecv(c, DATA_BUFSIZE, n)
      /\ Buffer' = [Buffer EXCEPT ![s] = Overwrite(@, Incoming(c, n))]
      /\ taken' = [taken EXCEPT ![c] = @ + n]
      /\ io' = [io EXCEPT ![s].status = "done", ![s].bytes = n]
      /\ UNCHANGED <<clientVars, conn, backlog, echo, Socket, BytesRECV, BytesSEND>>
  BY DEF CompleteRecv
<1>2. io[s] # Idle /\ io[s].op = "recv" /\ io[s].bytes = 0  BY <1>1 DEF Idle, Posted
<1>3. s \in InUse /\ c \in Conns /\ c # NoSocket /\ Held(s) /\ ResultHolds(s)
  BY <1>2, BlockInUse DEF InUse
<1>4. NetTypeOK /\ InfoTypeOK /\ Streamed(c)  BY <1>3 DEF IOInv
<1> HIDE DEF c
<1>5. /\ sent[c] \in Nat /\ taken[c] \in Nat /\ echo[c] \in Seq(Nat) /\ Len(echo[c]) \in Nat
  BY <1>3, <1>4, NetFacts
<1>6. /\ n \in Nat /\ taken[c] + n <= sent[c]
      /\ n = 0 => taken[c] = sent[c] /\ fin[c]
  BY <1>1, <1>4, <1>5 DEF CanRecv, Avail, Streamed
<1>7. /\ io'[s].op = "recv" /\ io'[s].status = "done" /\ io'[s].bytes = n
      /\ Buffer'[s] = Overwrite(Buffer[s], Incoming(c, n))
      /\ taken'[c] = taken[c] + n
      /\ \A t \in Infos : t # s => SameBlock(t)
      /\ \A d \in Conns : d # c => taken'[d] = taken[d] /\ echo'[d] = echo[d]
  BY <1>1, <1>2, <1>3, <1>4 DEF InfoTypeOK, NetTypeOK, SameBlock
<1>8. Len(Buffer[s]) = DATA_BUFSIZE /\ Buffer[s] \in [1..DATA_BUFSIZE -> Nat]
  BY <1>4 DEF InfoTypeOK
<1>9. /\ Incoming(c, n) \in [1..n -> Nat] /\ Len(Incoming(c, n)) = n
      /\ \A k \in 1..n : Incoming(c, n)[k] = taken[c] + k
  BY <1>5, <1>6 DEF Incoming
<1>10. /\ Overwrite(Buffer[s], Incoming(c, n)) \in [1..DATA_BUFSIZE -> Nat]
       /\ \A k \in 1..n : Overwrite(Buffer[s], Incoming(c, n))[k] = taken[c] + k
  BY <1>8, <1>9 DEF Overwrite
<1>11. InfoTypeOK'
  <2>1. Buffer' \in [Infos -> [1..DATA_BUFSIZE -> Nat]]  BY <1>1, <1>4, <1>10 DEF InfoTypeOK
  <2>2. io' \in [Infos -> [op : {"none", "recv", "send"},
                           status : {"none", "pending", "done", "failed"},
                           bytes : 0..DATA_BUFSIZE]]
    BY <1>1, <1>4 DEF InfoTypeOK
  <2>3. QED  BY <1>1, <1>4, <2>1, <2>2 DEF InfoTypeOK
<1>12. NetTypeOK'
  <2>1. taken' = [taken EXCEPT ![c] = @ + n] /\ taken \in [Conns -> Nat]
    BY <1>1, <1>4 DEF NetTypeOK
  <2>2. taken[c] + n \in Nat  BY <1>5, <1>6
  <2>3. taken' \in [Conns -> Nat]  BY <2>1, <2>2
  <2>4. QED  BY <1>1, <1>4, <2>3 DEF NetTypeOK, clientVars
<1>13. Held(s)'
  <2>1. HeldFrom(s)' = 0 /\ HeldTo(s)' = n  BY <1>7 DEF HeldFrom, HeldTo
  <2>2. HeldFrom(s) = 0 /\ HeldTo(s) = 0  BY <1>2 DEF HeldFrom, HeldTo
  <2>3. BytesRECV[s] = 0 /\ Len(echo[c]) = taken[c]
    BY <1>2, <1>3, <1>5, <2>2 DEF Held, c
  <2>4. \A k \in 1..n : Buffer'[s][k] = Len(echo[c]) + (k - 0)
    BY <1>5, <1>7, <1>10, <2>3
  <2>5. Len(echo[c]) + (n - 0) = taken'[c]  BY <1>5, <1>6, <1>7, <2>3
  <2>6. UNCHANGED <<Socket, BytesRECV, echo>>  BY <1>1
  <2>7. QED  BY <1>6, <1>7, <2>1, <2>3, <2>4, <2>5, <2>6 DEF Held, c
<1>14. ResultHolds(s)'
  <2>1. n = 0 => taken'[c] = sent[c] /\ fin[c]  BY <1>5, <1>6, <1>7
  <2>2. UNCHANGED <<Socket, conn, sent, fin>>  BY <1>1 DEF clientVars
  <2>3. conn[c] = "open"  BY <1>3 DEF ResultHolds, c
  <2>4. QED  BY <1>7, <2>1, <2>2, <2>3 DEF ResultHolds, c
<1>15. Streamed(c)'
  <2>1. Len(echo[c]) <= taken[c] + n  BY <1>4, <1>5, <1>6 DEF Streamed
  <2>2. UNCHANGED <<sent, echo>>  BY <1>1 DEF clientVars
  <2>3. c' = c  BY <1>1 DEF c
  <2>4. QED  BY <1>4, <1>6, <1>7, <2>1, <2>2, <2>3 DEF Streamed
<1>16. QED
  BY <1>1, <1>3, <1>7, <1>11, <1>12, <1>13, <1>14, <1>15, StackFrame DEF c

\* The bytes a send takes from the buffer are the next ones of the stream.
LEMMA SendIsNext ==
  ASSUME IOInv, NEW s \in Infos, NEW n \in 0..DATA_BUFSIZE, CompleteSend(s, n)
  PROVE  /\ s \in InUse /\ Socket[s] \in Conns
         /\ n \in 1..(BytesRECV[s] - BytesSEND[s])
         /\ Unsent(s, n) = [k \in 1..n |-> Len(echo[Socket[s]]) + k]
         /\ Len(echo[Socket[s]]) + n <= taken[Socket[s]]
         /\ Len(echo[Socket[s]]) + n <= sent[Socket[s]]
<1> DEFINE c == Socket[s]
<1>1. io[s] = Posted("send") /\ CanSend(c, BytesRECV[s] - BytesSEND[s], n)
  BY DEF CompleteSend
<1>2. io[s] # Idle /\ io[s].op = "send" /\ io[s].bytes = 0  BY <1>1 DEF Idle, Posted
<1>3. s \in InUse /\ c \in Conns /\ Held(s)  BY <1>2, BlockInUse
<1>4. NetTypeOK /\ InfoTypeOK /\ Streamed(c)  BY <1>3 DEF IOInv
<1>5. BytesRECV[s] \in Nat /\ BytesSEND[s] \in Nat
  <2>1. BytesRECV[s] \in 0..DATA_BUFSIZE /\ BytesSEND[s] \in 0..DATA_BUFSIZE
    BY <1>4, InfoFacts
  <2>2. QED  BY <2>1
<1> HIDE DEF c
<1>6. /\ sent[c] \in Nat /\ taken[c] \in Nat /\ Len(echo[c]) \in Nat
  BY <1>3, <1>4, NetFacts
<1>7. n \in 1..(BytesRECV[s] - BytesSEND[s])  BY <1>1 DEF CanSend
<1>8. HeldFrom(s) = BytesSEND[s] /\ HeldTo(s) = BytesRECV[s]
  BY <1>2, <1>5 DEF HeldFrom, HeldTo
<1>9. /\ Len(echo[c]) + (BytesRECV[s] - BytesSEND[s]) = taken[c]
      /\ \A k \in BytesSEND[s]+1..BytesRECV[s] :
           Buffer[s][k] = Len(echo[c]) + (k - BytesSEND[s])
  BY <1>2, <1>3, <1>8 DEF Held, c
<1>10. ASSUME NEW k \in 1..n  PROVE Buffer[s][BytesSEND[s] + k] = Len(echo[c]) + k
  <2>1. BytesSEND[s] + k \in BytesSEND[s]+1..BytesRECV[s]  BY <1>5, <1>7
  <2>2. (BytesSEND[s] + k) - BytesSEND[s] = k  BY <1>5
  <2>3. QED  BY <1>9, <2>1, <2>2
<1>11. Unsent(s, n) = [k \in 1..n |-> Len(echo[c]) + k]  BY <1>10 DEF Unsent
<1>12. Len(echo[c]) + n <= taken[c] /\ taken[c] <= sent[c]
  BY <1>4, <1>5, <1>6, <1>7, <1>9 DEF Streamed
<1>13. QED  BY <1>3, <1>6, <1>7, <1>11, <1>12 DEF c

LEMMA CompleteSendInv ==
  ASSUME IOInv, NEW s \in Infos, NEW n \in 0..DATA_BUFSIZE, CompleteSend(s, n)
  PROVE  IOInv'
<1> DEFINE c == Socket[s]
<1>1. /\ io[s] = Posted("send")
      /\ echo' = [echo EXCEPT ![c] = @ \o Unsent(s, n)]
      /\ io' = [io EXCEPT ![s].status = "done", ![s].bytes = n]
      /\ UNCHANGED <<clientVars, conn, backlog, taken, Socket, Buffer, BytesRECV, BytesSEND>>
  BY DEF CompleteSend
<1>2. io[s] # Idle /\ io[s].op = "send" /\ io[s].bytes = 0  BY <1>1 DEF Idle, Posted
<1>3. s \in InUse /\ c \in Conns /\ c # NoSocket /\ Held(s) /\ ResultHolds(s)
  BY <1>2, BlockInUse DEF InUse
<1>4. /\ n \in 1..(BytesRECV[s] - BytesSEND[s])
      /\ Unsent(s, n) = [k \in 1..n |-> Len(echo[c]) + k]
      /\ Len(echo[c]) + n <= taken[c]
  BY SendIsNext
<1>5. NetTypeOK /\ InfoTypeOK /\ Streamed(c)  BY <1>3 DEF IOInv
<1>6. BytesRECV[s] \in Nat /\ BytesSEND[s] \in Nat /\ n \in Nat
  <2>1. BytesRECV[s] \in 0..DATA_BUFSIZE /\ BytesSEND[s] \in 0..DATA_BUFSIZE
    BY <1>5, InfoFacts
  <2>2. QED  BY <2>1
<1> HIDE DEF c
<1>7. /\ sent[c] \in Nat /\ taken[c] \in Nat /\ echo[c] \in Seq(Nat) /\ Len(echo[c]) \in Nat
  BY <1>3, <1>5, NetFacts
<1>8. /\ io'[s].op = "send" /\ io'[s].status = "done" /\ io'[s].bytes = n
      /\ echo'[c] = echo[c] \o Unsent(s, n)
      /\ \A t \in Infos : t # s => SameBlock(t)
      /\ \A d \in Conns : d # c => taken'[d] = taken[d] /\ echo'[d] = echo[d]
  BY <1>1, <1>2, <1>3, <1>5 DEF InfoTypeOK, NetTypeOK, SameBlock
<1>9. /\ Unsent(s, n) \in Seq(Nat) /\ Len(Unsent(s, n)) = n
      /\ \A k \in 1..n : Unsent(s, n)[k] = Len(echo[c]) + k
  BY <1>4, <1>6, <1>7
<1>10. /\ echo'[c] \in Seq(Nat) /\ Len(echo'[c]) = Len(echo[c]) + n
       /\ \A k \in 1..Len(echo[c]) : echo'[c][k] = echo[c][k]
       /\ \A k \in 1..n : echo'[c][Len(echo[c]) + k] = Len(echo[c]) + k
  <2> DEFINE u == Unsent(s, n)
  <2>1. u \in Seq(Nat) /\ Len(u) = n /\ \A k \in 1..n : u[k] = Len(echo[c]) + k  BY <1>9
  <2>2. echo'[c] = echo[c] \o u  BY <1>8
  <2> HIDE DEF u
  <2>3. /\ echo[c] \o u \in Seq(Nat) /\ Len(echo[c] \o u) = Len(echo[c]) + n
        /\ \A k \in 1..Len(echo[c]) : (echo[c] \o u)[k] = echo[c][k]
        /\ \A k \in 1..n : (echo[c] \o u)[Len(echo[c]) + k] = u[k]
    BY <1>7, <2>1, ConcatFacts
  <2>4. QED  BY <2>1, <2>2, <2>3
<1>11. InfoTypeOK'
  <2>1. io' \in [Infos -> [op : {"none", "recv", "send"},
                           status : {"none", "pending", "done", "failed"},
                           bytes : 0..DATA_BUFSIZE]]
    BY <1>1, <1>5 DEF InfoTypeOK
  <2>2. QED  BY <1>1, <1>5, <2>1 DEF InfoTypeOK
<1>12. NetTypeOK'
  <2>1. echo' \in [Conns -> Seq(Nat)]
    <3>1. echo' = [echo EXCEPT ![c] = echo'[c]]  BY <1>1, <1>8
    <3>2. QED  BY <1>5, <1>10, <3>1 DEF NetTypeOK
  <2>2. QED  BY <1>1, <1>5, <2>1 DEF NetTypeOK, clientVars
<1>13. Held(s)'
  <2>1. HeldFrom(s)' = BytesSEND[s] + n /\ HeldTo(s)' = BytesRECV[s]
    BY <1>1, <1>8 DEF HeldFrom, HeldTo
  <2>2. HeldFrom(s) = BytesSEND[s] /\ HeldTo(s) = BytesRECV[s]
    BY <1>2, <1>6 DEF HeldFrom, HeldTo
  <2>3. /\ BytesRECV[s] > BytesSEND[s]
        /\ Len(echo[c]) + (BytesRECV[s] - BytesSEND[s]) = taken[c]
        /\ \A k \in BytesSEND[s]+1..BytesRECV[s] :
             Buffer[s][k] = Len(echo[c]) + (k - BytesSEND[s])
    BY <1>2, <1>3, <2>2 DEF Held, c
  <2>4. ASSUME NEW k \in (BytesSEND[s] + n)+1..BytesRECV[s]
        PROVE  Buffer[s][k] = Len(echo'[c]) + (k - (BytesSEND[s] + n))
    <3>1. k \in BytesSEND[s]+1..BytesRECV[s] /\ k \in Nat  BY <1>6
    <3>2. Buffer[s][k] = Len(echo[c]) + (k - BytesSEND[s])  BY <2>3, <3>1
    <3>3. QED  BY <1>6, <1>7, <1>10, <3>1, <3>2
  <2>5. /\ BytesSEND[s] + n <= BytesRECV[s]
        /\ Len(echo'[c]) + (BytesRECV[s] - (BytesSEND[s] + n)) = taken[c]
    <3>1. n <= BytesRECV[s] - BytesSEND[s] /\ Len(echo'[c]) = Len(echo[c]) + n
      BY <1>4, <1>10
    <3>2. Len(echo[c]) + (BytesRECV[s] - BytesSEND[s]) = taken[c]  BY <2>3
    <3>3. BytesSEND[s] + n <= BytesRECV[s]  BY <1>6, <3>1
    <3>4. BytesRECV[s] - (BytesSEND[s] + n) = (BytesRECV[s] - BytesSEND[s]) - n  BY <1>6
    <3>5. QED  BY <1>6, <1>7, <3>1, <3>2, <3>3, <3>4
  <2>6. UNCHANGED <<Socket, Buffer, BytesRECV, BytesSEND, taken>>  BY <1>1
  <2>7. QED  BY <1>8, <2>1, <2>3, <2>4, <2>5, <2>6 DEF Held, c
<1>14. ResultHolds(s)'
  <2>1. n # 0  BY <1>4, <1>6
  <2>2. UNCHANGED <<Socket, conn, sent, fin>>  BY <1>1 DEF clientVars
  <2>3. conn[c] = "open"  BY <1>3 DEF ResultHolds, c
  <2>4. QED  BY <1>8, <2>1, <2>2, <2>3 DEF ResultHolds, c
<1>15. Streamed(c)'
  <2>1. ASSUME NEW k \in 1..Len(echo'[c])  PROVE echo'[c][k] = k
    <3>1. CASE k \in 1..Len(echo[c])  BY <1>5, <1>10, <3>1 DEF Streamed
    <3>2. CASE k \notin 1..Len(echo[c])
      <4>1. k - Len(echo[c]) \in 1..n /\ Len(echo[c]) + (k - Len(echo[c])) = k
        BY <1>6, <1>7, <1>10, <3>2
      <4>2. QED  BY <1>10, <4>1
    <3>3. QED  BY <3>1, <3>2
  <2>2. Len(echo'[c]) <= taken[c]  BY <1>4, <1>10
  <2>3. UNCHANGED <<taken, sent>> /\ taken[c] <= sent[c]
    BY <1>1, <1>5 DEF clientVars, Streamed
  <2>4. c' = c  BY <1>1 DEF c
  <2>5. QED  BY <2>1, <2>2, <2>3, <2>4 DEF Streamed
<1>16. QED
  BY <1>1, <1>3, <1>8, <1>11, <1>12, <1>13, <1>14, <1>15, StackFrame DEF c

LEMMA StackInv ==
  ASSUME IOInv, NEW s \in Infos, Stack(s)
  PROVE  IOInv'
BY CompleteFailedInv, CompleteRecvInv, CompleteSendInv DEF Stack

LEMMA IOStepInv == IOInv /\ IOStep => IOInv'
BY ClientMovesInv, TakesBacklogInv, PausesInv, StackInv, ContinuesInv, EndsInv, StartsInv
   DEF IOStep

\* No block, no connection, no byte.
LEMMA IOInit == NetInit /\ InfoInit => IOInv
<1> SUFFICES ASSUME NetInit, InfoInit  PROVE IOInv
  OBVIOUS
<1>1. NetTypeOK  BY DEF NetInit, NetTypeOK
<1>2. InfoTypeOK  BY DEF InfoInit, InfoTypeOK, Idle
<1>3. BacklogOK  BY DEF NetInit, BacklogOK
<1>4. OneBlock  BY DEF InfoInit, OneBlock, InUse
<1>5. \A c \in Conns : taken[c] = 0 /\ sent[c] = 0 /\ echo[c] = <<>> /\ Len(echo[c]) = 0
  BY DEF NetInit
<1>6. FreshOK  BY <1>5 DEF FreshOK
<1>7. \A s \in Infos : BlockOK(s)  BY DEF InfoInit, BlockOK
<1>8. ASSUME NEW c \in Conns  PROVE Streamed(c)
  <2>1. (1..Len(echo[c])) = {}  BY <1>5
  <2>2. QED  BY <1>5, <2>1 DEF Streamed
<1>9. QED  BY <1>1, <1>2, <1>3, <1>4, <1>6, <1>7, <1>8 DEF IOInv

\* The strengthening gives the two statements it strengthens.
LEMMA IOInvHolds == IOInv => HeldIsNext /\ EchoIsPrefix
<1> SUFFICES ASSUME IOInv  PROVE HeldIsNext /\ EchoIsPrefix
  OBVIOUS
<1>1. HeldIsNext  BY InUseOK DEF HeldIsNext, Held
<1>2. EchoIsPrefix  BY DEF IOInv, EchoIsPrefix, Streamed
<1>3. QED  BY <1>1, <1>2

-----------------------------------------------------------------------------
(* Each kind of step is one of EchoService, or changes nothing that it sees. *)

LEMMA ClientMovesRefines == IOInv /\ ClientMoves => [Promise!Next]_Promise!vars
<1> SUFFICES ASSUME NEW c \in Conns, Client(c)  PROVE [Promise!Next]_Promise!vars
  BY DEF ClientMoves
<1>1. CASE Connect(c)
  BY <1>1 DEF Connect, Promise!Connect, Promise!Next
<1>2. CASE ClientSend(c)
  BY <1>2 DEF ClientSend, Connected, Promise!ClientSend, Promise!Next
<1>3. CASE ClientRead(c)  BY <1>3 DEF ClientRead, Promise!vars
<1>4. CASE ClientShutdown(c)
  BY <1>4 DEF ClientShutdown, Promise!Shutdown, Promise!Next
<1>5. CASE ClientReset(c)
  BY <1>5 DEF ClientReset, Promise!Reset, Promise!Next
<1>6. QED  BY <1>1, <1>2, <1>3, <1>4, <1>5 DEF Client

LEMMA TakesBacklogRefines == IOInv /\ TakesBacklog => Promise!Next
<1> SUFFICES ASSUME IOInv, TakesBacklog  PROVE Promise!Next
  OBVIOUS
<1> DEFINE c == Head(backlog)
<1>1. c \in Conns /\ conn[c] = "pending"  BY HeadOfBacklog DEF TakesBacklog
<1>2. /\ UNCHANGED <<sent, fin, rst, echo>>
      /\ \/ conn' = [conn EXCEPT ![c] = "open"]
         \/ rst[c] /\ conn' = [conn EXCEPT ![c] = "closed"]
  BY DEF TakesBacklog, clientVars
<1> HIDE DEF c
<1>3. Promise!Accept(c) \/ Promise!Close(c)
  BY <1>1, <1>2 DEF Promise!Accept, Promise!Close
<1>4. QED  BY <1>1, <1>3 DEF Promise!Next

(* A connection is given up when it was reset, or when the client has shut  *)
(* down and the bytes held, which are none, are all that is not echoed.     *)
LEMMA EndsRefines ==
  ASSUME IOInv, NEW s \in Infos, Ends(s)
  PROVE  Promise!Next
<1> DEFINE c == Socket[s]
<1>1. Ended(s) /\ conn' = [conn EXCEPT ![c] = "closed"] /\ UNCHANGED <<sent, fin, rst, echo>>
  BY DEF Ends, FreeInfo, clientVars
<1>2. io[s] # Idle  BY <1>1 DEF Ended, Idle
<1>3. c \in Conns /\ Held(s) /\ ResultHolds(s) /\ conn[c] = "open"
  BY <1>2, BlockInUse DEF ResultHolds
<1>4. rst[c] \/ (fin[c] /\ Len(echo[c]) = sent[c])
  <2>1. CASE io[s].status = "failed"  BY <1>3, <2>1 DEF ResultHolds
  <2>2. CASE io[s].status = "done" /\ io[s].bytes = 0
    <3>1. io[s].op = "recv" /\ fin[c] /\ taken[c] = sent[c]  BY <1>3, <2>2 DEF ResultHolds
    <3>2. HeldFrom(s) = 0 /\ HeldTo(s) = 0  BY <2>2, <3>1 DEF HeldFrom, HeldTo
    <3>3. Len(echo[c]) + (0 - 0) = taken[c]  BY <1>3, <3>1, <3>2 DEF Held
    <3>4. Len(echo[c]) \in Nat  BY <1>3, NetFacts DEF IOInv
    <3>5. QED  BY <3>1, <3>3, <3>4
  <2>3. QED  BY <1>1, <2>1, <2>2 DEF Ended
<1> HIDE DEF c
<1>5. Promise!Close(c)  BY <1>1, <1>3, <1>4 DEF Promise!Close
<1>6. QED  BY <1>3, <1>5 DEF Promise!Next

LEMMA StackRefines ==
  ASSUME IOInv, NEW s \in Infos, Stack(s)
  PROVE  [Promise!Next]_Promise!vars
<1>1. CASE CompleteFailed(s)  BY <1>1 DEF CompleteFailed, netVars, Promise!vars
<1>2. ASSUME NEW n \in 0..DATA_BUFSIZE, CompleteRecv(s, n)
      PROVE  [Promise!Next]_Promise!vars
  BY <1>2 DEF CompleteRecv, clientVars, Promise!vars
<1>3. ASSUME NEW n \in 0..DATA_BUFSIZE, CompleteSend(s, n)
      PROVE  Promise!Next
  <2> DEFINE c == Socket[s]
  <2>1. /\ s \in InUse /\ c \in Conns
        /\ n \in 1..(BytesRECV[s] - BytesSEND[s])
        /\ Unsent(s, n) = [k \in 1..n |-> Len(echo[c]) + k]
        /\ Len(echo[c]) + n <= sent[c]
    BY <1>3, SendIsNext
  <2>2. /\ conn[c] = "open" /\ ~rst[c]
        /\ echo' = [echo EXCEPT ![c] = @ \o Unsent(s, n)]
        /\ UNCHANGED <<conn, sent, fin, rst>>
    BY <1>3 DEF CompleteSend, CanSend, clientVars
  <2>3. sent[c] \in Nat /\ Len(echo[c]) \in Nat  BY <2>1, NetFacts DEF IOInv
  <2>4. n \in 1..sent[c]
    <3>1. n \in Nat /\ n >= 1
      <4>1. BytesRECV[s] \in 0..DATA_BUFSIZE /\ BytesSEND[s] \in 0..DATA_BUFSIZE
        BY InfoFacts DEF IOInv
      <4>2. QED  BY <2>1, <4>1
    <3>2. QED  BY <2>1, <2>3, <3>1
  <2> HIDE DEF c
  <2>5. Promise!Echo(c, n)  BY <2>1, <2>2 DEF Promise!Echo
  <2>6. QED  BY <2>1, <2>4, <2>5 DEF Promise!Next
<1>4. QED  BY <1>1, <1>2, <1>3 DEF Stack

LEMMA IOStepRefines == IOInv /\ IOStep => [Promise!Next]_Promise!vars
<1> SUFFICES ASSUME IOInv, IOStep  PROVE [Promise!Next]_Promise!vars
  OBVIOUS
<1>1. CASE Pauses  BY <1>1 DEF Pauses, netVars, Promise!vars
<1>2. ASSUME NEW s \in Infos, Continues(s) \/ \E c \in Conns : Starts(s, c)
      PROVE  [Promise!Next]_Promise!vars
  BY <1>2 DEF Continues, Starts, netVars, Promise!vars
<1>3. QED
  BY <1>1, <1>2, ClientMovesRefines, TakesBacklogRefines, EndsRefines, StackRefines DEF IOStep

LEMMA IOInitRefines == NetInit => Promise!Init
BY DEF NetInit, Promise!Init

-----------------------------------------------------------------------------
(* The types alone, which hold even when a connection has two blocks. *)

(* No send and no accounting passes what the last receive put into Buffer,  *)
(* and only blocks in use have an operation in flight.                      *)
BytesOK(s) ==
  /\ Socket[s] = NoSocket => io[s] = Idle
  /\ io[s].op = "recv" => BytesRECV[s] = 0
  /\ BytesRECV[s] # 0 => BytesSEND[s] + io[s].bytes <= BytesRECV[s]

IOTypesOK == NetTypeOK /\ InfoTypeOK /\ \A s \in Infos : BytesOK(s)

LEMMA BytesFrame ==
  ASSUME NEW s \in Infos, BytesOK(s), SameBlock(s)
  PROVE  BytesOK(s)'
BY DEF BytesOK, SameBlock

LEMMA NetOnlyTypes ==
  ASSUME IOTypesOK, ClientMoves \/ TakesBacklog \/ Pauses
  PROVE  IOTypesOK'
<1>1. UNCHANGED infoVars  BY DEF ClientMoves, TakesBacklog, Pauses
<1>2. InfoTypeOK' /\ \A s \in Infos : BytesOK(s)'
  BY <1>1, BlocksUnchanged, BytesFrame DEF IOTypesOK
<1>3. CASE ClientMoves  BY <1>2, <1>3, ClientType DEF ClientMoves, IOTypesOK
<1>4. CASE Pauses  BY <1>2, <1>4 DEF Pauses, IOTypesOK, NetTypeOK, netVars
<1>5. CASE TakesBacklog
  <2>1. Tail(backlog) \in Seq(Conns)  BY <1>5 DEF TakesBacklog, IOTypesOK, NetTypeOK
  <2>2. conn' \in [Conns -> {"new", "pending", "open", "closed"}]
    BY <1>5 DEF TakesBacklog, IOTypesOK, NetTypeOK
  <2>3. NetTypeOK'
    BY <1>5, <2>1, <2>2 DEF TakesBacklog, IOTypesOK, NetTypeOK, clientVars
  <2>4. QED  BY <1>2, <2>3 DEF IOTypesOK
<1>6. QED  BY <1>3, <1>4, <1>5

LEMMA NewInfoTypes ==
  ASSUME IOTypesOK, NEW s \in Infos, NEW c \in Conns, NewInfo(s, c), UNCHANGED netVars
  PROVE  IOTypesOK'
<1>1. NetTypeOK'  BY DEF IOTypesOK, NetTypeOK, netVars
<1>2. InfoTypeOK'  BY DEF NewInfo, IOTypesOK, InfoTypeOK, Posted
<1>3. BytesOK(s)'
  <2>1. Socket'[s] = c /\ io'[s] = Posted("recv") /\ BytesRECV'[s] = 0
    BY DEF NewInfo, IOTypesOK, InfoTypeOK
  <2>2. QED  BY <2>1, OverlappedAssumption DEF BytesOK
<1>4. \A t \in Infos : t # s => SameBlock(t)  BY DEF NewInfo, IOTypesOK, InfoTypeOK, SameBlock
<1>5. QED  BY <1>1, <1>2, <1>3, <1>4, BytesFrame DEF IOTypesOK

LEMMA ContinuesTypes ==
  ASSUME IOTypesOK, NEW s \in Infos, Continues(s)
  PROVE  IOTypesOK'
<1>1. PICK posted \in BOOLEAN : Continue(s, posted)  BY DEF Continues
<1> DEFINE more == Received(s) > SentBack(s)
<1>2. InfoTypeOK /\ BytesOK(s) /\ NetTypeOK'  BY DEF IOTypesOK, Continues, NetTypeOK, netVars
<1>3. /\ io[s].bytes > 0
      /\ BytesRECV' = [BytesRECV EXCEPT ![s] = IF more THEN Received(s) ELSE 0]
      /\ BytesSEND' = [BytesSEND EXCEPT ![s] = SentBack(s)]
      /\ io' = [io EXCEPT ![s] = IF ~posted THEN Idle
                                 ELSE Posted(IF more THEN "send" ELSE "recv")]
      /\ UNCHANGED <<Socket, Buffer>>
  BY <1>1 DEF Continue, MoreToSend
<1>4. Received(s) \in 0..DATA_BUFSIZE /\ SentBack(s) \in 0..DATA_BUFSIZE
  <2>1. /\ io[s].bytes \in 0..DATA_BUFSIZE
        /\ BytesRECV[s] \in 0..DATA_BUFSIZE /\ BytesSEND[s] \in 0..DATA_BUFSIZE
    BY <1>2, InfoFacts
  <2>2. CASE WasReceive(s)  BY <2>1, <2>2 DEF Received, SentBack
  <2>3. CASE ~WasReceive(s)
    <3>1. BytesSEND[s] + io[s].bytes <= BytesRECV[s]  BY <1>2, <2>3 DEF BytesOK, WasReceive
    <3>2. QED  BY <2>1, <2>3, <3>1 DEF Received, SentBack
  <2>4. QED  BY <2>2, <2>3
<1>5. InfoTypeOK'
  <2>1. BytesRECV' \in [Infos -> 0..DATA_BUFSIZE] /\ BytesSEND' \in [Infos -> 0..DATA_BUFSIZE]
    BY <1>2, <1>3, <1>4 DEF InfoTypeOK
  <2>2. io' \in [Infos -> [op : {"none", "recv", "send"},
                           status : {"none", "pending", "done", "failed"},
                           bytes : 0..DATA_BUFSIZE]]
    BY <1>2, <1>3 DEF InfoTypeOK, Idle, Posted
  <2>3. QED  BY <1>2, <1>3, <2>1, <2>2 DEF InfoTypeOK
<1>6. /\ BytesRECV'[s] = IF more THEN Received(s) ELSE 0
      /\ BytesSEND'[s] = SentBack(s)
      /\ io'[s] = IF ~posted THEN Idle ELSE Posted(IF more THEN "send" ELSE "recv")
      /\ \A t \in Infos : t # s => SameBlock(t)
  BY <1>2, <1>3 DEF InfoTypeOK, SameBlock
<1>7. BytesOK(s)'
  <2>1. io[s] # Idle  BY <1>3 DEF Idle
  <2>2. Socket'[s] # NoSocket  BY <1>2, <1>3, <2>1 DEF BytesOK
  <2>3. io'[s].bytes = 0 /\ (io'[s].op = "recv" => ~more)  BY <1>6 DEF Idle, Posted
  <2>4. BytesRECV'[s] # 0 => BytesSEND'[s] + 0 <= BytesRECV'[s]  BY <1>4, <1>6
  <2>5. QED  BY <1>6, <2>2, <2>3, <2>4 DEF BytesOK
<1>8. QED  BY <1>2, <1>5, <1>6, <1>7, BytesFrame DEF IOTypesOK

LEMMA EndsTypes ==
  ASSUME IOTypesOK, NEW s \in Infos, Ends(s)
  PROVE  IOTypesOK'
<1>1. /\ conn' = [conn EXCEPT ![Socket[s]] = "closed"]
      /\ Socket' = [Socket EXCEPT ![s] = NoSocket]
      /\ io' = [io EXCEPT ![s] = Idle]
      /\ UNCHANGED <<Buffer, BytesRECV, BytesSEND, clientVars, backlog, taken, echo>>
  BY DEF Ends, FreeInfo
<1>2. NetTypeOK /\ InfoTypeOK /\ BytesOK(s)  BY DEF IOTypesOK
<1>3. conn' \in [Conns -> {"new", "pending", "open", "closed"}]  BY <1>1, <1>2 DEF NetTypeOK
<1>4. NetTypeOK'  BY <1>1, <1>2, <1>3 DEF NetTypeOK, clientVars
<1>5. InfoTypeOK'  BY <1>1, <1>2 DEF InfoTypeOK, Idle
<1>6. BytesOK(s)'
  <2>1. /\ io[s].bytes \in Nat /\ BytesRECV[s] \in Nat /\ BytesSEND[s] \in Nat
    BY <1>2 DEF InfoTypeOK
  <2>2. io'[s] = Idle /\ BytesRECV'[s] = BytesRECV[s] /\ BytesSEND'[s] = BytesSEND[s]
    BY <1>1, <1>2 DEF InfoTypeOK
  <2>3. io'[s].op = "none" /\ io'[s].bytes = 0  BY <2>2 DEF Idle
  <2>4. QED  BY <1>2, <2>1, <2>2, <2>3 DEF BytesOK
<1>7. \A t \in Infos : t # s => SameBlock(t)  BY <1>1, <1>2 DEF InfoTypeOK, SameBlock
<1>8. QED  BY <1>4, <1>5, <1>6, <1>7, BytesFrame DEF IOTypesOK

LEMMA CompleteRecvTypes ==
  ASSUME IOTypesOK, NEW s \in Infos, NEW n \in 0..DATA_BUFSIZE, CompleteRecv(s, n)
  PROVE  IOTypesOK'
<1> DEFINE c == Socket[s]
<1>1. /\ io[s] = Posted("recv")
      /\ Buffer' = [Buffer EXCEPT ![s] = Overwrite(@, Incoming(c, n))]
      /\ taken' = [taken EXCEPT ![c] = @ + n]
      /\ io' = [io EXCEPT ![s].status = "done", ![s].bytes = n]
      /\ UNCHANGED <<clientVars, conn, backlog, echo, Socket, BytesRECV, BytesSEND>>
  BY DEF CompleteRecv
<1>2. NetTypeOK /\ InfoTypeOK /\ BytesOK(s)  BY DEF IOTypesOK
<1>3. io[s] # Idle /\ io[s].op = "recv"  BY <1>1 DEF Idle, Posted
<1>4. c \in Conns  BY <1>2, <1>3, InfoFacts DEF BytesOK
<1> HIDE DEF c
<1>5. taken[c] \in Nat /\ n \in Nat  BY <1>2, <1>4, NetFacts
<1>6. Len(Buffer[s]) = DATA_BUFSIZE /\ Buffer[s] \in [1..DATA_BUFSIZE -> Nat]
  BY <1>2 DEF InfoTypeOK
<1>7. /\ Len(Incoming(c, n)) = n
      /\ \A k \in 1..n : Incoming(c, n)[k] \in Nat
  BY <1>5 DEF Incoming
<1>8. Overwrite(Buffer[s], Incoming(c, n)) \in [1..DATA_BUFSIZE -> Nat]
  BY <1>6, <1>7 DEF Overwrite
<1>9. InfoTypeOK'
  <2>1. Buffer' \in [Infos -> [1..DATA_BUFSIZE -> Nat]]  BY <1>1, <1>2, <1>8 DEF InfoTypeOK
  <2>2. io' \in [Infos -> [op : {"none", "recv", "send"},
                           status : {"none", "pending", "done", "failed"},
                           bytes : 0..DATA_BUFSIZE]]
    BY <1>1, <1>2 DEF InfoTypeOK
  <2>3. QED  BY <1>1, <1>2, <2>1, <2>2 DEF InfoTypeOK
<1>10. NetTypeOK'
  <2>1. taken' \in [Conns -> Nat]
    <3>1. taken[c] + n \in Nat  BY <1>5
    <3>2. QED  BY <1>1, <1>2, <3>1 DEF NetTypeOK
  <2>2. QED  BY <1>1, <1>2, <2>1 DEF NetTypeOK, clientVars
<1>11. BytesOK(s)'
  <2>1. BytesRECV'[s] = 0 /\ Socket'[s] # NoSocket
    BY <1>1, <1>2, <1>3 DEF BytesOK
  <2>2. QED  BY <2>1 DEF BytesOK
<1>12. \A t \in Infos : t # s => SameBlock(t)  BY <1>1, <1>2 DEF InfoTypeOK, SameBlock
<1>13. QED  BY <1>9, <1>10, <1>11, <1>12, BytesFrame DEF IOTypesOK

LEMMA CompleteSendTypes ==
  ASSUME IOTypesOK, NEW s \in Infos, NEW n \in 0..DATA_BUFSIZE, CompleteSend(s, n)
  PROVE  IOTypesOK'
<1> DEFINE c == Socket[s]
<1>1. /\ io[s] = Posted("send")
      /\ n \in 1..(BytesRECV[s] - BytesSEND[s])
      /\ echo' = [echo EXCEPT ![c] = @ \o Unsent(s, n)]
      /\ io' = [io EXCEPT ![s].status = "done", ![s].bytes = n]
      /\ UNCHANGED <<clientVars, conn, backlog, taken, Socket, Buffer, BytesRECV, BytesSEND>>
  BY DEF CompleteSend, CanSend
<1>2. NetTypeOK /\ InfoTypeOK /\ BytesOK(s)  BY DEF IOTypesOK
<1>3. io[s] # Idle /\ io[s].op = "send"  BY <1>1 DEF Idle, Posted
<1>4. c \in Conns  BY <1>2, <1>3, InfoFacts DEF BytesOK
<1> HIDE DEF c
<1>5. /\ BytesRECV[s] \in 0..DATA_BUFSIZE /\ BytesSEND[s] \in 0..DATA_BUFSIZE
      /\ Buffer[s] \in [1..DATA_BUFSIZE -> Nat] /\ n \in Nat
  <2>1. n \in Nat  OBVIOUS
  <2>2. QED  BY <1>2, <2>1, InfoFacts
<1>6. Unsent(s, n) \in Seq(Nat)
  <2>1. ASSUME NEW k \in 1..n  PROVE Buffer[s][BytesSEND[s] + k] \in Nat
    <3>1. BytesSEND[s] + k \in 1..DATA_BUFSIZE  BY <1>1, <1>5
    <3>2. QED  BY <1>5, <3>1
  <2>2. QED  BY <1>5, <2>1 DEF Unsent
<1>7. NetTypeOK'
  <2>1. echo[c] \in Seq(Nat)  BY <1>2, <1>4, NetFacts
  <2> DEFINE u == Unsent(s, n)
  <2>2. u \in Seq(Nat)  BY <1>6
  <2>3. echo' = [echo EXCEPT ![c] = echo[c] \o u]  BY <1>1
  <2> HIDE DEF u
  <2>4. echo[c] \o u \in Seq(Nat)  BY <2>1, <2>2, ConcatFacts
  <2>5. echo' \in [Conns -> Seq(Nat)]  BY <1>2, <2>3, <2>4 DEF NetTypeOK
  <2>6. QED  BY <1>1, <1>2, <2>5 DEF NetTypeOK, clientVars
<1>8. InfoTypeOK'
  <2>1. io' \in [Infos -> [op : {"none", "recv", "send"},
                           status : {"none", "pending", "done", "failed"},
                           bytes : 0..DATA_BUFSIZE]]
    BY <1>1, <1>2 DEF InfoTypeOK
  <2>2. QED  BY <1>1, <1>2, <2>1 DEF InfoTypeOK
<1>9. BytesOK(s)'
  <2>1. io'[s].op = "send" /\ io'[s].bytes = n  BY <1>1, <1>2, <1>3 DEF InfoTypeOK
  <2>2. Socket'[s] # NoSocket  BY <1>1, <1>2, <1>3 DEF BytesOK
  <2>3. BytesSEND[s] + n <= BytesRECV[s]  BY <1>1, <1>5
  <2>4. QED  BY <1>1, <2>1, <2>2, <2>3 DEF BytesOK
<1>10. \A t \in Infos : t # s => SameBlock(t)  BY <1>1, <1>2 DEF InfoTypeOK, SameBlock
<1>11. QED  BY <1>7, <1>8, <1>9, <1>10, BytesFrame DEF IOTypesOK

LEMMA StackTypes ==
  ASSUME IOTypesOK, NEW s \in Infos, Stack(s)
  PROVE  IOTypesOK'
<1>1. CASE CompleteFailed(s)
  <2>1. /\ io[s].status = "pending" /\ io' = [io EXCEPT ![s].status = "failed"]
        /\ UNCHANGED <<netVars, Socket, Buffer, BytesRECV, BytesSEND>>
    BY <1>1 DEF CompleteFailed
  <2>2. NetTypeOK /\ InfoTypeOK /\ BytesOK(s)  BY DEF IOTypesOK
  <2>3. NetTypeOK' /\ InfoTypeOK'  BY <2>1, <2>2 DEF NetTypeOK, InfoTypeOK, netVars
  <2>4. io[s] # Idle  BY <2>1 DEF Idle
  <2>5. io'[s].op = io[s].op /\ io'[s].bytes = io[s].bytes  BY <2>1, <2>2 DEF InfoTypeOK
  <2>6. BytesOK(s)'  BY <2>1, <2>2, <2>4, <2>5 DEF BytesOK
  <2>7. \A t \in Infos : t # s => SameBlock(t)  BY <2>1, <2>2 DEF InfoTypeOK, SameBlock
  <2>8. QED  BY <2>3, <2>6, <2>7, BytesFrame DEF IOTypesOK
<1>2. QED  BY <1>1, CompleteRecvTypes, CompleteSendTypes DEF Stack

LEMMA IOInitTypes == NetInit /\ InfoInit => IOTypesOK
<1> SUFFICES ASSUME NetInit, InfoInit  PROVE IOTypesOK
  OBVIOUS
<1>1. NetTypeOK /\ InfoTypeOK  BY IOInit DEF IOInv
<1>2. \A s \in Infos : BytesOK(s)  BY DEF InfoInit, BytesOK, Idle
<1>3. QED  BY <1>1, <1>2 DEF IOTypesOK

-----------------------------------------------------------------------------
(* What EchoService entails, whoever implements it. *)

PromiseTypeOK ==
  /\ conn \in [Conns -> {"new", "pending", "open", "closed"}]
  /\ sent \in [Conns -> Nat] /\ echo \in [Conns -> Seq(Nat)]
  /\ fin \in [Conns -> BOOLEAN] /\ rst \in [Conns -> BOOLEAN]

(* A connection the server has closed, and that was not reset, had been shut *)
(* down by its client, and everything it sent was echoed.                   *)
GracefulClose ==
  \A c \in Conns : conn[c] = "closed" /\ ~rst[c] => fin[c] /\ Len(echo[c]) = sent[c]

(* In one step: no connection comes back once closed, and nothing is echoed *)
(* on it any more; nothing that was echoed is taken back; and a connection  *)
(* is not closed by a step that also echoes.                                *)
EchoOnlyGrows ==
  \A c \in Conns :
    /\ conn[c] = "closed" => conn'[c] = "closed" /\ echo'[c] = echo[c]
    /\ Len(echo[c]) <= Len(echo'[c]) /\ \A k \in 1..Len(echo[c]) : echo'[c][k] = echo[c][k]
    /\ echo'[c] # echo[c] => conn[c] = "open" /\ conn'[c] = "open" /\ ~rst[c]

\* After a shutdown or a reset the client sends no more.
ShutIsFinal == \A c \in Conns : fin[c] \/ rst[c] => sent'[c] = sent[c]

LEMMA PromiseEchoFrame ==
  ASSUME PromiseTypeOK, NEW c \in Conns, NEW n \in 1..sent[c], Promise!Echo(c, n)
  PROVE  /\ PromiseTypeOK'
         /\ EchoOnlyGrows
         /\ conn[c] = "open" /\ conn' = conn /\ sent' = sent /\ fin' = fin /\ rst' = rst
         /\ \A d \in Conns : d # c => echo'[d] = echo[d]
<1> DEFINE more == [k \in 1..n |-> Len(echo[c]) + k]
<1>1. /\ conn[c] = "open" /\ ~rst[c]
      /\ conn' = conn /\ sent' = sent /\ fin' = fin /\ rst' = rst
      /\ echo' = [echo EXCEPT ![c] = @ \o more]
  BY DEF Promise!Echo
<1>2. echo[c] \in Seq(Nat) /\ sent[c] \in Nat /\ n \in Nat  BY DEF PromiseTypeOK
<1>3. more \in Seq(Nat)  BY <1>2
<1> HIDE DEF more
<1>4. /\ echo[c] \o more \in Seq(Nat)
      /\ Len(echo[c] \o more) = Len(echo[c]) + Len(more)
      /\ \A k \in 1..Len(echo[c]) : (echo[c] \o more)[k] = echo[c][k]
  BY <1>2, <1>3, ConcatFacts
<1>5. /\ echo'[c] = echo[c] \o more /\ echo' \in [Conns -> Seq(Nat)]
      /\ \A d \in Conns : d # c => echo'[d] = echo[d]
  BY <1>1, <1>4 DEF PromiseTypeOK
<1>6. PromiseTypeOK'  BY <1>1, <1>5 DEF PromiseTypeOK
<1>7. Len(echo[c]) <= Len(echo'[c])
  <2>1. Len(echo[c]) \in Nat /\ Len(more) \in Nat  BY <1>2, <1>3
  <2>2. Len(echo'[c]) = Len(echo[c]) + Len(more)  BY <1>4, <1>5
  <2>3. QED  BY <2>1, <2>2
<1>8. \A k \in 1..Len(echo[c]) : echo'[c][k] = echo[c][k]  BY <1>4, <1>5
<1>9. ASSUME NEW d \in Conns
      PROVE  /\ conn[d] = "closed" => conn'[d] = "closed" /\ echo'[d] = echo[d]
             /\ Len(echo[d]) <= Len(echo'[d])
             /\ \A k \in 1..Len(echo[d]) : echo'[d][k] = echo[d][k]
             /\ echo'[d] # echo[d] => conn[d] = "open" /\ conn'[d] = "open" /\ ~rst[d]
  <2>1. CASE d = c  BY <1>1, <1>7, <1>8, <2>1
  <2>2. CASE d # c
    <3>1. Len(echo[d]) \in Nat  BY DEF PromiseTypeOK
    <3>2. QED  BY <1>1, <1>5, <2>2, <3>1
  <2>3. QED  BY <2>1, <2>2
<1>10. QED  BY <1>1, <1>5, <1>6, <1>9 DEF EchoOnlyGrows

LEMMA PromiseStep ==
  ASSUME PromiseTypeOK, [Promise!Next]_Promise!vars
  PROVE  PromiseTypeOK' /\ EchoOnlyGrows /\ ShutIsFinal
<1>0. \A d \in Conns : Len(echo[d]) \in Nat  BY DEF PromiseTypeOK
<1>1. CASE UNCHANGED Promise!vars
  BY <1>0, <1>1 DEF Promise!vars, PromiseTypeOK, EchoOnlyGrows, ShutIsFinal
<1>2. ASSUME NEW c \in Conns, NEW n \in 1..sent[c], Promise!Echo(c, n)
      PROVE  PromiseTypeOK' /\ EchoOnlyGrows /\ ShutIsFinal
  BY <1>2, PromiseEchoFrame DEF ShutIsFinal
<1>3. ASSUME NEW c \in Conns,
             \/ Promise!Connect(c) \/ Promise!ClientSend(c) \/ Promise!Shutdown(c)
             \/ Promise!Reset(c) \/ Promise!Accept(c) \/ Promise!Close(c)
      PROVE  PromiseTypeOK' /\ EchoOnlyGrows /\ ShutIsFinal
  <2>0. echo' = echo
    BY <1>3 DEF Promise!Connect, Promise!ClientSend, Promise!Shutdown, Promise!Reset,
       Promise!Accept, Promise!Close
  <2>1. PromiseTypeOK'
    <3>1. CASE Promise!Connect(c) \/ Promise!Accept(c) \/ Promise!Close(c)
      BY <3>1 DEF PromiseTypeOK, Promise!Connect, Promise!Accept, Promise!Close
    <3>2. CASE Promise!ClientSend(c)
      <4>1. sent[c] + 1 \in Nat  BY DEF PromiseTypeOK
      <4>2. QED  BY <3>2, <4>1 DEF PromiseTypeOK, Promise!ClientSend
    <3>3. CASE Promise!Shutdown(c) \/ Promise!Reset(c)
      BY <3>3 DEF PromiseTypeOK, Promise!Shutdown, Promise!Reset
    <3>4. QED  BY <1>3, <3>1, <3>2, <3>3
  <2>2. \A d \in Conns : conn[d] = "closed" => conn'[d] = "closed"
    BY <1>3 DEF PromiseTypeOK, Promise!Connect, Promise!ClientSend, Promise!Shutdown, Promise!Reset,
       Promise!Accept, Promise!Close
  <2>3. ShutIsFinal
    BY <1>3 DEF ShutIsFinal, PromiseTypeOK, Promise!Connect, Promise!ClientSend, Promise!Shutdown,
       Promise!Reset, Promise!Accept, Promise!Close
  <2>4. EchoOnlyGrows  BY <1>0, <2>0, <2>2 DEF EchoOnlyGrows
  <2>5. QED  BY <2>1, <2>3, <2>4
<1>4. QED  BY <1>1, <1>2, <1>3 DEF Promise!Next

LEMMA PromiseGracefulStep ==
  ASSUME PromiseTypeOK, GracefulClose, [Promise!Next]_Promise!vars
  PROVE  GracefulClose'
<1>1. EchoOnlyGrows /\ ShutIsFinal  BY PromiseStep
<1>2. \A d \in Conns : (fin[d] => fin'[d]) /\ (rst[d] => rst'[d])
  BY DEF PromiseTypeOK, Promise!Next, Promise!vars, Promise!Connect, Promise!ClientSend,
     Promise!Shutdown, Promise!Reset, Promise!Accept, Promise!Close, Promise!Echo
<1>3. ASSUME NEW d \in Conns, conn[d] # "closed", conn'[d] = "closed"
      PROVE  /\ rst[d] \/ (fin[d] /\ Len(echo[d]) = sent[d])
             /\ echo' = echo /\ sent' = sent
  <2>1. conn' # conn  BY <1>3
  <2>2. PICK c \in Conns : Promise!Connect(c) \/ Promise!Accept(c) \/ Promise!Close(c)
    BY <2>1 DEF Promise!Next, Promise!vars, Promise!ClientSend, Promise!Shutdown, Promise!Reset,
       Promise!Echo
  <2>3. Promise!Close(d)
    BY <1>3, <2>2 DEF PromiseTypeOK, Promise!Connect, Promise!Accept, Promise!Close
  <2>4. QED  BY <2>3 DEF Promise!Close
<1>4. ASSUME NEW d \in Conns, conn'[d] = "closed", ~rst'[d]
      PROVE  fin'[d] /\ Len(echo'[d]) = sent'[d]
  <2>1. CASE conn[d] = "closed"
    <3>1. fin[d] /\ Len(echo[d]) = sent[d]  BY <1>2, <1>4, <2>1 DEF GracefulClose
    <3>2. QED  BY <1>1, <1>2, <2>1, <3>1 DEF EchoOnlyGrows, ShutIsFinal
  <2>2. CASE conn[d] # "closed"  BY <1>2, <1>3, <1>4, <2>2
  <2>3. QED  BY <2>1, <2>2
<1>5. QED  BY <1>4 DEF GracefulClose

LEMMA PromiseInvariance == EchoServiceSpec => [](PromiseTypeOK /\ GracefulClose)
<1>1. Promise!Init => PromiseTypeOK /\ GracefulClose
  BY DEF Promise!Init, PromiseTypeOK, GracefulClose
<1>2. PromiseTypeOK /\ GracefulClose /\ [Promise!Next]_Promise!vars
        => (PromiseTypeOK /\ GracefulClose)'
  BY PromiseStep, PromiseGracefulStep
<1>3. QED  BY <1>1, <1>2, PTL DEF EchoServiceSpec, Promise!Spec

(* EchoService, and with it every server that implements it, closes no      *)
(* connection on a client that is not done: the header comment's "until the *)
(* client closes the connection".                                           *)
THEOREM PromiseIsGraceful == EchoServiceSpec => []GracefulClose
BY PromiseInvariance, PTL

(* EchoService never takes back a byte that was echoed, and does nothing on *)
(* a connection after its close.                                            *)
THEOREM PromiseOnlyGrows == EchoServiceSpec => [][EchoOnlyGrows]_Promise!vars
<1>1. PromiseTypeOK /\ [Promise!Next]_Promise!vars => [EchoOnlyGrows]_Promise!vars
  BY PromiseStep
<1>2. QED  BY <1>1, PromiseInvariance, PTL DEF EchoServiceSpec, Promise!Spec

-----------------------------------------------------------------------------
(* The arrays of the servers that wait for events: SocketArray lists the    *)
(* connections once each, an entry is appended, and one is removed with the *)
(* later ones moving up.                                                    *)

Lists(arr, d) == \E k \in 1..Len(arr) : arr[k] = d
Distinct(arr) == \A j, k \in 1..Len(arr) : arr[j] = arr[k] => j = k
Without(arr, x) == [k \in 1..(Len(arr) - 1) |-> IF k < x THEN arr[k] ELSE arr[k + 1]]

LEMMA AppendListed ==
  ASSUME NEW S, NEW arr \in Seq(S), NEW e \in S
  PROVE  /\ Append(arr, e) \in Seq(S) /\ Len(Append(arr, e)) = Len(arr) + 1
         /\ \A k \in 1..Len(arr) : Append(arr, e)[k] = arr[k]
         /\ Append(arr, e)[Len(arr) + 1] = e
         /\ \A d : Lists(Append(arr, e), d) <=> Lists(arr, d) \/ d = e
         /\ Distinct(arr) /\ ~Lists(arr, e) => Distinct(Append(arr, e))
<1> DEFINE new == Append(arr, e)
<1>1. /\ new \in Seq(S) /\ Len(new) = Len(arr) + 1 /\ Len(arr) \in Nat
      /\ \A k \in 1..Len(arr) : new[k] = arr[k]
      /\ new[Len(arr) + 1] = e
  OBVIOUS
<1> HIDE DEF new
<1>2. \A k \in 1..Len(new) : k \in 1..Len(arr) \/ k = Len(arr) + 1  BY <1>1
<1>3. Len(arr) + 1 \in 1..Len(new) /\ \A k \in 1..Len(arr) : k \in 1..Len(new)  BY <1>1
<1>4. \A d : Lists(new, d) <=> Lists(arr, d) \/ d = e
  BY <1>1, <1>2, <1>3 DEF Lists
<1>5. ASSUME Distinct(arr), ~Lists(arr, e)  PROVE Distinct(new)
  BY <1>1, <1>2, <1>5 DEF Distinct, Lists
<1>6. QED  BY <1>1, <1>4, <1>5 DEF new

LEMMA WithoutListed ==
  ASSUME NEW S, NEW arr \in Seq(S), NEW x \in 1..Len(arr)
  PROVE  /\ Without(arr, x) \in Seq(S) /\ Len(Without(arr, x)) = Len(arr) - 1
         /\ Distinct(arr) =>
              /\ Distinct(Without(arr, x))
              /\ \A d : Lists(Without(arr, x), d) <=> Lists(arr, d) /\ d # arr[x]
<1> DEFINE new == Without(arr, x)
<1>1. Len(arr) \in Nat /\ Len(arr) > 0  OBVIOUS
<1>2. /\ new \in Seq(S) /\ Len(new) = Len(arr) - 1
      /\ \A k \in 1..(Len(arr) - 1) : new[k] = IF k < x THEN arr[k] ELSE arr[k + 1]
  BY <1>1 DEF Without
<1> HIDE DEF new
<1> DEFINE old(k) == IF k < x THEN k ELSE k + 1
<1>3. \A k \in 1..Len(new) :
         old(k) \in 1..Len(arr) /\ old(k) # x /\ new[k] = arr[old(k)]
  BY <1>1, <1>2
<1>4. \A j, k \in 1..Len(new) : old(j) = old(k) => j = k  BY <1>1, <1>2
<1>5. \A k \in 1..Len(arr) : k # x => \E j \in 1..Len(new) : old(j) = k
  <2>1. ASSUME NEW k \in 1..Len(arr), k # x  PROVE \E j \in 1..Len(new) : old(j) = k
    <3>1. CASE k < x
      <4>1. k \in 1..Len(new) /\ old(k) = k  BY <1>1, <1>2, <3>1
      <4>2. QED  BY <4>1
    <3>2. CASE ~(k < x)
      <4>1. k - 1 \in 1..Len(new) /\ ~(k - 1 < x) /\ (k - 1) + 1 = k
        BY <1>1, <1>2, <2>1, <3>2
      <4>2. old(k - 1) = k  BY <4>1
      <4>3. QED  BY <4>1, <4>2
    <3>3. QED  BY <3>1, <3>2
  <2>2. QED  BY <2>1
<1> HIDE DEF old
<1>6. ASSUME Distinct(arr)
      PROVE  /\ Distinct(new)
             /\ \A d : Lists(new, d) <=> Lists(arr, d) /\ d # arr[x]
  <2>1. Distinct(new)  BY <1>3, <1>4, <1>6 DEF Distinct
  <2>2. ASSUME NEW d  PROVE Lists(new, d) <=> Lists(arr, d) /\ d # arr[x]
    <3>1. ASSUME Lists(new, d)  PROVE Lists(arr, d) /\ d # arr[x]
      <4>1. PICK k \in 1..Len(new) : new[k] = d  BY <3>1 DEF Lists
      <4>2. QED  BY <1>3, <1>6, <4>1 DEF Lists, Distinct
    <3>2. ASSUME Lists(arr, d), d # arr[x]  PROVE Lists(new, d)
      <4>1. PICK k \in 1..Len(arr) : arr[k] = d  BY <3>2 DEF Lists
      <4>2. PICK j \in 1..Len(new) : old(j) = k  BY <1>5, <3>2, <4>1
      <4>3. QED  BY <1>3, <4>1, <4>2 DEF Lists
    <3>3. QED  BY <3>1, <3>2
  <2>3. QED  BY <2>1, <2>2
<1>7. QED  BY <1>2, <1>6 DEF new

=============================================================================
