------------------------- MODULE SelectServer_proofs -------------------------
(***************************************************************************)
(* Proofs about SelectServer, for any number of connections, any buffer    *)
(* sizes and any faults.                                                   *)
(***************************************************************************)
EXTENDS SelectServer, FiniteSetTheorems, TLAPS

(* Connections wait in the backlog once each, and only there. *)
BacklogOK ==
  /\ \A k \in 1..Len(backlog) : conn[backlog[k]] = "pending"
  /\ \A j, k \in 1..Len(backlog) : backlog[j] = backlog[k] => j = k

(* An emptied buffer has both counters reset. *)
CountersReset == \A c \in Conns : Pending(c) \/ (BytesSEND[c] = 0 /\ BytesRECV[c] = 0)

(* A connection that has not been accepted has nothing in a buffer. *)
FreshOK == \A c \in Conns : conn[c] \in {"new", "pending"} => ~Pending(c)

(* What select() reported still holds when accept is reached. *)
ReadinessAtAccept ==
  pc = "accept" =>
    /\ \A c \in ReadSet \ {ListenSocket} : conn[c] = "open" /\ ~Pending(c)
    /\ \A c \in WriteSet : conn[c] = "open" /\ Pending(c)

(* After select(), Total is the size of the two sets together. *)
CountOK ==
  /\ IsFiniteSet(ReadSet) /\ IsFiniteSet(WriteSet)
  /\ pc = "accept" => Total = Cardinality(ReadSet) + Cardinality(WriteSet)

IInv ==
  /\ TypeOK
  /\ BacklogOK
  /\ ArrayIsOpenSockets
  /\ CountersReset
  /\ FreshOK
  /\ ReadinessAtAccept
  /\ ReadinessHolds
  /\ CountOK
  /\ TotalCoversAhead
  /\ EchoInv
  /\ GracefulClose

USE WinsockAssumption, SelectAssumption

-----------------------------------------------------------------------------
(* Type correctness. *)

LEMMA SquashType ==
  ASSUME NEW S, NEW arr \in Seq(S), Len(arr) > 0, NEW x \in 1..Len(arr)
  PROVE  /\ Squash(arr, x) \in Seq(S)
         /\ Len(Squash(arr, x)) = Len(arr) - 1
         /\ \A k \in 1..(Len(arr) - 1) : Squash(arr, x)[k] = IF k < x THEN arr[k] ELSE arr[k + 1]
BY DEF Squash

LEMMA FdSetType ==
  ASSUME TypeOK, NEW w \in BOOLEAN, NEW room
  PROVE  /\ FdSet(w, room) \subseteq Conns
         /\ \A c \in FdSet(w, room) :
               (Pending(c) <=> w) /\ \E k \in 1..TotalSockets : SocketArray[k] = c
<1> DEFINE wants == {k \in 1..TotalSockets : Pending(SocketArray[k]) <=> w}
           kept  == {k \in wants : Cardinality({j \in wants : j < k}) < room}
<1>1. FdSet(w, room) = {SocketArray[k] : k \in kept}
  BY DEF FdSet
<1>2. \A k \in kept : /\ SocketArray[k] \in Conns
                      /\ k \in 1..TotalSockets
                      /\ Pending(SocketArray[k]) <=> w
  BY DEF TypeOK, TotalSockets
<1>. HIDE DEF kept
<1>3. QED  BY <1>1, <1>2


LEMMA TypeInit == Init => TypeOK
BY DEF Init, NetInit, TypeOK, NetTypeOK

LEMMA TypeClient ==
  ASSUME TypeOK, NEW c \in Conns, Client(c), UNCHANGED serverVars
  PROVE  TypeOK'
<1>1. NetTypeOK'
  <2> USE DEF NetTypeOK
  <2>0. NetTypeOK  BY DEF TypeOK
  <2>1. CASE Connect(c)  BY <2>0, <2>1 DEF Connect
  <2>2. CASE ClientSend(c)  BY <2>0, <2>2 DEF ClientSend
  <2>3. CASE ClientRead(c)
    <3>1. got' = [got EXCEPT ![c] = @ + 1] /\ got \in [Conns -> Nat]
      BY <2>0, <2>3 DEF ClientRead
    <3>2. got' \in [Conns -> Nat]  BY <3>1
    <3>3. QED  BY <2>0, <2>3, <3>2 DEF ClientRead
  <2>4. CASE ClientShutdown(c)  BY <2>0, <2>4 DEF ClientShutdown
  <2>5. CASE ClientReset(c)  BY <2>0, <2>5 DEF ClientReset
  <2>6. QED  BY <2>1, <2>2, <2>3, <2>4, <2>5 DEF Client
<1>2. QED  BY <1>1 DEF TypeOK, serverVars

LEMMA TypeService ==
  ASSUME TypeOK, NEW c \in Conns, Service(c)
  PROVE  TypeOK'
<1>0. NetTypeOK  BY DEF TypeOK
<1>1. CASE Pass(c) \/ WouldBlock(c)
  <2>1. Total' \in Int /\ i' \in Nat \ {0}
    <3>1. Total \in Int /\ i \in Nat \ {0}  BY DEF TypeOK
    <3>2. Total' \in {Total, Total - 1} /\ i' = i + 1  BY <1>1 DEF Pass, WouldBlock
    <3>3. QED  BY <3>1, <3>2
  <2>2. UNCHANGED <<netVars, pc, SocketArray, Buffer, BytesRECV, BytesSEND, ReadSet, WriteSet>>
    BY <1>1 DEF Pass, WouldBlock
  <2>3. NetTypeOK'  BY <1>0, <2>2 DEF NetTypeOK, netVars
  <2>4. QED  BY <2>1, <2>2, <2>3 DEF TypeOK
<1>3. CASE RecvClose(c) \/ Fail(c)
  <2>1. At(c) /\ FreeSocketInformation(c)  BY <1>3 DEF RecvClose, Fail
  <2>2. SocketArray' \in Seq(Conns)
    <3>1. SocketArray \in Seq(Conns) /\ i \in 1..Len(SocketArray)
      BY <2>1 DEF At, TypeOK, TotalSockets
    <3>2. Squash(SocketArray, i) \in Seq(Conns)  BY <3>1, SquashType
    <3>3. QED  BY <2>1, <3>2 DEF FreeSocketInformation
  <2>3. conn' \in [Conns -> {"new", "pending", "open", "closed"}]
    BY <2>1 DEF FreeSocketInformation, TypeOK, NetTypeOK
  <2>4. BytesRECV' \in [Conns -> 0..DATA_BUFSIZE]
    <3>1. CASE RecvClose(c)  BY <3>1 DEF RecvClose, TypeOK
    <3>2. CASE Fail(c)  BY <3>2 DEF Fail, TypeOK
    <3>3. QED  BY <1>3, <3>1, <3>2
  <2>5. Total' \in Int /\ i' \in Nat \ {0}
    BY <1>3 DEF RecvClose, Fail, TypeOK
  <2>6. UNCHANGED <<clientVars, backlog, taken, echo, pc, Buffer, BytesSEND, ReadSet, WriteSet>>
    BY <1>3 DEF RecvClose, Fail
  <2>7. QED
    BY <2>2, <2>3, <2>4, <2>5, <2>6 DEF TypeOK, NetTypeOK, clientVars
<1>4. ASSUME NEW n \in 1..DATA_BUFSIZE, Recv(c, n)  PROVE TypeOK'
  <2>1. Buffer' \in [Conns -> [1..DATA_BUFSIZE -> Nat]]
    <3>1. Incoming(c, n) \in [1..n -> Nat] /\ Len(Incoming(c, n)) = n
      BY DEF Incoming, TypeOK, NetTypeOK
    <3>2. Len(Buffer[c]) = DATA_BUFSIZE  BY DEF TypeOK
    <3>3. Overwrite(Buffer[c], Incoming(c, n)) \in [1..DATA_BUFSIZE -> Nat]
      BY <3>1, <3>2 DEF Overwrite, TypeOK
    <3>4. QED  BY <1>4, <3>3 DEF Recv, TypeOK
  <2>2. BytesRECV' \in [Conns -> 0..DATA_BUFSIZE] /\ taken' \in [Conns -> Nat]
    BY <1>4 DEF Recv, TypeOK, NetTypeOK
  <2>3. Total' \in Int /\ i' \in Nat \ {0}
    BY <1>4 DEF Recv, TypeOK
  <2>4. UNCHANGED <<clientVars, conn, backlog, echo, pc, SocketArray, BytesSEND, ReadSet, WriteSet>>
    BY <1>4 DEF Recv
  <2>5. QED  BY <2>1, <2>2, <2>3, <2>4 DEF TypeOK, NetTypeOK, clientVars
<1>5. ASSUME NEW n \in 1..DATA_BUFSIZE, Send(c, n)  PROVE TypeOK'
  <2>1. n \in 1..(BytesRECV[c] - BytesSEND[c])  BY <1>5 DEF Send, CanSend
  <2>2. Unsent(c, n) \in Seq(Nat)
    <3>1. \A k \in 1..n : Buffer[c][BytesSEND[c] + k] \in Nat
      BY <2>1 DEF TypeOK
    <3>2. Unsent(c, n) \in [1..n -> Nat]  BY <3>1 DEF Unsent
    <3>3. QED  BY <3>2
  <2>3. echo' \in [Conns -> Seq(Nat)]
    <3>1. echo[c] \o Unsent(c, n) \in Seq(Nat)  BY <2>2 DEF TypeOK, NetTypeOK
    <3>2. QED  BY <1>5, <3>1 DEF Send, TypeOK, NetTypeOK
  <2>4. BytesSEND' \in [Conns -> 0..DATA_BUFSIZE] /\ BytesRECV' \in [Conns -> 0..DATA_BUFSIZE]
    <3>1. CASE BytesSEND[c] + n = BytesRECV[c]
      <4>1. /\ BytesSEND' = [BytesSEND EXCEPT ![c] = 0]
            /\ BytesRECV' = [BytesRECV EXCEPT ![c] = 0]
        BY <1>5, <3>1 DEF Send
      <4>2. QED  BY <4>1 DEF TypeOK
    <3>2. CASE BytesSEND[c] + n # BytesRECV[c]
      <4>1. BytesSEND[c] + n \in 0..DATA_BUFSIZE  BY <2>1 DEF TypeOK
      <4>2. BytesSEND' = [BytesSEND EXCEPT ![c] = @ + n] /\ BytesRECV' = BytesRECV
        BY <1>5, <3>2 DEF Send
      <4>3. QED  BY <4>1, <4>2 DEF TypeOK
    <3>3. QED  BY <3>1, <3>2
  <2>5. Total' \in Int /\ i' \in Nat \ {0}
    BY <1>5 DEF Send, TypeOK
  <2>6. UNCHANGED <<clientVars, conn, backlog, taken, pc, SocketArray, Buffer, ReadSet, WriteSet>>
    BY <1>5 DEF Send
  <2>7. QED  BY <2>3, <2>4, <2>5, <2>6 DEF TypeOK, NetTypeOK, clientVars
<1>6. QED  BY <1>1, <1>3, <1>4, <1>5 DEF Service

(* The counts of select() are counts of finite sets. *)
LEMMA FdSetFinite ==
  ASSUME TypeOK, NEW w \in BOOLEAN, NEW room
  PROVE  IsFiniteSet(FdSet(w, room))
<1> DEFINE wants == {k \in 1..TotalSockets : Pending(SocketArray[k]) <=> w}
           kept  == {k \in wants : Cardinality({j \in wants : j < k}) < room}
<1>1. FdSet(w, room) = {SocketArray[k] : k \in kept}  BY DEF FdSet
<1>2. IsFiniteSet(1..TotalSockets)  BY FS_Interval DEF TotalSockets, TypeOK
<1>3. IsFiniteSet(kept)  BY <1>2, FS_Subset
<1>. HIDE DEF kept
<1>4. [k \in kept |-> SocketArray[k]] \in Surjection(kept, FdSet(w, room))
  BY <1>1 DEF Surjection
<1>5. QED  BY <1>3, <1>4, FS_Surjection DEF ExistsSurjection

LEMMA TypeSelect == TypeOK /\ Select => TypeOK'
<1> SUFFICES ASSUME TypeOK, Select  PROVE TypeOK'
  OBVIOUS
<1> DEFINE R == {c \in FdSet(FALSE, FD_SETSIZE - 1) : Readable(c)}
           L == IF backlog # <<>> THEN {ListenSocket} ELSE {}
           W == {c \in FdSet(TRUE, FD_SETSIZE) : Writable(c)}
<1>1. /\ ReadSet' = R \cup L /\ WriteSet' = W
      /\ Total' = Cardinality(R \cup L) + Cardinality(W)
      /\ pc' = "accept"
      /\ UNCHANGED <<netVars, SocketArray, Buffer, BytesRECV, BytesSEND, i>>
  BY DEF Select
<1>2. R \subseteq Conns /\ W \subseteq Conns  BY FdSetType
<1>3. IsFiniteSet(R) /\ IsFiniteSet(W)  BY FdSetFinite, FS_Subset
<1>4. IsFiniteSet(L)  BY FS_Singleton, FS_EmptySet
<1>5. IsFiniteSet(R \cup L)  BY <1>3, <1>4, FS_Union
<1> HIDE DEF R, L, W
<1>6. Total' \in Int  BY <1>1, <1>3, <1>5, FS_CardinalityType
<1>7. L \subseteq {ListenSocket}  BY DEF L
<1>8. ReadSet' \subseteq Conns \cup {ListenSocket} /\ WriteSet' \subseteq Conns
  BY <1>1, <1>2, <1>7
<1>9. QED  BY <1>1, <1>6, <1>8 DEF TypeOK, NetTypeOK, netVars

LEMMA TypeAccept == TypeOK /\ Accept => TypeOK'
<1> SUFFICES ASSUME TypeOK, Accept  PROVE TypeOK'
  OBVIOUS
<1>1. Head(backlog) \in Conns /\ Tail(backlog) \in Seq(Conns)
  BY DEF Accept, TypeOK, NetTypeOK
<1>2. conn' \in [Conns -> {"new", "pending", "open", "closed"}]
  BY <1>1 DEF Accept, TypeOK, NetTypeOK
<1>3. backlog' \in Seq(Conns) /\ SocketArray' \in Seq(Conns)
  BY <1>1 DEF Accept, TypeOK, NetTypeOK
<1>4. /\ Buffer' \in [Conns -> [1..DATA_BUFSIZE -> Nat]]
      /\ BytesRECV' \in [Conns -> 0..DATA_BUFSIZE]
      /\ BytesSEND' \in [Conns -> 0..DATA_BUFSIZE]
  <2>1. Buffer' \in [Conns -> [1..DATA_BUFSIZE -> Nat]]  BY <1>1 DEF Accept, TypeOK
  <2>2. BytesRECV' \in [Conns -> 0..DATA_BUFSIZE]  BY <1>1 DEF Accept, TypeOK
  <2>3. BytesSEND' \in [Conns -> 0..DATA_BUFSIZE]  BY <1>1 DEF Accept, TypeOK
  <2>4. QED  BY <2>1, <2>2, <2>3
<1>5. Total' \in Int /\ i' \in Nat \ {0} /\ pc' = "service"  BY DEF Accept, TypeOK
<1>6. UNCHANGED <<clientVars, taken, echo, ReadSet, WriteSet>>  BY DEF Accept
<1>7. QED  BY <1>2, <1>3, <1>4, <1>5, <1>6 DEF TypeOK, NetTypeOK, clientVars

LEMMA TypeAcceptFails ==
  TypeOK /\ (AcceptWouldBlock \/ AcceptFails \/ CreateFails) => TypeOK'
<1> SUFFICES ASSUME TypeOK, AcceptWouldBlock \/ AcceptFails \/ CreateFails  PROVE TypeOK'
  OBVIOUS
<1> USE DEF AcceptWouldBlock, AcceptFails, CreateFails
<1>1. Head(backlog) \in Conns /\ Tail(backlog) \in Seq(Conns)  BY DEF TypeOK, NetTypeOK
<1>2. conn' \in [Conns -> {"new", "pending", "open", "closed"}]
  BY <1>1 DEF TypeOK, NetTypeOK
<1>3. backlog' \in Seq(Conns)  BY <1>1
<1>4. Total' \in Int /\ i' \in Nat \ {0} /\ pc' \in {"service", "exit"}  BY DEF TypeOK
<1>5. UNCHANGED <<clientVars, taken, echo, SocketArray, Buffer, BytesRECV, BytesSEND,
                  ReadSet, WriteSet>>
  OBVIOUS
<1>6. QED  BY <1>2, <1>3, <1>4, <1>5 DEF TypeOK, NetTypeOK, clientVars

LEMMA TypeStep == TypeOK /\ [Next]_vars => TypeOK'
<1> SUFFICES ASSUME TypeOK, [Next]_vars  PROVE TypeOK'
  OBVIOUS
<1>0. NetTypeOK /\ i \in Nat \ {0} /\ Total \in Int  BY DEF TypeOK
<1>1. CASE NoArrival \/ EndOfRound \/ SelectFails
  <2>1. /\ pc' \in {"select", "accept", "service", "exit"}
        /\ i' \in Nat \ {0} /\ Total' \in Int
    BY <1>0, <1>1 DEF NoArrival, EndOfRound, SelectFails
  <2>2. UNCHANGED netVars  BY <1>1 DEF NoArrival, EndOfRound, SelectFails
  <2>3. /\ SocketArray' = SocketArray /\ Buffer' = Buffer
        /\ BytesRECV' = BytesRECV /\ BytesSEND' = BytesSEND
        /\ ReadSet' = ReadSet /\ WriteSet' = WriteSet
    BY <1>1 DEF NoArrival, EndOfRound, SelectFails
  <2>4. NetTypeOK'  BY <1>0, <2>2 DEF NetTypeOK, netVars
  <2>5. QED  BY <2>1, <2>3, <2>4 DEF TypeOK
<1>3. CASE \E c \in Conns : Service(c)  BY <1>3, TypeService
<1>4. CASE ClientStep  BY <1>4, TypeClient DEF ClientStep
<1>5. CASE UNCHANGED vars
  BY <1>5 DEF vars, netVars, serverVars, TypeOK, NetTypeOK
<1>6. QED
  BY <1>1, <1>3, <1>4, <1>5, TypeSelect, TypeAccept, TypeAcceptFails DEF Next, Server

(* Every variable keeps its type in every behaviour of the server, whatever *)
(* the number of connections and the buffer sizes (the state of            *)
(* SocketioSelect.cpp, lines 49-109).                                       *)
THEOREM TypeCorrect == Spec => []TypeOK
BY TypeInit, TypeStep, PTL DEF Spec

-----------------------------------------------------------------------------
(* The inductive invariant, one conjunct at a time. *)

LEMMA InvInit == Init => IInv
<1> SUFFICES ASSUME Init  PROVE IInv
  OBVIOUS
<1>1. TypeOK  BY TypeInit
<1>2. BacklogOK /\ ArrayIsOpenSockets /\ GracefulClose
  BY DEF Init, NetInit, BacklogOK, ArrayIsOpenSockets, GracefulClose, TotalSockets
<1>3. CountersReset /\ FreshOK /\ ReadinessAtAccept /\ ReadinessHolds
  BY DEF Init, CountersReset, FreshOK, Pending, ReadinessAtAccept, ReadinessHolds
<1>4. EchoInv
  <2>1. \A c \in Conns : /\ BytesSEND[c] = 0 /\ BytesRECV[c] = 0 /\ taken[c] = 0
                         /\ sent[c] = 0 /\ echo[c] = <<>>
    BY DEF Init, NetInit
  <2>2. \A c \in Conns : Len(echo[c]) = 0  BY <2>1
  <2>3. \A c \in Conns : \A k \in 1..Len(echo[c]) : echo[c][k] = k
    <3>1. ASSUME NEW c \in Conns, NEW k \in 1..Len(echo[c])  PROVE FALSE
      <4>1. Len(echo[c]) = 0  BY <2>2
      <4>2. k \in 1..0  BY <4>1
      <4>3. QED  BY <4>2
    <3>2. QED  BY <3>1
  <2>4. \A c \in Conns : \A k \in BytesSEND[c]+1..BytesRECV[c] :
           Buffer[c][k] = Len(echo[c]) + (k - BytesSEND[c])
    <3>1. ASSUME NEW c \in Conns  PROVE (BytesSEND[c]+1..BytesRECV[c]) = {}
      <4>1. BytesSEND[c] = 0 /\ BytesRECV[c] = 0  BY <2>1
      <4>2. QED  BY <4>1
    <3>2. QED  BY <3>1
  <2>5. \A c \in Conns : /\ BytesSEND[c] <= BytesRECV[c] /\ taken[c] <= sent[c]
                         /\ Len(echo[c]) + (BytesRECV[c] - BytesSEND[c]) = taken[c]
    <3>1. ASSUME NEW c \in Conns
          PROVE  /\ BytesSEND[c] <= BytesRECV[c] /\ taken[c] <= sent[c]
                 /\ Len(echo[c]) + (BytesRECV[c] - BytesSEND[c]) = taken[c]
      <4>1. BytesSEND[c] = 0 /\ BytesRECV[c] = 0 /\ taken[c] = 0 /\ sent[c] = 0  BY <2>1
      <4>2. Len(echo[c]) = 0  BY <2>2
      <4>3. QED  BY <4>1, <4>2
    <3>2. QED  BY <3>1
  <2>6. QED  BY <2>3, <2>4, <2>5 DEF EchoInv
<1>5. CountOK /\ TotalCoversAhead
  <2>1. pc = "select" /\ ReadSet = {} /\ WriteSet = {}  BY DEF Init
  <2>2. QED  BY <2>1, FS_EmptySet DEF CountOK, TotalCoversAhead
<1>6. QED  BY <1>1, <1>2, <1>3, <1>4, <1>5 DEF IInv

(* The connection the service loop stands at is open, and at index i only. *)
LEMMA AtOpen ==
  ASSUME IInv, NEW c \in Conns, At(c)
  PROVE  /\ conn[c] = "open" /\ pc = "service"
         /\ i \in 1..Len(SocketArray) /\ SocketArray \in Seq(Conns)
         /\ \A k \in 1..TotalSockets : SocketArray[k] = c <=> k = i
         /\ c \in ReadSet => ~Pending(c)
         /\ c \in WriteSet => Pending(c)
<1>1. pc = "service" /\ i \in 1..TotalSockets /\ SocketArray[i] = c
  BY DEF At, IInv, TypeOK, TotalSockets
<1>2. SocketArray \in Seq(Conns) /\ Len(SocketArray) \in Nat /\ TotalSockets = Len(SocketArray)
  BY DEF IInv, TypeOK, TotalSockets
<1>3. conn[c] = "open" /\ \A k \in 1..TotalSockets : SocketArray[k] = c <=> k = i
  BY <1>1 DEF IInv, ArrayIsOpenSockets
<1>4. i \in i..TotalSockets  BY <1>1, <1>2
<1>5. (c \in ReadSet => ~Pending(c)) /\ (c \in WriteSet => Pending(c))
  BY <1>1, <1>4 DEF IInv, ReadinessHolds
<1>6. QED  BY <1>1, <1>2, <1>3, <1>5

(* What the service step on c leaves alone. *)
LEMMA ServiceFrame ==
  ASSUME NEW c \in Conns, Service(c)
  PROVE  /\ At(c) /\ i' = i + 1
         /\ UNCHANGED <<clientVars, backlog, pc, ReadSet, WriteSet>>
         /\ \/ FreeSocketInformation(c)
            \/ UNCHANGED <<conn, SocketArray>>
BY DEF Service, Pass, RecvClose, WouldBlock, Fail, Recv, Send, netVars, clientVars

LEMMA ClientFrame ==
  ASSUME TypeOK, NEW c \in Conns, Client(c)
  PROVE  /\ UNCHANGED <<taken, echo>>
         /\ \/ Connect(c)
            \/ UNCHANGED <<conn, backlog>>
BY DEF Client, Connect, ClientSend, ClientRead, ClientShutdown, ClientReset

(* The steps that move the main loop only. *)
Quiet == Select \/ NoArrival \/ EndOfRound \/ SelectFails

LEMMA QuietFrame == Quiet => UNCHANGED <<netVars, SocketArray, Buffer, BytesRECV, BytesSEND>>
BY DEF Quiet, Select, NoArrival, EndOfRound, SelectFails

LEMMA BacklogStep == IInv /\ [Next]_vars => BacklogOK'
<1> SUFFICES ASSUME IInv, [Next]_vars  PROVE BacklogOK'
  OBVIOUS
<1>0. /\ backlog \in Seq(Conns) /\ Len(backlog) \in Nat /\ BacklogOK
      /\ conn \in [Conns -> {"new", "pending", "open", "closed"}]
  BY DEF IInv, TypeOK, NetTypeOK
<1>1. CASE UNCHANGED <<conn, backlog>>  BY <1>0, <1>1 DEF BacklogOK
<1>2. CASE Quiet  BY <1>1, <1>2, QuietFrame DEF netVars
<1>3. CASE Accept \/ AcceptWouldBlock \/ AcceptFails \/ CreateFails
  <2>1. /\ backlog # <<>> /\ backlog' = Tail(backlog)
        /\ \A c \in Conns : c # Head(backlog) => conn'[c] = conn[c]
    BY <1>0, <1>3 DEF Accept, AcceptWouldBlock, AcceptFails, CreateFails
  <2>2. /\ Len(backlog') = Len(backlog) - 1
        /\ \A k \in 1..Len(backlog') : backlog'[k] = backlog[k + 1] /\ k + 1 \in 1..Len(backlog)
    BY <1>0, <2>1
  <2>3. Head(backlog) = backlog[1] /\ 1 \in 1..Len(backlog)  BY <1>0, <2>1
  <2>4. \A k \in 1..Len(backlog') : backlog'[k] # Head(backlog) /\ backlog'[k] \in Conns
    BY <1>0, <2>2, <2>3 DEF BacklogOK
  <2>5. QED  BY <1>0, <2>1, <2>2, <2>4 DEF BacklogOK
<1>4. ASSUME NEW c \in Conns, Service(c)  PROVE BacklogOK'
  <2>1. conn[c] = "open" /\ UNCHANGED backlog
    BY <1>4, ServiceFrame, AtOpen
  <2>2. \A d \in Conns : d # c => conn'[d] = conn[d]
    BY <1>0, <1>4, ServiceFrame DEF FreeSocketInformation
  <2>3. QED  BY <1>0, <2>1, <2>2 DEF BacklogOK
<1>5. CASE ClientStep
  <2>1. PICK c \in Conns : Client(c)  BY <1>5 DEF ClientStep
  <2>2. CASE Connect(c)
    <3>1. /\ conn[c] = "new" /\ conn' = [conn EXCEPT ![c] = "pending"]
          /\ backlog' = Append(backlog, c)
      BY <2>2 DEF Connect
    <3>2. \A k \in 1..Len(backlog) : backlog[k] # c /\ backlog[k] \in Conns
      BY <1>0, <3>1 DEF BacklogOK
    <3>3. /\ Len(backlog') = Len(backlog) + 1
          /\ backlog'[Len(backlog) + 1] = c
          /\ \A k \in 1..Len(backlog) : backlog'[k] = backlog[k]
      BY <1>0, <3>1
    <3>4. QED  BY <1>0, <3>1, <3>2, <3>3 DEF BacklogOK
  <2>3. QED  BY <1>1, <2>1, <2>2, ClientFrame DEF IInv
<1>6. CASE UNCHANGED vars  BY <1>1, <1>6 DEF vars, netVars
<1>7. QED
  BY <1>2, <1>3, <1>4, <1>5, <1>6 DEF Next, Server, Quiet

LEMMA ArrayStep == IInv /\ [Next]_vars => ArrayIsOpenSockets'
<1> SUFFICES ASSUME IInv, [Next]_vars  PROVE ArrayIsOpenSockets'
  OBVIOUS
<1>0. /\ SocketArray \in Seq(Conns) /\ Len(SocketArray) \in Nat
      /\ TotalSockets = Len(SocketArray) /\ TotalSockets' = Len(SocketArray')
      /\ conn \in [Conns -> {"new", "pending", "open", "closed"}]
      /\ backlog \in Seq(Conns) /\ ArrayIsOpenSockets
  BY DEF IInv, TypeOK, NetTypeOK, TotalSockets
<1>1. CASE UNCHANGED <<conn, SocketArray>> /\ (pc = "exit" => pc' = "exit")
  BY <1>0, <1>1 DEF ArrayIsOpenSockets
<1>2. CASE Quiet
  BY <1>1, <1>2, QuietFrame DEF netVars, Quiet, Select, NoArrival, EndOfRound, SelectFails
<1>3. ASSUME backlog # <<>>
      PROVE  Head(backlog) \in Conns /\ conn[Head(backlog)] = "pending"
  <2>1. Head(backlog) = backlog[1] /\ 1 \in 1..Len(backlog)  BY <1>0, <1>3
  <2>2. QED  BY <1>0, <2>1 DEF IInv, BacklogOK
<1>4. CASE Accept
  <2> DEFINE c == Head(backlog)
  <2>1. /\ c \in Conns /\ conn[c] = "pending" /\ pc # "exit"
        /\ conn' = [conn EXCEPT ![c] = "open"]
        /\ SocketArray' = Append(SocketArray, c)
    BY <1>3, <1>4 DEF Accept
  <2> HIDE DEF c
  <2>2. \A k \in 1..TotalSockets : SocketArray[k] # c
    BY <1>0, <2>1 DEF ArrayIsOpenSockets
  <2>3. /\ TotalSockets' = TotalSockets + 1 /\ SocketArray'[TotalSockets + 1] = c
        /\ \A k \in 1..TotalSockets : SocketArray'[k] = SocketArray[k]
    BY <1>0, <2>1
  <2>4. \A d \in Conns : conn'[d] = "open" <=> d = c \/ conn[d] = "open"
    BY <1>0, <2>1
  <2>5. ASSUME NEW d \in Conns
        PROVE  conn'[d] = "open" <=> \E k \in 1..TotalSockets' : SocketArray'[k] = d
    <3>1. conn[d] = "open" <=> \E k \in 1..TotalSockets : SocketArray[k] = d
      BY <1>0, <2>1 DEF ArrayIsOpenSockets
    <3>2. TotalSockets + 1 \in 1..TotalSockets' /\ (1..TotalSockets) \subseteq 1..TotalSockets'
      BY <1>0, <2>3
    <3>3. \A k \in 1..TotalSockets' : k \in 1..TotalSockets \/ k = TotalSockets + 1
      BY <1>0, <2>3
    <3>4. CASE d = c  BY <2>3, <2>4, <3>2, <3>4
    <3>5. CASE d # c  BY <2>3, <2>4, <3>1, <3>2, <3>3, <3>5
    <3>6. QED  BY <3>4, <3>5
  <2>6. \A j, k \in 1..TotalSockets' : SocketArray'[j] = SocketArray'[k] => j = k
    BY <1>0, <2>1, <2>2, <2>3 DEF ArrayIsOpenSockets
  <2>7. QED  BY <2>5, <2>6 DEF ArrayIsOpenSockets
<1>5. CASE AcceptWouldBlock
  <2>1. /\ pc # "exit" /\ UNCHANGED SocketArray
        /\ \A d \in Conns : conn'[d] = "open" <=> conn[d] = "open"
    BY <1>0, <1>3, <1>5 DEF AcceptWouldBlock
  <2>2. QED  BY <1>0, <2>1 DEF ArrayIsOpenSockets
<1>6. CASE AcceptFails \/ CreateFails
  BY <1>6 DEF AcceptFails, CreateFails, ArrayIsOpenSockets
<1>7. ASSUME NEW c \in Conns, Service(c)  PROVE ArrayIsOpenSockets'
  <2>1. CASE UNCHANGED <<conn, SocketArray>>  BY <1>1, <1>7, <2>1, ServiceFrame
  <2>2. CASE FreeSocketInformation(c)
    <3>1. /\ conn' = [conn EXCEPT ![c] = "closed"] /\ pc # "exit"
          /\ SocketArray' = Squash(SocketArray, i) /\ i \in 1..TotalSockets
          /\ \A k \in 1..TotalSockets : SocketArray[k] = c <=> k = i
      BY <1>0, <1>7, <2>2, ServiceFrame, AtOpen DEF FreeSocketInformation
    <3>2. /\ TotalSockets' = TotalSockets - 1
          /\ \A k \in 1..TotalSockets' :
               SocketArray'[k] = IF k < i THEN SocketArray[k] ELSE SocketArray[k + 1]
      <4>1. i \in 1..Len(SocketArray) /\ Len(SocketArray) > 0  BY <1>0, <3>1
      <4>2. /\ Len(Squash(SocketArray, i)) = Len(SocketArray) - 1
            /\ \A k \in 1..(Len(SocketArray) - 1) : Squash(SocketArray, i)[k] =
                 IF k < i THEN SocketArray[k] ELSE SocketArray[k + 1]
        BY <1>0, <4>1, SquashType
      <4>3. QED  BY <1>0, <3>1, <4>2
    <3>3. ASSUME NEW d \in Conns
          PROVE  conn'[d] = "open" <=> \E k \in 1..TotalSockets' : SocketArray'[k] = d
      <4>1. conn[d] = "open" <=> \E k \in 1..TotalSockets : SocketArray[k] = d
        BY <1>0, <3>1 DEF ArrayIsOpenSockets
      <4>2. CASE d = c
        <5>1. conn'[d] # "open"  BY <1>0, <3>1, <4>2
        <5>2. \A k \in 1..TotalSockets' : SocketArray'[k] # d  BY <1>0, <3>1, <3>2, <4>2
        <5>3. QED  BY <5>1, <5>2
      <4>3. CASE d # c
        <5>1. conn'[d] = conn[d]  BY <1>0, <3>1, <4>3
        <5>2. ASSUME NEW k \in 1..TotalSockets, SocketArray[k] = d
              PROVE  \E j \in 1..TotalSockets' : SocketArray'[j] = d
          <6>1. CASE k < i
            <7>1. k \in 1..TotalSockets'  BY <1>0, <3>1, <3>2, <6>1
            <7>2. SocketArray'[k] = d  BY <3>2, <5>2, <6>1, <7>1
            <7>3. QED  BY <7>1, <7>2
          <6>2. CASE ~(k < i)
            <7>1. k # i  BY <3>1, <4>3, <5>2
            <7>2. /\ k - 1 \in 1..TotalSockets' /\ ~(k - 1 < i)
                  /\ (k - 1) + 1 = k
              BY <1>0, <3>1, <3>2, <6>2, <7>1
            <7>3. SocketArray'[k - 1] = d  BY <3>2, <5>2, <7>2
            <7>4. QED  BY <7>2, <7>3
          <6>3. QED  BY <6>1, <6>2
        <5>3. ASSUME NEW k \in 1..TotalSockets', SocketArray'[k] = d
              PROVE  \E j \in 1..TotalSockets : SocketArray[j] = d
          <6>1. k \in 1..TotalSockets /\ k + 1 \in 1..TotalSockets  BY <1>0, <3>2
          <6>2. QED  BY <3>2, <5>3, <6>1
        <5>4. QED  BY <4>1, <5>1, <5>2, <5>3
      <4>4. QED  BY <4>2, <4>3
    <3>4. \A j, k \in 1..TotalSockets' : SocketArray'[j] = SocketArray'[k] => j = k
      BY <1>0, <3>1, <3>2 DEF ArrayIsOpenSockets
    <3>5. QED  BY <3>3, <3>4 DEF ArrayIsOpenSockets
  <2>3. QED  BY <1>7, <2>1, <2>2, ServiceFrame
<1>8. CASE ClientStep
  <2>1. PICK c \in Conns : Client(c) /\ UNCHANGED serverVars  BY <1>8 DEF ClientStep
  <2>2. \A d \in Conns : conn'[d] = "open" <=> conn[d] = "open"
    BY <1>0, <2>1, ClientFrame DEF Connect, IInv
  <2>3. QED  BY <1>0, <2>1, <2>2 DEF ArrayIsOpenSockets, serverVars
<1>9. CASE UNCHANGED vars  BY <1>1, <1>9 DEF vars, netVars, serverVars
<1>10. QED
  BY <1>2, <1>4, <1>5, <1>6, <1>7, <1>8, <1>9 DEF Next, Server, Quiet

LEMMA CountersStep == IInv /\ [Next]_vars => CountersReset'
<1> SUFFICES ASSUME IInv, [Next]_vars  PROVE CountersReset'
  OBVIOUS
<1>0. /\ BytesSEND \in [Conns -> 0..DATA_BUFSIZE] /\ BytesRECV \in [Conns -> 0..DATA_BUFSIZE]
      /\ CountersReset
  BY DEF IInv, TypeOK
<1> USE DEF CountersReset, Pending
<1>1. CASE UNCHANGED <<BytesSEND, BytesRECV>>  BY <1>0, <1>1
<1>2. CASE Quiet  BY <1>1, <1>2, QuietFrame
<1>3. CASE Accept  BY <1>0, <1>3 DEF Accept
<1>4. CASE AcceptWouldBlock \/ AcceptFails \/ CreateFails
  BY <1>1, <1>4 DEF AcceptWouldBlock, AcceptFails, CreateFails
<1>5. ASSUME NEW c \in Conns, Service(c)  PROVE CountersReset'
  <2>1. CASE Pass(c) \/ WouldBlock(c) \/ Fail(c)
    BY <1>1, <2>1 DEF Pass, WouldBlock, Fail
  <2>2. CASE RecvClose(c)
    <3>1. ~Pending(c)  BY <2>2, AtOpen DEF RecvClose
    <3>2. BytesRECV' = [BytesRECV EXCEPT ![c] = 0] /\ BytesSEND' = BytesSEND
      BY <2>2 DEF RecvClose
    <3>3. QED  BY <1>0, <3>1, <3>2
  <2>3. ASSUME NEW n \in 1..DATA_BUFSIZE, Recv(c, n)  PROVE CountersReset'
    <3>1. ~Pending(c)  BY <2>3, AtOpen DEF Recv
    <3>2. BytesRECV' = [BytesRECV EXCEPT ![c] = n] /\ BytesSEND' = BytesSEND
      BY <2>3 DEF Recv
    <3>3. QED  BY <1>0, <3>1, <3>2
  <2>4. ASSUME NEW n \in 1..DATA_BUFSIZE, Send(c, n)  PROVE CountersReset'
    <3>1. n <= BytesRECV[c] - BytesSEND[c]  BY <1>0, <2>4 DEF Send, CanSend
    <3>2. CASE BytesSEND[c] + n = BytesRECV[c]
      <4>1. /\ BytesSEND' = [BytesSEND EXCEPT ![c] = 0]
            /\ BytesRECV' = [BytesRECV EXCEPT ![c] = 0]
        BY <2>4, <3>2 DEF Send
      <4>2. QED  BY <1>0, <4>1
    <3>3. CASE BytesSEND[c] + n # BytesRECV[c]
      <4>1. BytesSEND' = [BytesSEND EXCEPT ![c] = @ + n] /\ BytesRECV' = BytesRECV
        BY <2>4, <3>3 DEF Send
      <4>2. QED  BY <1>0, <3>1, <3>3, <4>1
    <3>4. QED  BY <3>2, <3>3
  <2>5. QED  BY <1>5, <2>1, <2>2, <2>3, <2>4 DEF Service
<1>6. CASE ClientStep  BY <1>1, <1>6 DEF ClientStep, serverVars
<1>7. CASE UNCHANGED vars  BY <1>1, <1>7 DEF vars, serverVars
<1>8. QED
  BY <1>2, <1>3, <1>4, <1>5, <1>6, <1>7 DEF Next, Server, Quiet

LEMMA ReadinessAtAcceptStep == IInv /\ [Next]_vars => ReadinessAtAccept'
<1> SUFFICES ASSUME IInv, [Next]_vars, pc' = "accept"  PROVE ReadinessAtAccept'
  BY DEF ReadinessAtAccept
<1>0. TypeOK /\ ReadinessAtAccept /\ ArrayIsOpenSockets  BY DEF IInv
<1>1. CASE Select
  <2>1. /\ ReadSet' \ {ListenSocket} \subseteq FdSet(FALSE, FD_SETSIZE - 1)
        /\ WriteSet' \subseteq FdSet(TRUE, FD_SETSIZE)
        /\ pc # "exit"
    BY <1>1 DEF Select
  <2>2. /\ \A c \in ReadSet' \ {ListenSocket} :
             c \in Conns /\ ~Pending(c) /\ \E k \in 1..TotalSockets : SocketArray[k] = c
        /\ \A c \in WriteSet' :
             c \in Conns /\ Pending(c) /\ \E k \in 1..TotalSockets : SocketArray[k] = c
    BY <1>0, <2>1, FdSetType
  <2>3. UNCHANGED <<conn, BytesRECV, BytesSEND>>  BY <1>1 DEF Select, netVars
  <2>4. QED  BY <1>0, <2>1, <2>2, <2>3 DEF ReadinessAtAccept, ArrayIsOpenSockets, Pending
<1>2. CASE pc = "accept" /\ UNCHANGED <<ReadSet, WriteSet, BytesRECV, BytesSEND>>
           /\ \A c \in Conns : conn[c] = "open" => conn'[c] = "open"
  <2>1. ReadSet \ {ListenSocket} \subseteq Conns /\ WriteSet \subseteq Conns
    BY <1>0 DEF TypeOK
  <2>2. QED  BY <1>0, <1>2, <2>1 DEF ReadinessAtAccept, Pending
<1>3. CASE ClientStep
  <2>1. PICK c \in Conns : Client(c) /\ UNCHANGED serverVars  BY <1>3 DEF ClientStep
  <2>2. \A d \in Conns : conn[d] = "open" => conn'[d] = "open"
    BY <1>0, <2>1, ClientFrame DEF Connect, TypeOK, NetTypeOK
  <2>3. QED  BY <1>2, <2>1, <2>2 DEF serverVars
<1>4. CASE UNCHANGED vars  BY <1>2, <1>4 DEF vars, netVars, serverVars
<1>5. ASSUME NEW c \in Conns, Service(c)  PROVE FALSE
  BY <1>5, ServiceFrame DEF At
<1>6. QED
  BY <1>1, <1>3, <1>4, <1>5 DEF Next, Server, NoArrival, Accept, AcceptWouldBlock,
     AcceptFails, CreateFails, EndOfRound, SelectFails

(* Pending after the step, of a connection named before it. *)
PendingNext(d) == BytesRECV'[d] > BytesSEND'[d]

LEMMA ReadinessStep == IInv /\ [Next]_vars => ReadinessHolds'
<1> SUFFICES ASSUME IInv, [Next]_vars, pc' = "service"  PROVE ReadinessHolds'
  BY DEF ReadinessHolds
<1>0. /\ TypeOK /\ ReadinessAtAccept /\ ReadinessHolds /\ ArrayIsOpenSockets
      /\ SocketArray \in Seq(Conns) /\ Len(SocketArray) \in Nat /\ i \in Nat \ {0}
      /\ TotalSockets = Len(SocketArray) /\ TotalSockets' = Len(SocketArray')
  BY DEF IInv, TypeOK, TotalSockets
<1>1. CASE pc = "service" /\ UNCHANGED <<i, SocketArray, ReadSet, WriteSet, BytesRECV, BytesSEND>>
  BY <1>0, <1>1 DEF ReadinessHolds, Pending
<1>2. CASE NoArrival \/ AcceptWouldBlock
  <2>1. /\ pc = "accept" /\ i' = 1
        /\ UNCHANGED <<SocketArray, ReadSet, WriteSet, BytesRECV, BytesSEND>>
    BY <1>2 DEF NoArrival, AcceptWouldBlock
  <2>2. \A k \in 1..TotalSockets : SocketArray[k] \in Conns /\ SocketArray[k] # ListenSocket
    BY <1>0
  <2>3. QED  BY <1>0, <2>1, <2>2 DEF ReadinessHolds, ReadinessAtAccept, Pending
<1>3. CASE Accept
  <2> DEFINE c == Head(backlog)
  <2>0. backlog \in Seq(Conns) /\ backlog # <<>>  BY <1>3 DEF IInv, TypeOK, NetTypeOK, Accept
  <2>1. Head(backlog) = backlog[1] /\ 1 \in 1..Len(backlog)  BY <2>0
  <2>2. c \in Conns /\ conn[c] = "pending"  BY <2>0, <2>1 DEF IInv, BacklogOK
  <2>3. /\ pc = "accept" /\ i' = 1 /\ UNCHANGED <<ReadSet, WriteSet>>
        /\ SocketArray' = Append(SocketArray, c)
        /\ \A d \in Conns : d # c => BytesRECV'[d] = BytesRECV[d] /\ BytesSEND'[d] = BytesSEND[d]
    BY <1>0, <1>3 DEF Accept, TypeOK
  <2> HIDE DEF c
  <2>4. c # ListenSocket /\ c \notin ReadSet /\ c \notin WriteSet
    BY <1>0, <2>2, <2>3 DEF ReadinessAtAccept
  <2>5. /\ TotalSockets' = TotalSockets + 1 /\ SocketArray'[TotalSockets + 1] = c
        /\ \A k \in 1..TotalSockets : SocketArray'[k] = SocketArray[k]
    BY <1>0, <2>2, <2>3
  <2>6. \A k \in 1..TotalSockets' : k = TotalSockets + 1 \/ k \in 1..TotalSockets
    BY <1>0, <2>5
  <2>7. ASSUME NEW k \in 1..TotalSockets, SocketArray[k] # c
        PROVE  /\ SocketArray'[k] \in ReadSet' => ~PendingNext(SocketArray'[k])
               /\ SocketArray'[k] \in WriteSet' => PendingNext(SocketArray'[k])
    <3>1. SocketArray[k] \in Conns /\ SocketArray[k] # ListenSocket  BY <1>0
    <3>2. QED  BY <1>0, <2>3, <2>5, <2>7, <3>1 DEF ReadinessAtAccept, Pending, PendingNext
  <2>8. \A k \in 1..TotalSockets' :
               /\ SocketArray'[k] \in ReadSet' => ~PendingNext(SocketArray'[k])
               /\ SocketArray'[k] \in WriteSet' => PendingNext(SocketArray'[k])
    <3>1. ASSUME NEW k \in 1..TotalSockets', SocketArray'[k] # c
          PROVE  k \in 1..TotalSockets /\ SocketArray[k] # c
      BY <2>5, <2>6, <3>1
    <3>2. QED  BY <2>3, <2>4, <2>7, <3>1
  <2>9. QED  BY <2>3, <2>8 DEF ReadinessHolds, Pending, PendingNext
<1>4. ASSUME NEW c \in Conns, Service(c)  PROVE ReadinessHolds'
  <2>1. /\ pc = "service" /\ i' = i + 1 /\ UNCHANGED <<ReadSet, WriteSet>>
        /\ i \in 1..TotalSockets
        /\ \A k \in 1..TotalSockets : SocketArray[k] = c <=> k = i
    BY <1>0, <1>4, ServiceFrame, AtOpen
  <2>2. \A d \in Conns : d # c => BytesRECV'[d] = BytesRECV[d] /\ BytesSEND'[d] = BytesSEND[d]
    BY <1>0, <1>4 DEF Service, Pass, RecvClose, WouldBlock, Fail, Recv, Send, TypeOK
  <2>3. ASSUME NEW k \in i + 1..TotalSockets
        PROVE  /\ SocketArray[k] \in ReadSet' => ~PendingNext(SocketArray[k])
               /\ SocketArray[k] \in WriteSet' => PendingNext(SocketArray[k])
    <3>1. k \in i..TotalSockets /\ k \in 1..TotalSockets /\ k # i  BY <1>0, <2>1
    <3>2. SocketArray[k] \in Conns /\ SocketArray[k] # c  BY <1>0, <2>1, <3>1
    <3>3. QED  BY <1>0, <2>1, <2>2, <3>1, <3>2 DEF ReadinessHolds, Pending, PendingNext
  <2>4. \A k \in i'..TotalSockets' :
          \E j \in i + 1..TotalSockets : SocketArray'[k] = SocketArray[j]
    <3>1. CASE UNCHANGED SocketArray  BY <1>0, <2>1, <3>1
    <3>2. CASE FreeSocketInformation(c)
      <4>1. i \in 1..Len(SocketArray) /\ Len(SocketArray) > 0  BY <1>0, <2>1
      <4>2. /\ Len(Squash(SocketArray, i)) = Len(SocketArray) - 1
            /\ \A k \in 1..(Len(SocketArray) - 1) : Squash(SocketArray, i)[k] =
                 IF k < i THEN SocketArray[k] ELSE SocketArray[k + 1]
        BY <1>0, <4>1, SquashType
      <4>3. SocketArray' = Squash(SocketArray, i)  BY <3>2 DEF FreeSocketInformation
      <4>4. ASSUME NEW k \in i'..TotalSockets'
            PROVE  k + 1 \in i + 1..TotalSockets /\ SocketArray'[k] = SocketArray[k + 1]
        <5>1. k \in 1..(Len(SocketArray) - 1) /\ ~(k < i)  BY <1>0, <2>1, <4>2, <4>3
        <5>2. QED  BY <1>0, <2>1, <4>2, <4>3, <5>1
      <4>5. QED  BY <4>4
    <3>3. QED  BY <1>4, <3>1, <3>2, ServiceFrame
  <2>5. QED  BY <2>1, <2>3, <2>4 DEF ReadinessHolds, Pending, PendingNext
<1>5. CASE ClientStep  BY <1>1, <1>5 DEF ClientStep, serverVars
<1>6. CASE UNCHANGED vars  BY <1>1, <1>6 DEF vars, serverVars
<1>7. QED
  BY <1>2, <1>3, <1>4, <1>5, <1>6 DEF Next, Server, Select, AcceptFails, CreateFails, EndOfRound,
     SelectFails

(* EchoInv, for one connection. *)
Echoed(c) ==
  /\ BytesSEND[c] <= BytesRECV[c]
  /\ taken[c] <= sent[c]
  /\ Len(echo[c]) + (BytesRECV[c] - BytesSEND[c]) = taken[c]
  /\ \A k \in 1..Len(echo[c]) : echo[c][k] = k
  /\ \A k \in BytesSEND[c]+1..BytesRECV[c] :
        Buffer[c][k] = Len(echo[c]) + (k - BytesSEND[c])

LEMMA EchoInvByConn == EchoInv <=> \A c \in Conns : Echoed(c)
BY DEF EchoInv, Echoed

\* A connection none of whose counters, buffer and streams changed.
LEMMA EchoedFrame ==
  ASSUME NEW d, Echoed(d), sent[d] <= sent'[d], taken[d] \in Nat, sent[d] \in Nat,
         sent'[d] \in Nat,
         BytesSEND'[d] = BytesSEND[d], BytesRECV'[d] = BytesRECV[d], taken'[d] = taken[d],
         echo'[d] = echo[d], Buffer'[d] = Buffer[d]
  PROVE  Echoed(d)'
BY DEF Echoed

\* After a receive into an empty buffer.
LEMMA EchoedRecv ==
  ASSUME IInv, NEW c \in Conns, NEW n \in 1..DATA_BUFSIZE, Recv(c, n)
  PROVE  Echoed(c)'
<1>1. ~Pending(c)  BY AtOpen DEF Recv
<1>2. Echoed(c) /\ BytesSEND[c] = 0 /\ BytesRECV[c] = 0
  BY <1>1, EchoInvByConn DEF IInv, CountersReset
<1>3. /\ echo[c] \in Seq(Nat) /\ taken[c] \in Nat /\ sent[c] \in Nat
      /\ Len(echo[c]) = taken[c] /\ Len(Buffer[c]) = DATA_BUFSIZE
  BY <1>2 DEF IInv, TypeOK, NetTypeOK, Echoed
<1>4. /\ BytesRECV'[c] = n /\ BytesSEND'[c] = 0 /\ taken'[c] = taken[c] + n
      /\ echo'[c] = echo[c] /\ sent'[c] = sent[c]
      /\ Buffer'[c] = Overwrite(Buffer[c], Incoming(c, n))
  BY <1>2 DEF Recv, clientVars, IInv, TypeOK, NetTypeOK
<1>5. taken[c] + n <= sent[c]  BY <1>3 DEF Recv, CanRecv, Avail
<1>6. \A k \in 1..n : Buffer'[c][k] = taken[c] + k
  <2>1. Len(Incoming(c, n)) = n /\ \A k \in 1..n : Incoming(c, n)[k] = taken[c] + k
    BY DEF Incoming
  <2>2. \A k \in 1..n : Overwrite(Buffer[c], Incoming(c, n))[k] = Incoming(c, n)[k]
    BY <1>3, <2>1 DEF Overwrite
  <2>3. QED  BY <1>4, <2>1, <2>2
<1>7. QED  BY <1>2, <1>3, <1>4, <1>5, <1>6 DEF Echoed

LEMMA ConcatFacts ==
  ASSUME NEW s \in Seq(Nat), NEW t \in Seq(Nat)
  PROVE  /\ Len(s \o t) = Len(s) + Len(t)
         /\ \A k \in 1..Len(s) : (s \o t)[k] = s[k]
         /\ \A k \in 1..Len(t) : (s \o t)[Len(s) + k] = t[k]
OBVIOUS

\* What a send takes from the buffer are the stream's next bytes.
LEMMA SendIsNext ==
  ASSUME IInv, NEW c \in Conns, NEW n \in 1..DATA_BUFSIZE, Send(c, n)
  PROVE  /\ n <= BytesRECV[c] - BytesSEND[c]
         /\ echo'[c] = echo[c] \o Unsent(c, n)
         /\ taken'[c] = taken[c] /\ sent'[c] = sent[c] /\ Buffer'[c] = Buffer[c]
         /\ Unsent(c, n) \in Seq(Nat) /\ Len(Unsent(c, n)) = n
         /\ Unsent(c, n) = [k \in 1..n |-> Len(echo[c]) + k]
         /\ Len(echo[c]) + n <= sent[c]
<1>1. Echoed(c)  BY EchoInvByConn DEF IInv
<1>2. /\ echo[c] \in Seq(Nat) /\ Len(echo[c]) \in Nat
      /\ taken[c] \in Nat /\ sent[c] \in Nat
      /\ BytesSEND[c] \in Nat /\ BytesRECV[c] \in Nat
  BY DEF IInv, TypeOK, NetTypeOK
<1>3. /\ n <= BytesRECV[c] - BytesSEND[c]
      /\ echo'[c] = echo[c] \o Unsent(c, n)
      /\ taken'[c] = taken[c] /\ sent'[c] = sent[c] /\ Buffer'[c] = Buffer[c]
  <2>1. n <= BytesRECV[c] - BytesSEND[c]  BY <1>2 DEF Send, CanSend
  <2>2. echo'[c] = echo[c] \o Unsent(c, n)  BY DEF Send, IInv, TypeOK, NetTypeOK
  <2>3. UNCHANGED <<taken, sent, Buffer>>  BY DEF Send, clientVars
  <2>4. QED  BY <2>1, <2>2, <2>3
<1>4. /\ Unsent(c, n) \in Seq(Nat) /\ Len(Unsent(c, n)) = n
      /\ Unsent(c, n) = [k \in 1..n |-> Len(echo[c]) + k]
  <2>1. \A k \in 1..n : Buffer[c][BytesSEND[c] + k] = Len(echo[c]) + k
    <3>1. \A k \in 1..n : BytesSEND[c] + k \in BytesSEND[c]+1..BytesRECV[c]  BY <1>2, <1>3
    <3>2. ASSUME NEW k \in 1..n  PROVE Buffer[c][BytesSEND[c] + k] = Len(echo[c]) + k
      <4>1. Buffer[c][BytesSEND[c] + k] = Len(echo[c]) + ((BytesSEND[c] + k) - BytesSEND[c])
        BY <1>1, <3>1 DEF Echoed
      <4>2. (BytesSEND[c] + k) - BytesSEND[c] = k  BY <1>2
      <4>3. QED  BY <4>1, <4>2
    <3>3. QED  BY <3>2
  <2>2. Unsent(c, n) = [k \in 1..n |-> Len(echo[c]) + k]  BY <2>1 DEF Unsent
  <2>3. QED  BY <1>2, <2>2
<1>5. Len(echo[c]) + n <= sent[c]  BY <1>1, <1>2, <1>3 DEF Echoed
<1>6. QED  BY <1>3, <1>4, <1>5

\* After a send of the next bytes of the buffer.
LEMMA EchoedSend ==
  ASSUME IInv, NEW c \in Conns, NEW n \in 1..DATA_BUFSIZE, Send(c, n)
  PROVE  Echoed(c)'
<1>1. Echoed(c)  BY EchoInvByConn DEF IInv
<1>2. /\ echo[c] \in Seq(Nat) /\ Len(echo[c]) \in Nat
      /\ taken[c] \in Nat /\ sent[c] \in Nat
      /\ BytesSEND[c] \in Nat /\ BytesRECV[c] \in Nat
  BY DEF IInv, TypeOK, NetTypeOK
<1>3. /\ n <= BytesRECV[c] - BytesSEND[c]
      /\ echo'[c] = echo[c] \o Unsent(c, n)
      /\ taken'[c] = taken[c] /\ sent'[c] = sent[c] /\ Buffer'[c] = Buffer[c]
  BY SendIsNext
<1>4. /\ Unsent(c, n) \in Seq(Nat) /\ Len(Unsent(c, n)) = n
      /\ \A k \in 1..n : Unsent(c, n)[k] = Len(echo[c]) + k
  BY SendIsNext
<1>5. /\ Len(echo'[c]) = Len(echo[c]) + n
      /\ \A k \in 1..Len(echo'[c]) : echo'[c][k] = k
  <2>0. /\ Len(echo[c] \o Unsent(c, n)) = Len(echo[c]) + Len(Unsent(c, n))
        /\ \A k \in 1..Len(echo[c]) : (echo[c] \o Unsent(c, n))[k] = echo[c][k]
        /\ \A k \in 1..Len(Unsent(c, n)) :
             (echo[c] \o Unsent(c, n))[Len(echo[c]) + k] = Unsent(c, n)[k]
    BY <1>2, <1>4, ConcatFacts
  <2>1. Len(echo'[c]) = Len(echo[c]) + n  BY <1>3, <1>4, <2>0
  <2>2. \A k \in 1..Len(echo[c]) : echo'[c][k] = echo[c][k]  BY <1>3, <2>0
  <2>3. \A k \in 1..n : echo'[c][Len(echo[c]) + k] = Unsent(c, n)[k]  BY <1>3, <1>4, <2>0
  <2>4. ASSUME NEW k \in 1..Len(echo'[c])  PROVE echo'[c][k] = k
    <3>1. CASE k \in 1..Len(echo[c])  BY <1>1, <2>2, <3>1 DEF Echoed
    <3>2. CASE k \notin 1..Len(echo[c])
      <4>1. k - Len(echo[c]) \in 1..n /\ Len(echo[c]) + (k - Len(echo[c])) = k
        BY <1>2, <2>1, <3>2
      <4>2. QED  BY <1>4, <2>3, <4>1
    <3>3. QED  BY <3>1, <3>2
  <2>5. QED  BY <2>1, <2>4
<1>6. CASE BytesSEND[c] + n = BytesRECV[c]
  <2>1. BytesSEND'[c] = 0 /\ BytesRECV'[c] = 0  BY <1>6 DEF Send, IInv, TypeOK
  <2>2. (BytesSEND'[c]+1..BytesRECV'[c]) = {}  BY <2>1
  <2>3. QED  BY <1>1, <1>2, <1>3, <1>5, <1>6, <2>1, <2>2 DEF Echoed
<1>7. CASE BytesSEND[c] + n # BytesRECV[c]
  <2>1. BytesSEND'[c] = BytesSEND[c] + n /\ BytesRECV'[c] = BytesRECV[c]
    BY <1>7 DEF Send, IInv, TypeOK
  <2>2. ASSUME NEW k \in BytesSEND'[c]+1..BytesRECV'[c]
        PROVE  Buffer'[c][k] = Len(echo'[c]) + (k - BytesSEND'[c])
    <3>1. k \in BytesSEND[c]+1..BytesRECV[c] /\ k \in Nat  BY <1>2, <2>1
    <3>2. Buffer[c][k] = Len(echo[c]) + (k - BytesSEND[c])  BY <1>1, <3>1 DEF Echoed
    <3>3. Len(echo[c]) + (k - BytesSEND[c]) = (Len(echo[c]) + n) + (k - (BytesSEND[c] + n))
      BY <1>2, <3>1
    <3>4. QED  BY <1>3, <1>5, <2>1, <3>2, <3>3
  <2>3. /\ BytesSEND'[c] <= BytesRECV'[c] /\ taken'[c] <= sent'[c]
        /\ Len(echo'[c]) + (BytesRECV'[c] - BytesSEND'[c]) = taken'[c]
    <3>1. /\ BytesSEND[c] <= BytesRECV[c] /\ taken[c] <= sent[c]
          /\ Len(echo[c]) + BytesRECV[c] - BytesSEND[c] = taken[c]
      BY <1>1 DEF Echoed
    <3>2. n \in Nat /\ Len(echo'[c]) = Len(echo[c]) + n  BY <1>5
    <3>3. QED  BY <1>2, <1>3, <2>1, <3>1, <3>2
  <2>4. QED  BY <1>5, <2>2, <2>3 DEF Echoed
<1>8. QED  BY <1>6, <1>7

LEMMA EchoStep == IInv /\ [Next]_vars => EchoInv'
<1> SUFFICES ASSUME IInv, [Next]_vars, NEW d \in Conns  PROVE Echoed(d)'
  BY DEF EchoInv, Echoed
<1>0. /\ Echoed(d) /\ taken[d] \in Nat /\ sent[d] \in Nat /\ sent'[d] \in Nat
      /\ TypeOK /\ TypeOK'
  BY EchoInvByConn, TypeStep DEF IInv, TypeOK, NetTypeOK
<1>1. CASE UNCHANGED <<sent, BytesSEND, BytesRECV, taken, echo, Buffer>>
  BY <1>0, <1>1, EchoedFrame
<1>2. CASE Quiet  BY <1>1, <1>2, QuietFrame DEF netVars
<1>3. CASE AcceptWouldBlock \/ AcceptFails \/ CreateFails
  BY <1>1, <1>3 DEF AcceptWouldBlock, AcceptFails, CreateFails, clientVars
<1>4. CASE Accept
  <2>1. CASE conn[d] = "pending"
    <3>1. BytesSEND[d] = 0 /\ BytesRECV[d] = 0
      BY <2>1 DEF IInv, FreshOK, CountersReset
    <3>2. BytesSEND'[d] = 0 /\ BytesRECV'[d] = 0
      BY <1>0, <1>4, <3>1 DEF Accept, TypeOK
    <3>3. UNCHANGED <<sent, taken, echo>>  BY <1>4 DEF Accept, clientVars
    <3>4. (BytesSEND'[d]+1..BytesRECV'[d]) = {}  BY <3>2
    <3>5. QED  BY <1>0, <3>1, <3>2, <3>3, <3>4 DEF Echoed
  <2>2. CASE conn[d] # "pending"
    <3>1. backlog \in Seq(Conns) /\ backlog # <<>>
      BY <1>0, <1>4 DEF Accept, TypeOK, NetTypeOK
    <3>2. Head(backlog) = backlog[1] /\ 1 \in 1..Len(backlog)  BY <3>1
    <3>3. Head(backlog) # d  BY <2>2, <3>2 DEF IInv, BacklogOK
    <3>4. /\ BytesSEND'[d] = BytesSEND[d] /\ BytesRECV'[d] = BytesRECV[d]
          /\ Buffer'[d] = Buffer[d]
      BY <1>0, <1>4, <3>3 DEF Accept, TypeOK
    <3>5. UNCHANGED <<sent, taken, echo>>  BY <1>4 DEF Accept, clientVars
    <3>6. QED  BY <1>0, <3>4, <3>5, EchoedFrame
  <2>3. QED  BY <2>1, <2>2
<1>5. ASSUME NEW c \in Conns, Service(c)  PROVE Echoed(d)'
  <2>1. CASE Pass(c) \/ WouldBlock(c) \/ Fail(c)
    BY <1>1, <2>1 DEF Pass, WouldBlock, Fail, netVars, clientVars
  <2>2. CASE RecvClose(c)
    <3>1. ~Pending(c)  BY <2>2, AtOpen DEF RecvClose
    <3>2. BytesRECV[c] = 0  BY <3>1 DEF IInv, CountersReset
    <3>3. BytesRECV' = [BytesRECV EXCEPT ![c] = 0]  BY <2>2 DEF RecvClose
    <3>4. BytesRECV'[d] = BytesRECV[d]  BY <1>0, <3>2, <3>3 DEF TypeOK
    <3>5. UNCHANGED <<sent, BytesSEND, taken, echo, Buffer>>
      BY <2>2 DEF RecvClose, clientVars
    <3>6. QED  BY <1>0, <3>4, <3>5, EchoedFrame
  <2>3. ASSUME NEW n \in 1..DATA_BUFSIZE, Recv(c, n), d # c  PROVE Echoed(d)'
    <3>1. /\ BytesRECV'[d] = BytesRECV[d] /\ taken'[d] = taken[d] /\ Buffer'[d] = Buffer[d]
          /\ UNCHANGED <<sent, BytesSEND, echo>>
      BY <1>0, <2>3 DEF Recv, clientVars, TypeOK, NetTypeOK
    <3>2. QED  BY <1>0, <3>1, EchoedFrame
  <2>4. ASSUME NEW n \in 1..DATA_BUFSIZE, Send(c, n), d # c  PROVE Echoed(d)'
    <3>1. /\ BytesRECV'[d] = BytesRECV[d] /\ BytesSEND'[d] = BytesSEND[d] /\ echo'[d] = echo[d]
          /\ UNCHANGED <<sent, taken, Buffer>>
      BY <1>0, <2>4 DEF Send, clientVars, TypeOK, NetTypeOK
    <3>2. QED  BY <1>0, <3>1, EchoedFrame
  <2>5. QED  BY <1>5, <2>1, <2>2, <2>3, <2>4, EchoedRecv, EchoedSend DEF Service
<1>6. CASE ClientStep
  <2>1. PICK c \in Conns : Client(c) /\ UNCHANGED serverVars  BY <1>6 DEF ClientStep
  <2>2. sent[d] <= sent'[d]
    <3>1. CASE ClientSend(c)
      <4>1. sent' = [sent EXCEPT ![c] = @ + 1] /\ sent \in [Conns -> Nat]
        BY <1>0, <3>1 DEF ClientSend, TypeOK, NetTypeOK
      <4>2. sent'[d] = sent[d] \/ sent'[d] = sent[d] + 1  BY <4>1
      <4>3. QED  BY <1>0, <4>2
    <3>2. CASE UNCHANGED sent  BY <1>0, <3>2
    <3>3. QED
      BY <2>1, <3>1, <3>2 DEF Client, Connect, ClientRead, ClientShutdown, ClientReset
  <2>3. UNCHANGED <<taken, echo, Buffer, BytesSEND, BytesRECV>>
    BY <1>0, <2>1, ClientFrame DEF serverVars
  <2>4. QED  BY <1>0, <2>2, <2>3, EchoedFrame
<1>7. CASE UNCHANGED vars  BY <1>1, <1>7 DEF vars, netVars, serverVars
<1>8. QED
  BY <1>2, <1>3, <1>4, <1>5, <1>6, <1>7 DEF Next, Server, Quiet

LEMMA FreshStep == IInv /\ [Next]_vars => FreshOK'
<1> SUFFICES ASSUME IInv, [Next]_vars, NEW d \in Conns, conn'[d] \in {"new", "pending"}
             PROVE  ~PendingNext(d)
  BY DEF FreshOK, Pending, PendingNext
<1>0. TypeOK /\ FreshOK  BY DEF IInv
<1>1. CASE conn[d] \in {"new", "pending"} /\ BytesRECV'[d] = BytesRECV[d] /\ BytesSEND'[d] = BytesSEND[d]
  BY <1>0, <1>1 DEF FreshOK, Pending, PendingNext
<1>2. CASE Quiet  BY <1>1, <1>2, QuietFrame DEF netVars
<1>3. CASE Accept \/ AcceptWouldBlock \/ AcceptFails \/ CreateFails
  <2>1. d # Head(backlog) /\ conn'[d] = conn[d]
    BY <1>0, <1>3 DEF Accept, AcceptWouldBlock, AcceptFails, CreateFails, TypeOK, NetTypeOK
  <2>2. BytesRECV'[d] = BytesRECV[d] /\ BytesSEND'[d] = BytesSEND[d]
    BY <1>0, <1>3, <2>1 DEF Accept, AcceptWouldBlock, AcceptFails, CreateFails, TypeOK
  <2>3. QED  BY <1>1, <2>1, <2>2
<1>4. ASSUME NEW c \in Conns, Service(c)  PROVE ~PendingNext(d)
  <2>1. conn[c] = "open"  BY <1>4, ServiceFrame, AtOpen
  <2>2. d # c /\ conn'[d] = conn[d]
    BY <1>0, <1>4, <2>1, ServiceFrame DEF FreeSocketInformation, TypeOK, NetTypeOK
  <2>3. BytesRECV'[d] = BytesRECV[d] /\ BytesSEND'[d] = BytesSEND[d]
    BY <1>0, <1>4, <2>2 DEF Service, Pass, RecvClose, WouldBlock, Fail, Recv, Send, TypeOK
  <2>4. QED  BY <1>1, <2>2, <2>3
<1>5. CASE ClientStep
  <2>1. PICK c \in Conns : Client(c) /\ UNCHANGED serverVars  BY <1>5 DEF ClientStep
  <2>2. conn[d] \in {"new", "pending"}
    BY <1>0, <2>1, ClientFrame DEF Connect, TypeOK, NetTypeOK
  <2>3. QED  BY <1>1, <2>1, <2>2 DEF serverVars
<1>6. CASE UNCHANGED vars  BY <1>1, <1>6 DEF vars, netVars, serverVars
<1>7. QED
  BY <1>2, <1>3, <1>4, <1>5, <1>6 DEF Next, Server, Quiet

LEMMA CloseStep == IInv /\ [Next]_vars => GracefulClose'
<1> SUFFICES ASSUME IInv, [Next]_vars, NEW d \in Conns, conn'[d] = "closed", ~rst'[d]
             PROVE  fin'[d] /\ Len(echo'[d]) = sent'[d]
  BY DEF GracefulClose
<1>0. TypeOK /\ GracefulClose  BY DEF IInv
<1>1. CASE conn[d] = "closed" /\ UNCHANGED <<sent, fin, rst, echo>>
  BY <1>0, <1>1 DEF GracefulClose
<1>2. CASE Quiet  BY <1>1, <1>2, QuietFrame DEF netVars
<1>3. CASE Accept \/ AcceptWouldBlock \/ AcceptFails \/ CreateFails
  <2>1. UNCHANGED <<sent, fin, rst, echo>>
    BY <1>3 DEF Accept, AcceptWouldBlock, AcceptFails, CreateFails, clientVars
  <2>2. CASE conn'[d] = conn[d]  BY <1>1, <2>1, <2>2
  <2>3. CASE conn'[d] # conn[d]
    <3>1. d = Head(backlog) /\ (AcceptWouldBlock \/ AcceptFails)
      BY <1>0, <1>3, <2>3 DEF Accept, AcceptWouldBlock, AcceptFails, CreateFails, TypeOK, NetTypeOK
    <3>2. rst[d]  BY <3>1 DEF AcceptWouldBlock, AcceptFails
    <3>3. QED  BY <2>1, <3>2
  <2>4. QED  BY <2>2, <2>3
<1>4. ASSUME NEW c \in Conns, Service(c)  PROVE fin'[d] /\ Len(echo'[d]) = sent'[d]
  <2>1. conn[c] = "open" /\ (c \in ReadSet => ~Pending(c))  BY <1>4, ServiceFrame, AtOpen
  <2>2. UNCHANGED <<sent, fin, rst>>  BY <1>4, ServiceFrame DEF clientVars
  <2>3. CASE d # c
    <3>1. conn'[d] = conn[d]
      <4>1. conn \in [Conns -> {"new", "pending", "open", "closed"}]
        BY <1>0 DEF TypeOK, NetTypeOK
      <4>2. conn' = conn \/ conn' = [conn EXCEPT ![c] = "closed"]
        BY <1>4, ServiceFrame DEF FreeSocketInformation
      <4>3. QED  BY <2>3, <4>1, <4>2
    <3>2. echo'[d] = echo[d]
      BY <1>0, <1>4, <2>3 DEF Service, Pass, RecvClose, WouldBlock, Fail, Recv, Send, netVars,
         TypeOK, NetTypeOK
    <3>3. QED  BY <1>0, <2>2, <3>1, <3>2 DEF GracefulClose
  <2>4. CASE d = c
    <3>1. RecvClose(c) \/ Fail(c)
      BY <1>4, <2>1, <2>4 DEF Service, Pass, WouldBlock, Recv, Send, netVars
    <3>2. RecvClose(c)  BY <2>2, <2>4, <3>1 DEF Fail, HardError
    <3>3. fin[c] /\ Avail(c) = 0 /\ UNCHANGED echo /\ ~Pending(c)
      BY <2>1, <3>2 DEF RecvClose, CanRecv
    <3>4. BytesSEND[c] = 0 /\ BytesRECV[c] = 0 /\ Echoed(c)
      BY <3>3, EchoInvByConn DEF IInv, CountersReset
    <3>5. Len(echo[c]) \in Nat /\ sent[c] \in Nat /\ taken[c] \in Nat
      BY <1>0 DEF TypeOK, NetTypeOK
    <3>6. QED  BY <2>2, <2>4, <3>3, <3>4, <3>5 DEF Echoed, Avail
  <2>5. QED  BY <2>3, <2>4
<1>5. CASE ClientStep
  <2>1. PICK c \in Conns : Client(c)  BY <1>5 DEF ClientStep
  <2>2. conn[d] = "closed" /\ UNCHANGED echo
    BY <1>0, <2>1, ClientFrame DEF Connect, TypeOK, NetTypeOK
  <2>3. sent'[d] = sent[d] /\ fin'[d] = fin[d] /\ (rst[d] => rst'[d])
    BY <1>0, <2>1, <2>2 DEF Client, Connect, ClientSend, ClientRead, ClientShutdown, ClientReset,
       Connected, TypeOK, NetTypeOK
  <2>4. QED  BY <1>0, <2>2, <2>3 DEF GracefulClose
<1>6. CASE UNCHANGED vars  BY <1>1, <1>6 DEF vars, netVars
<1>7. QED
  BY <1>2, <1>3, <1>4, <1>5, <1>6 DEF Next, Server, Quiet

-----------------------------------------------------------------------------
(* The count of the sockets that select() marked. *)

Marked == ReadSet \cup WriteSet

\* The marked sockets that the loop has not reached.
Ahead == {SocketArray[k] : k \in i..TotalSockets} \cap Marked

LEMMA MarkedFacts ==
  ASSUME CountOK
  PROVE  /\ IsFiniteSet(Marked)
         /\ Cardinality(ReadSet) \in Nat /\ Cardinality(WriteSet) \in Nat
         /\ Cardinality(Marked) \in Nat
         /\ Cardinality(Marked) <= Cardinality(ReadSet) + Cardinality(WriteSet)
         /\ ListenSocket \in ReadSet =>
              Cardinality(Marked \ {ListenSocket})
                <= Cardinality(ReadSet) + Cardinality(WriteSet) - 1
<1>1. IsFiniteSet(ReadSet) /\ IsFiniteSet(WriteSet)  BY DEF CountOK
<1>2. /\ IsFiniteSet(Marked)
      /\ Cardinality(Marked)
           = Cardinality(ReadSet) + Cardinality(WriteSet) - Cardinality(ReadSet \cap WriteSet)
  BY <1>1, FS_Union DEF Marked
<1>3. IsFiniteSet(ReadSet \cap WriteSet)  BY <1>1, FS_Intersection
<1>4. /\ Cardinality(ReadSet) \in Nat /\ Cardinality(WriteSet) \in Nat
      /\ Cardinality(Marked) \in Nat /\ Cardinality(ReadSet \cap WriteSet) \in Nat
  BY <1>1, <1>2, <1>3, FS_CardinalityType
<1>5. Cardinality(Marked) <= Cardinality(ReadSet) + Cardinality(WriteSet)
  BY <1>2, <1>4
<1>6. ASSUME ListenSocket \in ReadSet
      PROVE  Cardinality(Marked \ {ListenSocket})
               <= Cardinality(ReadSet) + Cardinality(WriteSet) - 1
  <2>1. ListenSocket \in Marked  BY <1>6 DEF Marked
  <2>2. Cardinality(Marked \ {ListenSocket}) = Cardinality(Marked) - 1
    BY <1>2, <2>1, FS_RemoveElement
  <2>3. QED  BY <1>4, <1>5, <2>2
<1>7. QED  BY <1>2, <1>4, <1>5, <1>6

LEMMA CountStep == IInv /\ [Next]_vars => CountOK'
<1> SUFFICES ASSUME IInv, [Next]_vars  PROVE CountOK'
  OBVIOUS
<1>0. TypeOK /\ CountOK  BY DEF IInv
<1>1. CASE Select
  <2> DEFINE R == {c \in FdSet(FALSE, FD_SETSIZE - 1) : Readable(c)}
             L == IF backlog # <<>> THEN {ListenSocket} ELSE {}
             W == {c \in FdSet(TRUE, FD_SETSIZE) : Writable(c)}
  <2>1. /\ ReadSet' = R \cup L /\ WriteSet' = W
        /\ Total' = Cardinality(R \cup L) + Cardinality(W)
    BY <1>1 DEF Select
  <2>2. IsFiniteSet(R) /\ IsFiniteSet(W)  BY <1>0, FdSetFinite, FS_Subset
  <2>3. IsFiniteSet(L)  BY FS_Singleton, FS_EmptySet
  <2>4. IsFiniteSet(R \cup L)  BY <2>2, <2>3, FS_Union
  <2> HIDE DEF R, L, W
  <2>5. QED  BY <2>1, <2>2, <2>4 DEF CountOK
<1>2. CASE UNCHANGED <<ReadSet, WriteSet>> /\ (pc' = "accept" => pc = "accept" /\ Total' = Total)
  BY <1>0, <1>2 DEF CountOK
<1>3. CASE \/ NoArrival \/ Accept \/ AcceptWouldBlock \/ AcceptFails \/ CreateFails
           \/ EndOfRound \/ SelectFails
  BY <1>2, <1>3 DEF NoArrival, Accept, AcceptWouldBlock, AcceptFails, CreateFails, EndOfRound,
     SelectFails
<1>4. ASSUME NEW c \in Conns, Service(c)  PROVE CountOK'
  BY <1>2, <1>4, ServiceFrame DEF At
<1>5. CASE ClientStep \/ UNCHANGED vars
  BY <1>2, <1>5 DEF ClientStep, serverVars, vars
<1>6. QED  BY <1>1, <1>3, <1>4, <1>5 DEF Next, Server

(* A step of the loop leaves the socket it stood at behind, and counts it   *)
(* if it was marked; what a squash moves down stays ahead or is passed over.*)
LEMMA ServiceAhead ==
  ASSUME IInv, NEW c \in Conns, Service(c)
  PROVE  /\ Ahead' \subseteq Ahead \ {c}
         /\ c \in Marked => c \in Ahead /\ Total' = Total - 1
         /\ c \notin Marked => Total' = Total
         /\ pc = "service"
<1>1. /\ i \in 1..Len(SocketArray) /\ SocketArray \in Seq(Conns) /\ Len(SocketArray) \in Nat
      /\ TotalSockets = Len(SocketArray) /\ TotalSockets' = Len(SocketArray')
      /\ SocketArray[i] = c /\ pc = "service"
      /\ \A k \in 1..TotalSockets : SocketArray[k] = c <=> k = i
  BY ServiceFrame, AtOpen DEF At, TotalSockets
<1>2. i' = i + 1 /\ Marked' = Marked  BY ServiceFrame DEF Marked
<1>3. ASSUME NEW k \in i'..TotalSockets'
      PROVE  \E j \in i..TotalSockets : SocketArray'[k] = SocketArray[j] /\ SocketArray[j] # c
  <2>1. CASE UNCHANGED SocketArray
    <3>1. k \in i..TotalSockets /\ k \in 1..TotalSockets /\ k # i  BY <1>1, <1>2, <2>1
    <3>2. QED  BY <1>1, <2>1, <3>1
  <2>2. CASE FreeSocketInformation(c)
    <3>1. Len(SocketArray) > 0 /\ SocketArray' = Squash(SocketArray, i)
      BY <1>1, <2>2 DEF FreeSocketInformation
    <3>2. /\ Len(SocketArray') = Len(SocketArray) - 1
          /\ \A m \in 1..(Len(SocketArray) - 1) : SocketArray'[m] =
               IF m < i THEN SocketArray[m] ELSE SocketArray[m + 1]
      BY <1>1, <3>1, SquashType
    <3>3. k \in 1..(Len(SocketArray) - 1) /\ ~(k < i)  BY <1>1, <1>2, <3>2
    <3>4. k + 1 \in i..TotalSockets /\ k + 1 \in 1..TotalSockets /\ k + 1 # i
      BY <1>1, <1>2, <3>2, <3>3
    <3>5. SocketArray'[k] = SocketArray[k + 1]  BY <3>2, <3>3
    <3>6. QED  BY <1>1, <3>4, <3>5
  <2>3. QED  BY <2>1, <2>2, ServiceFrame
<1>4. Ahead' \subseteq Ahead \ {c}  BY <1>2, <1>3 DEF Ahead
<1>5. c \in Marked => c \in Ahead
  <2>1. i \in i..TotalSockets  BY <1>1
  <2>2. QED  BY <1>1, <2>1 DEF Ahead
<1>6. (c \in Marked => Total' = Total - 1) /\ (c \notin Marked => Total' = Total)
  BY DEF Service, Pass, RecvClose, WouldBlock, Fail, Recv, Send, Marked
<1>7. QED  BY <1>1, <1>4, <1>5, <1>6

LEMMA TotalStep == IInv /\ [Next]_vars => TotalCoversAhead'
<1> SUFFICES ASSUME IInv, [Next]_vars, pc' = "service"  PROVE Total' >= Cardinality(Ahead')
  BY DEF TotalCoversAhead, Ahead, Marked
<1>0. TypeOK /\ CountOK /\ Total \in Int /\ IsFiniteSet(Marked)
  BY MarkedFacts DEF IInv, TypeOK
<1>1. ASSUME NEW S, IsFiniteSet(S), Ahead' \subseteq S, Total' >= Cardinality(S), Total' \in Int
      PROVE  Total' >= Cardinality(Ahead')
  <2>1. IsFiniteSet(Ahead') /\ Cardinality(Ahead') <= Cardinality(S)  BY <1>1, FS_Subset
  <2>2. Cardinality(Ahead') \in Nat /\ Cardinality(S) \in Nat
    BY <1>1, <2>1, FS_CardinalityType
  <2>3. QED  BY <1>1, <2>2, <2>1
<1>2. CASE pc = "service" /\ UNCHANGED <<Total, i, SocketArray, ReadSet, WriteSet>>
  <2>1. Total >= Cardinality(Ahead)  BY <1>2 DEF IInv, TotalCoversAhead, Ahead, Marked
  <2>2. Ahead' = Ahead  BY <1>2 DEF Ahead, Marked, TotalSockets
  <2>3. QED  BY <1>2, <2>1, <2>2
<1>3. CASE NoArrival
  <2>1. pc = "accept" /\ Total' = Total /\ Marked' = Marked
    BY <1>3 DEF NoArrival, Marked
  <2>2. Total = Cardinality(ReadSet) + Cardinality(WriteSet)  BY <1>0, <2>1 DEF CountOK
  <2>3. Total' >= Cardinality(Marked)  BY <1>0, <2>1, <2>2, MarkedFacts
  <2>4. Ahead' \subseteq Marked  BY <2>1 DEF Ahead
  <2>5. QED  BY <1>0, <1>1, <2>1, <2>3, <2>4
<1>4. CASE Accept \/ AcceptWouldBlock
  <2>1. /\ pc = "accept" /\ Total' = Total - 1 /\ Marked' = Marked /\ ListenSocket \in ReadSet
    BY <1>4 DEF Accept, AcceptWouldBlock, Marked
  <2>2. Total = Cardinality(ReadSet) + Cardinality(WriteSet)  BY <1>0, <2>1 DEF CountOK
  <2>4. Total' >= Cardinality(Marked \ {ListenSocket})
    <3>1. IsFiniteSet(Marked \ {ListenSocket})  BY <1>0, FS_Subset
    <3>2. Cardinality(Marked \ {ListenSocket}) \in Nat  BY <3>1, FS_CardinalityType
    <3>3. QED  BY <1>0, <2>1, <2>2, <3>2, MarkedFacts
  <2>5. TypeOK'  BY <1>0, TypeStep
  <2>6. \A k \in i'..TotalSockets' : SocketArray'[k] # ListenSocket
    <3>1. SocketArray' \in Seq(Conns) /\ i' = 1 /\ TotalSockets' = Len(SocketArray')
      BY <1>4, <2>5 DEF TypeOK, TotalSockets, Accept, AcceptWouldBlock
    <3>2. QED  BY <3>1
  <2>7. Ahead' \subseteq Marked \ {ListenSocket}  BY <2>1, <2>6 DEF Ahead
  <2>8. IsFiniteSet(Marked \ {ListenSocket}) /\ Total' \in Int
    BY <1>0, <2>1, FS_Subset
  <2>9. QED  BY <1>1, <2>4, <2>7, <2>8
<1>5. ASSUME NEW c \in Conns, Service(c)  PROVE Total' >= Cardinality(Ahead')
  <2>1. /\ Ahead' \subseteq Ahead \ {c} /\ pc = "service"
        /\ c \in Marked => c \in Ahead /\ Total' = Total - 1
        /\ c \notin Marked => Total' = Total
    BY <1>5, ServiceAhead
  <2>2. Total >= Cardinality(Ahead)
    BY <2>1 DEF IInv, TotalCoversAhead, Ahead, Marked
  <2>3. IsFiniteSet(Ahead)
    <3>1. Ahead \subseteq Marked  BY DEF Ahead
    <3>2. QED  BY <1>0, <3>1, FS_Subset
  <2>4. Cardinality(Ahead) \in Nat  BY <2>3, FS_CardinalityType
  <2>5. CASE c \notin Marked
    <3>1. Ahead' \subseteq Ahead /\ Total' = Total  BY <2>1, <2>5
    <3>2. QED  BY <1>0, <1>1, <2>2, <2>3, <3>1
  <2>6. CASE c \in Marked
    <3>1. IsFiniteSet(Ahead \ {c}) /\ Cardinality(Ahead \ {c}) = Cardinality(Ahead) - 1
      BY <2>1, <2>3, <2>6, FS_RemoveElement
    <3>2. Total' \in Int /\ Total' >= Cardinality(Ahead \ {c})
      BY <1>0, <2>1, <2>2, <2>4, <2>6, <3>1
    <3>3. QED  BY <1>1, <2>1, <3>1, <3>2
  <2>7. QED  BY <2>5, <2>6
<1>6. CASE ClientStep \/ UNCHANGED vars
  BY <1>2, <1>6 DEF ClientStep, serverVars, vars
<1>7. QED
  BY <1>3, <1>4, <1>5, <1>6 DEF Next, Server, Select, AcceptFails, CreateFails, EndOfRound,
     SelectFails

(* The invariants of SelectServer hold together in every behaviour.         *)
LEMMA Invariance == Spec => []IInv
<1>1. IInv /\ [Next]_vars => IInv'
  BY TypeStep, BacklogStep, ArrayStep, CountersStep, FreshStep, ReadinessAtAcceptStep,
     ReadinessStep, CountStep, TotalStep, EchoStep, CloseStep DEF IInv
<1>2. QED  BY InvInit, <1>1, PTL DEF Spec

(* The echo is the client's stream, byte for byte, whatever partial         *)
(* receives and sends the network gives (SocketioSelect.cpp 365-477).       *)
THEOREM EchoIsExact == Spec => []EchoInv
BY Invariance, PTL DEF IInv

(* A connection that was not reset is closed only after its client's        *)
(* shutdown and the echo of all it sent (SocketioSelect.cpp 405-411).       *)
THEOREM CloseIsGraceful == Spec => []GracefulClose
BY Invariance, PTL DEF IInv

(* SocketArray holds the open sockets, each once, also while the service    *)
(* loop frees some of them (SocketioSelect.cpp 345, 493-573).           *)
THEOREM ArrayHoldsOpenSockets == Spec => []ArrayIsOpenSockets
BY Invariance, PTL DEF IInv

(* The readiness that select() reported is still right for every entry the  *)
(* service loop has not reached (SocketioSelect.cpp 237-245, 345-439).      *)
THEOREM ReadinessIsCurrent == Spec => []ReadinessHolds
BY Invariance, PTL DEF IInv

(* Total never counts less than the marked sockets still ahead of the loop,  *)
(* so that the unsigned counter cannot wrap below zero (SocketioSelect.cpp   *)
(* 249, 271, 345-361, 429).                                                *)
THEOREM TotalNeverWraps == Spec => []TotalCoversAhead
BY Invariance, PTL DEF IInv

-----------------------------------------------------------------------------
(* SelectServer implements EchoService. *)

LEMMA ServiceRefines ==
  ASSUME IInv, NEW c \in Conns, Service(c)
  PROVE  [Promise!Next]_Promise!vars
<1> USE DEF Promise!vars
<1>1. CASE UNCHANGED <<conn, sent, fin, rst, echo>>  BY <1>1
<1>2. CASE Pass(c) \/ WouldBlock(c)  BY <1>1, <1>2 DEF Pass, WouldBlock, netVars
<1>3. ASSUME NEW n \in 1..DATA_BUFSIZE, Recv(c, n)  PROVE [Promise!Next]_Promise!vars
  BY <1>1, <1>3 DEF Recv, clientVars
<1>4. conn[c] = "open"  BY ServiceFrame, AtOpen
<1>5. CASE Fail(c)
  <2>1. Promise!Close(c)
    BY <1>4, <1>5 DEF Promise!Close, Fail, HardError, FreeSocketInformation, clientVars
  <2>2. QED  BY <2>1 DEF Promise!Next
<1>6. CASE RecvClose(c)
  <2>1. /\ fin[c] /\ Avail(c) = 0 /\ ~Pending(c)
        /\ conn' = [conn EXCEPT ![c] = "closed"] /\ UNCHANGED <<sent, fin, rst, echo>>
    BY <1>6, ServiceFrame, AtOpen DEF RecvClose, CanRecv, FreeSocketInformation, clientVars
  <2>2. BytesSEND[c] = 0 /\ BytesRECV[c] = 0 /\ Echoed(c)
    BY <2>1, EchoInvByConn DEF IInv, CountersReset
  <2>3. Len(echo[c]) \in Nat /\ sent[c] \in Nat /\ taken[c] \in Nat
    BY DEF IInv, TypeOK, NetTypeOK
  <2>4. Len(echo[c]) = sent[c]  BY <2>1, <2>2, <2>3 DEF Echoed, Avail
  <2>5. Promise!Close(c)  BY <1>4, <2>1, <2>4 DEF Promise!Close
  <2>6. QED  BY <2>5 DEF Promise!Next
<1>7. ASSUME NEW n \in 1..DATA_BUFSIZE, Send(c, n)  PROVE [Promise!Next]_Promise!vars
  <2>1. /\ Len(echo[c]) + n <= sent[c]
        /\ Unsent(c, n) = [k \in 1..n |-> Len(echo[c]) + k]
    BY <1>7, SendIsNext
  <2>2. /\ echo' = [echo EXCEPT ![c] = @ \o Unsent(c, n)]
        /\ ~rst[c] /\ UNCHANGED <<conn, sent, fin, rst>>
    BY <1>7 DEF Send, CanSend, clientVars
  <2>3. Promise!Echo(c, n)  BY <1>4, <2>1, <2>2 DEF Promise!Echo
  <2>4. n \in 1..sent[c]  BY <2>1 DEF IInv, TypeOK, NetTypeOK
  <2>5. QED  BY <2>3, <2>4 DEF Promise!Next
<1>8. QED  BY <1>2, <1>3, <1>5, <1>6, <1>7 DEF Service

LEMMA AcceptRefines ==
  ASSUME IInv, Accept \/ AcceptWouldBlock \/ AcceptFails \/ CreateFails
  PROVE  Promise!Next
<1> DEFINE c == Head(backlog)
<1>1. backlog \in Seq(Conns) /\ backlog # <<>>
  BY DEF IInv, TypeOK, NetTypeOK, Accept, AcceptWouldBlock, AcceptFails, CreateFails
<1>2. c = backlog[1] /\ 1 \in 1..Len(backlog)  BY <1>1
<1>3. c \in Conns /\ conn[c] = "pending"  BY <1>1, <1>2 DEF IInv, BacklogOK
<1>4. UNCHANGED <<sent, fin, rst, echo>>
  BY DEF Accept, AcceptWouldBlock, AcceptFails, CreateFails, clientVars
<1>5. \/ conn' = [conn EXCEPT ![c] = "open"]
      \/ conn' = [conn EXCEPT ![c] = "closed"] /\ rst[c]
  BY DEF Accept, AcceptWouldBlock, AcceptFails, CreateFails
<1> HIDE DEF c
<1>6. Promise!Accept(c) \/ Promise!Close(c)
  BY <1>3, <1>4, <1>5 DEF Promise!Accept, Promise!Close
<1>7. QED  BY <1>3, <1>6 DEF Promise!Next

LEMMA ClientRefines ==
  ASSUME IInv, NEW c \in Conns, Client(c)
  PROVE  [Promise!Next]_Promise!vars
<1>1. CASE Connect(c)
  BY <1>1 DEF Connect, Promise!Connect, Promise!Next
<1>2. CASE ClientSend(c)
  BY <1>2 DEF ClientSend, Connected, Promise!ClientSend, Promise!Next
<1>3. CASE ClientRead(c)  BY <1>3 DEF ClientRead, Promise!vars
<1>4. CASE ClientShutdown(c)
  BY <1>4 DEF ClientShutdown, Promise!Shutdown, Promise!Next
<1>5. CASE ClientReset(c)
  BY <1>5 DEF ClientReset, Promise!Reset, Promise!Next
<1>6. QED  BY <1>1, <1>2, <1>3, <1>4, <1>5 DEF Client

(* The select server implements EchoService: every behaviour of its loop,   *)
(* seen from its connections, is one the header comment promises            *)
(* (SocketioSelect.cpp 213-573).                                            *)
THEOREM Implements == Spec => EchoServiceSpec
<1>1. Init => Promise!Init  BY DEF Init, NetInit, Promise!Init
<1>2. IInv /\ [Next]_vars => [Promise!Next]_Promise!vars
  <2> SUFFICES ASSUME IInv, [Next]_vars  PROVE [Promise!Next]_Promise!vars
    OBVIOUS
  <2>1. CASE Quiet  BY <2>1, QuietFrame DEF netVars, Promise!vars
  <2>2. CASE \E c \in Conns : Service(c)  BY <2>2, ServiceRefines
  <2>3. CASE ClientStep  BY <2>3, ClientRefines DEF ClientStep
  <2>4. CASE UNCHANGED vars  BY <2>4 DEF vars, netVars, Promise!vars
  <2>5. QED
    BY <2>1, <2>2, <2>3, <2>4, AcceptRefines DEF Next, Server, Quiet
<1>3. QED  BY <1>1, <1>2, Invariance, PTL DEF Spec, EchoServiceSpec, Promise!Spec

=============================================================================
