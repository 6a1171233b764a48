---------------------- MODULE EventSelectServer_proofs ----------------------
(***************************************************************************)
(* Proofs about EventSelectServer, for any number of connections, any      *)
(* sizes of the buffers and the arrays, and any faults.                    *)
(***************************************************************************)
EXTENDS EventSelectServer, TLAPS

(* Connections wait in the backlog once each, and only there. *)
BacklogOK ==
  /\ \A k \in 1..Len(backlog) : conn[backlog[k]] = "pending"
  /\ \A j, k \in 1..Len(backlog) : backlog[j] = backlog[k] => j = k

OrphansOpen == \A c \in orphans : conn[c] = "open"

(* An event is being handled: its index is that of a connection. *)
Handling == pc \in {"read", "write", "close"}
IndexOK == Handling => Event \in 1..Len(SocketArray)

(* A buffer that has been sent is empty, and one is read into only then; a  *)
(* connection is closed only for an event that says so.                     *)
CountersOK ==
  /\ \A c \in Conns : BytesSEND[c] < BytesRECV[c] \/ (BytesSEND[c] = 0 /\ BytesRECV[c] = 0)
  /\ pc = "read" => BytesRECV[Current] = 0
  /\ pc = "close" => NetworkEvents \cap {"CLOSE", "ABORT"} # {}

(* The received and unsent bytes of a connection are the next ones of its   *)
(* stream, and what has been echoed is all before them.                     *)
Echoed(c) ==
  /\ BytesSEND[c] <= BytesRECV[c]
  /\ taken[c] <= sent[c]
  /\ Len(echo[c]) + (BytesRECV[c] - BytesSEND[c]) = taken[c]
  /\ \A k \in 1..Len(echo[c]) : echo[c][k] = k
  /\ \A k \in BytesSEND[c]+1..BytesRECV[c] :
        Buffer[c][k] = Len(echo[c]) + (k - BytesSEND[c])

(* Only a refused send leaves bytes in a buffer past the handling of the    *)
(* event that brought them.                                                 *)
LeftOverRefused ==
  pc # "exit" =>
    \A c \in Conns \ refused : BytesRECV[c] > 0 => pc = "write" /\ Current = c

(* FD_CLOSE is told once the stream has ended and all of it was received;   *)
(* that stays so until it is acted on.                                      *)
AllReceived(c) == fin[c] /\ taken[c] = sent[c]
CloseTold ==
  /\ \A c \in Conns : "CLOSE" \in recorded[c] => AllReceived(c)
  /\ Handling /\ "CLOSE" \in NetworkEvents => AllReceived(Current)

(* NoEventLost, whether or not the event is the case. *)
Told(c) ==
  LET upcoming == enabled[c] \cup recorded[c]
  IN  conn[c] = "open" /\ ~rst[c] =>
        /\ "READ" \in upcoming \/ (pc = "read" /\ Current = c)
        /\ "CLOSE" \in upcoming \/ (Handling /\ Current = c /\ "CLOSE" \in NetworkEvents)
EventsKept == pc # "exit" => \A c \in Conns \ (orphans \cup refused) : Told(c)

IInv ==
  /\ TypeOK
  /\ BacklogOK
  /\ OrphansOpen
  /\ ArrayIsOpenSockets
  /\ IndexOK
  /\ CountersOK
  /\ \A c \in Conns : Echoed(c)
  /\ LeftOverRefused
  /\ CloseTold
  /\ EventsKept

USE WinsockAssumption, EventAssumption

-----------------------------------------------------------------------------
(* The array: an entry is appended, and one goes with the later ones moving *)
(* up.                                                                      *)

Lists(arr, d) == \E k \in 1..Len(arr) : arr[k] = d
Distinct(arr) == \A j, k \in 1..Len(arr) : arr[j] = arr[k] => j = k

LEMMA AppendListed ==
  ASSUME NEW S, NEW arr \in Seq(S), NEW e \in S
  PROVE  /\ Append(arr, e) \in Seq(S)
         /\ \A d : Lists(Append(arr, e), d) <=> Lists(arr, d) \/ d = e
         /\ Distinct(arr) /\ ~Lists(arr, e) => Distinct(Append(arr, e))
<1> DEFINE new == Append(arr, e)
<1>1. /\ new \in Seq(S) /\ Len(new) = Len(arr) + 1 /\ Len(arr) \in Nat
      /\ \A k \in 1..Len(arr) : new[k] = arr[k]
      /\ new[Len(arr) + 1] = e
  OBVIOUS
<1> HIDE DEF new
<1>2. \A k \in 1..Len(new) : k \in 1..Len(arr) \/ k = Len(arr) + 1  BY <1>1
<1>3. Len(arr) + 1 \in 1..Len(new) /\ \A k \in 1..Len(arr) : k \in 1..Len(new)  BY <1>1
<1>4. \A d : Lists(new, d) <=> Lists(arr, d) \/ d = e
  BY <1>1, <1>2, <1>3 DEF Lists
<1>5. ASSUME Distinct(arr), ~Lists(arr, e)  PROVE Distinct(new)
  BY <1>1, <1>2, <1>5 DEF Distinct, Lists
<1>6. QED  BY <1>1, <1>4, <1>5 DEF new

LEMMA SquashListed ==
  ASSUME NEW S, NEW arr \in Seq(S), NEW x \in 1..Len(arr)
  PROVE  /\ Squash(arr, x) \in Seq(S)
         /\ Distinct(arr) =>
              /\ Distinct(Squash(arr, x))
              /\ \A d : Lists(Squash(arr, x), d) <=> Lists(arr, d) /\ d # arr[x]
<1> DEFINE new == Squash(arr, x)
<1>1. Len(arr) \in Nat /\ Len(arr) > 0  OBVIOUS
<1>2. /\ new \in Seq(S) /\ Len(new) = Len(arr) - 1
      /\ \A k \in 1..(Len(arr) - 1) : new[k] = IF k < x THEN arr[k] ELSE arr[k + 1]
  BY <1>1 DEF Squash
<1> HIDE DEF new
<1> DEFINE old(k) == IF k < x THEN k ELSE k + 1
<1>3. \A k \in 1..Len(new) :
         old(k) \in 1..Len(arr) /\ old(k) # x /\ new[k] = arr[old(k)]
  BY <1>1, <1>2
<1>4. \A j, k \in 1..Len(new) : old(j) = old(k) => j = k  BY <1>1, <1>2
<1>5. \A k \in 1..Len(arr) : k # x => \E j \in 1..Len(new) : old(j) = k
  <2>1. ASSUME NEW k \in 1..Len(arr), k # x  PROVE \E j \in 1..Len(new) : old(j) = k
    <3>1. CASE k < x
      <4>1. k \in 1..Len(new) /\ old(k) = k  BY <1>1, <1>2, <3>1
      <4>2. QED  BY <4>1
    <3>2. CASE ~(k < x)
      <4>1. k - 1 \in 1..Len(new) /\ ~(k - 1 < x) /\ (k - 1) + 1 = k
        BY <1>1, <1>2, <2>1, <3>2
      <4>2. old(k - 1) = k  BY <4>1
      <4>3. QED  BY <4>1, <4>2
    <3>3. QED  BY <3>1, <3>2
  <2>2. QED  BY <2>1
<1> HIDE DEF old
<1>6. ASSUME Distinct(arr)
      PROVE  /\ Distinct(new)
             /\ \A d : Lists(new, d) <=> Lists(arr, d) /\ d # arr[x]
  <2>1. Distinct(new)  BY <1>3, <1>4, <1>6 DEF Distinct
  <2>2. ASSUME NEW d  PROVE Lists(new, d) <=> Lists(arr, d) /\ d # arr[x]
    <3>1. ASSUME Lists(new, d)  PROVE Lists(arr, d) /\ d # arr[x]
      <4>1. PICK k \in 1..Len(new) : new[k] = d  BY <3>1 DEF Lists
      <4>2. QED  BY <1>3, <1>6, <4>1 DEF Lists, Distinct
    <3>2. ASSUME Lists(arr, d), d # arr[x]  PROVE Lists(new, d)
      <4>1. PICK k \in 1..Len(arr) : arr[k] = d  BY <3>2 DEF Lists
      <4>2. PICK j \in 1..Len(new) : old(j) = k  BY <1>5, <3>2, <4>1
      <4>3. QED  BY <1>3, <4>1, <4>2 DEF Lists
    <3>3. QED  BY <3>1, <3>2
  <2>3. QED  BY <2>1, <2>2
<1>7. QED  BY <1>2, <1>6 DEF new

LEMMA ArrayFacts ==
  ArrayIsOpenSockets <=>
    /\ \A c \in Conns : (conn[c] = "open" /\ c \notin orphans) <=> Lists(SocketArray, c)
    /\ Distinct(SocketArray)
BY DEF ArrayIsOpenSockets, Lists, Distinct

-----------------------------------------------------------------------------
(* The kinds of step, by what they leave alone. *)

Arrives == Accept \/ CreateFails \/ EventSelectFails \/ AcceptFails

\* Steps that work on the connections there are.
Serves ==
  \/ WaitFails \/ \E k \in 1..Len(SocketArray) : Enumerate(k)
  \/ \E n \in 1..DATA_BUFSIZE : Recv(n) \/ Send(n)
  \/ RecvNothing \/ SendBlocks \/ CloseFails
  \/ \E c \in Conns : Running /\ Stack(c)

Frees == Fail \/ Close

Clients == \E c \in Conns : Running /\ ClientStep(c)

LEMMA StepCases == [Next]_vars <=> Arrives \/ Serves \/ Frees \/ Clients \/ UNCHANGED vars
BY DEF Next, Server, Arrives, Serves, Frees, Clients

LEMMA ServesFrame == Serves => UNCHANGED <<clientVars, conn, backlog, SocketArray, orphans>>
BY DEF Serves, Enumerate, WaitFails, Recv, Send, RecvNothing, SendBlocks, CloseFails,
   Stack, netVars, clientVars

LEMMA NetFacts ==
  ASSUME TypeOK, NEW c \in Conns
  PROVE  /\ sent[c] \in Nat /\ taken[c] \in Nat /\ got[c] \in Nat
         /\ fin[c] \in BOOLEAN /\ rst[c] \in BOOLEAN
         /\ echo[c] \in Seq(Nat) /\ Len(echo[c]) \in Nat
         /\ conn[c] \in {"new", "pending", "open", "closed"}
         /\ BytesRECV[c] \in Nat /\ BytesRECV[c] <= DATA_BUFSIZE
         /\ BytesSEND[c] \in Nat /\ BytesSEND[c] <= DATA_BUFSIZE
         /\ Buffer[c] \in [1..DATA_BUFSIZE -> Nat]
         /\ recorded[c] \subseteq Events /\ enabled[c] \subseteq Events
BY DEF TypeOK, NetTypeOK

\* The connection whose event is handled is open and has a place in the array.
LEMMA CurrentOpen ==
  ASSUME IInv, Handling
  PROVE  /\ Event \in 1..Len(SocketArray) /\ SocketArray \in Seq(Conns)
         /\ Current \in Conns /\ conn[Current] = "open" /\ Current \notin orphans
         /\ Lists(SocketArray, Current)
<1>1. Event \in 1..Len(SocketArray) /\ SocketArray \in Seq(Conns)
  BY DEF IInv, IndexOK, TypeOK
<1>2. Current \in Conns /\ Lists(SocketArray, Current)  BY <1>1 DEF Current, Lists
<1>3. QED  BY <1>1, <1>2, ArrayFacts DEF IInv

\* What freeing the current connection changes.
LEMMA FreesFrame ==
  ASSUME IInv, Frees
  PROVE  /\ Handling /\ FreeSocketInformation
         /\ pc' \in {"wait", "exit"}
         /\ UNCHANGED <<clientVars, backlog, taken, echo, ioVars, Event, NetworkEvents,
                        orphans, refused>>
         /\ Current \in Conns /\ conn[Current] = "open" /\ Current \notin orphans
         /\ conn' = [conn EXCEPT ![Current] = "closed"]
         /\ \A d \in Conns : d # Current =>
              /\ conn'[d] = conn[d]
              /\ recorded'[d] = recorded[d] /\ enabled'[d] = enabled[d]
<1>1. /\ Handling /\ FreeSocketInformation /\ pc' \in {"wait", "exit"}
      /\ UNCHANGED <<clientVars, backlog, taken, echo, ioVars, Event, NetworkEvents,
                     orphans, refused>>
  BY DEF Frees, Fail, Close, Handling
<1>2. Current \in Conns /\ conn[Current] = "open" /\ Current \notin orphans
  BY <1>1, CurrentOpen
<1>3. TypeOK  BY DEF IInv
<1>4. QED
  BY <1>1, <1>2, <1>3 DEF FreeSocketInformation, TypeOK, NetTypeOK

LEMMA HeadOfBacklog ==
  ASSUME IInv, backlog # <<>>
  PROVE  /\ Head(backlog) \in Conns /\ conn[Head(backlog)] = "pending"
         /\ Head(backlog) \notin orphans /\ ~Lists(SocketArray, Head(backlog))
         /\ Tail(backlog) \in Seq(Conns)
         /\ Len(Tail(backlog)) = Len(backlog) - 1
         /\ \A k \in 1..Len(Tail(backlog)) :
              /\ Tail(backlog)[k] = backlog[k + 1] /\ k + 1 \in 1..Len(backlog)
              /\ Tail(backlog)[k] \in Conns /\ Tail(backlog)[k] # Head(backlog)
<1>1. backlog \in Seq(Conns) /\ Len(backlog) \in Nat  BY DEF IInv, TypeOK, NetTypeOK
<1>2. Head(backlog) = backlog[1] /\ 1 \in 1..Len(backlog)  BY <1>1
<1>3. /\ Tail(backlog) \in Seq(Conns) /\ Len(Tail(backlog)) = Len(backlog) - 1
      /\ \A k \in 1..Len(Tail(backlog)) :
           Tail(backlog)[k] = backlog[k + 1] /\ k + 1 \in 1..Len(backlog) /\ k + 1 # 1
  BY <1>1
<1>4. Head(backlog) \in Conns /\ conn[Head(backlog)] = "pending"
  BY <1>1, <1>2 DEF IInv, BacklogOK
<1>5. \A k \in 1..Len(Tail(backlog)) :
         Tail(backlog)[k] \in Conns /\ Tail(backlog)[k] # Head(backlog)
  BY <1>1, <1>2, <1>3 DEF IInv, BacklogOK
<1>6. Head(backlog) \notin orphans /\ ~Lists(SocketArray, Head(backlog))
  BY <1>4, ArrayFacts DEF IInv, OrphansOpen
<1>7. QED  BY <1>3, <1>4, <1>5, <1>6

\* What the end of the wait in the backlog changes.
LEMMA ArrivesFrame ==
  ASSUME IInv, Arrives
  PROVE  /\ pc = "wait" /\ backlog # <<>> /\ backlog' = Tail(backlog)
         /\ UNCHANGED <<clientVars, taken, echo, ioVars, Event, NetworkEvents, recorded, refused>>
         /\ Head(backlog) \in Conns /\ conn[Head(backlog)] = "pending"
         /\ \A d \in Conns : d # Head(backlog) =>
              conn'[d] = conn[d] /\ enabled'[d] = enabled[d] /\ (d \in orphans' <=> d \in orphans)
<1>1. /\ pc = "wait" /\ backlog # <<>> /\ backlog' = Tail(backlog)
      /\ UNCHANGED <<clientVars, taken, echo, ioVars, Event, NetworkEvents, recorded, refused>>
  BY DEF Arrives, Accept, CreateFails, EventSelectFails, AcceptFails, eventVars
<1>2. Head(backlog) \in Conns /\ conn[Head(backlog)] = "pending"  BY <1>1, HeadOfBacklog
<1>3. \A d \in Conns : d # Head(backlog) =>
         conn'[d] = conn[d] /\ enabled'[d] = enabled[d] /\ (d \in orphans' <=> d \in orphans)
  <2>1. /\ conn \in [Conns -> {"new", "pending", "open", "closed"}]
        /\ enabled \in [Conns -> SUBSET Events]
    BY DEF IInv, TypeOK, NetTypeOK
  <2> DEFINE h == Head(backlog)
  <2>2. /\ \E v : conn' = [conn EXCEPT ![h] = v]
        /\ enabled' = enabled \/ enabled' = [enabled EXCEPT ![h] = Events]
        /\ orphans' = orphans \/ orphans' = orphans \cup {h}
    BY DEF Arrives, Accept, CreateFails, EventSelectFails, AcceptFails, eventVars
  <2> HIDE DEF h
  <2>3. \A d \in Conns : d # h =>
           conn'[d] = conn[d] /\ enabled'[d] = enabled[d] /\ (d \in orphans' <=> d \in orphans)
    BY <2>1, <2>2
  <2>4. QED  BY <2>3 DEF h
<1>4. QED  BY <1>1, <1>2, <1>3

\* What a client's step leaves alone.
LEMMA ClientsFrame ==
  ASSUME IInv, Clients
  PROVE  /\ UNCHANGED <<taken, echo, serverVars>> /\ pc # "exit"
         /\ \A d \in Conns :
              /\ conn'[d] = conn[d] \/ (conn[d] = "new" /\ conn'[d] = "pending")
              /\ sent[d] <= sent'[d]
              /\ rst[d] => rst'[d]
              /\ fin[d] => fin'[d] /\ sent'[d] = sent[d]
<1>1. PICK c \in Conns : Client(c) /\ UNCHANGED serverVars /\ pc # "exit"
  BY DEF Clients, ClientStep, Running
<1>2. TypeOK  BY DEF IInv
<1>3. UNCHANGED <<taken, echo>>
  BY <1>1 DEF Client, Connect, ClientSend, ClientRead, ClientShutdown, ClientReset
<1>4. ASSUME NEW d \in Conns
      PROVE  /\ conn'[d] = conn[d] \/ (conn[d] = "new" /\ conn'[d] = "pending")
             /\ sent[d] <= sent'[d]
             /\ rst[d] => rst'[d]
             /\ fin[d] => fin'[d] /\ sent'[d] = sent[d]
  <2>1. sent[d] \in Nat  BY <1>2, NetFacts
  <2>2. CASE ClientSend(c)
    <3>1. sent' = [sent EXCEPT ![c] = @ + 1] /\ sent \in [Conns -> Nat] /\ ~fin[c]
          /\ UNCHANGED <<conn, rst, fin>>
      BY <1>2, <2>2 DEF ClientSend, TypeOK, NetTypeOK
    <3>2. CASE d = c
      <4>1. sent'[d] = sent[d] + 1  BY <3>1, <3>2
      <4>2. QED  BY <2>1, <3>1, <3>2, <4>1
    <3>3. CASE d # c  BY <2>1, <3>1, <3>3
    <3>4. QED  BY <3>2, <3>3
  <2>3. CASE ClientShutdown(c)
    BY <1>2, <2>1, <2>3 DEF ClientShutdown, TypeOK, NetTypeOK
  <2>4. CASE ClientReset(c)
    BY <1>2, <2>1, <2>4 DEF ClientReset, TypeOK, NetTypeOK
  <2>5. CASE Connect(c) \/ ClientRead(c)
    <3>1. /\ sent' = sent /\ rst' = rst /\ fin' = fin
          /\ conn' = conn \/ (conn[c] = "new" /\ conn' = [conn EXCEPT ![c] = "pending"])
      <4>1. CASE Connect(c)  BY <4>1 DEF Connect
      <4>2. CASE ClientRead(c)  BY <4>2 DEF ClientRead
      <4>3. QED  BY <2>5, <4>1, <4>2
    <3>2. conn \in [Conns -> {"new", "pending", "open", "closed"}]
      BY <1>2 DEF TypeOK, NetTypeOK
    <3>3. conn'[d] = conn[d] \/ (conn[d] = "new" /\ conn'[d] = "pending")
      BY <3>1, <3>2
    <3>4. sent[d] <= sent'[d]  BY <2>1, <3>1
    <3>5. QED  BY <3>1, <3>3, <3>4
  <2>6. QED  BY <1>1, <2>2, <2>3, <2>4, <2>5 DEF Client
<1>5. QED  BY <1>1, <1>3, <1>4

-----------------------------------------------------------------------------
(* Type correctness. *)

LEMMA TypeInit == Init => TypeOK
BY DEF Init, NetInit, TypeOK, NetTypeOK

LEMMA TypeArrives == IInv /\ Arrives => TypeOK'
<1> SUFFICES ASSUME IInv, Arrives  PROVE TypeOK'
  OBVIOUS
<1> DEFINE h == Head(backlog)
<1>1. TypeOK /\ NetTypeOK  BY DEF IInv, TypeOK
<1>2. /\ h \in Conns /\ Tail(backlog) \in Seq(Conns) /\ backlog' = Tail(backlog)
      /\ UNCHANGED <<clientVars, taken, echo, ioVars, Event, NetworkEvents, recorded, refused>>
  BY ArrivesFrame, HeadOfBacklog
<1>3. /\ conn' = [conn EXCEPT ![h] = "open"] \/ conn' = [conn EXCEPT ![h] = "closed"]
      /\ enabled' = enabled \/ enabled' = [enabled EXCEPT ![h] = Events]
      /\ orphans' = orphans \/ orphans' = orphans \cup {h}
      /\ SocketArray' = SocketArray \/ SocketArray' = Append(SocketArray, h)
      /\ pc' \in {pc, "exit"}
  BY DEF Arrives, Accept, CreateFails, EventSelectFails, AcceptFails, eventVars
<1> HIDE DEF h
<1>4. conn' \in [Conns -> {"new", "pending", "open", "closed"}]
  BY <1>1, <1>2, <1>3 DEF NetTypeOK
<1>5. enabled' \in [Conns -> SUBSET Events] /\ orphans' \subseteq Conns
  BY <1>1, <1>2, <1>3 DEF TypeOK
<1>6. SocketArray' \in Seq(Conns)
  <2>1. SocketArray \in Seq(Conns)  BY <1>1 DEF TypeOK
  <2>2. Append(SocketArray, h) \in Seq(Conns)  BY <1>2, <2>1
  <2>3. QED  BY <1>3, <2>1, <2>2
<1>7. NetTypeOK'  BY <1>1, <1>2, <1>4 DEF NetTypeOK, clientVars
<1>8. QED  BY <1>1, <1>2, <1>3, <1>5, <1>6, <1>7 DEF TypeOK, ioVars

LEMMA TypeFrees == IInv /\ Frees => TypeOK'
<1> SUFFICES ASSUME IInv, Frees  PROVE TypeOK'
  OBVIOUS
<1>1. TypeOK /\ NetTypeOK  BY DEF IInv, TypeOK
<1>2. /\ FreeSocketInformation /\ pc' \in {"wait", "exit"} /\ Current \in Conns
      /\ UNCHANGED <<clientVars, backlog, taken, echo, ioVars, Event, NetworkEvents,
                     orphans, refused>>
  BY FreesFrame
<1>3. Event \in 1..Len(SocketArray) /\ SocketArray \in Seq(Conns)
  BY CurrentOpen, FreesFrame
<1>4. SocketArray' \in Seq(Conns)  BY <1>2, <1>3, SquashListed DEF FreeSocketInformation
<1>5. NetTypeOK'
  BY <1>1, <1>2 DEF NetTypeOK, FreeSocketInformation, clientVars
<1>6. recorded' \in [Conns -> SUBSET Events] /\ enabled' \in [Conns -> SUBSET Events]
  BY <1>1, <1>2 DEF TypeOK, FreeSocketInformation
<1>7. QED  BY <1>1, <1>2, <1>4, <1>5, <1>6 DEF TypeOK, ioVars

LEMMA TypeClients == IInv /\ Clients => TypeOK'
<1> SUFFICES ASSUME IInv, Clients  PROVE TypeOK'
  OBVIOUS
<1>0. TypeOK /\ NetTypeOK  BY DEF IInv, TypeOK
<1>1. PICK c \in Conns : Client(c) /\ UNCHANGED serverVars  BY DEF Clients, ClientStep
<1>2. NetTypeOK'
  <2> USE DEF NetTypeOK
  <2>1. CASE Connect(c)  BY <1>0, <2>1 DEF Connect
  <2>2. CASE ClientSend(c)  BY <1>0, <2>2 DEF ClientSend
  <2>3. CASE ClientRead(c)
    <3>1. got' = [got EXCEPT ![c] = @ + 1] /\ got \in [Conns -> Nat]
      BY <1>0, <2>3 DEF ClientRead
    <3>2. got' \in [Conns -> Nat]  BY <3>1
    <3>3. QED  BY <1>0, <2>3, <3>2 DEF ClientRead
  <2>4. CASE ClientShutdown(c)  BY <1>0, <2>4 DEF ClientShutdown
  <2>5. CASE ClientReset(c)  BY <1>0, <2>5 DEF ClientReset
  <2>6. QED  BY <1>1, <2>1, <2>2, <2>3, <2>4, <2>5 DEF Client
<1>3. QED  BY <1>0, <1>1, <1>2 DEF TypeOK, serverVars, ioVars, eventVars

LEMMA TypeRecv ==
  ASSUME IInv, NEW n \in 1..DATA_BUFSIZE, Recv(n)
  PROVE  TypeOK'
<1> DEFINE c == Current
<1>0. TypeOK /\ NetTypeOK /\ c \in Conns
  BY CurrentOpen DEF IInv, TypeOK, Recv, Handling
<1>1. /\ Buffer' = [Buffer EXCEPT ![c] = Overwrite(@, Incoming(c, n))]
      /\ BytesRECV' = [BytesRECV EXCEPT ![c] = n]
      /\ taken' = [taken EXCEPT ![c] = @ + n]
      /\ enabled' = [enabled EXCEPT ![c] = @ \cup {"READ"}]
      /\ pc' = "write"
      /\ UNCHANGED <<clientVars, conn, backlog, echo, SocketArray, BytesSEND, Event,
                     NetworkEvents, recorded, orphans, refused>>
  BY DEF Recv, Received
<1> HIDE DEF c
<1>2. Buffer' \in [Conns -> [1..DATA_BUFSIZE -> Nat]]
  <2>1. Incoming(c, n) \in [1..n -> Nat] /\ Len(Incoming(c, n)) = n
    BY <1>0 DEF Incoming, NetTypeOK
  <2>2. Len(Buffer[c]) = DATA_BUFSIZE  BY <1>0 DEF TypeOK
  <2>3. Overwrite(Buffer[c], Incoming(c, n)) \in [1..DATA_BUFSIZE -> Nat]
    BY <1>0, <2>1, <2>2 DEF Overwrite, TypeOK
  <2>4. QED  BY <1>0, <1>1, <2>3 DEF TypeOK
<1>3. BytesRECV' \in [Conns -> 0..DATA_BUFSIZE]  BY <1>0, <1>1 DEF TypeOK
<1>4. taken' \in [Conns -> Nat]  BY <1>0, <1>1 DEF NetTypeOK
<1>5. enabled' \in [Conns -> SUBSET Events]  BY <1>0, <1>1 DEF TypeOK, Events
<1>6. NetTypeOK'  BY <1>0, <1>1, <1>4 DEF NetTypeOK, clientVars
<1>7. QED  BY <1>0, <1>1, <1>2, <1>3, <1>5, <1>6 DEF TypeOK

\* What a send changes.
LEMMA SendFrame ==
  ASSUME IInv, NEW n \in 1..DATA_BUFSIZE, Send(n)
  PROVE  /\ Current \in Conns /\ pc = "write"
         /\ n <= BytesRECV[Current] - BytesSEND[Current]
         /\ echo' = [echo EXCEPT ![Current] = @ \o Unsent(Current, n)]
         /\ IF AllSent(Current, n)
              THEN /\ BytesRECV' = [BytesRECV EXCEPT ![Current] = 0]
                   /\ BytesSEND' = [BytesSEND EXCEPT ![Current] = 0]
                   /\ refused' = refused
              ELSE /\ BytesRECV' = BytesRECV
                   /\ BytesSEND' = [BytesSEND EXCEPT ![Current] = @ + n]
                   /\ refused' = refused \cup {Current}
         /\ pc' = AfterIO
         /\ UNCHANGED <<clientVars, conn, backlog, taken, SocketArray, Buffer, Event,
                        NetworkEvents, eventVars, orphans>>
<1>1. pc = "write" /\ Current \in Conns  BY CurrentOpen DEF Send, Handling
<1>2. BytesRECV \in [Conns -> 0..DATA_BUFSIZE] /\ BytesSEND \in [Conns -> 0..DATA_BUFSIZE]
  BY DEF IInv, TypeOK
<1>3. n <= BytesRECV[Current] - BytesSEND[Current]  BY <1>1, <1>2 DEF Send, CanSend
<1>4. IF AllSent(Current, n)
        THEN /\ BytesRECV' = [BytesRECV EXCEPT ![Current] = 0]
             /\ BytesSEND' = [BytesSEND EXCEPT ![Current] = 0]
             /\ refused' = refused
        ELSE /\ BytesRECV' = BytesRECV
             /\ BytesSEND' = [BytesSEND EXCEPT ![Current] = @ + n]
             /\ refused' = refused \cup {Current}
  <2>1. CASE AllSent(Current, n)  BY <2>1 DEF Send
  <2>2. CASE ~AllSent(Current, n)  BY <1>2, <2>2 DEF Send
  <2>3. QED  BY <2>1, <2>2
<1>5. QED  BY <1>1, <1>3, <1>4 DEF Send

LEMMA TypeSend ==
  ASSUME IInv, NEW n \in 1..DATA_BUFSIZE, Send(n)
  PROVE  TypeOK'
<1> DEFINE c == Current
<1>0. TypeOK /\ NetTypeOK /\ c \in Conns  BY SendFrame DEF IInv, TypeOK
<1>1. /\ n <= BytesRECV[c] - BytesSEND[c]
      /\ echo' = [echo EXCEPT ![c] = @ \o Unsent(c, n)]
      /\ IF AllSent(c, n)
           THEN /\ BytesRECV' = [BytesRECV EXCEPT ![c] = 0]
                /\ BytesSEND' = [BytesSEND EXCEPT ![c] = 0]
                /\ refused' = refused
           ELSE /\ BytesRECV' = BytesRECV
                /\ BytesSEND' = [BytesSEND EXCEPT ![c] = @ + n]
                /\ refused' = refused \cup {c}
      /\ UNCHANGED <<clientVars, conn, backlog, taken, SocketArray, Buffer, Event,
                     NetworkEvents, eventVars, orphans>>
  BY SendFrame
<1>2. pc' \in {"wait", "close"}  BY SendFrame DEF AfterIO
<1> HIDE DEF c
<1>3. /\ BytesRECV[c] \in Nat /\ BytesRECV[c] <= DATA_BUFSIZE /\ BytesSEND[c] \in Nat
      /\ Buffer[c] \in [1..DATA_BUFSIZE -> Nat] /\ echo[c] \in Seq(Nat)
  BY <1>0, NetFacts
<1>4. Unsent(c, n) \in Seq(Nat)
  <2>1. \A k \in 1..n : BytesSEND[c] + k \in 1..DATA_BUFSIZE  BY <1>1, <1>3
  <2>2. \A k \in 1..n : Buffer[c][BytesSEND[c] + k] \in Nat  BY <1>3, <2>1
  <2>3. Unsent(c, n) \in [1..n -> Nat]  BY <2>2 DEF Unsent
  <2>4. QED  BY <2>3
<1>5. echo' \in [Conns -> Seq(Nat)]
  <2>1. echo[c] \o Unsent(c, n) \in Seq(Nat)  BY <1>3, <1>4
  <2>2. QED  BY <1>0, <1>1, <2>1 DEF NetTypeOK
<1>6. BytesSEND' \in [Conns -> 0..DATA_BUFSIZE] /\ BytesRECV' \in [Conns -> 0..DATA_BUFSIZE]
  <2>1. CASE AllSent(c, n)
    <3>1. /\ BytesRECV' = [BytesRECV EXCEPT ![c] = 0]
          /\ BytesSEND' = [BytesSEND EXCEPT ![c] = 0]
      BY <1>1, <2>1
    <3>2. QED  BY <1>0, <3>1 DEF TypeOK
  <2>2. CASE ~AllSent(c, n)
    <3>1. BytesSEND[c] + n \in 0..DATA_BUFSIZE  BY <1>1, <1>3
    <3>2. QED  BY <1>0, <1>1, <2>2, <3>1 DEF TypeOK
  <2>3. QED  BY <2>1, <2>2
<1>7. refused' \subseteq Conns  BY <1>0, <1>1 DEF TypeOK
<1>8. NetTypeOK'  BY <1>0, <1>1, <1>5 DEF NetTypeOK, clientVars
<1>9. QED  BY <1>0, <1>1, <1>2, <1>6, <1>7, <1>8 DEF TypeOK, eventVars

LEMMA TypeServes == IInv /\ Serves => TypeOK'
<1> SUFFICES ASSUME IInv, Serves  PROVE TypeOK'
  OBVIOUS
<1>0. /\ TypeOK /\ NetTypeOK /\ SocketArray \in Seq(Conns)
      /\ enabled \in [Conns -> SUBSET Events] /\ recorded \in [Conns -> SUBSET Events]
      /\ pc \in {"wait", "read", "write", "close", "exit"}
  BY DEF IInv, TypeOK
<1>1. ASSUME UNCHANGED <<netVars, SocketArray, ioVars, orphans>>,
             Event' \in Nat, NetworkEvents' \subseteq Events, refused' \subseteq Conns,
             pc' \in {"wait", "read", "write", "close", "exit"},
             enabled' \in [Conns -> SUBSET Events], recorded' \in [Conns -> SUBSET Events]
      PROVE  TypeOK'
  <2>1. NetTypeOK'  BY <1>0, <1>1 DEF NetTypeOK, netVars
  <2>2. QED  BY <1>0, <1>1, <2>1 DEF TypeOK, ioVars
<1>2. ASSUME NEW k \in 1..Len(SocketArray), Enumerate(k)  PROVE TypeOK'
  <2>1. SocketArray[k] \in Conns  BY <1>0
  <2>2. recorded' \in [Conns -> SUBSET Events] /\ NetworkEvents' \subseteq Events
    BY <1>0, <1>2, <2>1 DEF Enumerate
  <2>3. /\ UNCHANGED <<netVars, SocketArray, ioVars, enabled, orphans, refused>>
        /\ Event' \in Nat /\ pc' \in {"read", "write", "close"}
    BY <1>0, <1>2 DEF Enumerate
  <2>4. QED  BY <1>0, <1>1, <2>2, <2>3 DEF TypeOK
<1>3. CASE WaitFails \/ CloseFails
  <2>1. /\ UNCHANGED <<netVars, SocketArray, ioVars, Event, NetworkEvents, eventVars, orphans, refused>>
        /\ pc' = "exit"
    BY <1>3 DEF WaitFails, CloseFails
  <2>2. QED  BY <1>0, <1>1, <2>1 DEF TypeOK, eventVars
<1>4. CASE RecvNothing \/ SendBlocks
  <2>1. Current \in Conns  BY <1>4, CurrentOpen DEF Handling, RecvNothing, SendBlocks
  <2>2. enabled' = [enabled EXCEPT ![Current] = @ \cup {"READ"}]
          \/ enabled' = [enabled EXCEPT ![Current] = @ \cup {"WRITE"}]
    BY <1>4 DEF RecvNothing, SendBlocks, Received
  <2>3. enabled' \in [Conns -> SUBSET Events]  BY <1>0, <2>1, <2>2 DEF Events
  <2>4. /\ UNCHANGED <<netVars, SocketArray, ioVars, Event, NetworkEvents, recorded, orphans>>
        /\ refused' = refused \/ refused' = refused \cup {Current}
        /\ pc' \in {"wait", "close"}
    BY <1>4 DEF RecvNothing, SendBlocks, AfterIO
  <2>5. QED  BY <1>0, <1>1, <2>1, <2>3, <2>4 DEF TypeOK
<1>5. ASSUME NEW c \in Conns, Stack(c)  PROVE TypeOK'
  <2>1. /\ recorded' = [recorded EXCEPT ![c] = @ \cup {e \in enabled[c] : IsTheCase(c, e)}]
        /\ \E spent : enabled' = [enabled EXCEPT ![c] = @ \ spent]
        /\ UNCHANGED <<netVars, pc, SocketArray, ioVars, Event, NetworkEvents, orphans, refused>>
    BY <1>5 DEF Stack
  <2>2. recorded' \in [Conns -> SUBSET Events] /\ enabled' \in [Conns -> SUBSET Events]
    BY <1>0, <2>1
  <2>3. QED  BY <1>0, <1>1, <2>1, <2>2 DEF TypeOK
<1>6. QED  BY <1>2, <1>3, <1>4, <1>5, TypeRecv, TypeSend DEF Serves

LEMMA TypeStep == IInv /\ [Next]_vars => TypeOK'
<1> SUFFICES ASSUME IInv, UNCHANGED vars  PROVE TypeOK'
  BY StepCases, TypeArrives, TypeServes, TypeFrees, TypeClients
<1>1. TypeOK  BY DEF IInv
<1>2. QED  BY <1>1 DEF vars, netVars, serverVars, ioVars, eventVars, TypeOK, NetTypeOK

-----------------------------------------------------------------------------
(* The backlog, the array and the index that is being handled. *)

LEMMA BacklogStep == IInv /\ [Next]_vars => BacklogOK'
<1> SUFFICES ASSUME IInv, [Next]_vars  PROVE BacklogOK'
  OBVIOUS
<1>0. /\ backlog \in Seq(Conns) /\ Len(backlog) \in Nat /\ BacklogOK
      /\ conn \in [Conns -> {"new", "pending", "open", "closed"}]
  BY DEF IInv, TypeOK, NetTypeOK
<1>1. CASE UNCHANGED <<conn, backlog>>  BY <1>0, <1>1 DEF BacklogOK
<1>2. CASE Arrives
  <2>1. /\ backlog # <<>> /\ backlog' = Tail(backlog)
        /\ \A c \in Conns : c # Head(backlog) => conn'[c] = conn[c]
    BY <1>2, ArrivesFrame
  <2>2. /\ Len(backlog') = Len(backlog) - 1
        /\ \A k \in 1..Len(backlog') :
             /\ backlog'[k] = backlog[k + 1] /\ k + 1 \in 1..Len(backlog)
             /\ backlog'[k] \in Conns /\ backlog'[k] # Head(backlog)
    BY <2>1, HeadOfBacklog
  <2>3. QED  BY <1>0, <2>1, <2>2 DEF BacklogOK
<1>3. CASE Serves  BY <1>1, <1>3, ServesFrame
<1>4. CASE Frees
  <2>1. /\ conn[Current] = "open" /\ UNCHANGED backlog
        /\ \A d \in Conns : d # Current => conn'[d] = conn[d]
    BY <1>4, FreesFrame
  <2>2. QED  BY <1>0, <2>1 DEF BacklogOK
<1>5. CASE Clients
  <2>1. PICK c \in Conns : Client(c)  BY <1>5 DEF Clients, ClientStep
  <2>2. CASE Connect(c)
    <3>1. /\ conn[c] = "new" /\ conn' = [conn EXCEPT ![c] = "pending"]
          /\ backlog' = Append(backlog, c)
      BY <2>2 DEF Connect
    <3>2. \A k \in 1..Len(backlog) : backlog[k] # c /\ backlog[k] \in Conns
      BY <1>0, <3>1 DEF BacklogOK
    <3>3. /\ Len(backlog') = Len(backlog) + 1
          /\ backlog'[Len(backlog) + 1] = c
          /\ \A k \in 1..Len(backlog) : backlog'[k] = backlog[k]
      BY <1>0, <3>1
    <3>4. QED  BY <1>0, <3>1, <3>2, <3>3 DEF BacklogOK
  <2>3. CASE ~Connect(c)
    <3>1. UNCHANGED <<conn, backlog>>
      BY <2>1, <2>3 DEF Client, ClientSend, ClientRead, ClientShutdown, ClientReset
    <3>2. QED  BY <1>1, <3>1
  <2>4. QED  BY <2>2, <2>3
<1>6. CASE UNCHANGED vars  BY <1>1, <1>6 DEF vars, netVars
<1>7. QED  BY <1>2, <1>3, <1>4, <1>5, <1>6, StepCases

LEMMA OrphansStep == IInv /\ [Next]_vars => OrphansOpen'
<1> SUFFICES ASSUME IInv, [Next]_vars, NEW d \in orphans'  PROVE conn'[d] = "open"
  BY DEF OrphansOpen
<1>0. orphans' \subseteq Conns  BY TypeStep DEF TypeOK
<1>1. CASE d \in orphans /\ conn'[d] = conn[d]  BY <1>1 DEF IInv, OrphansOpen
<1>2. CASE Arrives
  <2>1. CASE d # Head(backlog)  BY <1>0, <1>1, <1>2, <2>1, ArrivesFrame
  <2>2. CASE d = Head(backlog)
    <3>1. d \notin orphans /\ d \in Conns  BY <1>0, <1>2, <2>2, ArrivesFrame, HeadOfBacklog
    <3>2. conn' = [conn EXCEPT ![d] = "open"]
      BY <1>2, <2>2, <3>1 DEF Arrives, Accept, CreateFails, EventSelectFails, AcceptFails
    <3>3. QED  BY <3>1, <3>2 DEF IInv, TypeOK, NetTypeOK
  <2>3. QED  BY <2>1, <2>2
<1>3. CASE Serves  BY <1>1, <1>3, ServesFrame
<1>4. CASE Frees  BY <1>0, <1>1, <1>4, FreesFrame
<1>5. CASE Clients
  <2>1. d \in orphans /\ UNCHANGED orphans  BY <1>5, ClientsFrame DEF serverVars
  <2>2. conn[d] = "open"  BY <2>1 DEF IInv, OrphansOpen
  <2>3. QED  BY <1>0, <1>5, <2>2, ClientsFrame
<1>6. CASE UNCHANGED vars  BY <1>1, <1>6 DEF vars, netVars, serverVars
<1>7. QED  BY <1>2, <1>3, <1>4, <1>5, <1>6, StepCases

LEMMA ArrayStep == IInv /\ [Next]_vars => ArrayIsOpenSockets'
<1> SUFFICES ASSUME IInv, [Next]_vars
             PROVE  /\ \A c \in Conns :
                         (conn'[c] = "open" /\ c \notin orphans') <=> Lists(SocketArray', c)
                    /\ Distinct(SocketArray')
  BY DEF ArrayIsOpenSockets, Lists, Distinct
<1>0. /\ SocketArray \in Seq(Conns) /\ Distinct(SocketArray)
      /\ \A c \in Conns : (conn[c] = "open" /\ c \notin orphans) <=> Lists(SocketArray, c)
      /\ conn \in [Conns -> {"new", "pending", "open", "closed"}]
  BY ArrayFacts DEF IInv, TypeOK, NetTypeOK
<1>1. CASE UNCHANGED <<SocketArray, orphans>>
           /\ \A c \in Conns : conn'[c] = "open" <=> conn[c] = "open"
  BY <1>0, <1>1
<1>2. CASE Arrives
  <2> DEFINE h == Head(backlog)
  <2>1. /\ h \in Conns /\ conn[h] = "pending" /\ h \notin orphans /\ ~Lists(SocketArray, h)
        /\ \A d \in Conns : d # h => conn'[d] = conn[d] /\ (d \in orphans' <=> d \in orphans)
    BY <1>2, ArrivesFrame, HeadOfBacklog
  <2>2. \/ /\ SocketArray' = Append(SocketArray, h) /\ orphans' = orphans
           /\ conn' = [conn EXCEPT ![h] = "open"]
        \/ /\ SocketArray' = SocketArray
           /\ \/ h \in orphans'
              \/ conn' = [conn EXCEPT ![h] = "closed"]
    BY <1>2 DEF Arrives, Accept, CreateFails, EventSelectFails, AcceptFails
  <2> HIDE DEF h
  <2>3. CASE /\ SocketArray' = Append(SocketArray, h) /\ orphans' = orphans
             /\ conn' = [conn EXCEPT ![h] = "open"]
    <3>1. /\ \A d : Lists(SocketArray', d) <=> Lists(SocketArray, d) \/ d = h
          /\ Distinct(SocketArray')
      BY <1>0, <2>1, <2>3, AppendListed
    <3>2. conn'[h] = "open" /\ h \notin orphans'  BY <1>0, <2>1, <2>3
    <3>3. QED  BY <1>0, <2>1, <3>1, <3>2
  <2>4. CASE SocketArray' = SocketArray /\ (h \in orphans' \/ conn' = [conn EXCEPT ![h] = "closed"])
    <3>1. ~(conn'[h] = "open" /\ h \notin orphans')  BY <1>0, <2>1, <2>4
    <3>2. QED  BY <1>0, <2>1, <2>4, <3>1
  <2>5. QED  BY <2>2, <2>3, <2>4
<1>3. CASE Serves  BY <1>1, <1>3, ServesFrame
<1>4. CASE Frees
  <2>1. /\ Current \in Conns /\ Current = SocketArray[Event]
        /\ SocketArray' = Squash(SocketArray, Event) /\ Event \in 1..Len(SocketArray)
        /\ conn' = [conn EXCEPT ![Current] = "closed"] /\ orphans' = orphans
    BY <1>4, FreesFrame, CurrentOpen DEF FreeSocketInformation, Current
  <2>2. /\ Distinct(SocketArray')
        /\ \A d : Lists(SocketArray', d) <=> Lists(SocketArray, d) /\ d # Current
    BY <1>0, <2>1, SquashListed
  <2>3. \A d \in Conns : conn'[d] = IF d = Current THEN "closed" ELSE conn[d]
    BY <1>0, <2>1
  <2>4. QED  BY <1>0, <2>1, <2>2, <2>3
<1>5. CASE Clients
  <2>1. UNCHANGED <<SocketArray, orphans>>  BY <1>5, ClientsFrame DEF serverVars
  <2>2. \A d \in Conns : conn'[d] = "open" <=> conn[d] = "open"  BY <1>5, ClientsFrame
  <2>3. QED  BY <1>1, <2>1, <2>2
<1>6. CASE UNCHANGED vars  BY <1>1, <1>6 DEF vars, netVars, serverVars
<1>7. QED  BY <1>2, <1>3, <1>4, <1>5, <1>6, StepCases

LEMMA IndexStep == IInv /\ [Next]_vars => IndexOK'
<1> SUFFICES ASSUME IInv, [Next]_vars, Handling'  PROVE Event' \in 1..Len(SocketArray')
  BY DEF IndexOK
<1>1. CASE Handling /\ UNCHANGED <<Event, SocketArray>>  BY <1>1 DEF IInv, IndexOK
<1>2. CASE Arrives
  BY <1>2 DEF Arrives, Accept, CreateFails, EventSelectFails, AcceptFails, Handling
<1>3. CASE Serves
  <2>1. UNCHANGED SocketArray  BY <1>3, ServesFrame
  <2>2. ASSUME NEW k \in 1..Len(SocketArray), Enumerate(k)  PROVE Event' \in 1..Len(SocketArray')
    BY <2>1, <2>2 DEF Enumerate
  <2>3. ASSUME ~\E k \in 1..Len(SocketArray) : Enumerate(k)
        PROVE  Handling /\ UNCHANGED Event
    BY <1>3, <2>3 DEF Serves, WaitFails, Recv, Send, RecvNothing, SendBlocks, CloseFails,
       Stack, Handling
  <2>4. QED  BY <1>1, <2>1, <2>2, <2>3
<1>4. CASE Frees  BY <1>4, FreesFrame DEF Handling
<1>5. CASE Clients  BY <1>1, <1>5, ClientsFrame DEF serverVars, Handling
<1>6. CASE UNCHANGED vars  BY <1>1, <1>6 DEF vars, serverVars, Handling
<1>7. QED  BY <1>2, <1>3, <1>4, <1>5, <1>6, StepCases

-----------------------------------------------------------------------------
(* Buffers and streams. *)

\* Only receives and sends touch the buffers and what has been taken and echoed.
LEMMA StreamFrame ==
  ASSUME IInv, [Next]_vars
  PROVE  \/ \E n \in 1..DATA_BUFSIZE : Recv(n) \/ Send(n)
         \/ UNCHANGED <<Buffer, BytesRECV, BytesSEND, taken, echo>>
<1>1. CASE Arrives  BY <1>1, ArrivesFrame DEF ioVars
<1>2. CASE Serves
  BY <1>2 DEF Serves, Enumerate, WaitFails, RecvNothing, SendBlocks, CloseFails, Stack,
     netVars, ioVars
<1>3. CASE Frees  BY <1>3, FreesFrame DEF ioVars
<1>4. CASE Clients  BY <1>4, ClientsFrame DEF serverVars, ioVars
<1>5. CASE UNCHANGED vars  BY <1>5 DEF vars, netVars, serverVars, ioVars
<1>6. QED  BY <1>1, <1>2, <1>3, <1>4, <1>5, StepCases

\* Only clients send, shut down and reset, each once and for all.
LEMMA ClientSide ==
  ASSUME IInv, [Next]_vars, NEW d \in Conns
  PROVE  /\ sent[d] <= sent'[d]
         /\ rst[d] => rst'[d]
         /\ fin[d] => fin'[d] /\ sent'[d] = sent[d]
<1>1. CASE UNCHANGED clientVars
  <2>1. sent[d] \in Nat  BY NetFacts DEF IInv
  <2>2. sent' = sent /\ rst' = rst /\ fin' = fin  BY <1>1 DEF clientVars
  <2>3. QED  BY <2>1, <2>2
<1>2. CASE Clients  BY <1>2, ClientsFrame
<1>3. UNCHANGED clientVars \/ Clients
  BY StepCases, ArrivesFrame, ServesFrame, FreesFrame DEF vars, netVars, clientVars
<1>4. QED  BY <1>1, <1>2, <1>3

\* What Recv(n) changes.
LEMMA RecvFrame ==
  ASSUME IInv, NEW n \in 1..DATA_BUFSIZE, Recv(n)
  PROVE  /\ Current \in Conns /\ pc = "read" /\ pc' = "write" /\ Current' = Current
         /\ BytesRECV[Current] = 0 /\ BytesSEND[Current] = 0
         /\ n <= Avail(Current)
         /\ BytesRECV' = [BytesRECV EXCEPT ![Current] = n]
         /\ UNCHANGED <<clientVars, conn, backlog, echo, SocketArray, BytesSEND, Event,
                        NetworkEvents, recorded, orphans, refused>>
<1>1. pc = "read" /\ Current \in Conns  BY CurrentOpen DEF Recv, Handling
<1>2. BytesRECV[Current] = 0  BY <1>1 DEF IInv, CountersOK
<1>3. BytesSEND[Current] = 0
  <2>1. BytesSEND[Current] \in Nat  BY <1>1, NetFacts DEF IInv
  <2>2. BytesSEND[Current] < BytesRECV[Current] \/ BytesSEND[Current] = 0
    BY <1>1 DEF IInv, CountersOK
  <2>3. QED  BY <1>2, <2>1, <2>2
<1>4. n <= Avail(Current)  BY DEF Recv, CanRecv
<1>5. QED  BY <1>1, <1>2, <1>3, <1>4 DEF Recv, Current

\* Steps after which the server is reading, or closing.
LEMMA ReadsEmpty ==
  ASSUME IInv, [Next]_vars, pc' = "read"
  PROVE  BytesRECV'[Current'] = 0
<1>1. CASE pc = "read" /\ UNCHANGED <<Event, SocketArray, BytesRECV>>
  BY <1>1 DEF IInv, CountersOK, Current
<1>2. CASE Arrives  BY <1>2 DEF Arrives, Accept, CreateFails, EventSelectFails, AcceptFails
<1>3. CASE Serves
  <2>1. ASSUME NEW k \in 1..Len(SocketArray), Enumerate(k)  PROVE BytesRECV'[Current'] = 0
    BY <2>1 DEF Enumerate, Empty, Current, ioVars
  <2>2. CASE \E c \in Conns : Running /\ Stack(c)  BY <1>1, <2>2 DEF Stack, ioVars
  <2>3. QED
    BY <1>3, <2>1, <2>2 DEF Serves, WaitFails, Recv, Send, RecvNothing, SendBlocks,
       CloseFails, AfterIO
<1>4. CASE Frees  BY <1>4, FreesFrame
<1>5. CASE Clients  BY <1>1, <1>5, ClientsFrame DEF serverVars, ioVars
<1>6. CASE UNCHANGED vars  BY <1>1, <1>6 DEF vars, serverVars, ioVars
<1>7. QED  BY <1>2, <1>3, <1>4, <1>5, <1>6, StepCases

LEMMA ClosesTold ==
  ASSUME IInv, [Next]_vars, pc' = "close"
  PROVE  NetworkEvents' \cap {"CLOSE", "ABORT"} # {}
<1>1. CASE pc = "close" /\ UNCHANGED NetworkEvents  BY <1>1 DEF IInv, CountersOK
<1>2. CASE Arrives  BY <1>2 DEF Arrives, Accept, CreateFails, EventSelectFails, AcceptFails
<1>3. CASE Serves
  <2>1. ASSUME NEW k \in 1..Len(SocketArray), Enumerate(k)
        PROVE  NetworkEvents' \cap {"CLOSE", "ABORT"} # {}
    <3>0. TypeOK /\ SocketArray \in Seq(Conns)  BY DEF IInv, TypeOK
    <3>1. SocketArray[k] \in Conns  BY <3>0
    <3>2. recorded[SocketArray[k]] \subseteq Events  BY <3>0, <3>1, NetFacts
    <3>3. /\ recorded[SocketArray[k]] # {}
          /\ NetworkEvents' = recorded[SocketArray[k]]
          /\ recorded[SocketArray[k]] \cap {"READ", "WRITE"} = {}
      BY <2>1 DEF Enumerate, Wakes
    <3>4. QED  BY <3>2, <3>3 DEF Events
  <2>2. CASE pc' = AfterIO /\ UNCHANGED NetworkEvents  BY <2>2 DEF AfterIO
  <2>3. CASE \E c \in Conns : Running /\ Stack(c)  BY <1>1, <2>3 DEF Stack
  <2>4. QED
    BY <1>3, <2>1, <2>2, <2>3 DEF Serves, WaitFails, Recv, Send, RecvNothing, SendBlocks,
       CloseFails
<1>4. CASE Frees  BY <1>4, FreesFrame
<1>5. CASE Clients  BY <1>1, <1>5, ClientsFrame DEF serverVars
<1>6. CASE UNCHANGED vars  BY <1>1, <1>6 DEF vars, serverVars
<1>7. QED  BY <1>2, <1>3, <1>4, <1>5, <1>6, StepCases

LEMMA CountersStep == IInv /\ [Next]_vars => CountersOK'
<1> SUFFICES ASSUME IInv, [Next]_vars, NEW d \in Conns
             PROVE  BytesSEND'[d] < BytesRECV'[d] \/ (BytesSEND'[d] = 0 /\ BytesRECV'[d] = 0)
  BY ReadsEmpty, ClosesTold DEF CountersOK
<1>0. /\ BytesSEND[d] < BytesRECV[d] \/ (BytesSEND[d] = 0 /\ BytesRECV[d] = 0)
      /\ BytesRECV \in [Conns -> 0..DATA_BUFSIZE] /\ BytesSEND \in [Conns -> 0..DATA_BUFSIZE]
      /\ BytesRECV[d] \in Nat /\ BytesSEND[d] \in Nat
  BY DEF IInv, CountersOK, TypeOK
<1>1. ASSUME NEW n \in 1..DATA_BUFSIZE, Recv(n)
      PROVE  BytesSEND'[d] < BytesRECV'[d] \/ (BytesSEND'[d] = 0 /\ BytesRECV'[d] = 0)
  BY <1>0, <1>1, RecvFrame
<1>2. ASSUME NEW n \in 1..DATA_BUFSIZE, Send(n)
      PROVE  BytesSEND'[d] < BytesRECV'[d] \/ (BytesSEND'[d] = 0 /\ BytesRECV'[d] = 0)
  <2> DEFINE c == Current
  <2>1. /\ c \in Conns /\ n <= BytesRECV[c] - BytesSEND[c]
        /\ IF AllSent(c, n)
             THEN /\ BytesRECV' = [BytesRECV EXCEPT ![c] = 0]
                  /\ BytesSEND' = [BytesSEND EXCEPT ![c] = 0]
             ELSE /\ BytesRECV' = BytesRECV
                  /\ BytesSEND' = [BytesSEND EXCEPT ![c] = @ + n]
    BY <1>2, SendFrame
  <2> HIDE DEF c
  <2>2. CASE AllSent(c, n)
    <3>1. /\ BytesRECV' = [BytesRECV EXCEPT ![c] = 0]
          /\ BytesSEND' = [BytesSEND EXCEPT ![c] = 0]
      BY <2>1, <2>2
    <3>2. QED  BY <1>0, <2>1, <3>1
  <2>3. CASE ~AllSent(c, n)
    <3>1. BytesRECV' = BytesRECV /\ BytesSEND' = [BytesSEND EXCEPT ![c] = @ + n]
      BY <2>1, <2>3
    <3>2. BytesSEND[c] + n # BytesRECV[c]  BY <2>3 DEF AllSent
    <3>3. BytesSEND[c] \in Nat /\ BytesRECV[c] \in Nat  BY <1>0, <2>1
    <3>4. CASE d = c
      <4>1. BytesSEND'[d] = BytesSEND[c] + n /\ BytesRECV'[d] = BytesRECV[c]
        BY <1>0, <3>1, <3>4
      <4>2. QED  BY <2>1, <3>2, <3>3, <4>1
    <3>5. CASE d # c  BY <1>0, <3>1, <3>5
    <3>6. QED  BY <3>4, <3>5
  <2>4. QED  BY <2>2, <2>3
<1>3. QED  BY <1>0, <1>1, <1>2, StreamFrame

LEMMA LeftOverStep == IInv /\ [Next]_vars => LeftOverRefused'
<1> SUFFICES ASSUME IInv, [Next]_vars, pc' # "exit",
                    NEW d \in Conns \ refused', BytesRECV'[d] > 0
             PROVE  pc' = "write" /\ Current' = d
  BY DEF LeftOverRefused
<1>0. /\ BytesRECV \in [Conns -> 0..DATA_BUFSIZE]
      /\ pc # "exit" /\ d \notin refused /\ BytesRECV[d] > 0 => pc = "write" /\ Current = d
  BY DEF IInv, TypeOK, LeftOverRefused
<1>1. CASE /\ pc = "write" => pc' = "write" /\ UNCHANGED <<Event, SocketArray>>
           /\ pc # "exit" /\ UNCHANGED <<BytesRECV, refused>>
  BY <1>0, <1>1 DEF Current
<1>2. CASE Arrives  BY <1>1, <1>2, ArrivesFrame DEF ioVars
<1>3. CASE Serves
  <2>1. ASSUME NEW n \in 1..DATA_BUFSIZE, Recv(n)  PROVE pc' = "write" /\ Current' = d
    <3>1. d # Current => BytesRECV'[d] = BytesRECV[d]  BY <1>0, <2>1, RecvFrame
    <3>2. QED  BY <1>0, <2>1, <3>1, RecvFrame
  <2>2. ASSUME NEW n \in 1..DATA_BUFSIZE, Send(n)  PROVE FALSE
    <3>1. /\ d = Current => AllSent(Current, n)
          /\ AllSent(Current, n) => BytesRECV' = [BytesRECV EXCEPT ![Current] = 0]
          /\ ~AllSent(Current, n) => BytesRECV' = BytesRECV
          /\ refused \subseteq refused' /\ pc = "write"
      BY <2>2, SendFrame
    <3>2. d # Current /\ BytesRECV'[d] = BytesRECV[d]  BY <1>0, <3>1
    <3>3. QED  BY <1>0, <3>1, <3>2
  <2>3. CASE SendBlocks
    <3>1. pc = "write" /\ refused' = refused \cup {Current} /\ UNCHANGED BytesRECV
      BY <2>3 DEF SendBlocks, ioVars
    <3>2. QED  BY <1>0, <3>1
  <2>4. CASE RecvNothing \/ \E k \in 1..Len(SocketArray) : Enumerate(k)
    BY <1>1, <2>4 DEF RecvNothing, Enumerate, Wakes, ioVars
  <2>5. CASE \E c \in Conns : Running /\ Stack(c)
    BY <1>1, <2>5 DEF Stack, Running, ioVars
  <2>6. QED
    BY <1>3, <2>1, <2>2, <2>3, <2>4, <2>5 DEF Serves, WaitFails, CloseFails
<1>4. CASE Frees  BY <1>1, <1>4 DEF Frees, Fail, Close, ioVars
<1>5. CASE Clients  BY <1>1, <1>5, ClientsFrame DEF serverVars, ioVars
<1>6. CASE UNCHANGED vars
  <2>1. pc # "exit" /\ UNCHANGED <<pc, Event, SocketArray, BytesRECV, refused>>
    BY <1>6 DEF vars, serverVars, ioVars
  <2>2. QED  BY <1>1, <2>1
<1>7. QED  BY <1>2, <1>3, <1>4, <1>5, <1>6, StepCases

-----------------------------------------------------------------------------
(* The echo. *)

\* A connection none of whose counters, buffer and streams changed.
LEMMA EchoedFrame ==
  ASSUME NEW d, Echoed(d), sent[d] <= sent'[d], taken[d] \in Nat, sent[d] \in Nat,
         sent'[d] \in Nat,
         BytesSEND'[d] = BytesSEND[d], BytesRECV'[d] = BytesRECV[d], taken'[d] = taken[d],
         echo'[d] = echo[d], Buffer'[d] = Buffer[d]
  PROVE  Echoed(d)'
BY DEF Echoed

\* After a receive into an empty buffer.
LEMMA EchoedRecv ==
  ASSUME IInv, NEW n \in 1..DATA_BUFSIZE, Recv(n), NEW c \in Conns, c = Current
  PROVE  Echoed(c)'
<1>2. Echoed(c) /\ BytesSEND[c] = 0 /\ BytesRECV[c] = 0  BY RecvFrame DEF IInv
<1>3. /\ echo[c] \in Seq(Nat) /\ taken[c] \in Nat /\ sent[c] \in Nat
      /\ Len(echo[c]) = taken[c] /\ Len(Buffer[c]) = DATA_BUFSIZE
  BY <1>2 DEF IInv, TypeOK, NetTypeOK, Echoed
<1>4. /\ BytesRECV'[c] = n /\ BytesSEND'[c] = 0 /\ taken'[c] = taken[c] + n
      /\ echo'[c] = echo[c] /\ sent'[c] = sent[c]
      /\ Buffer'[c] = Overwrite(Buffer[c], Incoming(c, n))
  BY <1>2 DEF Recv, clientVars, IInv, TypeOK, NetTypeOK
<1>5. taken[c] + n <= sent[c]  BY <1>3, RecvFrame DEF Avail
<1>6. \A k \in 1..n : Buffer'[c][k] = taken[c] + k
  <2>1. Len(Incoming(c, n)) = n /\ \A k \in 1..n : Incoming(c, n)[k] = taken[c] + k
    BY DEF Incoming
  <2>2. n <= DATA_BUFSIZE /\ Len(Buffer[c]) = DATA_BUFSIZE  BY <1>3
  <2>3. \A k \in 1..n : Overwrite(Buffer[c], Incoming(c, n))[k] = Incoming(c, n)[k]
    BY <2>1, <2>2 DEF Overwrite
  <2>4. QED  BY <1>4, <2>1, <2>3
<1>7. QED  BY <1>2, <1>3, <1>4, <1>5, <1>6 DEF Echoed

LEMMA ConcatFacts ==
  ASSUME NEW s \in Seq(Nat), NEW t \in Seq(Nat)
  PROVE  /\ Len(s \o t) = Len(s) + Len(t)
         /\ \A k \in 1..Len(s) : (s \o t)[k] = s[k]
         /\ \A k \in 1..Len(t) : (s \o t)[Len(s) + k] = t[k]
OBVIOUS

\* What a send takes from the buffer are the stream's next bytes.
LEMMA SendIsNext ==
  ASSUME IInv, NEW n \in 1..DATA_BUFSIZE, Send(n), NEW c \in Conns, c = Current
  PROVE  /\ n <= BytesRECV[c] - BytesSEND[c]
         /\ echo'[c] = echo[c] \o Unsent(c, n)
         /\ Unsent(c, n) \in Seq(Nat) /\ Len(Unsent(c, n)) = n
         /\ Unsent(c, n) = [k \in 1..n |-> Len(echo[c]) + k]
         /\ Len(echo[c]) + n <= sent[c]
<1>1. Echoed(c)  BY DEF IInv
<1>2. /\ echo[c] \in Seq(Nat) /\ Len(echo[c]) \in Nat
      /\ taken[c] \in Nat /\ sent[c] \in Nat
      /\ BytesSEND[c] \in Nat /\ BytesRECV[c] \in Nat
  BY NetFacts DEF IInv
<1>3. n <= BytesRECV[c] - BytesSEND[c]  BY SendFrame
<1>4. echo'[c] = echo[c] \o Unsent(c, n)
  <2>1. echo' = [echo EXCEPT ![c] = @ \o Unsent(c, n)]  BY SendFrame
  <2>2. echo \in [Conns -> Seq(Nat)]  BY DEF IInv, TypeOK, NetTypeOK
  <2>3. QED  BY <2>1, <2>2
<1>5. \A k \in 1..n : Buffer[c][BytesSEND[c] + k] = Len(echo[c]) + k
  <2>1. \A k \in 1..n : BytesSEND[c] + k \in BytesSEND[c]+1..BytesRECV[c]  BY <1>2, <1>3
  <2>2. ASSUME NEW k \in 1..n  PROVE Buffer[c][BytesSEND[c] + k] = Len(echo[c]) + k
    <3>1. Buffer[c][BytesSEND[c] + k] = Len(echo[c]) + ((BytesSEND[c] + k) - BytesSEND[c])
      BY <1>1, <2>1 DEF Echoed
    <3>2. (BytesSEND[c] + k) - BytesSEND[c] = k  BY <1>2
    <3>3. QED  BY <3>1, <3>2
  <2>3. QED  BY <2>2
<1>6. Unsent(c, n) = [k \in 1..n |-> Len(echo[c]) + k]  BY <1>5 DEF Unsent
<1>7. Unsent(c, n) \in Seq(Nat) /\ Len(Unsent(c, n)) = n  BY <1>2, <1>6
<1>8. Len(echo[c]) + n <= sent[c]  BY <1>1, <1>2, <1>3 DEF Echoed
<1>9. QED  BY <1>3, <1>4, <1>6, <1>7, <1>8

\* After a send of the next bytes of the buffer.
LEMMA EchoedSend ==
  ASSUME IInv, NEW n \in 1..DATA_BUFSIZE, Send(n), NEW c \in Conns, c = Current
  PROVE  Echoed(c)'
<1>1. Echoed(c)  BY DEF IInv
<1>2. /\ echo[c] \in Seq(Nat) /\ Len(echo[c]) \in Nat
      /\ taken[c] \in Nat /\ sent[c] \in Nat
      /\ BytesSEND[c] \in Nat /\ BytesRECV[c] \in Nat
  BY NetFacts DEF IInv
<1>3. /\ n <= BytesRECV[c] - BytesSEND[c]
      /\ echo'[c] = echo[c] \o Unsent(c, n)
      /\ Unsent(c, n) \in Seq(Nat) /\ Len(Unsent(c, n)) = n
      /\ \A k \in 1..n : Unsent(c, n)[k] = Len(echo[c]) + k
  <2>1. Unsent(c, n) = [k \in 1..n |-> Len(echo[c]) + k]  BY SendIsNext
  <2>2. \A k \in 1..n : Unsent(c, n)[k] = Len(echo[c]) + k  BY ONLY <2>1
  <2>3. QED  BY <2>2, SendIsNext
<1>4. /\ taken'[c] = taken[c] /\ sent'[c] = sent[c] /\ Buffer'[c] = Buffer[c]
  BY SendFrame DEF clientVars
<1>5. /\ Len(echo'[c]) = Len(echo[c]) + n
      /\ \A k \in 1..Len(echo'[c]) : echo'[c][k] = k
  <2>0. /\ Len(echo[c] \o Unsent(c, n)) = Len(echo[c]) + Len(Unsent(c, n))
        /\ \A k \in 1..Len(echo[c]) : (echo[c] \o Unsent(c, n))[k] = echo[c][k]
        /\ \A k \in 1..Len(Unsent(c, n)) :
             (echo[c] \o Unsent(c, n))[Len(echo[c]) + k] = Unsent(c, n)[k]
    BY <1>2, <1>3, ConcatFacts
  <2>1. Len(echo'[c]) = Len(echo[c]) + n  BY <1>3, <2>0
  <2>2. \A k \in 1..Len(echo[c]) : echo'[c][k] = echo[c][k]  BY <1>3, <2>0
  <2>3. \A k \in 1..n : echo'[c][Len(echo[c]) + k] = Unsent(c, n)[k]  BY <1>3, <2>0
  <2>4. ASSUME NEW k \in 1..Len(echo'[c])  PROVE echo'[c][k] = k
    <3>1. CASE k \in 1..Len(echo[c])  BY <1>1, <2>2, <3>1 DEF Echoed
    <3>2. CASE k \notin 1..Len(echo[c])
      <4>1. k - Len(echo[c]) \in 1..n /\ Len(echo[c]) + (k - Len(echo[c])) = k
        BY <1>2, <2>1, <3>2
      <4>2. QED  BY <1>3, <2>3, <4>1
    <3>3. QED  BY <3>1, <3>2
  <2>5. QED  BY <2>1, <2>4
<1>6. CASE AllSent(c, n)
  <2>1. BytesSEND'[c] = 0 /\ BytesRECV'[c] = 0  BY <1>6, SendFrame DEF IInv, TypeOK
  <2>2. (BytesSEND'[c]+1..BytesRECV'[c]) = {}  BY <2>1
  <2>3. BytesSEND[c] + n = BytesRECV[c]  BY <1>6 DEF AllSent
  <2>4. /\ taken'[c] <= sent'[c]
        /\ Len(echo[c]) + (BytesRECV[c] - BytesSEND[c]) = taken[c]
    BY <1>1, <1>4 DEF Echoed
  <2>5. Len(echo'[c]) = Len(echo[c]) + n  BY <1>5
  <2>6. Len(echo'[c]) + (BytesRECV'[c] - BytesSEND'[c]) = taken'[c]
    BY <1>2, <1>4, <2>1, <2>3, <2>4, <2>5
  <2>7. QED  BY <1>5, <2>1, <2>2, <2>4, <2>6 DEF Echoed
<1>7. CASE ~AllSent(c, n)
  <2>1. BytesSEND'[c] = BytesSEND[c] + n /\ BytesRECV'[c] = BytesRECV[c]
    BY <1>7, SendFrame DEF IInv, TypeOK
  <2>2. ASSUME NEW k \in BytesSEND'[c]+1..BytesRECV'[c]
        PROVE  Buffer'[c][k] = Len(echo'[c]) + (k - BytesSEND'[c])
    <3>1. k \in BytesSEND[c]+1..BytesRECV[c] /\ k \in Nat  BY <1>2, <2>1
    <3>2. Buffer[c][k] = Len(echo[c]) + (k - BytesSEND[c])  BY <1>1, <3>1 DEF Echoed
    <3>3. Len(echo[c]) + (k - BytesSEND[c]) = (Len(echo[c]) + n) + (k - (BytesSEND[c] + n))
      BY <1>2, <3>1
    <3>4. QED  BY <1>4, <1>5, <2>1, <3>2, <3>3
  <2>3. /\ taken'[c] <= sent'[c]
        /\ Len(echo[c]) + (BytesRECV[c] - BytesSEND[c]) = taken[c]
    BY <1>1, <1>4 DEF Echoed
  <2>4. Len(echo'[c]) = Len(echo[c]) + n  BY <1>5
  <2>5. BytesSEND'[c] <= BytesRECV'[c]  BY <1>2, <1>3, <2>1
  <2>6. Len(echo'[c]) + (BytesRECV'[c] - BytesSEND'[c]) = taken'[c]
    BY <1>2, <1>4, <2>1, <2>3, <2>4
  <2>7. QED  BY <1>5, <2>2, <2>3, <2>5, <2>6 DEF Echoed
<1>8. QED  BY <1>6, <1>7

LEMMA EchoStep == IInv /\ [Next]_vars => \A d \in Conns : Echoed(d)'
<1> SUFFICES ASSUME IInv, [Next]_vars, NEW d \in Conns  PROVE Echoed(d)'
  OBVIOUS
<1>0. /\ Echoed(d) /\ taken[d] \in Nat /\ sent[d] \in Nat /\ sent'[d] \in Nat
      /\ sent[d] <= sent'[d] /\ TypeOK
  BY TypeStep, ClientSide DEF IInv, TypeOK, NetTypeOK
<1>1. ASSUME NEW n \in 1..DATA_BUFSIZE, Recv(n)  PROVE Echoed(d)'
  <2>1. CASE d = Current  BY <1>1, <2>1, EchoedRecv
  <2>2. CASE d # Current
    <3>1. /\ BytesRECV'[d] = BytesRECV[d] /\ taken'[d] = taken[d] /\ Buffer'[d] = Buffer[d]
          /\ UNCHANGED <<BytesSEND, echo>>
      BY <1>0, <1>1, <2>2 DEF Recv, TypeOK, NetTypeOK
    <3>2. QED  BY <1>0, <3>1, EchoedFrame
  <2>3. QED  BY <2>1, <2>2
<1>2. ASSUME NEW n \in 1..DATA_BUFSIZE, Send(n)  PROVE Echoed(d)'
  <2>1. CASE d = Current  BY <1>2, <2>1, EchoedSend
  <2>2. CASE d # Current
    <3>1. /\ BytesRECV'[d] = BytesRECV[d] /\ BytesSEND'[d] = BytesSEND[d] /\ echo'[d] = echo[d]
          /\ UNCHANGED <<taken, Buffer>>
      BY <1>0, <1>2, <2>2 DEF Send, TypeOK, NetTypeOK
    <3>2. QED  BY <1>0, <3>1, EchoedFrame
  <2>3. QED  BY <2>1, <2>2
<1>3. CASE UNCHANGED <<Buffer, BytesRECV, BytesSEND, taken, echo>>
  BY <1>0, <1>3, EchoedFrame
<1>4. QED  BY <1>1, <1>2, <1>3, StreamFrame

-----------------------------------------------------------------------------
(* The events. *)

\* Once a stream has been received to its end, that stays so.
LEMMA AllReceivedStays ==
  ASSUME IInv, [Next]_vars, NEW d \in Conns, AllReceived(d)
  PROVE  fin'[d] /\ taken'[d] = sent'[d]
<1>1. fin[d] /\ taken[d] = sent[d] /\ fin'[d] /\ sent'[d] = sent[d]
  BY ClientSide DEF AllReceived
<1>2. taken'[d] = taken[d]
  <2>1. ASSUME NEW n \in 1..DATA_BUFSIZE, Recv(n)  PROVE taken'[d] = taken[d]
    <3>1. sent[d] \in Nat /\ taken \in [Conns -> Nat]
      BY DEF IInv, TypeOK, NetTypeOK
    <3>2. d # Current  BY <1>1, <2>1, <3>1, RecvFrame DEF Avail
    <3>3. taken' = [taken EXCEPT ![Current] = @ + n]  BY <2>1 DEF Recv
    <3>4. QED  BY <3>1, <3>2, <3>3
  <2>2. ASSUME NEW n \in 1..DATA_BUFSIZE, Send(n)  PROVE taken'[d] = taken[d]
    BY <2>2 DEF Send
  <2>3. QED  BY <2>1, <2>2, StreamFrame
<1>3. QED  BY <1>1, <1>2

LEMMA CloseToldStep == IInv /\ [Next]_vars => CloseTold'
<1> SUFFICES ASSUME IInv, [Next]_vars  PROVE CloseTold'
  OBVIOUS
<1>0. TypeOK /\ recorded \in [Conns -> SUBSET Events]  BY DEF IInv, TypeOK
<1>1. ASSUME NEW d \in Conns, "CLOSE" \in recorded'[d]  PROVE AllReceived(d)
  <2>1. CASE "CLOSE" \in recorded[d]  BY <2>1 DEF IInv, CloseTold
  <2>2. CASE "CLOSE" \notin recorded[d]
    <3>1. Running /\ \E c \in Conns : Stack(c)
      <4>1. CASE Arrives  BY <1>1, <2>2, <4>1, ArrivesFrame
      <4>2. CASE Serves
        <5>1. ASSUME NEW k \in 1..Len(SocketArray), Enumerate(k)  PROVE FALSE
          BY <1>0, <1>1, <2>2, <5>1 DEF Enumerate
        <5>2. QED
          BY <1>1, <2>2, <4>2, <5>1 DEF Serves, WaitFails, Recv, Send, RecvNothing,
             SendBlocks, CloseFails, eventVars
      <4>3. CASE Frees
        BY <1>0, <1>1, <2>2, <4>3, FreesFrame DEF FreeSocketInformation
      <4>4. CASE Clients  BY <1>1, <2>2, <4>4, ClientsFrame DEF serverVars, eventVars
      <4>5. CASE UNCHANGED vars  BY <1>1, <2>2, <4>5 DEF vars, serverVars, eventVars
      <4>6. QED  BY <4>1, <4>2, <4>3, <4>4, <4>5, StepCases
    <3>2. PICK c \in Conns : Stack(c)  BY <3>1
    <3>3. IsTheCase(d, "CLOSE")
      <4>1. recorded' = [recorded EXCEPT ![c] = @ \cup {e \in enabled[c] : IsTheCase(c, e)}]
        BY <3>2 DEF Stack
      <4>2. QED  BY <1>0, <1>1, <2>2, <4>1
    <3>4. fin[d] /\ Avail(d) = 0  BY <3>3 DEF IsTheCase
    <3>5. sent[d] \in Nat /\ taken[d] \in Nat  BY <1>0, NetFacts
    <3>6. QED  BY <3>4, <3>5 DEF AllReceived, Avail
  <2>3. QED  BY <2>1, <2>2
<1>2. ASSUME Handling', "CLOSE" \in NetworkEvents'
      PROVE  Current' \in Conns /\ AllReceived(Current')
  <2>1. CASE Handling /\ UNCHANGED <<Event, SocketArray, NetworkEvents>>
    BY <1>2, <2>1, CurrentOpen DEF IInv, CloseTold, Current
  <2>2. CASE Arrives
    BY <1>2, <2>2 DEF Arrives, Accept, CreateFails, EventSelectFails, AcceptFails, Handling
  <2>3. CASE Serves
    <3>1. ASSUME NEW k \in 1..Len(SocketArray), Enumerate(k)
          PROVE  Current' \in Conns /\ AllReceived(Current')
      <4>1. /\ Event' = k /\ SocketArray' = SocketArray /\ SocketArray \in Seq(Conns)
            /\ NetworkEvents' = recorded[SocketArray[k]]
        BY <3>1 DEF Enumerate, IInv, TypeOK
      <4>2. Current' = SocketArray[k] /\ SocketArray[k] \in Conns  BY <4>1 DEF Current
      <4>3. QED  BY <1>2, <4>1, <4>2 DEF IInv, CloseTold
    <3>2. CASE \E c \in Conns : Running /\ Stack(c)  BY <1>2, <2>1, <3>2 DEF Stack, Handling
    <3>3. QED
      BY <1>2, <2>1, <2>3, <3>1, <3>2 DEF Serves, WaitFails, Recv, Send, RecvNothing,
         SendBlocks, CloseFails, Handling
  <2>4. CASE Frees  BY <1>2, <2>4, FreesFrame DEF Handling
  <2>5. CASE Clients  BY <1>2, <2>1, <2>5, ClientsFrame DEF serverVars, Handling
  <2>6. CASE UNCHANGED vars  BY <1>2, <2>1, <2>6 DEF vars, serverVars, Handling
  <2>7. QED  BY <2>2, <2>3, <2>4, <2>5, <2>6, StepCases
<1>3. \A d \in Conns : AllReceived(d) => fin'[d] /\ taken'[d] = sent'[d]
  BY AllReceivedStays
<1>4. QED  BY <1>1, <1>2, <1>3 DEF CloseTold, AllReceived

\* What Told says of d, with nothing assumed of its connection.
ReadToCome(d) == "READ" \in enabled[d] \cup recorded[d] \/ (pc = "read" /\ Current = d)
CloseToCome(d) ==
  "CLOSE" \in enabled[d] \cup recorded[d] \/ (Handling /\ Current = d /\ "CLOSE" \in NetworkEvents)

LEMMA ToldFacts ==
  ASSUME NEW d
  PROVE  Told(d) <=> (conn[d] = "open" /\ ~rst[d] => ReadToCome(d) /\ CloseToCome(d))
BY DEF Told, ReadToCome, CloseToCome

\* The stack moves an event from enabled to recorded and loses none but by a reset.
LEMMA StackKeeps ==
  ASSUME IInv, NEW c \in Conns, Stack(c), NEW d \in Conns, ~rst[d]
  PROVE  /\ "READ" \in enabled[d] \cup recorded[d] => "READ" \in enabled'[d] \cup recorded'[d]
         /\ "CLOSE" \in enabled[d] \cup recorded[d] => "CLOSE" \in enabled'[d] \cup recorded'[d]
<1> DEFINE new == {e \in enabled[c] : IsTheCase(c, e)}
           spent == UNION {SpentWith(e) : e \in new}
<1>1. /\ recorded' = [recorded EXCEPT ![c] = @ \cup new]
      /\ enabled' = [enabled EXCEPT ![c] = @ \ spent]
      /\ recorded \in [Conns -> SUBSET Events] /\ enabled \in [Conns -> SUBSET Events]
  BY DEF Stack, IInv, TypeOK
<1>2. CASE d # c
  <2> HIDE DEF new, spent
  <2>1. recorded'[d] = recorded[d] /\ enabled'[d] = enabled[d]  BY <1>1, <1>2
  <2>2. QED  BY <2>1
<1>3. CASE d = c
  <2>1. "ABORT" \notin new  BY <1>3 DEF IsTheCase
  <2>2. new \subseteq Events  BY <1>1
  <2>3. ("READ" \in spent => "READ" \in new) /\ ("CLOSE" \in spent => "CLOSE" \in new)
    <3> HIDE DEF new
    <3>1. \A e \in new : /\ "READ" \in SpentWith(e) => e = "READ"
                         /\ "CLOSE" \in SpentWith(e) => e = "CLOSE"
      BY <2>1, <2>2 DEF SpentWith, Events
    <3>2. QED  BY <3>1
  <2> HIDE DEF new, spent
  <2>4. recorded'[d] = recorded[d] \cup new /\ enabled'[d] = enabled[d] \ spent
    BY <1>1, <1>3
  <2>5. QED  BY <2>3, <2>4
<1>4. QED  BY <1>2, <1>3

LEMMA EventsStep == IInv /\ [Next]_vars => EventsKept'
<1> SUFFICES ASSUME IInv, [Next]_vars, pc' # "exit",
                    NEW d \in Conns, d \notin orphans', d \notin refused',
                    conn'[d] = "open", ~rst'[d]
             PROVE  ReadToCome(d)' /\ CloseToCome(d)'
  BY ToldFacts DEF EventsKept, Told, ReadToCome, CloseToCome
<1>0. /\ TypeOK /\ ~rst[d]
      /\ enabled \in [Conns -> SUBSET Events] /\ recorded \in [Conns -> SUBSET Events]
  BY ClientSide DEF IInv, TypeOK
<1>1. ASSUME pc # "exit", d \notin orphans, d \notin refused, conn[d] = "open"
      PROVE  ReadToCome(d) /\ CloseToCome(d)
  BY <1>0, <1>1, ToldFacts DEF IInv, EventsKept
<1> USE DEF ReadToCome, CloseToCome
<1>2. CASE Arrives
  <2> DEFINE h == Head(backlog)
  <2>1. CASE d = h
    <3>1. d \notin orphans /\ conn[d] = "pending"  BY <1>2, <2>1, HeadOfBacklog, ArrivesFrame
    <3>2. Accept
      BY <1>2, <2>1, <3>1 DEF Arrives, CreateFails, EventSelectFails, AcceptFails
    <3>3. enabled' = [enabled EXCEPT ![h] = Events]  BY <3>2 DEF Accept
    <3> HIDE DEF h
    <3>4. enabled'[d] = Events  BY <1>0, <2>1, <3>3
    <3>5. QED  BY <3>4 DEF Events
  <2>2. CASE d # h
    <3>1. /\ conn'[d] = conn[d] /\ enabled'[d] = enabled[d] /\ recorded'[d] = recorded[d]
          /\ d \notin orphans /\ refused' = refused /\ pc = "wait"
      BY <1>2, <2>2, ArrivesFrame
    <3>2. QED  BY <1>1, <3>1 DEF Handling
  <2>3. QED  BY <2>1, <2>2
<1>3. CASE Serves
  <2>0. /\ conn'[d] = conn[d] /\ SocketArray' = SocketArray
        /\ d \notin orphans /\ conn[d] = "open"
    BY <1>3, ServesFrame
  <2>1. ASSUME NEW k \in 1..Len(SocketArray), Enumerate(k)
        PROVE  ReadToCome(d)' /\ CloseToCome(d)'
    <3> DEFINE c == SocketArray[k]
    <3>1. /\ pc = "wait" /\ Event' = k /\ NetworkEvents' = recorded[c]
          /\ recorded' = [recorded EXCEPT ![c] = {}]
          /\ pc' = IF recorded[c] \cap {"READ", "WRITE"} = {} THEN "close"
                   ELSE IF Empty(c) THEN "read" ELSE "write"
          /\ enabled' = enabled /\ refused' = refused /\ Current' = c
      BY <2>0, <2>1 DEF Enumerate, Wakes, Current
    <3> HIDE DEF c
    <3>2. ReadToCome(d) /\ CloseToCome(d)  BY <1>1, <2>0, <3>1
    <3>3. CASE d # c
      <4>1. recorded'[d] = recorded[d] /\ enabled'[d] = enabled[d]  BY <1>0, <3>1, <3>3
      <4>2. QED  BY <3>1, <3>2, <4>1 DEF Handling
    <3>4. CASE d = c
      <4>1. Empty(c)
        <5>1. BytesRECV[d] \in Nat /\ ~(BytesRECV[d] > 0)
          BY <1>0, <3>1, NetFacts DEF IInv, LeftOverRefused
        <5>2. QED  BY <3>4, <5>1 DEF Empty
      <4>2. pc' = IF recorded[c] \cap {"READ", "WRITE"} = {} THEN "close" ELSE "read"
        BY <3>1, <4>1
      <4>3. "READ" \in enabled[d] \cup recorded[d] /\ "CLOSE" \in enabled[d] \cup recorded[d]
        BY <3>1, <3>2 DEF Handling
      <4>4. QED  BY <3>1, <3>4, <4>2, <4>3 DEF Handling
    <3>5. QED  BY <3>3, <3>4
  <2>2. ASSUME NEW n \in 1..DATA_BUFSIZE, Recv(n)
        PROVE  ReadToCome(d)' /\ CloseToCome(d)'
    <3>1. /\ pc = "read" /\ pc' = "write" /\ Current' = Current /\ Current \in Conns
          /\ recorded' = recorded /\ refused' = refused /\ NetworkEvents' = NetworkEvents
          /\ enabled' = [enabled EXCEPT ![Current] = @ \cup {"READ"}]
      BY <2>2, RecvFrame DEF Recv, Received
    <3>2. ReadToCome(d) /\ CloseToCome(d)  BY <1>1, <2>0, <3>1
    <3>3. enabled[d] \subseteq enabled'[d] /\ (d = Current => "READ" \in enabled'[d])
      BY <1>0, <3>1
    <3>4. QED  BY <3>1, <3>2, <3>3 DEF Handling
  <2>3. CASE RecvNothing
    <3>1. /\ pc = "read" /\ pc' = AfterIO /\ Current' = Current
          /\ recorded' = recorded /\ refused' = refused /\ NetworkEvents' = NetworkEvents
          /\ enabled' = [enabled EXCEPT ![Current] = @ \cup {"READ"}]
      BY <2>3 DEF RecvNothing, Received, Current
    <3>2. ReadToCome(d) /\ CloseToCome(d)  BY <1>1, <2>0, <3>1
    <3>3. enabled[d] \subseteq enabled'[d] /\ (d = Current => "READ" \in enabled'[d])
      BY <1>0, <3>1
    <3>4. "CLOSE" \in NetworkEvents => pc' = "close"  BY <3>1 DEF AfterIO
    <3>5. QED  BY <3>1, <3>2, <3>3, <3>4 DEF Handling
  <2>4. CASE SendBlocks \/ \E n \in 1..DATA_BUFSIZE : Send(n)
    <3>1. /\ pc = "write" /\ pc' = AfterIO /\ Current' = Current
          /\ recorded' = recorded /\ refused \subseteq refused' /\ NetworkEvents' = NetworkEvents
      BY <2>4 DEF SendBlocks, Send, Current, eventVars
    <3>2. ReadToCome(d) /\ CloseToCome(d)  BY <1>1, <2>0, <3>1
    <3>3. enabled[d] \subseteq enabled'[d]
      <4>1. CASE SendBlocks
        <5>1. enabled' = [enabled EXCEPT ![Current] = @ \cup {"WRITE"}]
          BY <4>1 DEF SendBlocks
        <5>2. QED  BY <1>0, <5>1
      <4>2. CASE \E n \in 1..DATA_BUFSIZE : Send(n)  BY <4>2 DEF Send, eventVars
      <4>3. QED  BY <2>4, <4>1, <4>2
    <3>4. "CLOSE" \in NetworkEvents => pc' = "close"  BY <3>1 DEF AfterIO
    <3>5. QED  BY <3>1, <3>2, <3>3, <3>4 DEF Handling
  <2>5. ASSUME NEW c \in Conns, Running, Stack(c)
        PROVE  ReadToCome(d)' /\ CloseToCome(d)'
    <3>1. UNCHANGED <<pc, SocketArray, Event, NetworkEvents, refused>> /\ pc # "exit"
      BY <2>5 DEF Stack, Running
    <3>2. ReadToCome(d) /\ CloseToCome(d)  BY <1>1, <2>0, <3>1
    <3>3. /\ "READ" \in enabled[d] \cup recorded[d] => "READ" \in enabled'[d] \cup recorded'[d]
          /\ "CLOSE" \in enabled[d] \cup recorded[d] => "CLOSE" \in enabled'[d] \cup recorded'[d]
      BY <1>0, <2>5, StackKeeps
    <3>4. QED  BY <3>1, <3>2, <3>3 DEF Handling, Current
  <2>6. QED
    BY <1>3, <2>1, <2>2, <2>3, <2>4, <2>5 DEF Serves, WaitFails, CloseFails
<1>4. CASE Frees
  <2>1. Close  BY <1>4 DEF Frees, Fail
  <2>2. /\ d # Current /\ pc = "close" /\ d \notin orphans /\ d \notin refused
        /\ conn[d] = "open" /\ recorded'[d] = recorded[d] /\ enabled'[d] = enabled[d]
    <3>1. conn'[Current] # "open"
      <4>1. /\ conn' = [conn EXCEPT ![Current] = "closed"] /\ Current \in Conns
            /\ conn \in [Conns -> {"new", "pending", "open", "closed"}]
        BY <1>0, <1>4, FreesFrame DEF TypeOK, NetTypeOK
      <4>2. QED  BY <4>1
    <3>2. QED  BY <1>4, <2>1, <3>1, FreesFrame DEF Close
  <2>3. QED  BY <1>1, <2>2
<1>5. CASE Clients
  <2>1. UNCHANGED serverVars /\ pc # "exit" /\ conn[d] = "open"  BY <1>5, ClientsFrame
  <2>2. UNCHANGED <<pc, SocketArray, Event, NetworkEvents, recorded, enabled, orphans, refused>>
    BY <2>1 DEF serverVars, eventVars
  <2>3. ReadToCome(d) /\ CloseToCome(d)  BY <1>1, <2>1, <2>2
  <2>4. QED  BY <2>2, <2>3 DEF Handling, Current
<1>6. CASE UNCHANGED vars
  <2>1. UNCHANGED <<conn, pc, SocketArray, Event, NetworkEvents, recorded, enabled, orphans, refused>>
    BY <1>6 DEF vars, netVars, serverVars, eventVars
  <2>2. ReadToCome(d) /\ CloseToCome(d)  BY <1>1, <2>1
  <2>3. QED  BY <2>1, <2>2 DEF Handling, Current
<1>7. QED  BY <1>2, <1>3, <1>4, <1>5, <1>6, StepCases

-----------------------------------------------------------------------------
(* The invariants of EventSelectServer hold together in every behaviour.    *)

LEMMA InvInit == Init => IInv
<1> SUFFICES ASSUME Init  PROVE IInv
  OBVIOUS
<1>1. TypeOK  BY TypeInit
<1>2. /\ backlog = <<>> /\ SocketArray = <<>> /\ orphans = {} /\ refused = {} /\ pc = "wait"
      /\ \A c \in Conns : /\ conn[c] = "new" /\ BytesSEND[c] = 0 /\ BytesRECV[c] = 0
                          /\ taken[c] = 0 /\ sent[c] = 0 /\ echo[c] = <<>> /\ recorded[c] = {}
  BY DEF Init, NetInit
<1>3. BacklogOK /\ OrphansOpen /\ ArrayIsOpenSockets /\ IndexOK
  BY <1>2 DEF BacklogOK, OrphansOpen, ArrayIsOpenSockets, IndexOK, Handling
<1>4. CountersOK /\ LeftOverRefused /\ CloseTold /\ EventsKept
  BY <1>2 DEF CountersOK, LeftOverRefused, CloseTold, EventsKept, Told, Handling
<1>5. ASSUME NEW c \in Conns  PROVE Echoed(c)
  <2>1. Len(echo[c]) = 0 /\ BytesSEND[c] = 0 /\ BytesRECV[c] = 0 /\ taken[c] = 0 /\ sent[c] = 0
    BY <1>2
  <2>2. 1..Len(echo[c]) = {} /\ BytesSEND[c]+1..BytesRECV[c] = {}  BY <2>1
  <2>3. QED  BY <2>1, <2>2 DEF Echoed
<1>6. QED  BY <1>1, <1>3, <1>4, <1>5 DEF IInv

LEMMA Invariance == Spec => []IInv
<1>1. IInv /\ [Next]_vars => IInv'
  BY TypeStep, BacklogStep, OrphansStep, ArrayStep, IndexStep, CountersStep, EchoStep,
     LeftOverStep, CloseToldStep, EventsStep DEF IInv
<1>2. QED  BY InvInit, <1>1, PTL DEF Spec

(* Every variable keeps its type in every behaviour of the server (the      *)
(* state of WSAEventSelect.cpp, lines 43-86).                               *)
THEOREM TypeCorrect == Spec => []TypeOK
BY Invariance, PTL DEF IInv

(* The arrays hold the open connections that got a block, each once, while  *)
(* the wait returns indices into them and connections come and go           *)
(* (WSAEventSelect.cpp 209-227, 553-555, 591-601).                          *)
THEOREM ArrayHoldsOpenSockets == Spec => []ArrayIsOpenSockets
BY Invariance, PTL DEF IInv

(* As long as data or a shutdown waits to be seen, the stack has recorded   *)
(* it, will, or it is being handled, on every connection on which no send   *)
(* was refused: the loop cannot sleep over it (WSAEventSelect.cpp 317-491). *)
THEOREM NoEventIsLost == Spec => []NoEventLost
<1>1. IInv => NoEventLost
  BY DEF IInv, EventsKept, Told, NoEventLost, Handling
<1>2. QED  BY <1>1, Invariance, PTL

(* What has been echoed on a connection is the beginning of its client's    *)
(* stream (WSAEventSelect.cpp 361-467).                                     *)
EchoIsPrefix ==
  \A c \in Conns : Len(echo[c]) <= sent[c] /\ \A k \in 1..Len(echo[c]) : echo[c][k] = k

THEOREM EchoIsExact == Spec => []EchoIsPrefix
<1>1. IInv => EchoIsPrefix
  <2> SUFFICES ASSUME IInv, NEW c \in Conns
               PROVE  Len(echo[c]) <= sent[c] /\ \A k \in 1..Len(echo[c]) : echo[c][k] = k
    BY DEF EchoIsPrefix
  <2>1. Echoed(c)  BY DEF IInv
  <2>2. /\ Len(echo[c]) \in Nat /\ taken[c] \in Nat /\ sent[c] \in Nat
        /\ BytesRECV[c] \in Nat /\ BytesSEND[c] \in Nat
    BY NetFacts DEF IInv
  <2>3. QED  BY <2>1, <2>2 DEF Echoed
<1>2. QED  BY <1>1, Invariance, PTL

-----------------------------------------------------------------------------
(* EventSelectServer implements EchoService. *)

LEMMA ArrivesRefines ==
  ASSUME IInv, Arrives
  PROVE  Promise!Next
<1> DEFINE c == Head(backlog)
<1>1. c \in Conns /\ conn[c] = "pending" /\ UNCHANGED <<sent, fin, rst, echo>>
  BY ArrivesFrame DEF clientVars
<1>2. \/ conn' = [conn EXCEPT ![c] = "open"]
      \/ conn' = [conn EXCEPT ![c] = "closed"] /\ rst[c]
  BY DEF Arrives, Accept, CreateFails, EventSelectFails, AcceptFails
<1> HIDE DEF c
<1>3. Promise!Accept(c) \/ Promise!Close(c)
  BY <1>1, <1>2 DEF Promise!Accept, Promise!Close
<1>4. QED  BY <1>1, <1>3 DEF Promise!Next

LEMMA ServesRefines ==
  ASSUME IInv, Serves
  PROVE  [Promise!Next]_Promise!vars
<1> USE DEF Promise!vars
<1>1. UNCHANGED <<conn, sent, fin, rst>>  BY ServesFrame DEF clientVars
<1>2. CASE UNCHANGED echo  BY <1>1, <1>2
<1>3. ASSUME NEW n \in 1..DATA_BUFSIZE, Send(n)  PROVE [Promise!Next]_Promise!vars
  <2> DEFINE c == Current
  <2>1. /\ c \in Conns /\ echo' = [echo EXCEPT ![c] = @ \o Unsent(c, n)]
        /\ conn[c] = "open" /\ ~rst[c]
    BY <1>3, SendFrame, CurrentOpen DEF Send, CanSend, Handling
  <2>2. /\ Len(echo[c]) + n <= sent[c]
        /\ Unsent(c, n) = [k \in 1..n |-> Len(echo[c]) + k]
    BY <1>3, <2>1, SendIsNext
  <2> HIDE DEF c
  <2>3. Promise!Echo(c, n)  BY <1>1, <2>1, <2>2 DEF Promise!Echo
  <2>4. n \in 1..sent[c]
    <3>1. sent[c] \in Nat /\ Len(echo[c]) \in Nat  BY <2>1, NetFacts DEF IInv
    <3>2. QED  BY <2>2, <3>1
  <2>5. QED  BY <2>1, <2>3, <2>4 DEF Promise!Next
<1>4. (\E n \in 1..DATA_BUFSIZE : Send(n)) \/ UNCHANGED echo
  BY DEF Serves, Enumerate, WaitFails, Recv, RecvNothing, SendBlocks, CloseFails, Stack,
     netVars
<1>5. QED  BY <1>2, <1>3, <1>4

LEMMA FreesRefines ==
  ASSUME IInv, Frees
  PROVE  Promise!Next
<1> DEFINE c == Current
<1>1. /\ c \in Conns /\ conn[c] = "open"
      /\ conn' = [conn EXCEPT ![c] = "closed"] /\ UNCHANGED <<sent, fin, rst, echo>>
  BY FreesFrame DEF clientVars
<1>2. rst[c] \/ (fin[c] /\ (c \in refused \/ Len(echo[c]) = sent[c]))
  <2>1. CASE Fail  BY <2>1 DEF Fail, HardError
  <2>2. CASE Close
    <3>1. pc = "close" /\ "CLOSE" \in NetworkEvents
      BY <2>2 DEF Close, IInv, CountersOK
    <3>2. fin[c] /\ taken[c] = sent[c]
      BY <3>1 DEF IInv, CloseTold, Handling, AllReceived
    <3>3. ASSUME c \notin refused  PROVE Len(echo[c]) = sent[c]
      <4>1. /\ BytesRECV[c] \in Nat /\ BytesSEND[c] \in Nat
            /\ Len(echo[c]) \in Nat /\ sent[c] \in Nat
        BY <1>1, NetFacts DEF IInv
      <4>2. ~(BytesRECV[c] > 0)  BY <1>1, <3>1, <3>3 DEF IInv, LeftOverRefused
      <4>3. Echoed(c)  BY <1>1 DEF IInv
      <4>4. QED  BY <3>2, <4>1, <4>2, <4>3 DEF Echoed
    <3>4. QED  BY <3>2, <3>3
  <2>3. QED  BY <2>1, <2>2 DEF Frees
<1> HIDE DEF c
<1>3. Promise!Close(c)  BY <1>1, <1>2 DEF Promise!Close
<1>4. QED  BY <1>1, <1>3 DEF Promise!Next

LEMMA ClientRefines ==
  ASSUME NEW c \in Conns, Client(c)
  PROVE  [Promise!Next]_Promise!vars
<1>1. CASE Connect(c)
  BY <1>1 DEF Connect, Promise!Connect, Promise!Next
<1>2. CASE ClientSend(c)
  BY <1>2 DEF ClientSend, Connected, Promise!ClientSend, Promise!Next
<1>3. CASE ClientRead(c)  BY <1>3 DEF ClientRead, Promise!vars
<1>4. CASE ClientShutdown(c)
  BY <1>4 DEF ClientShutdown, Promise!Shutdown, Promise!Next
<1>5. CASE ClientReset(c)
  BY <1>5 DEF ClientReset, Promise!Reset, Promise!Next
<1>6. QED  BY <1>1, <1>2, <1>3, <1>4, <1>5 DEF Client

LEMMA StepRefines == IInv /\ [Next]_vars => [Promise!Next]_Promise!vars
<1> SUFFICES ASSUME IInv, [Next]_vars  PROVE [Promise!Next]_Promise!vars
  OBVIOUS
<1>1. CASE Clients  BY <1>1, ClientRefines DEF Clients, ClientStep
<1>2. CASE UNCHANGED vars  BY <1>2 DEF vars, netVars, Promise!vars
<1>3. QED
  BY <1>1, <1>2, ArrivesRefines, ServesRefines, FreesRefines, StepCases

(* The event-object server implements EchoService, except for the bytes of  *)
(* a refused send that an FD_CLOSE makes it drop (WSAEventSelect.cpp        *)
(* 209-555).                                                                *)
THEOREM Implements == Spec => EchoServiceSpec
<1>1. Init => Promise!Init  BY DEF Init, NetInit, Promise!Init
<1>2. QED  BY <1>1, StepRefines, Invariance, PTL DEF Spec, EchoServiceSpec, Promise!Spec

(* A connection that is closed and was not reset had been shut down by its  *)
(* client, and but for a refused send all it sent was echoed.               *)
CloseIsExplained ==
  \A c \in Conns : conn[c] = "closed" /\ ~rst[c] =>
    fin[c] /\ (c \in refused \/ Len(echo[c]) = sent[c])

LEMMA HistoryGrows == TypeOK /\ [Next]_vars => refused \subseteq refused'
BY StepCases DEF Arrives, Serves, Frees, Clients, ClientStep,
   Accept, CreateFails, EventSelectFails, AcceptFails,
   Enumerate, WaitFails, Recv, Send, RecvNothing, SendBlocks, CloseFails, Stack, Close, Fail,
   serverVars, vars

LEMMA CloseStep ==
  ASSUME TypeOK, CloseIsExplained, [Promise!Next]_Promise!vars,
         refused \subseteq refused'
  PROVE  CloseIsExplained'
<1>0. /\ conn \in [Conns -> {"new", "pending", "open", "closed"}]
      /\ sent \in [Conns -> Nat] /\ echo \in [Conns -> Seq(Nat)]
      /\ fin \in [Conns -> BOOLEAN] /\ rst \in [Conns -> BOOLEAN]
  BY DEF TypeOK, NetTypeOK
<1> SUFFICES ASSUME NEW d \in Conns, conn'[d] = "closed", ~rst'[d]
             PROVE  fin'[d] /\ (d \in refused' \/ Len(echo'[d]) = sent'[d])
  BY DEF CloseIsExplained
<1>1. conn[d] = "closed" /\ ~rst[d] => fin[d] /\ (d \in refused \/ Len(echo[d]) = sent[d])
  BY DEF CloseIsExplained
<1>2. CASE UNCHANGED Promise!vars  BY <1>1, <1>2 DEF Promise!vars
<1>3. ASSUME NEW c \in Conns, Promise!Connect(c) \/ Promise!Accept(c)
      PROVE  fin'[d] /\ (d \in refused' \/ Len(echo'[d]) = sent'[d])
  <2>1. conn[d] = "closed" /\ UNCHANGED <<sent, fin, rst, echo>>
    BY <1>0, <1>3 DEF Promise!Connect, Promise!Accept
  <2>2. QED  BY <1>1, <2>1
<1>4. ASSUME NEW c \in Conns, Promise!ClientSend(c)
      PROVE  fin'[d] /\ (d \in refused' \/ Len(echo'[d]) = sent'[d])
  <2>1. conn[d] = "closed" /\ ~rst[d] /\ UNCHANGED <<fin, echo>> /\ ~fin[c]
    BY <1>4 DEF Promise!ClientSend
  <2>2. d # c => sent'[d] = sent[d]  BY <1>0, <1>4 DEF Promise!ClientSend
  <2>3. QED  BY <1>1, <2>1, <2>2
<1>5. ASSUME NEW c \in Conns, Promise!Shutdown(c) \/ Promise!Reset(c)
      PROVE  fin'[d] /\ (d \in refused' \/ Len(echo'[d]) = sent'[d])
  <2>1. conn[d] = "closed" /\ UNCHANGED <<sent, echo>>
    BY <1>5 DEF Promise!Shutdown, Promise!Reset
  <2>2. ~rst[d] /\ (fin[d] => fin'[d])
    BY <1>0, <1>5 DEF Promise!Shutdown, Promise!Reset
  <2>3. QED  BY <1>1, <2>1, <2>2
<1>6. ASSUME NEW c \in Conns, NEW n \in 1..sent[c], Promise!Echo(c, n)
      PROVE  fin'[d] /\ (d \in refused' \/ Len(echo'[d]) = sent'[d])
  <2>1. conn[d] = "closed" /\ c # d /\ ~rst[d] /\ UNCHANGED <<sent, fin>>
    BY <1>6 DEF Promise!Echo
  <2>2. echo'[d] = echo[d]  BY <1>0, <1>6, <2>1 DEF Promise!Echo
  <2>3. QED  BY <1>1, <2>1, <2>2
<1>7. ASSUME NEW c \in Conns, Promise!Close(c)
      PROVE  fin'[d] /\ (d \in refused' \/ Len(echo'[d]) = sent'[d])
  <2>1. UNCHANGED <<sent, fin, rst, echo>>  BY <1>7 DEF Promise!Close
  <2>2. CASE conn[d] = "closed"  BY <1>1, <2>1, <2>2
  <2>3. CASE conn[d] # "closed"
    <3>1. c = d  BY <1>0, <1>7, <2>3 DEF Promise!Close
    <3>2. QED  BY <1>7, <2>1, <3>1 DEF Promise!Close
  <2>4. QED  BY <2>2, <2>3
<1>8. QED  BY <1>2, <1>3, <1>4, <1>5, <1>6, <1>7 DEF Promise!Next

(* No connection is closed on a client that is not done, but for the bytes  *)
(* of a send that did not take them all: these FD_CLOSE drops               *)
(* (WSAEventSelect.cpp 469-491).                                            *)
THEOREM CloseIsGraceful == Spec => []CloseIsExplained
<1>1. Init => CloseIsExplained
  BY DEF Init, NetInit, CloseIsExplained
<1>2. IInv /\ CloseIsExplained /\ [Next]_vars => CloseIsExplained'
  BY StepRefines, HistoryGrows, CloseStep DEF IInv
<1>3. QED  BY <1>1, <1>2, Invariance, PTL DEF Spec
=============================================================================
