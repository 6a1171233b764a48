------------------------ MODULE MessageServer_proofs ------------------------
(***************************************************************************)
(* Proofs about MessageServer, for either program, any number of           *)
(* connections and sockets, any buffer size and any faults.                *)
(***************************************************************************)
EXTENDS MessageServer, FiniteSetTheorems, TLAPS

(* Connections wait in the backlog once each, and only there. *)
BacklogOK ==
  /\ \A k \in 1..Len(backlog) : conn[backlog[k]] = "pending"
  /\ \A j, k \in 1..Len(backlog) : backlog[j] = backlog[k] => j = k

(* Open connections have a socket number, each its own; a connection that   *)
(* was not accepted yet has nothing of the server's.                        *)
SocketsOK ==
  /\ \A c \in Conns : conn[c] = "open" <=> socket[c] # NoSocket
  /\ \A c, d \in Conns : socket[c] = socket[d] /\ socket[c] # NoSocket => c = d
  /\ \A c \in infos : conn[c] = "open"
  /\ \A c \in Conns : conn[c] \in {"new", "pending"} => ~RecvPosted[c] /\ BytesRECV[c] = 0

(* A message of a connection bears its socket number as long as it is open. *)
MessageOK(m) ==
  /\ m.event = "ACCEPT" <=> m.of = Listen
  /\ m.event = "ACCEPT" <=> m.sock = Listen
  /\ m.of \in Conns =>
       /\ conn[m.of] \in {"open", "closed"}
       /\ conn[m.of] = "open" => socket[m.of] = m.sock

IsHandled == handling # NoMessage

MessagesOK ==
  /\ \A k \in 1..Len(queue) : MessageOK(queue[k])
  /\ IsHandled => MessageOK(handling)

(* There is one FD_ACCEPT, and a connection waits when it is told. *)
Accepts == Told(Listen, "ACCEPT")
AcceptOnce ==
  /\ Accepts # {} \/ handling.event = "ACCEPT" => ~acceptEnabled /\ backlog # <<>>
  /\ handling.event = "ACCEPT" => Accepts = {}
  /\ \A j, k \in Accepts : j = k

(* A message is handled for the connection that has its socket number now,  *)
(* which was misled if it is another than it was posted for.                *)
OwnMessage ==
  IsHandled =>
    \A c \in Conns : socket[c] = handling.sock => c = handling.of \/ c \in misled

(* The received and unsent bytes of a connection are the next ones of its   *)
(* stream, and what has been echoed is all before them.                     *)
Echoed(c) ==
  /\ taken[c] <= sent[c]
  /\ Len(echo[c]) + (BytesRECV[c] - BytesSEND[c]) = taken[c]
  /\ \A k \in 1..Len(echo[c]) : echo[c][k] = k
  /\ \A k \in BytesSEND[c]+1..BytesRECV[c] :
        Buffer[c][k] = Len(echo[c]) + (k - BytesSEND[c])

(* Only a send that did not take all leaves bytes in a buffer past the      *)
(* handling of the message that brought them.                               *)
LeftOver ==
  \A c \in infos \ (blocked \cup short) : BytesRECV[c] > BytesSEND[c] => Writing(c)

(* The message of a connection's end comes once, and what it says is so.    *)
AllReceived(c) == fin[c] /\ taken[c] = sent[c]
Pending(c, e) == Told(c, e) # {} \/ Handled(c, e)
EndOnce(c) ==
  /\ "CLOSE" \in enabled[c] => ~Pending(c, "CLOSE")
  /\ Handled(c, "CLOSE") => Told(c, "CLOSE") = {}
  /\ \A j, k \in Told(c, "CLOSE") : j = k
  /\ Pending(c, "CLOSE") => AllReceived(c)
  /\ Pending(c, "ABORT") => rst[c]

(* As long as no connection was reset and none left without a block, and    *)
(* with RockSocket none shut down, no connection ends while a read of it is *)
(* due.                                                                     *)
Calm == ~SomeReset /\ Orphans = {} /\ (IsRock => \A c \in Conns : ~fin[c])
ReadDue(c) == Pending(c, "READ") \/ RecvPosted[c]
CalmOK ==
  Calm => \A c \in Conns :
    /\ ReadDue(c) => conn[c] = "open" /\ Avail(c) > 0
    /\ Pending(c, "CLOSE") => conn[c] = "open"
    /\ IsRock => conn[c] # "closed"

(* The one FD_READ of a connection is in one place.  It is so for one that  *)
(* was misled, too, while the messages that mislead are none of reads.      *)
Enabled(c) == "READ" \in enabled[c]
OneRead(c) ==
  /\ \A j, k \in Told(c, "READ") : j = k
  /\ Enabled(c) \/ Pending(c, "READ") \/ RecvPosted[c]
  /\ Enabled(c) => ~Pending(c, "READ") /\ ~RecvPosted[c]
  /\ RecvPosted[c] => ~Pending(c, "READ")
  /\ Handled(c, "READ") => Told(c, "READ") = {}
ReadsOK == \A c \in infos : c \notin misled \/ Calm => OneRead(c)

(* Whoever put a read off will see to it. *)
WriteDue(c) == "WRITE" \in enabled[c] \/ Pending(c, "WRITE")
WritesOK ==
  /\ \A c \in Conns : RecvPosted[c] => BytesRECV[c] > 0
  /\ ~IsRock => \A c \in infos \ (misled \cup short) : BytesRECV[c] > 0 => WriteDue(c)
  /\ IsRock => \A c \in infos \ (misled \cup short \cup blocked) :
       RecvPosted[c] => Handled(c, "WRITE") /\ BytesRECV[c] = BytesSEND[c]

IInv ==
  /\ TypeOK
  /\ BacklogOK
  /\ SocketsOK
  /\ MessagesOK
  /\ AcceptOnce
  /\ OwnMessage
  /\ \A c \in Conns : Echoed(c)
  /\ LeftOver
  /\ \A c \in Conns : EndOnce(c)
  /\ CalmOK
  /\ ReadsOK
  /\ WritesOK
  /\ CrashHasCause

USE WinsockAssumption, MessageAssumption

-----------------------------------------------------------------------------
(* Facts about the state. *)

LEMMA NetFacts ==
  ASSUME TypeOK, NEW c \in Conns
  PROVE  /\ sent[c] \in Nat /\ taken[c] \in Nat /\ got[c] \in Nat
         /\ fin[c] \in BOOLEAN /\ rst[c] \in BOOLEAN
         /\ echo[c] \in Seq(Nat) /\ Len(echo[c]) \in Nat
         /\ conn[c] \in {"new", "pending", "open", "closed"}
         /\ BytesRECV[c] \in Nat /\ BytesRECV[c] <= DATA_BUFSIZE
         /\ BytesSEND[c] \in Nat /\ BytesSEND[c] <= BytesRECV[c]
         /\ Buffer[c] \in [1..DATA_BUFSIZE -> Nat]
         /\ RecvPosted[c] \in BOOLEAN /\ enabled[c] \subseteq Events
         /\ socket[c] \in Sockets \cup {NoSocket}
BY DEF TypeOK, NetTypeOK

LEMMA MessageFacts ==
  ASSUME NEW m \in Message
  PROVE  /\ m.sock \in Sockets \cup {Listen} /\ m.sock # NoSocket
         /\ m.event \in Events \cup {"ACCEPT"} /\ m.of \in Conns \cup {Listen}
         /\ m # NoMessage
         /\ m = [sock |-> m.sock, event |-> m.event, of |-> m.of]
<1>1. m.event \in Events \cup {"ACCEPT"}  BY DEF Message
<1>2. m # NoMessage
  <2>1. m.event # "none"  BY <1>1 DEF Events
  <2>2. QED  BY <2>1 DEF NoMessage
<1>3. QED  BY <1>1, <1>2 DEF Message

\* What is handled, if anything, is a message.
LEMMA HandlingFacts ==
  ASSUME TypeOK
  PROVE  /\ IsHandled => handling \in Message
         /\ ~IsHandled => handling.event = "none"
         /\ \A e \in Events \cup {"ACCEPT"} : handling.event = e => IsHandled
<1>1. handling \in Message \cup {NoMessage}  BY DEF TypeOK
<1>2. NoMessage.event = "none"  BY DEF NoMessage
<1>3. "none" \notin Events \cup {"ACCEPT"}  BY DEF Events
<1>4. QED  BY <1>1, <1>2, <1>3 DEF IsHandled

\* The connection that a message is handled for.
LEMMA FindsFacts ==
  ASSUME IInv, NEW c \in Conns, Finds(c)
  PROVE  /\ c \in infos /\ conn[c] = "open"
         /\ socket[c] = handling.sock /\ socket[c] \in Sockets
         /\ \A d \in Conns : socket[d] = handling.sock => d = c
<1>1. c \in infos /\ conn[c] = "open" /\ socket[c] = handling.sock
  BY DEF Finds, IInv, SocketsOK
<1>2. socket[c] \in Sockets
  <2>1. socket[c] \in Sockets \cup {NoSocket}  BY NetFacts DEF IInv
  <2>2. socket[c] # NoSocket  BY <1>1 DEF IInv, SocketsOK
  <2>3. QED  BY <2>1, <2>2
<1>3. QED  BY <1>1, <1>2 DEF IInv, SocketsOK

\* A message is handled for the connection it was posted for, if that is open.
LEMMA OwnerFound ==
  ASSUME IInv, IsHandled, NEW d \in infos, handling.of = d
  PROVE  /\ Finds(d) /\ d \in Conns
         /\ \A c \in Conns : Finds(c) => c = d
<1>1. d \in Conns /\ conn[d] = "open" /\ infos \subseteq Conns
  BY DEF IInv, SocketsOK, TypeOK
<1>2. socket[d] = handling.sock  BY <1>1 DEF IInv, MessagesOK, MessageOK
<1>3. QED  BY <1>1, <1>2, FindsFacts DEF Finds

LEMMA HeadOfBacklog ==
  ASSUME IInv, backlog # <<>>
  PROVE  /\ Head(backlog) \in Conns /\ conn[Head(backlog)] = "pending"
         /\ Tail(backlog) \in Seq(Conns)
         /\ Len(Tail(backlog)) = Len(backlog) - 1
         /\ \A k \in 1..Len(Tail(backlog)) :
              /\ Tail(backlog)[k] = backlog[k + 1] /\ k + 1 \in 1..Len(backlog)
              /\ Tail(backlog)[k] \in Conns /\ Tail(backlog)[k] # Head(backlog)
<1>1. backlog \in Seq(Conns) /\ Len(backlog) \in Nat  BY DEF IInv, TypeOK, NetTypeOK
<1>2. Head(backlog) = backlog[1] /\ 1 \in 1..Len(backlog)  BY <1>1
<1>3. /\ Tail(backlog) \in Seq(Conns) /\ Len(Tail(backlog)) = Len(backlog) - 1
      /\ \A k \in 1..Len(Tail(backlog)) :
           Tail(backlog)[k] = backlog[k + 1] /\ k + 1 \in 1..Len(backlog) /\ k + 1 # 1
  BY <1>1
<1>4. Head(backlog) \in Conns /\ conn[Head(backlog)] = "pending"
  BY <1>1, <1>2 DEF IInv, BacklogOK
<1>5. \A k \in 1..Len(Tail(backlog)) :
         Tail(backlog)[k] \in Conns /\ Tail(backlog)[k] # Head(backlog)
  BY <1>1, <1>2, <1>3 DEF IInv, BacklogOK
<1>6. QED  BY <1>3, <1>4, <1>5

(* The queue, as the places of its messages. *)

Appends(m) == queue' = Append(queue, m)

LEMMA ToldAppend ==
  ASSUME queue \in Seq(Message), NEW m, Appends(m), NEW c, NEW e
  PROVE  /\ m.of = c /\ m.event = e => Told(c, e)' = Told(c, e) \cup {Len(queue) + 1}
         /\ ~(m.of = c /\ m.event = e) => Told(c, e)' = Told(c, e)
         /\ Told(c, e) \subseteq 1..Len(queue) /\ Len(queue) \in Nat
         /\ Len(queue) + 1 \notin Told(c, e)
<1>1. /\ Len(queue') = Len(queue) + 1 /\ Len(queue) \in Nat
      /\ queue'[Len(queue) + 1] = m
      /\ \A k \in 1..Len(queue) : queue'[k] = queue[k]
  BY DEF Appends
<1>2. \A k \in 1..Len(queue') : k \in 1..Len(queue) \/ k = Len(queue) + 1  BY <1>1
<1>3. Len(queue) + 1 \in 1..Len(queue') /\ \A k \in 1..Len(queue) : k \in 1..Len(queue')
  BY <1>1
<1>4. Len(queue) + 1 \notin 1..Len(queue)  BY <1>1
<1>5. \A k : k \in Told(c, e)' <=>
         k \in Told(c, e) \/ (k = Len(queue) + 1 /\ m.of = c /\ m.event = e)
  BY <1>1, <1>2, <1>3, <1>4 DEF Told
<1>6. Told(c, e) \subseteq 1..Len(queue)  BY DEF Told
<1>7. QED  BY <1>1, <1>4, <1>5, <1>6

LEMMA ToldTail ==
  ASSUME queue \in Seq(Message), queue # <<>>, queue' = Tail(queue), NEW c, NEW e
  PROVE  /\ 1 \in Told(c, e) <=> Head(queue).of = c /\ Head(queue).event = e
         /\ \A k \in Told(c, e)' : k \in Nat /\ k + 1 \in Told(c, e) /\ k + 1 # 1
         /\ \A k \in Told(c, e) : k # 1 => k - 1 \in Told(c, e)'
         /\ Told(c, e) \subseteq Nat
<1>1. /\ Len(queue) \in Nat /\ 1 \in 1..Len(queue) /\ Head(queue) = queue[1]
      /\ Len(queue') = Len(queue) - 1
      /\ \A k \in 1..Len(queue') : queue'[k] = queue[k + 1]
  OBVIOUS
<1>2. 1 \in Told(c, e) <=> Head(queue).of = c /\ Head(queue).event = e  BY <1>1 DEF Told
<1>3. \A k \in Told(c, e)' : k \in Nat /\ k + 1 \in Told(c, e) /\ k + 1 # 1
  <2>1. \A k \in 1..Len(queue') : k + 1 \in 1..Len(queue) /\ k + 1 # 1 /\ k \in Nat  BY <1>1
  <2>2. QED  BY <1>1, <2>1 DEF Told
<1>4. ASSUME NEW k \in Told(c, e), k # 1  PROVE k - 1 \in Told(c, e)'
  <2>1. k \in 1..Len(queue) /\ queue[k].of = c /\ queue[k].event = e  BY DEF Told
  <2>2. k - 1 \in 1..Len(queue') /\ (k - 1) + 1 = k  BY <1>1, <1>4, <2>1
  <2>3. queue'[k - 1] = queue[k]  BY <1>1, <2>2
  <2>4. QED  BY <2>1, <2>2, <2>3 DEF Told
<1>5. Told(c, e) \subseteq Nat  BY <1>1 DEF Told
<1>6. QED  BY <1>2, <1>3, <1>4, <1>5

-----------------------------------------------------------------------------
(* The kinds of step, by what they change. *)

Takes == Accept \/ CreateFails \/ AcceptFails

\* A read or a write that leaves its connection open.
Works(c) ==
  \/ PutOff(c) \/ RecvNothing(c) \/ NothingToSend(c) \/ SendBlocks(c)
  \/ \E n \in 1..DATA_BUFSIZE : Recv(c, n) \/ Send(c, n)

Frees(c) == RecvFails(c) \/ SendFails(c) \/ Close(c)

Goes == ReadGone \/ WriteGone \/ CloseGone

Posts == PostAccept \/ \E c \in Conns, e \in Events : Post(c, e)

Clients == \E c \in Conns : ClientStep(c)

LEMMA StepCases ==
  [Next]_vars =>
    \/ Takes \/ Goes \/ Dispatch \/ Posts \/ Clients \/ UNCHANGED vars
    \/ \E c \in Conns : Works(c) \/ Frees(c)
BY DEF Next, WindowThread, Read, Write, Takes, Works, Frees, Goes, Posts, Clients

\* The connections other than c are left alone.
OthersSame(c) ==
  \A d \in Conns : d # c =>
    /\ conn'[d] = conn[d] /\ socket'[d] = socket[d] /\ enabled'[d] = enabled[d]
    /\ d \in infos' <=> d \in infos

LEMMA TakesFrame ==
  ASSUME IInv, Takes
  PROVE  /\ handling.event = "ACCEPT" /\ handling' = NoMessage
         /\ backlog # <<>> /\ backlog' = Tail(backlog) /\ acceptEnabled' = TRUE
         /\ UNCHANGED <<clientVars, taken, echo, program, crashed, queue, ioVars, history>>
         /\ Head(backlog) \in Conns /\ conn[Head(backlog)] = "pending"
         /\ OthersSame(Head(backlog))
         /\ \/ /\ TakeSocket(Head(backlog))
               /\ conn'[Head(backlog)] = "open" /\ enabled'[Head(backlog)] = Events
            \/ /\ rst[Head(backlog)] /\ conn'[Head(backlog)] = "closed"
               /\ conn' = [conn EXCEPT ![Head(backlog)] = "closed"]
               /\ UNCHANGED <<infos, socket, enabled>>
<1>1. /\ handling.event = "ACCEPT" /\ handling' = NoMessage
      /\ backlog' = Tail(backlog) /\ acceptEnabled' = TRUE
      /\ UNCHANGED <<clientVars, taken, echo, program, crashed, queue, ioVars, history>>
  BY DEF Takes, Accept, CreateFails, AcceptFails, Accepted, Finish
<1>2. backlog # <<>>  BY <1>1 DEF IInv, AcceptOnce
<1> DEFINE h == Head(backlog)
<1>3. h \in Conns /\ conn[h] = "pending"  BY <1>2, HeadOfBacklog
<1>4. /\ conn \in [Conns -> {"new", "pending", "open", "closed"}]
      /\ socket \in [Conns -> Sockets \cup {NoSocket}]
      /\ enabled \in [Conns -> SUBSET Events]
  BY DEF IInv, TypeOK, NetTypeOK
<1>5. \/ TakeSocket(h) /\ (infos' = infos \cup {h} \/ infos' = infos)
      \/ /\ rst[h] /\ conn' = [conn EXCEPT ![h] = "closed"]
         /\ UNCHANGED <<infos, socket, enabled>>
  BY DEF Takes, Accept, CreateFails, AcceptFails
<1> HIDE DEF h
<1>6. CASE TakeSocket(h) /\ (infos' = infos \cup {h} \/ infos' = infos)
  <2>1. PICK s \in Sockets : /\ socket' = [socket EXCEPT ![h] = s]
                             /\ conn' = [conn EXCEPT ![h] = "open"]
                             /\ enabled' = [enabled EXCEPT ![h] = Events]
    BY <1>6 DEF TakeSocket
  <2>2. conn'[h] = "open" /\ enabled'[h] = Events  BY <1>3, <1>4, <2>1
  <2>3. OthersSame(h)  BY <1>4, <1>6, <2>1 DEF OthersSame
  <2>4. QED  BY <1>1, <1>2, <1>3, <1>6, <2>2, <2>3 DEF h
<1>7. CASE /\ rst[h] /\ conn' = [conn EXCEPT ![h] = "closed"]
           /\ UNCHANGED <<infos, socket, enabled>>
  <2>1. conn'[h] = "closed" /\ OthersSame(h)  BY <1>3, <1>4, <1>7 DEF OthersSame
  <2>2. QED  BY <1>1, <1>2, <1>3, <1>7, <2>1 DEF h
<1>8. QED  BY <1>5, <1>6, <1>7

\* After a read or a write nothing is handled, or a read goes on to the write.
NextHandling ==
  \/ handling' = NoMessage
  \/ handling.event = "READ" /\ handling' = [handling EXCEPT !.event = "WRITE"]

LEMMA WorksFrame ==
  ASSUME IInv, NEW c \in Conns, Works(c)
  PROVE  /\ Finds(c) /\ handling.event \in {"READ", "WRITE"} /\ NextHandling
         /\ UNCHANGED <<clientVars, conn, backlog, program, crashed, infos, socket,
                        acceptEnabled, misled>>
         /\ queue' = queue \/ queue' = Append(queue, Msg(c, "READ"))
         /\ OthersSame(c)
         /\ \A d \in Conns : d # c =>
              /\ taken'[d] = taken[d] /\ echo'[d] = echo[d] /\ Buffer'[d] = Buffer[d]
              /\ BytesRECV'[d] = BytesRECV[d] /\ BytesSEND'[d] = BytesSEND[d]
              /\ RecvPosted'[d] = RecvPosted[d]
              /\ (d \in blocked' <=> d \in blocked) /\ (d \in short' <=> d \in short)
<1>0. /\ taken \in [Conns -> Nat] /\ echo \in [Conns -> Seq(Nat)]
      /\ Buffer \in [Conns -> [1..DATA_BUFSIZE -> Nat]]
      /\ BytesRECV \in [Conns -> 0..DATA_BUFSIZE] /\ BytesSEND \in [Conns -> Nat]
      /\ RecvPosted \in [Conns -> BOOLEAN] /\ enabled \in [Conns -> SUBSET Events]
  BY DEF IInv, TypeOK, NetTypeOK
<1> DEFINE same ==
      \A d \in Conns : d # c =>
        /\ taken'[d] = taken[d] /\ echo'[d] = echo[d] /\ Buffer'[d] = Buffer[d]
        /\ BytesRECV'[d] = BytesRECV[d] /\ BytesSEND'[d] = BytesSEND[d]
        /\ RecvPosted'[d] = RecvPosted[d] /\ enabled'[d] = enabled[d]
        /\ (d \in blocked' <=> d \in blocked) /\ (d \in short' <=> d \in short)
<1>1. /\ Finds(c) /\ handling.event \in {"READ", "WRITE"}
      /\ UNCHANGED <<clientVars, conn, backlog, program, crashed, infos, socket,
                     acceptEnabled, misled>>
      /\ queue' = queue \/ queue' = Append(queue, Msg(c, "READ"))
  BY DEF Works, PutOff, RecvNothing, NothingToSend, SendBlocks, Recv, Send, Writing,
     PostReadAgain, netVars, clientVars, listVars, stackVars, history
<1>2. NextHandling
  BY DEF Works, PutOff, RecvNothing, NothingToSend, SendBlocks, Recv, Send, NextHandling,
     ReturnFromRead, GoOnTo, Finish
<1>3. ASSUME PutOff(c)  PROVE same
  BY <1>0, <1>3 DEF PutOff, netVars, ioVars, stackVars, history
<1>4. ASSUME RecvNothing(c)  PROVE same
  BY <1>0, <1>4 DEF RecvNothing, Received, netVars, listVars, ioVars, history
<1>5. ASSUME NothingToSend(c)  PROVE same
  BY <1>0, <1>5 DEF NothingToSend, ResetCounts, PostReadAgain, netVars, history
<1>6. ASSUME SendBlocks(c)  PROVE same
  BY <1>0, <1>6 DEF SendBlocks, netVars, listVars, ioVars
<1>7. ASSUME NEW n \in 1..DATA_BUFSIZE, Recv(c, n)  PROVE same
  BY <1>0, <1>7 DEF Recv, Received, history
<1>8. ASSUME NEW n \in 1..DATA_BUFSIZE, Send(c, n)  PROVE same
  <2>1. /\ UNCHANGED <<taken, Buffer, enabled, blocked>>
        /\ echo' = [echo EXCEPT ![c] = @ \o Unsent(c, n)]
        /\ short' = short \/ short' = short \cup {c}
    BY <1>8 DEF Send
  <2>2. \/ ResetCounts(c) /\ PostReadAgain(c)
        \/ /\ BytesSEND' = [BytesSEND EXCEPT ![c] = @ + n]
           /\ UNCHANGED <<BytesRECV, queue, RecvPosted>>
    BY <1>8 DEF Send
  <2>3. \A d \in Conns : d # c =>
          /\ BytesRECV'[d] = BytesRECV[d] /\ BytesSEND'[d] = BytesSEND[d]
          /\ RecvPosted'[d] = RecvPosted[d]
    BY <1>0, <2>2 DEF ResetCounts, PostReadAgain
  <2>4. QED  BY <1>0, <2>1, <2>3
<1>9. same  BY <1>3, <1>4, <1>5, <1>6, <1>7, <1>8 DEF Works
<1>10. QED  BY <1>1, <1>2, <1>9 DEF OthersSame

LEMMA FreesFrame ==
  ASSUME IInv, NEW c \in Conns, Frees(c)
  PROVE  /\ Finds(c) /\ c \in infos /\ conn[c] = "open"
         /\ FreeSocketInformation(c) /\ NextHandling /\ crashed' = crashed
         /\ rst[c] \/ (handling.event \in {"CLOSE", "ABORT"} /\ handling' = NoMessage)
         /\ conn'[c] = "closed" /\ socket'[c] = NoSocket /\ enabled'[c] = {} /\ c \notin infos'
         /\ OthersSame(c)
<1>1. /\ Finds(c) /\ FreeSocketInformation(c) /\ crashed' = crashed
      /\ rst[c] \/ (handling.event \in {"CLOSE", "ABORT"} /\ handling' = NoMessage)
  BY DEF Frees, RecvFails, SendFails, Close, Writing, HardError, Finish
<1>2. NextHandling
  BY DEF Frees, RecvFails, SendFails, Close, NextHandling, ReturnFromRead, GoOnTo, Finish
<1>3. /\ conn \in [Conns -> {"new", "pending", "open", "closed"}]
      /\ socket \in [Conns -> Sockets \cup {NoSocket}]
      /\ enabled \in [Conns -> SUBSET Events]
  BY DEF IInv, TypeOK, NetTypeOK
<1>4. /\ conn'[c] = "closed" /\ socket'[c] = NoSocket /\ enabled'[c] = {} /\ c \notin infos'
      /\ OthersSame(c)
  BY <1>1, <1>3 DEF FreeSocketInformation, OthersSame
<1>5. QED  BY <1>1, <1>2, <1>4, FindsFacts

LEMMA GoesFrame ==
  ASSUME Goes
  PROVE  /\ handling' = NoMessage /\ FindsNone
         /\ handling.event \in {"READ", "WRITE", "CLOSE", "ABORT"}
         /\ UNCHANGED <<netVars, program, listVars, stackVars, history>>
         /\ \/ crashed' = crashed
            \/ handling.event = "READ"
            \/ handling.event = "WRITE" /\ IsRock
<1>1. CASE ReadGone
  <2>1. handling.event = "READ" /\ FindsNone /\ handling' = NoMessage
    BY <1>1 DEF ReadGone, Crash, Finish
  <2>2. UNCHANGED <<netVars, program, listVars, stackVars, history>>  BY <1>1 DEF ReadGone
  <2>3. QED  BY <2>1, <2>2
<1>2. CASE WriteGone  BY <1>2 DEF WriteGone, Crash, Finish
<1>3. CASE CloseGone  BY <1>3 DEF CloseGone, Finish
<1>4. QED  BY <1>1, <1>2, <1>3 DEF Goes

LEMMA ClientsFrame ==
  ASSUME IInv, Clients
  PROVE  /\ UNCHANGED <<taken, echo, serverVars>>
         /\ \A d \in Conns :
              /\ conn'[d] = conn[d] \/ (conn[d] = "new" /\ conn'[d] = "pending")
              /\ sent[d] <= sent'[d]
              /\ rst[d] => rst'[d]
              /\ fin[d] => fin'[d] /\ sent'[d] = sent[d]
<1>1. PICK c \in Conns : Client(c) /\ UNCHANGED serverVars  BY DEF Clients, ClientStep
<1>2. TypeOK  BY DEF IInv
<1>3. UNCHANGED <<taken, echo>>
  BY <1>1 DEF Client, Connect, ClientSend, ClientRead, ClientShutdown, ClientReset
<1>4. ASSUME NEW d \in Conns
      PROVE  /\ conn'[d] = conn[d] \/ (conn[d] = "new" /\ conn'[d] = "pending")
             /\ sent[d] <= sent'[d]
             /\ rst[d] => rst'[d]
             /\ fin[d] => fin'[d] /\ sent'[d] = sent[d]
  <2>1. sent[d] \in Nat  BY <1>2, NetFacts
  <2>2. CASE ClientSend(c)
    <3>1. sent' = [sent EXCEPT ![c] = @ + 1] /\ sent \in [Conns -> Nat] /\ ~fin[c]
          /\ UNCHANGED <<conn, rst, fin>>
      BY <1>2, <2>2 DEF ClientSend, TypeOK, NetTypeOK
    <3>2. CASE d = c
      <4>1. sent'[d] = sent[d] + 1  BY <3>1, <3>2
      <4>2. QED  BY <2>1, <3>1, <3>2, <4>1
    <3>3. CASE d # c  BY <2>1, <3>1, <3>3
    <3>4. QED  BY <3>2, <3>3
  <2>3. CASE ClientShutdown(c)
    BY <1>2, <2>1, <2>3 DEF ClientShutdown, TypeOK, NetTypeOK
  <2>4. CASE ClientReset(c)
    BY <1>2, <2>1, <2>4 DEF ClientReset, TypeOK, NetTypeOK
  <2>5. CASE Connect(c) \/ ClientRead(c)
    <3>1. /\ sent' = sent /\ rst' = rst /\ fin' = fin
          /\ conn' = conn \/ (conn[c] = "new" /\ conn' = [conn EXCEPT ![c] = "pending"])
      <4>1. CASE Connect(c)  BY <4>1 DEF Connect
      <4>2. CASE ClientRead(c)  BY <4>2 DEF ClientRead
      <4>3. QED  BY <2>5, <4>1, <4>2
    <3>2. conn \in [Conns -> {"new", "pending", "open", "closed"}]
      BY <1>2 DEF TypeOK, NetTypeOK
    <3>3. conn'[d] = conn[d] \/ (conn[d] = "new" /\ conn'[d] = "pending")
      BY <3>1, <3>2
    <3>4. sent[d] <= sent'[d]  BY <2>1, <3>1
    <3>5. QED  BY <3>1, <3>3, <3>4
  <2>6. QED  BY <1>1, <2>2, <2>3, <2>4, <2>5 DEF Client
<1>5. QED  BY <1>1, <1>3, <1>4

LEMMA NextHandlingFacts ==
  ASSUME TypeOK, NextHandling
  PROVE  /\ handling' \in Message \cup {NoMessage}
         /\ handling' # NoMessage =>
              /\ IsHandled /\ handling.event = "READ" /\ handling'.event = "WRITE"
              /\ handling'.of = handling.of /\ handling'.sock = handling.sock
<1>1. CASE handling' = NoMessage  BY <1>1
<1>2. CASE handling.event = "READ" /\ handling' = [handling EXCEPT !.event = "WRITE"]
  <2>1. IsHandled /\ handling \in Message  BY <1>2, HandlingFacts DEF Events
  <2>2. handling' \in Message  BY <1>2, <2>1 DEF Message, Events
  <2>3. /\ handling'.event = "WRITE" /\ handling'.of = handling.of
        /\ handling'.sock = handling.sock
    BY <1>2, <2>1 DEF Message
  <2>4. QED  BY <1>2, <2>1, <2>2, <2>3
<1>3. QED  BY <1>1, <1>2 DEF NextHandling

LEMMA MsgFacts ==
  ASSUME IInv, NEW c \in Conns, conn[c] = "open", NEW e \in Events
  PROVE  /\ Msg(c, e) \in Message /\ Msg(c, e).of = c
         /\ Msg(c, e).sock = socket[c] /\ Msg(c, e).event = e
<1>1. socket[c] \in Sockets
  <2>1. socket[c] \in Sockets \cup {NoSocket}  BY NetFacts DEF IInv
  <2>2. socket[c] # NoSocket  BY DEF IInv, SocketsOK
  <2>3. QED  BY <2>1, <2>2
<1>2. QED  BY <1>1 DEF Msg, Message

-----------------------------------------------------------------------------
(* Type correctness. *)

LEMMA TypeInit == Init => TypeOK
<1> SUFFICES ASSUME Init  PROVE TypeOK
  OBVIOUS
<1>1. NetTypeOK  BY DEF Init, NetInit, NetTypeOK
<1>2. queue \in Seq(Message) /\ handling \in Message \cup {NoMessage}  BY DEF Init
<1>3. /\ program \in Programs /\ crashed \in BOOLEAN
      /\ infos \in SUBSET Conns /\ socket \in [Conns -> Sockets \cup {NoSocket}]
      /\ enabled \in [Conns -> SUBSET Events] /\ acceptEnabled \in BOOLEAN
      /\ blocked \in SUBSET Conns /\ short \in SUBSET Conns /\ misled \in SUBSET Conns
  BY DEF Init
<1>4. /\ Buffer \in [Conns -> [1..DATA_BUFSIZE -> Nat]]
      /\ BytesRECV \in [Conns -> 0..DATA_BUFSIZE] /\ BytesSEND \in [Conns -> Nat]
      /\ \A c \in Conns : BytesSEND[c] <= BytesRECV[c]
      /\ RecvPosted \in [Conns -> BOOLEAN]
  BY DEF Init
<1>5. QED  BY <1>1, <1>2, <1>3, <1>4 DEF TypeOK

LEMMA TypeTakes == IInv /\ Takes => TypeOK'
<1> SUFFICES ASSUME IInv, Takes  PROVE TypeOK'
  OBVIOUS
<1> DEFINE h == Head(backlog)
<1>0. TypeOK /\ NetTypeOK  BY DEF IInv, TypeOK
<1>1. /\ h \in Conns /\ Tail(backlog) \in Seq(Conns) /\ backlog' = Tail(backlog)
      /\ handling' = NoMessage /\ acceptEnabled' = TRUE
      /\ UNCHANGED <<clientVars, taken, echo, program, crashed, queue, ioVars, history>>
  BY TakesFrame, HeadOfBacklog
<1>2. \/ TakeSocket(h) /\ (infos' = infos \cup {h} \/ infos' = infos)
      \/ /\ conn' = [conn EXCEPT ![h] = "closed"]
         /\ UNCHANGED <<infos, socket, enabled>>
  BY DEF Takes, Accept, CreateFails, AcceptFails
<1> HIDE DEF h
<1>3. /\ conn' \in [Conns -> {"new", "pending", "open", "closed"}]
      /\ socket' \in [Conns -> Sockets \cup {NoSocket}]
      /\ enabled' \in [Conns -> SUBSET Events] /\ infos' \in SUBSET Conns
  <2>1. CASE TakeSocket(h) /\ (infos' = infos \cup {h} \/ infos' = infos)
    <3>1. PICK s \in Sockets : /\ socket' = [socket EXCEPT ![h] = s]
                               /\ conn' = [conn EXCEPT ![h] = "open"]
                               /\ enabled' = [enabled EXCEPT ![h] = Events]
      BY <2>1 DEF TakeSocket
    <3>2. QED  BY <1>0, <1>1, <2>1, <3>1 DEF TypeOK, NetTypeOK
  <2>2. CASE /\ conn' = [conn EXCEPT ![h] = "closed"]
             /\ UNCHANGED <<infos, socket, enabled>>
    BY <1>0, <1>1, <2>2 DEF TypeOK, NetTypeOK
  <2>3. QED  BY <1>2, <2>1, <2>2
<1>4. NetTypeOK'  BY <1>0, <1>1, <1>3 DEF NetTypeOK, clientVars
<1>5. QED  BY <1>0, <1>1, <1>3, <1>4 DEF TypeOK, ioVars, history

LEMMA TypeFrees ==
  ASSUME IInv, NEW c \in Conns, Frees(c)
  PROVE  TypeOK'
<1>0. TypeOK /\ NetTypeOK  BY DEF IInv, TypeOK
<1>1. FreeSocketInformation(c) /\ NextHandling /\ crashed' = crashed  BY FreesFrame
<1>2. handling' \in Message \cup {NoMessage}  BY <1>0, <1>1, NextHandlingFacts
<1>3. /\ conn' \in [Conns -> {"new", "pending", "open", "closed"}]
      /\ socket' \in [Conns -> Sockets \cup {NoSocket}]
      /\ enabled' \in [Conns -> SUBSET Events] /\ infos' \in SUBSET Conns
  BY <1>0, <1>1 DEF TypeOK, NetTypeOK, FreeSocketInformation
<1>4. NetTypeOK'  BY <1>0, <1>1, <1>3 DEF NetTypeOK, clientVars, FreeSocketInformation
<1>5. UNCHANGED <<program, queue, acceptEnabled, ioVars, history>>
  BY <1>1 DEF FreeSocketInformation
<1>6. QED  BY <1>0, <1>1, <1>2, <1>3, <1>4, <1>5 DEF TypeOK, ioVars, history

LEMMA TypeDispatch == IInv /\ Dispatch => TypeOK'
<1> SUFFICES ASSUME IInv, Dispatch  PROVE TypeOK'
  OBVIOUS
<1>0. TypeOK /\ NetTypeOK /\ queue \in Seq(Message)  BY DEF IInv, TypeOK
<1>1. /\ queue # <<>> /\ handling' = Head(queue) /\ queue' = Tail(queue)
      /\ UNCHANGED <<netVars, program, crashed, listVars, enabled, acceptEnabled, blocked, short>>
      /\ misled' \subseteq misled \cup Conns
  BY DEF Dispatch
<1>2. Head(queue) \in Message /\ Tail(queue) \in Seq(Message)  BY <1>0, <1>1
<1>3. NetTypeOK'  BY <1>0, <1>1 DEF NetTypeOK, netVars
<1>4. QED  BY <1>0, <1>1, <1>2, <1>3 DEF TypeOK, listVars, ioVars

LEMMA TypePosts == IInv /\ Posts => TypeOK'
<1> SUFFICES ASSUME IInv, Posts  PROVE TypeOK'
  OBVIOUS
<1>0. TypeOK /\ NetTypeOK /\ queue \in Seq(Message)  BY DEF IInv, TypeOK
<1>1. UNCHANGED <<netVars, program, handling, crashed, listVars, history>>
  BY DEF Posts, PostAccept, Post
<1>2. queue' \in Seq(Message) /\ enabled' \in [Conns -> SUBSET Events] /\ acceptEnabled' \in BOOLEAN
  <2>1. CASE PostAccept
    <3>1. [sock |-> Listen, event |-> "ACCEPT", of |-> Listen] \in Message  BY DEF Message
    <3>2. Append(queue, [sock |-> Listen, event |-> "ACCEPT", of |-> Listen]) \in Seq(Message)
      BY <1>0, <3>1
    <3>3. QED  BY <1>0, <2>1, <3>2 DEF PostAccept, TypeOK
  <2>2. ASSUME NEW c \in Conns, NEW e \in Events, Post(c, e)
        PROVE  /\ queue' \in Seq(Message) /\ enabled' \in [Conns -> SUBSET Events]
               /\ acceptEnabled' \in BOOLEAN
    <3>1. /\ conn[c] = "open" /\ queue' = Append(queue, Msg(c, e))
          /\ enabled' = [enabled EXCEPT ![c] = @ \ SpentWith(e)]
          /\ acceptEnabled' = acceptEnabled
      BY <2>2 DEF Post
    <3>2. Msg(c, e) \in Message  BY <3>1, MsgFacts
    <3>3. queue' \in Seq(Message)  BY <1>0, <3>1, <3>2
    <3>4. QED  BY <1>0, <3>1, <3>3 DEF TypeOK
  <2>3. QED  BY <2>1, <2>2 DEF Posts
<1>3. NetTypeOK'  BY <1>0, <1>1 DEF NetTypeOK, netVars
<1>4. QED  BY <1>0, <1>1, <1>2, <1>3 DEF TypeOK, listVars, ioVars, history

LEMMA TypeClients == IInv /\ Clients => TypeOK'
<1> SUFFICES ASSUME IInv, Clients  PROVE TypeOK'
  OBVIOUS
<1>0. TypeOK /\ NetTypeOK  BY DEF IInv, TypeOK
<1>1. PICK c \in Conns : Client(c) /\ UNCHANGED serverVars  BY DEF Clients, ClientStep
<1>2. NetTypeOK'
  <2> USE DEF NetTypeOK
  <2>1. CASE Connect(c)  BY <1>0, <2>1 DEF Connect
  <2>2. CASE ClientSend(c)  BY <1>0, <2>2 DEF ClientSend
  <2>3. CASE ClientRead(c)
    <3>1. got' = [got EXCEPT ![c] = @ + 1] /\ got \in [Conns -> Nat]
      BY <1>0, <2>3 DEF ClientRead
    <3>2. got' \in [Conns -> Nat]  BY <3>1
    <3>3. QED  BY <1>0, <2>3, <3>2 DEF ClientRead
  <2>4. CASE ClientShutdown(c)  BY <1>0, <2>4 DEF ClientShutdown
  <2>5. CASE ClientReset(c)  BY <1>0, <2>5 DEF ClientReset
  <2>6. QED  BY <1>1, <2>1, <2>2, <2>3, <2>4, <2>5 DEF Client
<1>3. QED
  BY <1>0, <1>1, <1>2 DEF TypeOK, serverVars, listVars, stackVars, ioVars, history

\* What the last kinds of step do to a connection's block.
LEMMA RecvFrame ==
  ASSUME IInv, NEW c \in Conns, NEW n \in 1..DATA_BUFSIZE, Recv(c, n)
  PROVE  /\ BytesRECV[c] = 0 /\ BytesSEND[c] = 0
         /\ handling.event = "READ" /\ Finds(c) /\ n <= Avail(c) /\ ~rst[c]
         /\ Buffer' = [Buffer EXCEPT ![c] = Overwrite(@, Incoming(c, n))]
         /\ BytesRECV' = [BytesRECV EXCEPT ![c] = n]
         /\ taken' = [taken EXCEPT ![c] = @ + n]
         /\ enabled' = [enabled EXCEPT ![c] = @ \cup {"READ"}]
         /\ handling' = [handling EXCEPT !.event = "WRITE"]
         /\ UNCHANGED <<clientVars, conn, backlog, echo, program, crashed, infos, socket,
                        BytesSEND, RecvPosted, queue, acceptEnabled, history>>
<1>1. BytesRECV[c] = 0  BY DEF Recv, Empty
<1>2. BytesSEND[c] = 0
  <2>1. BytesSEND[c] \in Nat /\ BytesSEND[c] <= BytesRECV[c]  BY NetFacts DEF IInv
  <2>2. QED  BY <1>1, <2>1
<1>3. n <= Avail(c) /\ ~rst[c]  BY DEF Recv, CanRecv
<1>4. QED  BY <1>1, <1>2, <1>3 DEF Recv, Received, GoOnTo

\* A send empties the buffer, or takes the bytes it took off it.
LEMMA SendFrame ==
  ASSUME IInv, NEW c \in Conns, NEW n \in 1..DATA_BUFSIZE, Send(c, n)
  PROVE  /\ n <= BytesRECV[c] - BytesSEND[c] /\ Writing(c) /\ ~rst[c]
         /\ echo' = [echo EXCEPT ![c] = @ \o Unsent(c, n)]
         /\ \/ /\ ~IsRock /\ BytesSEND[c] + n = BytesRECV[c]
               /\ BytesRECV' = [BytesRECV EXCEPT ![c] = 0]
               /\ BytesSEND' = [BytesSEND EXCEPT ![c] = 0]
               /\ PostReadAgain(c) /\ short' = short
            \/ /\ IsRock \/ BytesSEND[c] + n # BytesRECV[c]
               /\ BytesSEND' = [BytesSEND EXCEPT ![c] = @ + n]
               /\ UNCHANGED <<BytesRECV, queue, RecvPosted>>
               /\ BytesSEND[c] + n = BytesRECV[c] \/ short' = short \cup {c}
         /\ short' = short \/ short' = short \cup {c}
         /\ handling' = NoMessage
         /\ UNCHANGED <<clientVars, conn, backlog, taken, program, crashed, infos, socket, Buffer,
                        enabled, acceptEnabled, blocked, misled>>
<1>1. BytesRECV[c] \in Nat /\ BytesSEND[c] \in Nat  BY NetFacts DEF IInv
<1>2. n <= BytesRECV[c] - BytesSEND[c] /\ Writing(c) /\ ~rst[c]  BY <1>1 DEF Send, CanSend
<1>3. CASE BytesSEND[c] + n = BytesRECV[c] /\ ~IsRock
  BY <1>2, <1>3 DEF Send, ResetCounts, Finish
<1>4. CASE ~(BytesSEND[c] + n = BytesRECV[c] /\ ~IsRock)
  BY <1>2, <1>4 DEF Send, Finish
<1>5. QED  BY <1>3, <1>4

LEMMA TypeRecv ==
  ASSUME IInv, NEW c \in Conns, NEW n \in 1..DATA_BUFSIZE, Recv(c, n)
  PROVE  TypeOK'
<1>0. TypeOK /\ NetTypeOK  BY DEF IInv, TypeOK
<1>1. /\ Buffer' = [Buffer EXCEPT ![c] = Overwrite(@, Incoming(c, n))]
      /\ BytesRECV' = [BytesRECV EXCEPT ![c] = n]
      /\ taken' = [taken EXCEPT ![c] = @ + n]
      /\ enabled' = [enabled EXCEPT ![c] = @ \cup {"READ"}]
      /\ BytesSEND[c] = 0
      /\ UNCHANGED <<clientVars, conn, backlog, echo, program, crashed, infos, socket,
                     BytesSEND, RecvPosted, queue, acceptEnabled, history>>
  BY RecvFrame
<1>2. Buffer' \in [Conns -> [1..DATA_BUFSIZE -> Nat]]
  <2>1. Incoming(c, n) \in [1..n -> Nat] /\ Len(Incoming(c, n)) = n
    BY <1>0 DEF Incoming, NetTypeOK
  <2>2. Len(Buffer[c]) = DATA_BUFSIZE  BY <1>0 DEF TypeOK
  <2>3. Overwrite(Buffer[c], Incoming(c, n)) \in [1..DATA_BUFSIZE -> Nat]
    BY <1>0, <2>1, <2>2 DEF Overwrite, TypeOK
  <2>4. QED  BY <1>0, <1>1, <2>3 DEF TypeOK
<1>3. BytesRECV' \in [Conns -> 0..DATA_BUFSIZE]  BY <1>0, <1>1 DEF TypeOK
<1>4. taken' \in [Conns -> Nat]  BY <1>0, <1>1 DEF NetTypeOK
<1>5. enabled' \in [Conns -> SUBSET Events]  BY <1>0, <1>1 DEF TypeOK, Events
<1>6. NetTypeOK'  BY <1>0, <1>1, <1>4 DEF NetTypeOK, clientVars
<1>7. handling' \in Message \cup {NoMessage}
  BY <1>0, WorksFrame, NextHandlingFacts DEF Works
<1>8. \A d \in Conns : BytesSEND'[d] <= BytesRECV'[d]
  <2>1. \A d \in Conns : BytesRECV'[d] = IF d = c THEN n ELSE BytesRECV[d]
    BY <1>0, <1>1 DEF TypeOK
  <2>2. \A d \in Conns : BytesSEND[d] <= BytesRECV[d]  BY <1>0 DEF TypeOK
  <2>3. QED  BY <1>1, <2>1, <2>2
<1>9. QED  BY <1>0, <1>1, <1>2, <1>3, <1>5, <1>6, <1>7, <1>8 DEF TypeOK, history

\* A read that was put off is posted again, or there was none.
LEMMA PostReadFacts ==
  ASSUME IInv, NEW c \in Conns, Finds(c), PostReadAgain(c)
  PROVE  /\ queue' \in Seq(Message)
         /\ RecvPosted' = [RecvPosted EXCEPT ![c] = FALSE]
         /\ RecvPosted' \in [Conns -> BOOLEAN] /\ ~RecvPosted'[c]
         /\ RecvPosted[c] => queue' = Append(queue, Msg(c, "READ"))
         /\ ~RecvPosted[c] => queue' = queue
<1>1. RecvPosted \in [Conns -> BOOLEAN] /\ queue \in Seq(Message)  BY DEF IInv, TypeOK
<1>2. Msg(c, "READ") \in Message  BY FindsFacts, MsgFacts DEF Events
<1>3. Append(queue, Msg(c, "READ")) \in Seq(Message)  BY <1>1, <1>2
<1>4. QED  BY <1>1, <1>3 DEF PostReadAgain

LEMMA TypeSend ==
  ASSUME IInv, NEW c \in Conns, NEW n \in 1..DATA_BUFSIZE, Send(c, n)
  PROVE  TypeOK'
<1>0. TypeOK /\ NetTypeOK /\ Finds(c)  BY SendFrame DEF IInv, TypeOK, Writing
<1>1. /\ n <= BytesRECV[c] - BytesSEND[c]
      /\ echo' = [echo EXCEPT ![c] = @ \o Unsent(c, n)]
      /\ short' = short \/ short' = short \cup {c}
      /\ handling' = NoMessage
      /\ UNCHANGED <<clientVars, conn, backlog, taken, program, crashed, infos, socket, Buffer,
                     enabled, acceptEnabled, blocked, misled>>
  BY SendFrame
<1>3. /\ BytesRECV[c] \in Nat /\ BytesRECV[c] <= DATA_BUFSIZE /\ BytesSEND[c] \in Nat
      /\ Buffer[c] \in [1..DATA_BUFSIZE -> Nat] /\ echo[c] \in Seq(Nat)
  BY <1>0, NetFacts
<1>4. Unsent(c, n) \in Seq(Nat)
  <2>0. BytesRECV[c] \in Nat /\ BytesSEND[c] \in Nat /\ DATA_BUFSIZE \in Nat  BY <1>3
  <2>1. \A k \in 1..n : BytesSEND[c] + k \in 1..DATA_BUFSIZE
    <3>1. n <= BytesRECV[c] - BytesSEND[c] /\ BytesRECV[c] <= DATA_BUFSIZE  BY <1>1, <1>3
    <3>2. QED  BY <2>0, <3>1
  <2>2. \A k \in 1..n : Buffer[c][BytesSEND[c] + k] \in Nat  BY <1>3, <2>1
  <2>3. Unsent(c, n) \in [1..n -> Nat]  BY <2>2 DEF Unsent
  <2>4. QED  BY <2>3
<1>5. echo' \in [Conns -> Seq(Nat)]
  <2>1. echo[c] \o Unsent(c, n) \in Seq(Nat)  BY <1>3, <1>4
  <2>2. QED  BY <1>0, <1>1, <2>1 DEF NetTypeOK
<1>6. /\ BytesSEND' \in [Conns -> Nat] /\ BytesRECV' \in [Conns -> 0..DATA_BUFSIZE]
      /\ queue' \in Seq(Message) /\ RecvPosted' \in [Conns -> BOOLEAN]
      /\ \A d \in Conns : BytesSEND'[d] <= BytesRECV'[d]
  <2>1. CASE /\ BytesRECV' = [BytesRECV EXCEPT ![c] = 0]
             /\ BytesSEND' = [BytesSEND EXCEPT ![c] = 0]
             /\ PostReadAgain(c)
    <3>1. queue' \in Seq(Message) /\ RecvPosted' \in [Conns -> BOOLEAN]
      BY <1>0, <2>1, PostReadFacts
    <3>2. BytesSEND' \in [Conns -> Nat] /\ BytesRECV' \in [Conns -> 0..DATA_BUFSIZE]
      BY <1>0, <2>1 DEF TypeOK
    <3>3. \A d \in Conns : BytesSEND'[d] <= BytesRECV'[d]  BY <1>0, <2>1 DEF TypeOK
    <3>4. QED  BY <3>1, <3>2, <3>3
  <2>2. CASE /\ BytesSEND' = [BytesSEND EXCEPT ![c] = @ + n]
             /\ UNCHANGED <<BytesRECV, queue, RecvPosted>>
    <3>1. BytesSEND[c] + n \in Nat /\ BytesSEND[c] + n <= BytesRECV[c]  BY <1>1, <1>3
    <3>2. BytesSEND' \in [Conns -> Nat]  BY <1>0, <2>2, <3>1 DEF TypeOK
    <3>3. \A d \in Conns : BytesSEND'[d] = IF d = c THEN BytesSEND[c] + n ELSE BytesSEND[d]
      BY <1>0, <2>2 DEF TypeOK
    <3>4. QED  BY <1>0, <2>2, <3>1, <3>2, <3>3 DEF TypeOK
  <2>3. QED  BY <2>1, <2>2, SendFrame
<1>7. short' \subseteq Conns  BY <1>0, <1>1 DEF TypeOK
<1>8. NetTypeOK'  BY <1>0, <1>1, <1>5 DEF NetTypeOK, clientVars
<1>9. QED  BY <1>0, <1>1, <1>6, <1>7, <1>8 DEF TypeOK

LEMMA TypeWorks ==
  ASSUME IInv, NEW c \in Conns, Works(c)
  PROVE  TypeOK'
<1>0. TypeOK /\ NetTypeOK /\ Finds(c) /\ handling' \in Message \cup {NoMessage}
  BY WorksFrame, NextHandlingFacts DEF IInv, TypeOK
<1>1. CASE PutOff(c)
  <2>1. RecvPosted' \in [Conns -> BOOLEAN]  BY <1>0, <1>1 DEF PutOff, TypeOK
  <2>2. UNCHANGED <<netVars, program, crashed, infos, socket, Buffer, BytesRECV, BytesSEND,
                    stackVars, history>>
    BY <1>1 DEF PutOff
  <2>3. NetTypeOK'  BY <1>0, <2>2 DEF NetTypeOK, netVars
  <2>4. QED  BY <1>0, <2>1, <2>2, <2>3 DEF TypeOK, stackVars, history
<1>2. CASE RecvNothing(c) \/ SendBlocks(c)
  <2>1. enabled' = [enabled EXCEPT ![c] = @ \cup {"READ"}]
          \/ enabled' = [enabled EXCEPT ![c] = @ \cup {"WRITE"}]
    BY <1>2 DEF RecvNothing, SendBlocks, Received
  <2>2. enabled' \in [Conns -> SUBSET Events]
    <3>1. enabled \in [Conns -> SUBSET Events] /\ {"READ"} \subseteq Events /\ {"WRITE"} \subseteq Events
      BY <1>0 DEF TypeOK, Events
    <3>2. QED  BY <2>1, <3>1
  <2>3. /\ UNCHANGED <<netVars, program, crashed, listVars, queue, acceptEnabled, short, misled>>
        /\ blocked' = blocked \/ blocked' = blocked \cup {c}
    BY <1>2 DEF RecvNothing, SendBlocks, history
  <2>4. NetTypeOK'  BY <1>0, <2>3 DEF NetTypeOK, netVars
  <2>5. blocked' \subseteq Conns  BY <1>0, <2>3 DEF TypeOK
  <2>6. QED  BY <1>0, <2>2, <2>3, <2>4, <2>5 DEF TypeOK, listVars, ioVars
<1>3. CASE NothingToSend(c)
  <2>1. /\ ResetCounts(c) /\ PostReadAgain(c)
        /\ UNCHANGED <<netVars, program, crashed, infos, socket, Buffer, enabled,
                       acceptEnabled, history>>
    BY <1>3 DEF NothingToSend
  <2>2. queue' \in Seq(Message) /\ RecvPosted' \in [Conns -> BOOLEAN]
    BY <1>0, <2>1, PostReadFacts
  <2>3. /\ BytesRECV' \in [Conns -> 0..DATA_BUFSIZE] /\ BytesSEND' \in [Conns -> Nat]
        /\ \A d \in Conns : BytesSEND'[d] <= BytesRECV'[d]
    BY <1>0, <2>1 DEF TypeOK, ResetCounts
  <2>4. NetTypeOK'  BY <1>0, <2>1 DEF NetTypeOK, netVars
  <2>5. QED  BY <1>0, <2>1, <2>2, <2>3, <2>4 DEF TypeOK, history
<1>4. QED  BY <1>1, <1>2, <1>3, TypeRecv, TypeSend DEF Works

LEMMA TypeStep == IInv /\ [Next]_vars => TypeOK'
<1> SUFFICES ASSUME IInv, Goes \/ UNCHANGED vars  PROVE TypeOK'
  BY StepCases, TypeTakes, TypeDispatch, TypePosts, TypeClients, TypeWorks, TypeFrees
<1>0. TypeOK /\ NetTypeOK  BY DEF IInv, TypeOK
<1>1. UNCHANGED <<netVars, program, listVars, stackVars, history>>
  BY GoesFrame DEF vars, serverVars
<1>2. handling' \in Message \cup {NoMessage} /\ crashed' \in BOOLEAN
  <2>1. CASE Goes
    <3>1. crashed' = crashed \/ crashed' = TRUE
      BY <2>1 DEF Goes, ReadGone, WriteGone, CloseGone, Crash
    <3>2. QED  BY <1>0, <2>1, <3>1, GoesFrame DEF TypeOK
  <2>2. CASE UNCHANGED vars  BY <1>0, <2>2 DEF vars, serverVars, TypeOK
  <2>3. QED  BY <2>1, <2>2
<1>3. NetTypeOK'  BY <1>0, <1>1 DEF NetTypeOK, netVars
<1>4. QED  BY <1>0, <1>1, <1>2, <1>3 DEF TypeOK, listVars, stackVars, ioVars, history

-----------------------------------------------------------------------------
(* Connections, socket numbers and the backlog. *)

\* A connection's side of the server goes from new to closed, and its socket with it.
LEMMA ConnStep ==
  ASSUME IInv, [Next]_vars, NEW d \in Conns
  PROVE  \/ conn'[d] = conn[d] /\ socket'[d] = socket[d]
         \/ Clients /\ conn[d] = "new" /\ conn'[d] = "pending" /\ socket'[d] = socket[d]
         \/ /\ Takes /\ d = Head(backlog) /\ conn[d] = "pending" /\ conn'[d] = "open"
            /\ socket'[d] \in Sockets /\ \A c \in Conns : socket[c] # socket'[d]
            /\ enabled'[d] = Events
         \/ /\ Takes /\ d = Head(backlog) /\ conn[d] = "pending" /\ conn'[d] = "closed"
            /\ socket'[d] = socket[d] /\ rst[d]
         \/ Frees(d) /\ conn[d] = "open" /\ conn'[d] = "closed" /\ socket'[d] = NoSocket
<1>1. CASE UNCHANGED <<conn, socket>>  BY <1>1
<1>2. CASE Takes
  <2> DEFINE h == Head(backlog)
  <2>1. CASE d # h  BY <1>2, <2>1, TakesFrame DEF OthersSame
  <2>2. CASE d = h
    <3>1. CASE TakeSocket(h) /\ conn'[h] = "open"
      <4>1. socket \in [Conns -> Sockets \cup {NoSocket}] /\ conn[h] = "pending"
        BY <1>2, TakesFrame DEF IInv, TypeOK
      <4>2. PICK s \in Sockets : /\ \A c \in Conns : socket[c] # s
                                 /\ socket' = [socket EXCEPT ![h] = s]
        BY <3>1 DEF TakeSocket
      <4>3. enabled'[h] = Events
        <5>1. enabled' = [enabled EXCEPT ![h] = Events]  BY <3>1 DEF TakeSocket
        <5>2. enabled \in [Conns -> SUBSET Events]  BY DEF IInv, TypeOK
        <5> HIDE DEF h
        <5>3. QED  BY <2>2, <5>1, <5>2
      <4> HIDE DEF h
      <4>4. socket'[h] = s  BY <2>2, <4>1, <4>2
      <4>5. QED  BY <1>2, <2>2, <3>1, <4>1, <4>2, <4>3, <4>4 DEF h
    <3>2. CASE rst[h] /\ conn'[h] = "closed" /\ UNCHANGED <<infos, socket, enabled>>
      BY <1>2, <2>2, <3>2, TakesFrame
    <3>3. QED  BY <1>2, <3>1, <3>2, TakesFrame
  <2>3. QED  BY <2>1, <2>2
<1>3. ASSUME NEW c \in Conns, Frees(c)
      PROVE  \/ conn'[d] = conn[d] /\ socket'[d] = socket[d]
             \/ Frees(d) /\ conn[d] = "open" /\ conn'[d] = "closed" /\ socket'[d] = NoSocket
  BY <1>3, FreesFrame DEF OthersSame
<1>4. CASE Clients
  <2>1. socket' = socket  BY <1>4, ClientsFrame DEF serverVars, listVars
  <2>2. QED  BY <1>4, <2>1, ClientsFrame
<1>5. ASSUME NEW c \in Conns, Works(c)  PROVE UNCHANGED <<conn, socket>>
  BY <1>5, WorksFrame
<1>6. Goes \/ Dispatch \/ Posts \/ UNCHANGED vars => UNCHANGED <<conn, socket>>
  BY GoesFrame DEF Dispatch, Posts, PostAccept, Post, vars, netVars, serverVars, listVars
<1>7. QED  BY <1>1, <1>2, <1>3, <1>4, <1>5, <1>6, StepCases

\* Only clients send, shut down and reset, each once and for all.
LEMMA ClientSide ==
  ASSUME IInv, [Next]_vars, NEW d \in Conns
  PROVE  /\ sent[d] <= sent'[d]
         /\ rst[d] => rst'[d]
         /\ fin[d] => fin'[d] /\ sent'[d] = sent[d]
<1>1. CASE UNCHANGED clientVars
  <2>1. sent[d] \in Nat  BY NetFacts DEF IInv
  <2>2. sent' = sent /\ rst' = rst /\ fin' = fin  BY <1>1 DEF clientVars
  <2>3. QED  BY <2>1, <2>2
<1>2. CASE Clients  BY <1>2, ClientsFrame
<1>3. UNCHANGED clientVars \/ Clients
  <2>1. ASSUME NEW c \in Conns, Works(c) \/ Frees(c)  PROVE UNCHANGED clientVars
    BY <2>1, WorksFrame, FreesFrame DEF FreeSocketInformation
  <2>2. Takes \/ Goes => UNCHANGED clientVars  BY TakesFrame, GoesFrame DEF netVars, clientVars
  <2>3. Dispatch \/ Posts \/ UNCHANGED vars => UNCHANGED clientVars
    BY DEF Dispatch, Posts, PostAccept, Post, vars, netVars, clientVars
  <2>4. QED  BY <2>1, <2>2, <2>3, StepCases
<1>4. QED  BY <1>1, <1>2, <1>3

LEMMA BacklogStep == IInv /\ [Next]_vars => BacklogOK'
<1> SUFFICES ASSUME IInv, [Next]_vars  PROVE BacklogOK'
  OBVIOUS
<1>0. /\ backlog \in Seq(Conns) /\ Len(backlog) \in Nat /\ BacklogOK
      /\ conn \in [Conns -> {"new", "pending", "open", "closed"}]
  BY DEF IInv, TypeOK, NetTypeOK
<1>1. CASE UNCHANGED <<conn, backlog>>  BY <1>0, <1>1 DEF BacklogOK
<1>2. CASE Takes
  <2>1. /\ backlog # <<>> /\ backlog' = Tail(backlog)
        /\ \A c \in Conns : c # Head(backlog) => conn'[c] = conn[c]
    BY <1>2, TakesFrame DEF OthersSame
  <2>2. /\ Len(backlog') = Len(backlog) - 1
        /\ \A k \in 1..Len(backlog') :
             /\ backlog'[k] = backlog[k + 1] /\ k + 1 \in 1..Len(backlog)
             /\ backlog'[k] \in Conns /\ backlog'[k] # Head(backlog)
    BY <2>1, HeadOfBacklog
  <2>3. QED  BY <1>0, <2>1, <2>2 DEF BacklogOK
<1>3. ASSUME NEW c \in Conns, Frees(c)  PROVE BacklogOK'
  <2>1. /\ conn[c] = "open" /\ UNCHANGED backlog
        /\ \A d \in Conns : d # c => conn'[d] = conn[d]
    BY <1>3, FreesFrame DEF OthersSame, FreeSocketInformation
  <2>2. QED  BY <1>0, <2>1 DEF BacklogOK
<1>4. CASE Clients
  <2>1. PICK c \in Conns : Client(c)  BY <1>4 DEF Clients, ClientStep
  <2>2. CASE Connect(c)
    <3>1. /\ conn[c] = "new" /\ conn' = [conn EXCEPT ![c] = "pending"]
          /\ backlog' = Append(backlog, c)
      BY <2>2 DEF Connect
    <3>2. \A k \in 1..Len(backlog) : backlog[k] # c /\ backlog[k] \in Conns
      BY <1>0, <3>1 DEF BacklogOK
    <3>3. /\ Len(backlog') = Len(backlog) + 1
          /\ backlog'[Len(backlog) + 1] = c
          /\ \A k \in 1..Len(backlog) : backlog'[k] = backlog[k]
      BY <1>0, <3>1
    <3>4. QED  BY <1>0, <3>1, <3>2, <3>3 DEF BacklogOK
  <2>3. CASE ~Connect(c)
    <3>1. UNCHANGED <<conn, backlog>>
      BY <2>1, <2>3 DEF Client, ClientSend, ClientRead, ClientShutdown, ClientReset
    <3>2. QED  BY <1>1, <3>1
  <2>4. QED  BY <2>2, <2>3
<1>5. ASSUME NEW c \in Conns, Works(c)  PROVE BacklogOK'  BY <1>1, <1>5, WorksFrame
<1>6. Goes \/ Dispatch \/ Posts \/ UNCHANGED vars => UNCHANGED <<conn, backlog>>
  BY GoesFrame DEF Dispatch, Posts, PostAccept, Post, vars, netVars
<1>7. QED  BY <1>1, <1>2, <1>3, <1>4, <1>5, <1>6, StepCases

\* What is in the block of a connection that no read or write was handled for.
LEMMA BlockStep ==
  ASSUME IInv, [Next]_vars, NEW d \in Conns, ~Works(d)
  PROVE  /\ Buffer'[d] = Buffer[d] /\ BytesRECV'[d] = BytesRECV[d]
         /\ BytesSEND'[d] = BytesSEND[d] /\ RecvPosted'[d] = RecvPosted[d]
         /\ taken'[d] = taken[d] /\ echo'[d] = echo[d]
         /\ (d \in blocked' <=> d \in blocked) /\ (d \in short' <=> d \in short)
<1>1. ASSUME NEW c \in Conns, Works(c)  PROVE c # d  BY <1>1
<1>2. CASE UNCHANGED <<ioVars, taken, echo, blocked, short>>  BY <1>2 DEF ioVars
<1>3. ASSUME NEW c \in Conns, Frees(c)  PROVE UNCHANGED <<ioVars, taken, echo, blocked, short>>
  BY <1>3, FreesFrame DEF FreeSocketInformation, history
<1>4. Takes \/ Goes \/ Clients => UNCHANGED <<ioVars, taken, echo, blocked, short>>
  BY TakesFrame, GoesFrame, ClientsFrame DEF netVars, serverVars, listVars, history
<1>5. Dispatch \/ Posts \/ UNCHANGED vars => UNCHANGED <<ioVars, taken, echo, blocked, short>>
  BY DEF Dispatch, Posts, PostAccept, Post, vars, netVars, serverVars, listVars, history
<1>6. ASSUME NEW c \in Conns, Works(c), c # d
      PROVE  /\ Buffer'[d] = Buffer[d] /\ BytesRECV'[d] = BytesRECV[d]
             /\ BytesSEND'[d] = BytesSEND[d] /\ RecvPosted'[d] = RecvPosted[d]
             /\ taken'[d] = taken[d] /\ echo'[d] = echo[d]
             /\ (d \in blocked' <=> d \in blocked) /\ (d \in short' <=> d \in short)
  BY <1>6, WorksFrame
<1>7. QED  BY <1>1, <1>2, <1>3, <1>4, <1>5, <1>6, StepCases

\* Blocks come with an accept and go when their connection is freed.
LEMMA InfosStep ==
  ASSUME IInv, [Next]_vars, NEW d \in infos'
  PROVE  /\ d \in Conns
         /\ \/ d \in infos /\ ~Frees(d) /\ conn'[d] = conn[d]
            \/ d \notin infos /\ Takes /\ d = Head(backlog) /\ conn'[d] = "open"
<1>0. d \in Conns /\ infos \subseteq Conns  BY TypeStep DEF IInv, TypeOK
<1>1. CASE d \in infos
  <2>1. conn[d] = "open"  BY <1>1 DEF IInv, SocketsOK
  <2>2. ~Frees(d)  BY <1>0, FreesFrame
  <2>3. conn'[d] = conn[d]  BY <1>0, <2>1, <2>2, ConnStep
  <2>4. QED  BY <1>0, <1>1, <2>2, <2>3
<1>2. CASE d \notin infos
  <2>1. ASSUME NEW c \in Conns, Works(c) \/ Frees(c)  PROVE FALSE
    <3>1. infos' = infos \/ infos' = infos \ {c}
      BY <2>1, WorksFrame, FreesFrame DEF FreeSocketInformation
    <3>2. QED  BY <1>2, <3>1
  <2>2. Goes \/ Clients \/ Dispatch \/ Posts \/ UNCHANGED vars => infos' = infos
    BY GoesFrame, ClientsFrame
    DEF Dispatch, Posts, PostAccept, Post, vars, serverVars, listVars
  <2>3. Takes  BY <1>2, <2>1, <2>2, StepCases
  <2>4. d = Head(backlog) /\ Accept
    BY <1>0, <1>2, <2>3, TakesFrame DEF OthersSame, Takes, Accept, CreateFails, AcceptFails
  <2>5. conn'[d] = "open"
    <3>1. TakeSocket(Head(backlog)) /\ Head(backlog) \in Conns
      BY <2>3, <2>4, TakesFrame DEF Accept
    <3>2. conn' = [conn EXCEPT ![Head(backlog)] = "open"]  BY <3>1 DEF TakeSocket
    <3>3. QED  BY <2>4, <3>1, <3>2 DEF IInv, TypeOK, NetTypeOK
  <2>6. QED  BY <1>0, <1>2, <2>3, <2>4, <2>5
<1>3. QED  BY <1>1, <1>2

LEMMA SocketsStep == IInv /\ [Next]_vars => SocketsOK'
<1> SUFFICES ASSUME IInv, [Next]_vars  PROVE SocketsOK'
  OBVIOUS
<1>0. SocketsOK /\ TypeOK  BY DEF IInv
<1>1. ASSUME NEW c \in Conns  PROVE conn'[c] = "open" <=> socket'[c] # NoSocket
  BY <1>0, <1>1, ConnStep DEF SocketsOK
<1>2. ASSUME NEW c \in Conns, NEW d \in Conns, socket'[c] = socket'[d], socket'[c] # NoSocket
      PROVE  c = d
  <2>1. ASSUME NEW e \in Conns, socket'[e] # NoSocket
        PROVE  \/ socket'[e] = socket[e]
               \/ e = Head(backlog) /\ \A f \in Conns : socket[f] # socket'[e]
    BY <2>1, ConnStep
  <2>2. QED  BY <1>0, <1>2, <2>1 DEF SocketsOK
<1>3. ASSUME NEW c \in infos'  PROVE conn'[c] = "open"
  BY <1>0, <1>3, InfosStep DEF SocketsOK
<1>4. ASSUME NEW c \in Conns, conn'[c] \in {"new", "pending"}
      PROVE  ~RecvPosted'[c] /\ BytesRECV'[c] = 0
  <2>1. conn[c] \in {"new", "pending"}  BY <1>4, ConnStep
  <2>2. ~Works(c)  BY <2>1, WorksFrame, FindsFacts
  <2>3. QED  BY <1>0, <2>1, <2>2, BlockStep DEF SocketsOK
<1>5. QED  BY <1>1, <1>2, <1>3, <1>4 DEF SocketsOK

-----------------------------------------------------------------------------
(* The queue. *)

\* A write that finds its buffer empty posts the read that was put off.
Reposts(c) ==
  /\ Works(c) /\ handling.event = "WRITE" /\ handling' = NoMessage
  /\ RecvPosted[c] /\ ~RecvPosted'[c]
  /\ queue' = Append(queue, Msg(c, "READ")) /\ enabled' = enabled
  /\ BytesRECV'[c] = 0

LEMMA QueueStep ==
  ASSUME IInv, [Next]_vars
  PROVE  \/ Dispatch
         \/ PostAccept
         \/ \E c \in Conns, e \in Events : Post(c, e)
         \/ \E c \in Conns : Reposts(c)
         \/ queue' = queue /\ (NextHandling \/ handling' = handling)
<1>1. ASSUME NEW c \in Conns, Works(c)
      PROVE  Reposts(c) \/ (queue' = queue /\ NextHandling)
  <2>1. Finds(c) /\ NextHandling  BY <1>1, WorksFrame
  <2>2. ASSUME PostReadAgain(c), ResetCounts(c), enabled' = enabled,
               handling.event = "WRITE", handling' = NoMessage
        PROVE  Reposts(c) \/ (queue' = queue /\ NextHandling)
    <3>1. BytesRECV'[c] = 0  BY <2>2 DEF ResetCounts, IInv, TypeOK
    <3>2. /\ ~RecvPosted'[c]
          /\ RecvPosted[c] => queue' = Append(queue, Msg(c, "READ"))
          /\ ~RecvPosted[c] => queue' = queue
      BY <2>1, <2>2, PostReadFacts
    <3>3. QED  BY <1>1, <2>1, <2>2, <3>1, <3>2 DEF Reposts
  <2>3. CASE NothingToSend(c)
    <3>1. /\ PostReadAgain(c) /\ ResetCounts(c) /\ enabled' = enabled
          /\ handling.event = "WRITE" /\ handling' = NoMessage
      BY <2>3 DEF NothingToSend, Writing, Finish
    <3>2. QED  BY <2>2, <3>1
  <2>4. ASSUME NEW n \in 1..DATA_BUFSIZE, Send(c, n)
        PROVE  Reposts(c) \/ (queue' = queue /\ NextHandling)
    <3>1. handling.event = "WRITE" /\ handling' = NoMessage /\ enabled' = enabled
      BY <2>4, SendFrame DEF Writing
    <3>2. (PostReadAgain(c) /\ ResetCounts(c)) \/ queue' = queue
      BY <2>4, SendFrame DEF ResetCounts
    <3>3. QED  BY <2>1, <2>2, <3>1, <3>2
  <2>5. PutOff(c) \/ RecvNothing(c) \/ SendBlocks(c) => queue' = queue
    BY DEF PutOff, RecvNothing, SendBlocks, stackVars
  <2>6. (\E n \in 1..DATA_BUFSIZE : Recv(c, n)) => queue' = queue  BY DEF Recv
  <2>7. QED  BY <1>1, <2>1, <2>3, <2>4, <2>5, <2>6 DEF Works
<1>2. ASSUME NEW c \in Conns, Frees(c)  PROVE queue' = queue /\ NextHandling
  BY <1>2, FreesFrame DEF FreeSocketInformation
<1>3. Takes \/ Goes => queue' = queue /\ NextHandling
  BY TakesFrame, GoesFrame DEF NextHandling, stackVars
<1>4. Clients => queue' = queue /\ handling' = handling
  BY ClientsFrame DEF serverVars, stackVars
<1>5. UNCHANGED vars => queue' = queue /\ handling' = handling
  BY DEF vars, serverVars, stackVars
<1>6. QED  BY <1>1, <1>2, <1>3, <1>4, <1>5, StepCases DEF Posts

\* A step that puts a message of c at the end.
Adds(c, e) == conn[c] = "open" /\ queue' = Append(queue, Msg(c, e))

LEMMA PostFacts ==
  ASSUME IInv, NEW c \in Conns, NEW e \in Events, Post(c, e)
  PROVE  /\ Adds(c, e) /\ e \in enabled[c] /\ IsTheCase(c, e)
         /\ enabled'[c] = enabled[c] \ SpentWith(e)
         /\ \A d \in Conns : d # c => enabled'[d] = enabled[d]
         /\ UNCHANGED <<netVars, program, handling, crashed, listVars, acceptEnabled, history>>
<1>1. enabled \in [Conns -> SUBSET Events]  BY DEF IInv, TypeOK
<1>2. enabled' = [enabled EXCEPT ![c] = @ \ SpentWith(e)]  BY DEF Post
<1>3. enabled'[c] = enabled[c] \ SpentWith(e) /\ \A d \in Conns : d # c => enabled'[d] = enabled[d]
  BY <1>1, <1>2
<1>4. QED  BY <1>3 DEF Post, Adds

LEMMA RepostsFacts ==
  ASSUME IInv, NEW c \in Conns, Reposts(c)
  PROVE  Adds(c, "READ") /\ Finds(c) /\ UNCHANGED <<conn, socket, backlog, acceptEnabled>>
BY WorksFrame, FindsFacts DEF Reposts, Adds

\* A message's socket number stays right.
LEMMA MessageKept ==
  ASSUME IInv, [Next]_vars, NEW m \in Message, MessageOK(m)
  PROVE  MessageOK(m)'
<1>1. CASE m.of \notin Conns  BY <1>1 DEF MessageOK
<1>2. CASE m.of \in Conns
  <2>1. conn[m.of] \in {"open", "closed"} /\ (conn[m.of] = "open" => socket[m.of] = m.sock)
    BY <1>2 DEF MessageOK
  <2>2. conn'[m.of] \in {"open", "closed"} /\ (conn'[m.of] = "open" => socket'[m.of] = m.sock)
    BY <1>2, <2>1, ConnStep
  <2>3. QED  BY <1>2, <2>2 DEF MessageOK
<1>3. QED  BY <1>1, <1>2

LEMMA AppendQueue ==
  ASSUME queue \in Seq(Message), NEW m, queue' = Append(queue, m)
  PROVE  \A k \in 1..Len(queue') : (k \in 1..Len(queue) /\ queue'[k] = queue[k]) \/ queue'[k] = m
<1>1. /\ Len(queue') = Len(queue) + 1 /\ Len(queue) \in Nat
      /\ queue'[Len(queue) + 1] = m
      /\ \A k \in 1..Len(queue) : queue'[k] = queue[k]
  OBVIOUS
<1>2. \A k \in 1..Len(queue') : k \in 1..Len(queue) \/ k = Len(queue) + 1  BY <1>1
<1>3. QED  BY <1>1, <1>2

LEMMA HeadOfQueue ==
  ASSUME IInv, Dispatch
  PROVE  /\ queue \in Seq(Message) /\ queue # <<>> /\ queue' = Tail(queue)
         /\ handling = NoMessage /\ handling' = Head(queue) /\ handling' # NoMessage
         /\ Head(queue) \in Message /\ Head(queue) = queue[1] /\ 1 \in 1..Len(queue)
         /\ \A k \in 1..Len(queue') : k + 1 \in 1..Len(queue) /\ queue'[k] = queue[k + 1]
<1>1. /\ queue \in Seq(Message) /\ queue # <<>> /\ queue' = Tail(queue)
      /\ handling = NoMessage /\ handling' = Head(queue)
  BY DEF IInv, TypeOK, Dispatch
<1>2. Head(queue) \in Message /\ Head(queue) = queue[1] /\ 1 \in 1..Len(queue)  BY <1>1
<1>3. \A k \in 1..Len(queue') : k + 1 \in 1..Len(queue) /\ queue'[k] = queue[k + 1]  BY <1>1
<1>4. handling' # NoMessage  BY <1>1, <1>2, MessageFacts
<1>5. QED  BY <1>1, <1>2, <1>3, <1>4

LEMMA MessagesStep == IInv /\ [Next]_vars => MessagesOK'
<1> SUFFICES ASSUME IInv, [Next]_vars  PROVE MessagesOK'
  OBVIOUS
<1>0. queue \in Seq(Message) /\ TypeOK /\ MessagesOK  BY DEF IInv, TypeOK
<1>1. \A k \in 1..Len(queue) : queue[k] \in Message /\ MessageOK(queue[k])
  BY <1>0 DEF MessagesOK
<1> DEFINE OK(m) ==
      /\ m.event = "ACCEPT" <=> m.of = Listen
      /\ m.event = "ACCEPT" <=> m.sock = Listen
      /\ m.of \in Conns =>
           /\ conn'[m.of] \in {"open", "closed"}
           /\ conn'[m.of] = "open" => socket'[m.of] = m.sock
<1>2. ASSUME NEW m \in Message, MessageOK(m)  PROVE OK(m)
  BY <1>2, MessageKept DEF MessageOK
<1>3. \A k \in 1..Len(queue) : OK(queue[k])  BY <1>1, <1>2
<1>4. IsHandled => OK(handling)  BY <1>0, <1>2, HandlingFacts DEF MessagesOK
<1> SUFFICES /\ \A k \in 1..Len(queue') : OK(queue'[k])
             /\ handling' # NoMessage => OK(handling')
  BY DEF MessagesOK, MessageOK, IsHandled
<1>5. CASE Dispatch
  <2>1. \A k \in 1..Len(queue') : OK(queue'[k])
    <3> HIDE DEF OK
    <3>1. QED  BY <1>3, <1>5, HeadOfQueue
  <2>2. OK(handling')
    <3> HIDE DEF OK
    <3>1. QED  BY <1>3, <1>5, HeadOfQueue
  <2>3. QED  BY <2>1, <2>2
<1>6. ASSUME handling' = handling \/ NextHandling
      PROVE  handling' # NoMessage => OK(handling')
  <2>1. CASE handling' = handling  BY <1>4, <2>1 DEF IsHandled
  <2>2. CASE NextHandling
    <3>1. ASSUME handling' # NoMessage  PROVE OK(handling')
      <4>1. /\ IsHandled /\ handling.event = "READ" /\ handling'.event = "WRITE"
            /\ handling'.of = handling.of /\ handling'.sock = handling.sock
        BY <1>0, <2>2, <3>1, NextHandlingFacts
      <4>2. QED  BY <1>4, <4>1
    <3>2. QED  BY <3>1
  <2>3. QED  BY <1>6, <2>1, <2>2
<1>7. ASSUME NEW m, OK(m), queue' = Append(queue, m)
      PROVE  \A k \in 1..Len(queue') : OK(queue'[k])
  <2> HIDE DEF OK
  <2>1. QED  BY <1>0, <1>3, <1>7, AppendQueue
<1>8. CASE PostAccept
  <2>1. /\ queue' = Append(queue, [sock |-> Listen, event |-> "ACCEPT", of |-> Listen])
        /\ handling' = handling
    BY <1>8 DEF PostAccept
  <2>2. OK([sock |-> Listen, event |-> "ACCEPT", of |-> Listen])  OBVIOUS
  <2> HIDE DEF OK
  <2>3. QED  BY <1>6, <1>7, <2>1, <2>2
<1>9. ASSUME NEW c \in Conns, NEW e \in Events, Adds(c, e), UNCHANGED <<conn, socket>>
      PROVE  \A k \in 1..Len(queue') : OK(queue'[k])
  <2>1. /\ Msg(c, e) \in Message /\ Msg(c, e).of = c
        /\ Msg(c, e).sock = socket[c] /\ Msg(c, e).event = e
        /\ queue' = Append(queue, Msg(c, e)) /\ conn'[c] = "open" /\ socket'[c] = socket[c]
    BY <1>9, MsgFacts DEF Adds
  <2>2. e # "ACCEPT" /\ c # Listen  BY DEF Events
  <2>3. socket[c] # Listen
    <3>1. socket[c] \in Sockets \cup {NoSocket}  BY <1>0, NetFacts
    <3>2. Listen \notin Sockets /\ Listen # NoSocket  OBVIOUS
    <3>3. QED  BY <3>1, <3>2
  <2>4. OK(Msg(c, e))  BY <2>1, <2>2, <2>3
  <2> HIDE DEF OK
  <2>5. QED  BY <1>7, <2>1, <2>4
<1>10. ASSUME NEW c \in Conns, NEW e \in Events, Post(c, e)
       PROVE  /\ \A k \in 1..Len(queue') : OK(queue'[k])
              /\ handling' # NoMessage => OK(handling')
  <2>1. Adds(c, e) /\ UNCHANGED <<conn, socket>> /\ handling' = handling
    BY <1>10, PostFacts DEF netVars, listVars
  <2> HIDE DEF OK
  <2>2. QED  BY <1>6, <1>9, <2>1
<1>11. ASSUME NEW c \in Conns, Reposts(c)
       PROVE  /\ \A k \in 1..Len(queue') : OK(queue'[k])
              /\ handling' # NoMessage => OK(handling')
  <2>1. Adds(c, "READ") /\ UNCHANGED <<conn, socket>> /\ handling' = NoMessage /\ "READ" \in Events
    BY <1>11, RepostsFacts DEF Reposts, Events
  <2> HIDE DEF OK
  <2>2. QED  BY <1>9, <2>1
<1> HIDE DEF OK
<1>12. CASE queue' = queue /\ (NextHandling \/ handling' = handling)
  BY <1>3, <1>6, <1>12
<1>13. QED  BY <1>5, <1>6, <1>8, <1>10, <1>11, <1>12, QueueStep

One(c, e) == \A j, k \in Told(c, e) : j = k

LEMMA DispatchTold ==
  ASSUME IInv, Dispatch, NEW c, NEW e \in Events \cup {"ACCEPT"}
  PROVE  /\ ~Handled(c, e)
         /\ Told(c, e)' # {} \/ Handled(c, e)' <=> Told(c, e) # {}
         /\ One(c, e) => One(c, e)' /\ (Handled(c, e)' => Told(c, e)' = {})
<1>1. /\ queue \in Seq(Message) /\ queue # <<>> /\ queue' = Tail(queue)
      /\ handling = NoMessage /\ handling' = Head(queue)
  BY HeadOfQueue
<1>2. ~Handled(c, e)
  <2>1. ~IsHandled /\ TypeOK  BY <1>1 DEF IsHandled, IInv
  <2>2. QED  BY <2>1, HandlingFacts DEF Handled
<1>3. Handled(c, e)' <=> 1 \in Told(c, e)
  <2>1. 1 \in Told(c, e) <=> Head(queue).of = c /\ Head(queue).event = e  BY <1>1, ToldTail
  <2>2. QED  BY <1>1, <2>1 DEF Handled
<1>4. /\ \A k \in Told(c, e)' : k \in Nat /\ k + 1 \in Told(c, e) /\ k + 1 # 1
      /\ \A k \in Told(c, e) : k # 1 => k - 1 \in Told(c, e)'
      /\ Told(c, e) \subseteq Nat
  BY <1>1, ToldTail
<1>5. Told(c, e)' # {} \/ Handled(c, e)' <=> Told(c, e) # {}  BY <1>3, <1>4
<1>6. ASSUME One(c, e)  PROVE One(c, e)' /\ (Handled(c, e)' => Told(c, e)' = {})
  <2>1. ASSUME NEW j \in Told(c, e)', NEW k \in Told(c, e)'  PROVE j = k
    <3>1. j \in Nat /\ k \in Nat /\ j + 1 = k + 1  BY <1>4, <1>6 DEF One
    <3>2. QED  BY <3>1
  <2>2. 1 \in Told(c, e) => Told(c, e)' = {}  BY <1>4, <1>6 DEF One
  <2>3. QED  BY <1>3, <2>1, <2>2 DEF One
<1>7. QED  BY <1>2, <1>5, <1>6

LEMMA AddsTold ==
  ASSUME IInv, NEW c \in Conns, NEW e \in Events, Adds(c, e), NEW d, NEW f
  PROVE  /\ d = c /\ f = e => Told(d, f)' # {} /\ (Told(d, f) = {} => One(d, f)')
         /\ ~(d = c /\ f = e) => Told(d, f)' = Told(d, f)
<1> DEFINE m == Msg(c, e)
<1>1. queue \in Seq(Message) /\ Appends(m)  BY DEF Adds, Appends, IInv, TypeOK
<1>3. m.of = c /\ m.event = e  BY DEF Msg
<1> HIDE DEF m
<1>2. /\ m.of = d /\ m.event = f => Told(d, f)' = Told(d, f) \cup {Len(queue) + 1}
      /\ ~(m.of = d /\ m.event = f) => Told(d, f)' = Told(d, f)
  BY <1>1, ToldAppend
<1>4. QED  BY <1>2, <1>3 DEF One

LEMMA PostAcceptTold ==
  ASSUME IInv, PostAccept
  PROVE  /\ \A d \in Conns, e \in Events : Told(d, e)' = Told(d, e)
         /\ Accepts' # {} /\ (Accepts = {} => One(Listen, "ACCEPT")')
<1> DEFINE m == [sock |-> Listen, event |-> "ACCEPT", of |-> Listen]
<1>1. queue \in Seq(Message) /\ Appends(m)
  BY DEF PostAccept, Appends, IInv, TypeOK
<1>2. m.of = Listen /\ m.event = "ACCEPT"  OBVIOUS
<1> HIDE DEF m
<1>3. ASSUME NEW d, NEW e
      PROVE  /\ m.of = d /\ m.event = e => Told(d, e)' = Told(d, e) \cup {Len(queue) + 1}
             /\ ~(m.of = d /\ m.event = e) => Told(d, e)' = Told(d, e)
  BY <1>1, ToldAppend
<1>4. Told(Listen, "ACCEPT")' = Told(Listen, "ACCEPT") \cup {Len(queue) + 1}  BY <1>2, <1>3
<1>5. \A d \in Conns, e \in Events : Told(d, e)' = Told(d, e)  BY <1>2, <1>3 DEF Events
<1>6. QED  BY <1>4, <1>5 DEF Accepts, One

\* While a read goes on to the write, the message stays that of its connection.
LEMMA HandledNext ==
  ASSUME TypeOK, NextHandling, NEW d, NEW e \in Events \cup {"ACCEPT"}
  PROVE  Handled(d, e)' => e = "WRITE" /\ handling.event = "READ" /\ handling.of = d /\ IsHandled
<1>1. CASE handling' = NoMessage
  <2>1. NoMessage.event = "none" /\ "none" \notin Events \cup {"ACCEPT"}
    BY DEF NoMessage, Events
  <2>2. QED  BY <1>1, <2>1 DEF Handled
<1>2. CASE handling' # NoMessage  BY <1>2, NextHandlingFacts DEF Handled
<1>3. QED  BY <1>1, <1>2

LEMMA SameTold ==
  ASSUME queue' = queue, NEW d, NEW e
  PROVE  Told(d, e)' = Told(d, e)
BY DEF Told

LEMMA SameHandled ==
  ASSUME handling' = handling, NEW d, NEW e
  PROVE  Handled(d, e)' <=> Handled(d, e)
BY DEF Handled

-----------------------------------------------------------------------------
(* The one FD_ACCEPT. *)

HandlesAccept == handling.event = "ACCEPT"

LEMMA AcceptHandled ==
  TypeOK /\ MessagesOK => (HandlesAccept <=> Handled(Listen, "ACCEPT"))
<1> SUFFICES ASSUME TypeOK, MessagesOK, handling.event = "ACCEPT"  PROVE handling.of = Listen
  BY DEF Handled, HandlesAccept
<1>1. IsHandled  BY HandlingFacts
<1>2. QED  BY <1>1 DEF MessagesOK, MessageOK

LEMMA AcceptFrame ==
  ASSUME IInv, [Next]_vars, ~Takes
  PROVE  /\ backlog # <<>> => backlog' # <<>>
         /\ ~PostAccept => acceptEnabled' = acceptEnabled
<1>1. CASE UNCHANGED <<backlog, acceptEnabled>>  BY <1>1
<1>2. CASE Clients
  <2>1. acceptEnabled' = acceptEnabled  BY <1>2, ClientsFrame DEF serverVars, stackVars
  <2>2. PICK c \in Conns : Client(c)  BY <1>2 DEF Clients, ClientStep
  <2>3. backlog' = Append(backlog, c) \/ backlog' = backlog
    BY <2>2 DEF Client, Connect, ClientSend, ClientRead, ClientShutdown, ClientReset
  <2>4. Append(backlog, c) # <<>>
    <3>1. backlog \in Seq(Conns)  BY DEF IInv, TypeOK, NetTypeOK
    <3>2. Len(Append(backlog, c)) = Len(backlog) + 1 /\ Len(backlog) \in Nat  BY <3>1
    <3>3. Len(<<>>) = 0  OBVIOUS
    <3>4. QED  BY <3>2, <3>3
  <2>5. QED  BY <2>1, <2>3, <2>4
<1>3. ASSUME NEW c \in Conns, Works(c) \/ Frees(c)  PROVE UNCHANGED <<backlog, acceptEnabled>>
  BY <1>3, WorksFrame, FreesFrame DEF FreeSocketInformation
<1>4. Goes \/ Dispatch \/ UNCHANGED vars => UNCHANGED <<backlog, acceptEnabled>>
  BY GoesFrame DEF Dispatch, vars, netVars, serverVars, stackVars
<1>5. Posts => backlog' = backlog /\ (~PostAccept => acceptEnabled' = acceptEnabled)
  BY DEF Posts, PostAccept, Post, netVars
<1>6. QED  BY <1>1, <1>2, <1>3, <1>4, <1>5, StepCases

LEMMA AcceptOnceStep == IInv /\ [Next]_vars => AcceptOnce'
<1> SUFFICES ASSUME IInv, [Next]_vars  PROVE AcceptOnce'
  OBVIOUS
<1>0. /\ TypeOK /\ TypeOK' /\ MessagesOK' /\ AcceptOnce /\ MessagesOK
      /\ "ACCEPT" \in Events \cup {"ACCEPT"}
  BY TypeStep, MessagesStep DEF IInv
<1> DEFINE H == Handled(Listen, "ACCEPT")
           H1 == Handled(Listen, "ACCEPT")'
<1>1. handling.event = "ACCEPT" <=> H  BY <1>0, AcceptHandled DEF HandlesAccept
<1>2. handling'.event = "ACCEPT" <=> H1
  <2>1. TypeOK' /\ MessagesOK' => (HandlesAccept' <=> Handled(Listen, "ACCEPT")')
    BY AcceptHandled, PTL
  <2>2. QED  BY <1>0, <2>1 DEF HandlesAccept
<1>3. /\ Accepts # {} \/ H => ~acceptEnabled /\ backlog # <<>>
      /\ H => Accepts = {}
      /\ One(Listen, "ACCEPT")
  BY <1>0, <1>1 DEF AcceptOnce, One, Accepts
<1> SUFFICES /\ Accepts' # {} \/ H1 => ~acceptEnabled' /\ backlog' # <<>>
             /\ H1 => Accepts' = {}
             /\ One(Listen, "ACCEPT")'
  BY <1>2 DEF AcceptOnce, One, Accepts
<1>4. CASE Takes
  <2>1. handling.event = "ACCEPT" /\ handling' = NoMessage /\ queue' = queue
    BY <1>4, TakesFrame
  <2>2. Accepts' = {} /\ ~H1
    <3>1. Accepts' = Accepts  BY <2>1, SameTold DEF Accepts
    <3>2. ~H1  BY <1>0, <2>1, HandledNext DEF NextHandling
    <3>3. QED  BY <1>1, <1>3, <2>1, <3>1, <3>2
  <2>3. QED  BY <2>2 DEF Accepts, One
<1>5. CASE PostAccept
  <2>1. /\ acceptEnabled /\ backlog # <<>> /\ ~acceptEnabled' /\ backlog' = backlog
        /\ handling' = handling
    BY <1>5 DEF PostAccept, netVars
  <2>2. Accepts = {} /\ ~H  BY <1>3, <2>1
  <2>3. ~H1  BY <2>1, <2>2, SameHandled
  <2>4. Accepts' # {} /\ One(Listen, "ACCEPT")'  BY <1>5, <2>2, PostAcceptTold
  <2>5. QED  BY <2>1, <2>3, <2>4
<1>6. CASE ~Takes /\ ~PostAccept
  <2>1. (backlog # <<>> => backlog' # <<>>) /\ acceptEnabled' = acceptEnabled
    BY <1>6, AcceptFrame
  <2>2. CASE Dispatch
    <3>1. /\ Told(Listen, "ACCEPT")' # {} \/ H1 <=> Told(Listen, "ACCEPT") # {}
          /\ One(Listen, "ACCEPT") =>
               One(Listen, "ACCEPT")' /\ (H1 => Told(Listen, "ACCEPT")' = {})
      BY <1>0, <2>2, DispatchTold
    <3>2. QED  BY <1>3, <2>1, <3>1 DEF Accepts
  <2>3. ASSUME Accepts' = Accepts, H1 => H
        PROVE  /\ Accepts' # {} \/ H1 => ~acceptEnabled' /\ backlog' # <<>>
               /\ H1 => Accepts' = {}
               /\ One(Listen, "ACCEPT")'
    BY <1>3, <2>1, <2>3 DEF One, Accepts
  <2>4. ASSUME handling' = handling \/ NextHandling  PROVE H1 => H
    BY <1>0, <2>4, HandledNext, SameHandled
  <2>5. CASE queue' = queue /\ (NextHandling \/ handling' = handling)
    BY <2>3, <2>4, <2>5, SameTold DEF Accepts
  <2>6. ASSUME NEW c \in Conns, NEW e \in Events, Adds(c, e), handling' = handling \/ NextHandling
        PROVE  Accepts' = Accepts /\ (H1 => H)
    <3>1. c # Listen  OBVIOUS
    <3>2. QED  BY <2>4, <2>6, <3>1, AddsTold DEF Accepts
  <2>7. ASSUME NEW c \in Conns, NEW e \in Events, Post(c, e)  PROVE Accepts' = Accepts /\ (H1 => H)
    BY <2>6, <2>7, PostFacts
  <2>8. ASSUME NEW c \in Conns, Reposts(c)  PROVE Accepts' = Accepts /\ (H1 => H)
    <3>1. Adds(c, "READ") /\ "READ" \in Events /\ NextHandling
      BY <2>8, RepostsFacts DEF Reposts, Events, NextHandling
    <3>2. QED  BY <2>6, <3>1
  <2> HIDE DEF H, H1
  <2>9. QED  BY <1>6, <2>2, <2>3, <2>5, <2>7, <2>8, QueueStep
<1>7. QED  BY <1>4, <1>5, <1>6

LEMMA MisledStep ==
  ASSUME IInv, [Next]_vars
  PROVE  /\ misled \subseteq misled' /\ program' = program
         /\ ~Dispatch => misled' = misled /\ (NextHandling \/ handling' = handling)
<1>1. program' = program /\ (~Dispatch => misled' = misled)
  <2>1. ASSUME NEW c \in Conns, Works(c) \/ Frees(c)  PROVE program' = program /\ misled' = misled
    BY <2>1, WorksFrame, FreesFrame DEF FreeSocketInformation, history
  <2>2. Takes \/ Goes \/ Clients => program' = program /\ misled' = misled
    BY TakesFrame, GoesFrame, ClientsFrame DEF serverVars, history
  <2>3. Posts \/ UNCHANGED vars => program' = program /\ misled' = misled
    BY DEF Posts, PostAccept, Post, vars, serverVars, history
  <2>4. Dispatch => program' = program  BY DEF Dispatch
  <2>5. QED  BY <2>1, <2>2, <2>3, <2>4, StepCases
<1>2. misled \subseteq misled'  BY <1>1 DEF Dispatch
<1>3. ~Dispatch => NextHandling \/ handling' = handling
  <2>1. \A c \in Conns, e \in Events : Post(c, e) => handling' = handling  BY DEF Post
  <2>2. \A c \in Conns : Reposts(c) => NextHandling  BY DEF Reposts, NextHandling
  <2>3. PostAccept => handling' = handling  BY DEF PostAccept
  <2>4. QED  BY <2>1, <2>2, <2>3, QueueStep
<1>4. QED  BY <1>1, <1>2, <1>3

LEMMA OwnMessageStep == IInv /\ [Next]_vars => OwnMessage'
<1> SUFFICES ASSUME IInv, [Next]_vars, handling' # NoMessage, NEW c \in Conns,
                    socket'[c] = handling'.sock, c \notin misled'
             PROVE  c = handling'.of
  BY DEF OwnMessage, IsHandled
<1>0. TypeOK /\ OwnMessage  BY DEF IInv
<1>1. CASE Dispatch
  <2>1. socket' = socket /\ handling' = Head(queue)
        /\ misled' = misled \cup {d \in Conns : socket[d] = Head(queue).sock /\ d # Head(queue).of}
    BY <1>1 DEF Dispatch, listVars
  <2>2. QED  BY <2>1
<1>2. CASE ~Dispatch
  <2>1. misled' = misled /\ (NextHandling \/ handling' = handling)  BY <1>2, MisledStep
  <2>2. IsHandled /\ handling'.sock = handling.sock /\ handling'.of = handling.of
    BY <1>0, <2>1, NextHandlingFacts DEF IsHandled
  <2>3. handling \in Message /\ handling.sock # NoSocket
    BY <1>0, <2>2, HandlingFacts, MessageFacts
  <2>4. ~Takes
    <3>1. Takes => handling' = NoMessage  BY TakesFrame
    <3>2. QED  BY <3>1
  <2>5. socket'[c] = socket[c]  BY <2>2, <2>3, <2>4, ConnStep
  <2>6. QED  BY <1>0, <2>1, <2>2, <2>5 DEF OwnMessage
<1>3. QED  BY <1>1, <1>2

-----------------------------------------------------------------------------
(* What is told of a connection. *)

LEMMA NoneTold ==
  ASSUME IInv, NEW d \in Conns, conn[d] \in {"new", "pending"}, NEW e \in Events
  PROVE  Told(d, e) = {} /\ ~Handled(d, e)
<1>1. \A k \in 1..Len(queue) : MessageOK(queue[k])  BY DEF IInv, MessagesOK
<1>2. Told(d, e) = {}  BY <1>1 DEF Told, MessageOK
<1>3. ~Handled(d, e)
  <2>1. ASSUME Handled(d, e)  PROVE FALSE
    <3>1. IsHandled  BY <2>1, HandlingFacts DEF IInv, Handled
    <3>2. QED  BY <2>1, <3>1 DEF IInv, MessagesOK, MessageOK, Handled
  <2>2. QED  BY <2>1
<1>4. QED  BY <1>2, <1>3

\* How it comes that something is told of a connection.
LEMMA PendingStep ==
  ASSUME IInv, [Next]_vars, NEW d \in Conns, NEW e \in Events, Pending(d, e)'
  PROVE  \/ Pending(d, e)
         \/ Post(d, e)
         \/ e = "READ" /\ Reposts(d)
         \/ e = "WRITE" /\ handling.event = "READ" /\ handling.of = d
<1>0. TypeOK  BY DEF IInv
<1>1. CASE Dispatch  BY <1>1, DispatchTold DEF Pending
<1>2. ASSUME Told(d, e)' = Told(d, e), NextHandling \/ handling' = handling
      PROVE  Pending(d, e) \/ (e = "WRITE" /\ handling.event = "READ" /\ handling.of = d)
  BY <1>0, <1>2, HandledNext, SameHandled DEF Pending
<1>3. CASE PostAccept
  <2>1. Told(d, e)' = Told(d, e) /\ handling' = handling
    BY <1>3, PostAcceptTold DEF PostAccept
  <2>2. QED  BY <1>2, <2>1
<1>4. ASSUME NEW c \in Conns, NEW f \in Events, Post(c, f), ~(c = d /\ f = e)
      PROVE  Told(d, e)' = Told(d, e) /\ handling' = handling
  BY <1>4, PostFacts, AddsTold
<1>5. ASSUME NEW c \in Conns, Reposts(c), ~(c = d /\ e = "READ")
      PROVE  Told(d, e)' = Told(d, e) /\ NextHandling
  <2>1. Adds(c, "READ") /\ "READ" \in Events /\ NextHandling
    BY <1>5, RepostsFacts DEF Reposts, Events, NextHandling
  <2>2. QED  BY <1>5, <2>1, AddsTold
<1>6. CASE queue' = queue /\ (NextHandling \/ handling' = handling)
  BY <1>2, <1>6, SameTold
<1>7. QED  BY <1>1, <1>2, <1>3, <1>4, <1>5, <1>6, QueueStep

\* Events are told again after a receive or a send that would block, or of a new connection.
LEMMA EnabledStep ==
  ASSUME IInv, [Next]_vars, NEW d \in Conns
  PROVE  \/ enabled'[d] = enabled[d]
         \/ conn[d] = "pending"
         \/ enabled'[d] = {} /\ conn'[d] = "closed"
         \/ \E e \in Events : Post(d, e)
         \/ enabled'[d] = enabled[d] \cup {"READ"} /\ Works(d) /\ handling.event = "READ" /\ Empty(d)
         \/ enabled'[d] = enabled[d] \cup {"WRITE"} /\ SendBlocks(d)
<1>0. enabled \in [Conns -> SUBSET Events]  BY DEF IInv, TypeOK
<1>1. CASE Takes
  <2>1. d # Head(backlog) => enabled'[d] = enabled[d]  BY <1>1, TakesFrame DEF OthersSame
  <2>2. d = Head(backlog) => conn[d] = "pending"  BY <1>1, TakesFrame
  <2>3. QED  BY <2>1, <2>2
<1>2. ASSUME NEW c \in Conns, Frees(c), c # d  PROVE enabled'[d] = enabled[d]
  BY <1>2, FreesFrame DEF OthersSame
<1>3. Frees(d) => enabled'[d] = {} /\ conn'[d] = "closed"  BY FreesFrame
<1>4. ASSUME NEW c \in Conns, Works(c), c # d  PROVE enabled'[d] = enabled[d]
  BY <1>4, WorksFrame DEF OthersSame
<1>5. CASE Works(d)
  <2>1. CASE PutOff(d) \/ NothingToSend(d) \/ \E n \in 1..DATA_BUFSIZE : Send(d, n)
    BY <2>1 DEF PutOff, NothingToSend, Send, stackVars
  <2>2. CASE RecvNothing(d) \/ \E n \in 1..DATA_BUFSIZE : Recv(d, n)
    <3>1. enabled' = [enabled EXCEPT ![d] = @ \cup {"READ"}] /\ handling.event = "READ" /\ Empty(d)
      BY <2>2 DEF RecvNothing, Recv, Received
    <3>2. QED  BY <1>0, <1>5, <3>1
  <2>3. CASE SendBlocks(d)
    <3>1. enabled' = [enabled EXCEPT ![d] = @ \cup {"WRITE"}]  BY <2>3 DEF SendBlocks
    <3>2. QED  BY <1>0, <2>3, <3>1
  <2>4. QED  BY <1>5, <2>1, <2>2, <2>3 DEF Works
<1>6. ASSUME NEW c \in Conns, NEW e \in Events, Post(c, e), c # d  PROVE enabled'[d] = enabled[d]
  BY <1>6, PostFacts
<1>7. Goes \/ Clients \/ Dispatch \/ PostAccept \/ UNCHANGED vars => enabled' = enabled
  BY GoesFrame, ClientsFrame DEF stackVars, serverVars, Dispatch, PostAccept, vars
<1>8. QED  BY <1>1, <1>2, <1>3, <1>4, <1>5, <1>6, <1>7, StepCases DEF Posts

LEMMA AllReceivedKept ==
  ASSUME IInv, [Next]_vars, NEW d \in Conns, AllReceived(d)
  PROVE  AllReceived(d)'
<1>1. fin'[d] /\ sent'[d] = sent[d]  BY ClientSide DEF AllReceived
<1>2. ~Works(d) => taken'[d] = taken[d]  BY BlockStep
<1>3. CASE Works(d)
  <2>1. ASSUME NEW n \in 1..DATA_BUFSIZE, Recv(d, n)  PROVE FALSE
    <3>1. n <= sent[d] - taken[d] /\ taken[d] \in Nat /\ sent[d] \in Nat
      BY <2>1, RecvFrame, NetFacts DEF Avail, IInv
    <3>2. QED  BY <3>1 DEF AllReceived
  <2>2. taken' = taken
    BY <1>3, <2>1 DEF Works, PutOff, RecvNothing, NothingToSend, SendBlocks, Send, netVars
  <2>3. QED  BY <1>1, <2>2 DEF AllReceived
<1>4. QED  BY <1>1, <1>2, <1>3 DEF AllReceived

\* At most one message of an event that is told once.
LEMMA OneStep ==
  ASSUME IInv, [Next]_vars, NEW d \in Conns, NEW e \in Events, One(d, e),
         Handled(d, e) => Told(d, e) = {}, e # "WRITE",
         Post(d, e) \/ (e = "READ" /\ Reposts(d)) => ~Pending(d, e)
  PROVE  One(d, e)' /\ (Handled(d, e)' => Told(d, e)' = {})
<1>0. TypeOK  BY DEF IInv
<1>1. CASE Dispatch  BY <1>1, DispatchTold
<1>2. ASSUME Told(d, e)' = Told(d, e), NextHandling \/ handling' = handling
      PROVE  One(d, e)' /\ (Handled(d, e)' => Told(d, e)' = {})
  BY <1>0, <1>2, HandledNext, SameHandled DEF One
<1>3. CASE PostAccept
  <2>1. Told(d, e)' = Told(d, e) /\ handling' = handling
    BY <1>3, PostAcceptTold DEF PostAccept
  <2>2. QED  BY <1>2, <2>1
<1>4. ASSUME NEW c \in Conns, NEW f \in Events, Adds(c, f), NextHandling \/ handling' = handling,
             c = d /\ f = e => ~Pending(d, e)
      PROVE  One(d, e)' /\ (Handled(d, e)' => Told(d, e)' = {})
  <2>1. CASE c = d /\ f = e
    <3>1. One(d, e)' /\ ~Handled(d, e)  BY <1>4, <2>1, AddsTold DEF Pending
    <3>2. ~Handled(d, e)'  BY <1>0, <1>4, <3>1, HandledNext, SameHandled
    <3>3. QED  BY <3>1, <3>2
  <2>2. CASE ~(c = d /\ f = e)  BY <1>2, <1>4, <2>2, AddsTold
  <2>3. QED  BY <2>1, <2>2
<1>5. ASSUME NEW c \in Conns, NEW f \in Events, Post(c, f)
      PROVE  One(d, e)' /\ (Handled(d, e)' => Told(d, e)' = {})
  BY <1>4, <1>5, PostFacts
<1>6. ASSUME NEW c \in Conns, Reposts(c)
      PROVE  One(d, e)' /\ (Handled(d, e)' => Told(d, e)' = {})
  <2>1. Adds(c, "READ") /\ "READ" \in Events /\ NextHandling
    BY <1>6, RepostsFacts DEF Reposts, Events, NextHandling
  <2>2. QED  BY <1>4, <1>6, <2>1
<1>7. CASE queue' = queue /\ (NextHandling \/ handling' = handling)
  BY <1>2, <1>7, SameTold
<1>8. QED  BY <1>1, <1>3, <1>5, <1>6, <1>7, QueueStep

LEMMA EndOnceStep == IInv /\ [Next]_vars => \A d \in Conns : EndOnce(d)'
<1> SUFFICES ASSUME IInv, [Next]_vars, NEW d \in Conns  PROVE EndOnce(d)'
  OBVIOUS
<1>0. TypeOK /\ EndOnce(d) /\ {"CLOSE", "ABORT"} \subseteq Events
  BY DEF IInv, Events
<1>1. Post(d, "CLOSE") => ~Pending(d, "CLOSE")
  BY <1>0, PostFacts DEF EndOnce
<1>2. One(d, "CLOSE")' /\ (Handled(d, "CLOSE")' => Told(d, "CLOSE")' = {})
  BY <1>0, <1>1, OneStep DEF EndOnce, One
<1>3. ASSUME "CLOSE" \in enabled'[d], Pending(d, "CLOSE")'  PROVE FALSE
  <2>1. Pending(d, "CLOSE") \/ Post(d, "CLOSE")  BY <1>0, <1>3, PendingStep
  <2>2. CASE Post(d, "CLOSE")
    <3>1. enabled'[d] = enabled[d] \ SpentWith("CLOSE")  BY <1>0, <2>2, PostFacts
    <3>2. QED  BY <1>3, <3>1 DEF SpentWith
  <2>3. CASE Pending(d, "CLOSE")
    <3>1. conn[d] # "pending"  BY <1>0, <2>3, NoneTold DEF Pending
    <3>2. "CLOSE" \notin enabled[d]  BY <1>0, <2>3 DEF EndOnce
    <3>3. ASSUME NEW e \in Events, Post(d, e)  PROVE enabled'[d] \subseteq enabled[d]
      BY <3>3, PostFacts
    <3>4. QED  BY <1>3, <3>1, <3>2, <3>3, EnabledStep
  <2>4. QED  BY <2>1, <2>2, <2>3
<1>4. ASSUME Pending(d, "CLOSE")'  PROVE AllReceived(d)'
  <2>1. Pending(d, "CLOSE") \/ Post(d, "CLOSE")  BY <1>0, <1>4, PendingStep
  <2>2. CASE Pending(d, "CLOSE")  BY <1>0, <2>2, AllReceivedKept DEF EndOnce
  <2>3. CASE Post(d, "CLOSE")
    <3>1. fin[d] /\ sent[d] - taken[d] = 0
      BY <1>0, <2>3, PostFacts DEF IsTheCase, Avail
    <3>2. sent[d] \in Nat /\ taken[d] \in Nat  BY <1>0, NetFacts
    <3>3. AllReceived(d)  BY <3>1, <3>2 DEF AllReceived
    <3>4. QED  BY <3>3, AllReceivedKept
  <2>4. QED  BY <2>1, <2>2, <2>3
<1>5. ASSUME Pending(d, "ABORT")'  PROVE rst'[d]
  <2>1. Pending(d, "ABORT") \/ Post(d, "ABORT")  BY <1>0, <1>5, PendingStep
  <2>2. rst[d]  BY <1>0, <2>1, PostFacts DEF EndOnce, IsTheCase
  <2>3. QED  BY <2>2, ClientSide
<1>6. QED  BY <1>2, <1>3, <1>4, <1>5 DEF EndOnce, One

-----------------------------------------------------------------------------
(* Calm behaviours. *)

LEMMA CalmBefore ==
  ASSUME IInv, [Next]_vars, Calm'
  PROVE  Calm
<1>1. ~SomeReset
  <2>1. \A d \in Conns : rst[d] => rst'[d]  BY ClientSide
  <2>2. QED  BY <2>1 DEF Calm, SomeReset
<1>2. Orphans = {}
  <2>1. ASSUME NEW d \in Conns, conn[d] = "open", d \notin infos  PROVE FALSE
    <3>1. d \notin infos'
      <4>1. d = Head(backlog) /\ Takes => conn[d] = "pending"  BY TakesFrame
      <4>2. QED  BY <2>1, <4>1, InfosStep
    <3>2. ~Frees(d)  BY <2>1, FreesFrame
    <3>3. conn'[d] = "open"  BY <2>1, <3>2, ConnStep
    <3>4. QED  BY <3>1, <3>3 DEF Calm, Orphans
  <2>2. QED  BY <2>1 DEF Orphans
<1>3. IsRock => \A d \in Conns : ~fin[d]
  <2>1. program' = program  BY MisledStep
  <2>2. \A d \in Conns : fin[d] => fin'[d]  BY ClientSide
  <2>3. QED  BY <2>1, <2>2 DEF Calm, IsRock
<1>4. QED  BY <1>1, <1>2, <1>3 DEF Calm

\* In a calm behaviour a read or a close is handled for the connection it came for.
LEMMA CalmOwner ==
  ASSUME IInv, Calm, NEW e \in {"READ", "CLOSE"}, handling.event = e
  PROVE  /\ handling.of \in Conns /\ Handled(handling.of, e)
         /\ Finds(handling.of) /\ \A c \in Conns : Finds(c) => c = handling.of
<1>1. IsHandled /\ handling \in Message
  BY HandlingFacts DEF IInv, Events
<1>2. handling.of \in Conns
  <2>1. handling.of # Listen  BY <1>1 DEF IInv, MessagesOK, MessageOK
  <2>2. QED  BY <1>1, <2>1, MessageFacts
<1>3. Handled(handling.of, e)  BY DEF Handled
<1>4. conn[handling.of] = "open"
  BY <1>2, <1>3 DEF IInv, CalmOK, ReadDue, Pending
<1>5. handling.of \in infos  BY <1>2, <1>4 DEF Calm, Orphans
<1>6. QED  BY <1>1, <1>2, <1>3, <1>5, OwnerFound

\* Only a connection that was shut down, with all its bytes read, is given up in one.
LEMMA CalmFrees ==
  ASSUME IInv, Calm, NEW c \in Conns, Frees(c)
  PROVE  /\ Handled(c, "CLOSE") /\ handling' = NoMessage /\ queue' = queue
         /\ ~IsRock /\ ~ReadDue(c) /\ Told(c, "CLOSE") = {}
<1>1. /\ handling.event \in {"CLOSE", "ABORT"} /\ handling' = NoMessage
      /\ Finds(c) /\ queue' = queue
  BY FreesFrame DEF Calm, SomeReset, FreeSocketInformation
<1>2. handling.event # "ABORT"
  <2>1. ASSUME handling.event = "ABORT"  PROVE FALSE
    <3>1. IsHandled /\ handling \in Message  BY <2>1, HandlingFacts DEF IInv, Events
    <3>2. handling.of \in Conns
      <4>1. handling.of # Listen  BY <2>1, <3>1 DEF IInv, MessagesOK, MessageOK
      <4>2. QED  BY <3>1, <4>1, MessageFacts
    <3>3. rst[handling.of]  BY <2>1, <3>2 DEF IInv, EndOnce, Pending, Handled
    <3>4. QED  BY <3>2, <3>3 DEF Calm, SomeReset
  <2>2. QED  BY <2>1
<1>3. Handled(c, "CLOSE")  BY <1>1, <1>2, CalmOwner
<1>4. AllReceived(c) /\ Told(c, "CLOSE") = {}  BY <1>3 DEF IInv, EndOnce, Pending
<1>5. ~IsRock  BY <1>4 DEF Calm, AllReceived
<1>6. ~ReadDue(c)
  <2>1. taken[c] = sent[c] /\ sent[c] \in Nat  BY <1>4, NetFacts DEF AllReceived, IInv
  <2>2. ~(Avail(c) > 0)  BY <2>1 DEF Avail
  <2>3. QED  BY <2>2 DEF IInv, CalmOK
<1>7. QED  BY <1>1, <1>3, <1>4, <1>5, <1>6

\* A read that is due is so by a message, a read that was put off, or its being posted again.
LEMMA DueStep ==
  ASSUME IInv, [Next]_vars, Calm, NEW d \in Conns, ReadDue(d)'
  PROVE  ReadDue(d) \/ Post(d, "READ")
<1>1. CASE Pending(d, "READ")'
  BY <1>1, PendingStep DEF ReadDue, Reposts, Events
<1>2. CASE RecvPosted'[d] /\ ~RecvPosted[d]
  <2>1. Works(d)  BY <1>2, BlockStep
  <2>2. PutOff(d)
    <3>1. ASSUME PostReadAgain(d)  PROVE FALSE
      <4>1. Finds(d)  BY <2>1, WorksFrame
      <4>2. QED  BY <1>2, <3>1, <4>1, PostReadFacts
    <3>2. NothingToSend(d) => PostReadAgain(d)  BY DEF NothingToSend
    <3>3. RecvNothing(d) \/ SendBlocks(d) => RecvPosted' = RecvPosted
      BY DEF RecvNothing, SendBlocks, listVars, ioVars
    <3>4. ASSUME NEW n \in 1..DATA_BUFSIZE, Recv(d, n) \/ Send(d, n)  PROVE FALSE
      BY <1>2, <3>1, <3>4, SendFrame, RecvFrame
    <3>5. QED  BY <1>2, <2>1, <3>1, <3>2, <3>3, <3>4 DEF Works
  <2>3. handling.event = "READ" /\ Finds(d)  BY <2>2 DEF PutOff
  <2>4. Handled(d, "READ")  BY <2>3, CalmOwner
  <2>5. QED  BY <2>4 DEF ReadDue, Pending
<1>3. QED  BY <1>1, <1>2 DEF ReadDue

\* A receive that takes bytes is the one that was due.
LEMMA CalmRecv ==
  ASSUME IInv, [Next]_vars, Calm, NEW d \in Conns, NEW n \in 1..DATA_BUFSIZE, Recv(d, n)
  PROVE  ~ReadDue(d)'
<1>1. handling.event = "READ" /\ Finds(d) /\ queue' = queue /\ RecvPosted' = RecvPosted
  BY RecvFrame
<1>2. Handled(d, "READ") /\ d \in infos  BY <1>1, CalmOwner DEF Finds
<1>3. OneRead(d)  BY <1>2 DEF IInv, ReadsOK
<1>4. Told(d, "READ") = {} /\ ~RecvPosted[d]  BY <1>2, <1>3 DEF OneRead, Pending
<1>5. Told(d, "READ")' = {}  BY <1>1, <1>4, SameTold
<1>6. ~Handled(d, "READ")'
  <2>1. NextHandling /\ TypeOK  BY WorksFrame DEF Works, IInv
  <2>2. QED  BY <2>1, HandledNext DEF Events
<1>7. QED  BY <1>1, <1>4, <1>5, <1>6 DEF ReadDue, Pending

LEMMA CalmStep == IInv /\ [Next]_vars => CalmOK'
<1> SUFFICES ASSUME IInv, [Next]_vars, Calm', NEW d \in Conns
             PROVE  /\ ReadDue(d)' => conn'[d] = "open" /\ Avail(d)' > 0
                    /\ Pending(d, "CLOSE")' => conn'[d] = "open"
                    /\ IsRock' => conn'[d] # "closed"
  BY DEF CalmOK
<1>0. Calm /\ TypeOK  BY CalmBefore DEF IInv
<1>1. /\ ReadDue(d) => conn[d] = "open" /\ Avail(d) > 0
      /\ Pending(d, "CLOSE") => conn[d] = "open"
      /\ IsRock => conn[d] # "closed"
  BY <1>0 DEF IInv, CalmOK
<1>2. CASE Frees(d)
  <2>1. /\ handling' = NoMessage /\ queue' = queue
        /\ ~IsRock /\ ~ReadDue(d) /\ Told(d, "CLOSE") = {}
    BY <1>0, <1>2, CalmFrees
  <2>2. Told(d, "CLOSE")' = {} /\ Told(d, "READ")' = Told(d, "READ")
    BY <2>1, SameTold
  <2>3. ~Handled(d, "CLOSE")' /\ ~Handled(d, "READ")'
    BY <1>0, <2>1, HandledNext DEF NextHandling, Events
  <2>4. ~Works(d)
    <3>1. Handled(d, "CLOSE")  BY <1>0, <1>2, CalmFrees
    <3>2. QED  BY <3>1, WorksFrame DEF Handled
  <2>5. RecvPosted'[d] = RecvPosted[d] /\ program' = program  BY <2>4, BlockStep, MisledStep
  <2>6. QED  BY <2>1, <2>2, <2>3, <2>5 DEF ReadDue, Pending, IsRock
<1>3. CASE ~Frees(d)
  <2>1. conn[d] = "open" => conn'[d] = "open"  BY <1>3, ConnStep
  <2>2. conn'[d] = "closed" => conn[d] = "closed"
    <3>1. ~rst[d]  BY <1>0 DEF Calm, SomeReset
    <3>2. QED  BY <1>3, <3>1, ConnStep
  <2>3. IsRock' => conn'[d] # "closed"  BY <1>1, <2>2, MisledStep DEF IsRock
  <2>4. Pending(d, "CLOSE")' => conn'[d] = "open"
    BY <1>1, <2>1, PendingStep, PostFacts DEF Events, Adds
  <2>5. ASSUME ReadDue(d)'  PROVE conn'[d] = "open" /\ Avail(d)' > 0
    <3>1. conn[d] = "open" /\ Avail(d) > 0
      <4>1. CASE ReadDue(d)  BY <1>1, <4>1
      <4>2. CASE Post(d, "READ")
        BY <4>2, PostFacts DEF Events, Adds, IsTheCase
      <4>3. QED  BY <1>0, <2>5, <4>1, <4>2, DueStep
    <3>2. taken'[d] = taken[d]
      <4>1. CASE Works(d)
        <5>1. ~\E n \in 1..DATA_BUFSIZE : Recv(d, n)  BY <1>0, <2>5, CalmRecv
        <5>2. QED
          BY <4>1, <5>1 DEF Works, PutOff, RecvNothing, NothingToSend, SendBlocks, Send, netVars
      <4>2. QED  BY <4>1, BlockStep
    <3>3. sent[d] <= sent'[d] /\ sent[d] \in Nat /\ sent'[d] \in Nat /\ taken[d] \in Nat
      BY <1>0, ClientSide, TypeStep DEF TypeOK, NetTypeOK
    <3>4. Avail(d)' > 0  BY <3>1, <3>2, <3>3 DEF Avail
    <3>5. QED  BY <2>1, <3>1, <3>4
  <2>6. QED  BY <2>3, <2>4, <2>5
<1>4. QED  BY <1>2, <1>3

\* No SOCKET_INFORMATION that is gone is used in a calm behaviour.
LEMMA CrashStep == IInv /\ [Next]_vars => CrashHasCause'
<1> SUFFICES ASSUME IInv, [Next]_vars, crashed', Calm'  PROVE FALSE
  BY DEF CrashHasCause, Calm
<1>0. Calm /\ ~crashed /\ TypeOK  BY CalmBefore DEF IInv, CrashHasCause, Calm
<1>1. CASE Goes
  <2>1. /\ FindsNone /\ crashed' # crashed
        /\ \/ handling.event = "READ"
           \/ handling.event = "WRITE" /\ IsRock
    BY <1>0, <1>1, GoesFrame
  <2>2. CASE handling.event = "READ"  BY <1>0, <2>1, <2>2, CalmOwner DEF FindsNone, Finds
  <2>3. CASE handling.event = "WRITE" /\ IsRock
    <3>1. IsHandled /\ handling \in Message  BY <1>0, <2>3, HandlingFacts DEF Events
    <3>2. handling.of \in Conns
      <4>1. handling.of # Listen  BY <2>3, <3>1 DEF IInv, MessagesOK, MessageOK
      <4>2. QED  BY <3>1, <4>1, MessageFacts
    <3>3. conn[handling.of] = "open"
      BY <1>0, <2>3, <3>1, <3>2 DEF IInv, MessagesOK, MessageOK, CalmOK
    <3>4. handling.of \in infos  BY <1>0, <3>2, <3>3 DEF Calm, Orphans
    <3>5. QED  BY <2>1, <3>1, <3>4, OwnerFound DEF FindsNone, Finds
  <2>4. QED  BY <2>1, <2>2, <2>3
<1>2. ASSUME NEW c \in Conns, Works(c) \/ Frees(c)  PROVE crashed' = crashed
  BY <1>2, WorksFrame, FreesFrame
<1>3. Takes \/ Clients \/ Dispatch \/ Posts \/ UNCHANGED vars => crashed' = crashed
  BY TakesFrame, ClientsFrame DEF serverVars, Dispatch, Posts, PostAccept, Post, vars
<1>4. QED  BY <1>0, <1>1, <1>2, <1>3, StepCases

-----------------------------------------------------------------------------
(* Where the one FD_READ is, and who sees to a read that was put off. *)

\* A step in which nothing is done for d.
Quiet(d) ==
  ~Works(d) /\ ~Frees(d) /\ ~Dispatch /\ \A e \in Events : ~Post(d, e)

LEMMA QuietStep ==
  ASSUME IInv, [Next]_vars, NEW d \in infos, Quiet(d)
  PROVE  /\ enabled'[d] = enabled[d] /\ RecvPosted'[d] = RecvPosted[d]
         /\ BytesRECV'[d] = BytesRECV[d] /\ BytesSEND'[d] = BytesSEND[d]
         /\ (d \in blocked' <=> d \in blocked) /\ (d \in short' <=> d \in short)
         /\ \A e \in Events : Told(d, e)' = Told(d, e) /\ (Handled(d, e)' <=> Handled(d, e))
<1>0. d \in Conns /\ conn[d] = "open" /\ TypeOK  BY DEF IInv, SocketsOK, TypeOK
<1>1. enabled'[d] = enabled[d]
  <2>1. ~SendBlocks(d)  BY DEF Quiet, Works
  <2>2. enabled'[d] = {} /\ conn'[d] = "closed" => Frees(d)  BY <1>0, ConnStep
  <2>3. QED  BY <1>0, <2>1, <2>2, EnabledStep DEF Quiet
<1>2. ASSUME NEW e \in Events  PROVE Told(d, e)' = Told(d, e)
  <2>1. PostAccept => Told(d, e)' = Told(d, e)  BY <1>0, PostAcceptTold
  <2>2. ASSUME NEW c \in Conns, NEW f \in Events, Post(c, f)  PROVE Told(d, e)' = Told(d, e)
    <3>1. c # d  BY <2>2 DEF Quiet
    <3>2. QED  BY <2>2, <3>1, PostFacts, AddsTold
  <2>3. ASSUME NEW c \in Conns, Reposts(c)  PROVE Told(d, e)' = Told(d, e)
    <3>1. c # d  BY <2>3 DEF Quiet, Reposts
    <3>2. Adds(c, "READ") /\ "READ" \in Events  BY <2>3, RepostsFacts DEF Events
    <3>3. QED  BY <3>1, <3>2, AddsTold
  <2>4. queue' = queue => Told(d, e)' = Told(d, e)  BY SameTold
  <2>5. QED  BY <2>1, <2>2, <2>3, <2>4, QueueStep DEF Quiet
<1>3. ASSUME IsHandled, handling.of = d  PROVE handling' = handling
  <2>1. Finds(d) /\ \A c \in Conns : Finds(c) => c = d  BY <1>3, OwnerFound
  <2>2. handling.event # "ACCEPT"  BY <1>0, <1>3 DEF IInv, MessagesOK, MessageOK
  <2>3. ~Takes  BY <2>2, TakesFrame
  <2>4. ~Goes  BY <2>1, GoesFrame DEF FindsNone, Finds
  <2>5. ASSUME NEW c \in Conns, Works(c) \/ Frees(c)  PROVE FALSE
    BY <2>1, <2>5, WorksFrame, FreesFrame DEF Quiet
  <2>6. Clients \/ Posts \/ UNCHANGED vars => handling' = handling
    BY ClientsFrame DEF serverVars, Posts, PostAccept, Post, vars
  <2>7. QED  BY <2>3, <2>4, <2>5, <2>6, StepCases DEF Quiet
<1>4. ASSUME NEW e \in Events  PROVE Handled(d, e)' <=> Handled(d, e)
  <2>1. Handled(d, e) => IsHandled /\ handling.of = d
    BY <1>0, HandlingFacts DEF Handled
  <2>2. handling' = handling \/ NextHandling  BY MisledStep DEF Quiet
  <2>3. Handled(d, e)' => IsHandled /\ handling.of = d
    <3>1. CASE handling' = handling  BY <2>1, <3>1, SameHandled
    <3>2. CASE NextHandling  BY <1>0, <3>2, HandledNext
    <3>3. QED  BY <2>2, <3>1, <3>2
  <2>4. QED  BY <1>3, <2>1, <2>3, SameHandled
<1>5. QED  BY <1>0, <1>1, <1>2, <1>4, BlockStep DEF Quiet

\* A connection that is not misled, or any in a calm behaviour, has its own reads handled.
LEMMA OwnRead ==
  ASSUME IInv, NEW d \in Conns, d \notin misled \/ Calm, Finds(d), handling.event = "READ"
  PROVE  Handled(d, "READ")
<1>1. CASE Calm  BY <1>1, CalmOwner
<1>2. CASE d \notin misled
  <2>1. IsHandled  BY HandlingFacts DEF IInv, Events
  <2>2. handling.of = d  BY <1>2, <2>1 DEF IInv, OwnMessage, Finds
  <2>3. QED  BY <2>2 DEF Handled
<1>3. QED  BY <1>1, <1>2

\* The read that a message of d tells of, or that was put off, is handled.
LEMMA ReadsWorks ==
  ASSUME IInv, [Next]_vars, NEW d \in infos, d \notin misled \/ Calm, Works(d)
  PROVE  OneRead(d)'
<1>0. d \in Conns /\ TypeOK /\ OneRead(d) /\ Finds(d) /\ "READ" \in Events
  BY WorksFrame DEF IInv, TypeOK, ReadsOK, Events
<1>1. ~Handled(d, "READ")'
  <2>1. NextHandling  BY <1>0, WorksFrame
  <2>2. QED  BY <1>0, <2>1, HandledNext
<1>2. CASE handling.event = "READ"
  <2>1. Handled(d, "READ")  BY <1>0, <1>2, OwnRead
  <2>2. /\ Told(d, "READ") = {} /\ "READ" \notin enabled[d] /\ ~RecvPosted[d]
    BY <1>0, <2>1 DEF OneRead, Pending, Enabled
  <2>3. Told(d, "READ")' = {}
    <3>1. queue' = queue
      BY <1>2 DEF Works, PutOff, RecvNothing, NothingToSend, SendBlocks, Recv, Send, Writing,
         stackVars
    <3>2. QED  BY <2>2, <3>1, SameTold
  <2>4. CASE PutOff(d)
    <3>1. enabled' = enabled /\ RecvPosted'[d]
      BY <1>0, <2>4 DEF PutOff, stackVars, TypeOK
    <3>2. QED  BY <1>1, <2>2, <2>3, <3>1 DEF OneRead, Enabled, Pending
  <2>5. CASE RecvNothing(d) \/ \E n \in 1..DATA_BUFSIZE : Recv(d, n)
    <3>1. enabled' = [enabled EXCEPT ![d] = @ \cup {"READ"}] /\ RecvPosted' = RecvPosted
      BY <2>5 DEF RecvNothing, Recv, Received, listVars, ioVars
    <3>2. "READ" \in enabled'[d] /\ ~RecvPosted'[d]
      BY <1>0, <2>2, <3>1 DEF TypeOK
    <3>3. QED  BY <1>1, <2>3, <3>2 DEF OneRead, Enabled, Pending
  <2>6. QED  BY <1>2, <2>4, <2>5 DEF Works, NothingToSend, SendBlocks, Send, Writing
<1>3. CASE handling.event # "READ"
  <2>1. ~Handled(d, "READ")  BY <1>3 DEF Handled
  <2>2. "READ" \in enabled'[d] <=> "READ" \in enabled[d]
    <3>1. CASE SendBlocks(d)
      <4>1. enabled' = [enabled EXCEPT ![d] = @ \cup {"WRITE"}]  BY <3>1 DEF SendBlocks
      <4>2. QED  BY <1>0, <4>1 DEF TypeOK
    <3>2. CASE ~SendBlocks(d)
      BY <1>3, <3>2 DEF Works, PutOff, RecvNothing, NothingToSend, Recv, Send
    <3>3. QED  BY <3>1, <3>2
  <2>3. CASE Reposts(d)
    <3>1. RecvPosted[d] /\ ~RecvPosted'[d]  BY <2>3 DEF Reposts
    <3>2. "READ" \notin enabled[d] /\ Told(d, "READ") = {}
      BY <1>0, <3>1 DEF OneRead, Enabled, Pending
    <3>3. Told(d, "READ")' # {} /\ One(d, "READ")'
      BY <1>0, <2>3, <3>2, RepostsFacts, AddsTold
    <3>4. QED  BY <1>1, <2>2, <3>1, <3>2, <3>3 DEF OneRead, Enabled, Pending, One
  <2>4. CASE ~Reposts(d)
    <3>1. RecvPosted'[d] = RecvPosted[d] /\ queue' = queue
      <4>1. ASSUME PostReadAgain(d), ResetCounts(d), enabled' = enabled,
                   handling.event = "WRITE", handling' = NoMessage
            PROVE  RecvPosted'[d] = RecvPosted[d] /\ queue' = queue
        <5>1. /\ RecvPosted'[d] = FALSE
              /\ RecvPosted[d] => queue' = Append(queue, Msg(d, "READ"))
              /\ ~RecvPosted[d] => queue' = queue
              /\ RecvPosted' \in [Conns -> BOOLEAN] /\ RecvPosted[d] \in BOOLEAN
          BY <1>0, <4>1, PostReadFacts, NetFacts
        <5>2. BytesRECV'[d] = 0  BY <1>0, <4>1 DEF ResetCounts, TypeOK
        <5>3. ~RecvPosted[d]  BY <1>0, <2>4, <4>1, <5>1, <5>2 DEF Reposts
        <5>4. QED  BY <5>1, <5>3
      <4>2. CASE NothingToSend(d)
        <5>1. /\ PostReadAgain(d) /\ ResetCounts(d) /\ enabled' = enabled
              /\ handling.event = "WRITE" /\ handling' = NoMessage
          BY <4>2 DEF NothingToSend, Writing, Finish
        <5>2. QED  BY <4>1, <5>1
      <4>3. CASE SendBlocks(d)  BY <4>3 DEF SendBlocks, listVars, ioVars
      <4>4. ASSUME NEW n \in 1..DATA_BUFSIZE, Send(d, n)
            PROVE  RecvPosted'[d] = RecvPosted[d] /\ queue' = queue
        <5>1. handling.event = "WRITE" /\ handling' = NoMessage /\ enabled' = enabled
          BY <1>0, <4>4, SendFrame DEF Writing
        <5>2. (PostReadAgain(d) /\ ResetCounts(d)) \/ (queue' = queue /\ RecvPosted' = RecvPosted)
          BY <1>0, <4>4, SendFrame DEF ResetCounts
        <5>3. QED  BY <4>1, <5>1, <5>2
      <4>5. QED
        BY <1>3, <4>2, <4>3, <4>4 DEF Works, PutOff, RecvNothing, Recv
    <3>2. Told(d, "READ")' = Told(d, "READ")  BY <3>1, SameTold
    <3>3. QED  BY <1>0, <1>1, <2>1, <2>2, <3>1, <3>2 DEF OneRead, Enabled, Pending
  <2>5. QED  BY <2>3, <2>4
<1>4. QED  BY <1>2, <1>3

LEMMA ReadsStep == IInv /\ [Next]_vars => ReadsOK'
<1> SUFFICES ASSUME IInv, [Next]_vars, NEW d \in infos', d \notin misled' \/ Calm'
             PROVE  OneRead(d)'
  BY DEF ReadsOK
<1>0. d \in Conns /\ TypeOK /\ (d \notin misled \/ Calm) /\ "READ" \in Events
  BY InfosStep, MisledStep, CalmBefore DEF IInv, Events
<1>1. CASE d \notin infos
  <2>1. Takes /\ d = Head(backlog) /\ conn'[d] = "open" /\ conn[d] = "pending"
    BY <1>1, InfosStep, TakesFrame
  <2>2. enabled'[d] = Events  BY <1>0, <2>1, ConnStep
  <2>3. Told(d, "READ") = {} /\ ~RecvPosted[d]
    BY <1>0, <2>1, NoneTold DEF IInv, SocketsOK
  <2>4. Told(d, "READ")' = {}  BY <2>1, <2>3, TakesFrame, SameTold
  <2>5. ~Handled(d, "READ")'
    <3>1. NextHandling  BY <2>1, TakesFrame DEF NextHandling
    <3>2. QED  BY <1>0, <3>1, HandledNext
  <2>6. ~RecvPosted'[d]
    <3>1. RecvPosted' = RecvPosted  BY <2>1, TakesFrame DEF ioVars
    <3>2. QED  BY <2>3, <3>1
  <2>7. QED  BY <1>0, <2>2, <2>4, <2>5, <2>6 DEF OneRead, Enabled, Pending
<1>2. CASE d \in infos
  <2>0. OneRead(d) /\ ~Frees(d)  BY <1>0, <1>2, InfosStep DEF IInv, ReadsOK
  <2>1. CASE Works(d)  BY <1>0, <1>2, <2>1, ReadsWorks
  <2>2. CASE Dispatch
    <3>1. enabled' = enabled /\ RecvPosted' = RecvPosted  BY <2>2 DEF Dispatch, listVars, ioVars
    <3>2. /\ ~Handled(d, "READ")
          /\ Told(d, "READ")' # {} \/ Handled(d, "READ")' <=> Told(d, "READ") # {}
          /\ One(d, "READ") => One(d, "READ")' /\ (Handled(d, "READ")' => Told(d, "READ")' = {})
      BY <1>0, <2>2, DispatchTold
    <3>3. QED  BY <2>0, <3>1, <3>2 DEF OneRead, Enabled, Pending, One
  <2>3. ASSUME NEW e \in Events, Post(d, e)  PROVE OneRead(d)'
    <3>1. /\ Adds(d, e) /\ e \in enabled[d] /\ enabled'[d] = enabled[d] \ SpentWith(e)
          /\ handling' = handling /\ RecvPosted' = RecvPosted
      BY <1>0, <2>3, PostFacts DEF listVars, ioVars
    <3>2. Handled(d, "READ")' <=> Handled(d, "READ")  BY <3>1, SameHandled
    <3>3. CASE e = "READ"
      <4>1. Told(d, "READ") = {} /\ ~Handled(d, "READ") /\ ~RecvPosted[d]
        BY <2>0, <3>1, <3>3 DEF OneRead, Enabled, Pending
      <4>2. Told(d, "READ")' # {} /\ One(d, "READ")'  BY <1>0, <3>1, <3>3, <4>1, AddsTold
      <4>3. "READ" \notin enabled'[d]  BY <3>1, <3>3 DEF SpentWith
      <4>4. QED  BY <3>1, <3>2, <4>1, <4>2, <4>3 DEF OneRead, Enabled, Pending, One
    <3>4. CASE e # "READ"
      <4>1. Told(d, "READ")' = Told(d, "READ")  BY <1>0, <3>1, <3>4, AddsTold
      <4>2. "READ" \in enabled'[d] <=> "READ" \in enabled[d]  BY <3>1, <3>4 DEF SpentWith
      <4>3. QED  BY <2>0, <3>1, <3>2, <4>1, <4>2 DEF OneRead, Enabled, Pending
    <3>5. QED  BY <3>3, <3>4
  <2>4. CASE Quiet(d)
    <3>1. /\ enabled'[d] = enabled[d] /\ RecvPosted'[d] = RecvPosted[d]
          /\ Told(d, "READ")' = Told(d, "READ")
          /\ Handled(d, "READ")' <=> Handled(d, "READ")
      BY <1>0, <1>2, <2>4, QuietStep
    <3>2. QED  BY <2>0, <3>1 DEF OneRead, Enabled, Pending
  <2>5. QED  BY <2>0, <2>1, <2>2, <2>3, <2>4 DEF Quiet
<1>3. QED  BY <1>1, <1>2

\* What a read or write does to its connection's counters.
LEMMA CountersFrame ==
  ASSUME IInv, NEW d \in Conns, Works(d)
  PROVE  \/ /\ PutOff(d) /\ RecvPosted'[d] /\ BytesRECV[d] > 0
            /\ UNCHANGED <<BytesRECV, BytesSEND, enabled, queue>>
         \/ /\ handling.event = "READ" /\ BytesRECV[d] = 0
            /\ RecvPosted' = RecvPosted /\ BytesSEND' = BytesSEND
            /\ \/ BytesRECV' = BytesRECV
               \/ BytesRECV'[d] > 0 /\ handling' = [handling EXCEPT !.event = "WRITE"]
         \/ /\ handling.event = "WRITE" /\ ~RecvPosted'[d]
            /\ BytesRECV'[d] = 0 /\ BytesSEND'[d] = 0
         \/ /\ SendBlocks(d) /\ d \in blocked' /\ "WRITE" \in enabled'[d]
            /\ UNCHANGED <<BytesRECV, BytesSEND, RecvPosted>>
         \/ /\ handling.event = "WRITE" /\ BytesRECV[d] > BytesSEND[d]
            /\ UNCHANGED <<BytesRECV, RecvPosted>>
            /\ d \in short' \/ (IsRock /\ BytesSEND'[d] = BytesRECV[d])
<1>0. /\ TypeOK /\ Finds(d) /\ BytesRECV[d] \in Nat /\ BytesSEND[d] \in Nat
      /\ BytesRECV \in [Conns -> 0..DATA_BUFSIZE] /\ BytesSEND \in [Conns -> Nat]
      /\ RecvPosted \in [Conns -> BOOLEAN] /\ enabled \in [Conns -> SUBSET Events]
  BY WorksFrame, NetFacts DEF IInv, TypeOK
<1>1. CASE PutOff(d)
  <2>1. BytesRECV[d] # 0 /\ RecvPosted' = [RecvPosted EXCEPT ![d] = TRUE]
        /\ UNCHANGED <<BytesRECV, BytesSEND, enabled, queue>>
    BY <1>1 DEF PutOff, Empty, stackVars
  <2>2. BytesRECV[d] > 0 /\ RecvPosted'[d]  BY <1>0, <2>1
  <2>3. QED  BY <1>1, <2>1, <2>2
<1>2. CASE RecvNothing(d)
  BY <1>2 DEF RecvNothing, Empty, listVars, ioVars
<1>3. ASSUME NEW n \in 1..DATA_BUFSIZE, Recv(d, n)
      PROVE  /\ handling.event = "READ" /\ BytesRECV[d] = 0
             /\ RecvPosted' = RecvPosted /\ BytesSEND' = BytesSEND
             /\ BytesRECV'[d] > 0 /\ handling' = [handling EXCEPT !.event = "WRITE"]
  <2>1. BytesRECV' = [BytesRECV EXCEPT ![d] = n]  BY <1>3, RecvFrame
  <2>2. BytesRECV'[d] > 0  BY <1>0, <2>1
  <2>3. QED  BY <1>3, <2>2, RecvFrame
<1>4. CASE NothingToSend(d)
  <2>1. handling.event = "WRITE" /\ PostReadAgain(d) /\ ResetCounts(d)
    BY <1>4 DEF NothingToSend, Writing
  <2>2. ~RecvPosted'[d]  BY <1>0, <2>1, PostReadFacts
  <2>3. BytesRECV'[d] = 0 /\ BytesSEND'[d] = 0  BY <1>0, <2>1 DEF ResetCounts
  <2>4. QED  BY <2>1, <2>2, <2>3
<1>5. CASE SendBlocks(d)
  <2>1. enabled' = [enabled EXCEPT ![d] = @ \cup {"WRITE"}] /\ blocked' = blocked \cup {d}
        /\ UNCHANGED <<BytesRECV, BytesSEND, RecvPosted>>
    BY <1>5 DEF SendBlocks, listVars, ioVars
  <2>2. "WRITE" \in enabled'[d] /\ d \in blocked'  BY <1>0, <2>1
  <2>3. QED  BY <1>5, <2>1, <2>2
<1>6. ASSUME NEW n \in 1..DATA_BUFSIZE, Send(d, n)
      PROVE  \/ /\ handling.event = "WRITE" /\ ~RecvPosted'[d]
                /\ BytesRECV'[d] = 0 /\ BytesSEND'[d] = 0
             \/ /\ handling.event = "WRITE" /\ BytesRECV[d] > BytesSEND[d]
                /\ UNCHANGED <<BytesRECV, RecvPosted>>
                /\ d \in short' \/ (IsRock /\ BytesSEND'[d] = BytesRECV[d])
  <2>0. handling.event = "WRITE" /\ n <= BytesRECV[d] - BytesSEND[d]
    BY <1>6, SendFrame DEF Writing
  <2>1. CASE /\ BytesRECV' = [BytesRECV EXCEPT ![d] = 0]
             /\ BytesSEND' = [BytesSEND EXCEPT ![d] = 0]
             /\ PostReadAgain(d)
    <3>1. ~RecvPosted'[d]  BY <1>0, <2>1, PostReadFacts
    <3>2. BytesRECV'[d] = 0 /\ BytesSEND'[d] = 0  BY <1>0, <2>1
    <3>3. QED  BY <2>0, <3>1, <3>2
  <2>2. CASE /\ IsRock \/ BytesSEND[d] + n # BytesRECV[d]
             /\ BytesSEND' = [BytesSEND EXCEPT ![d] = @ + n]
             /\ UNCHANGED <<BytesRECV, queue, RecvPosted>>
             /\ BytesSEND[d] + n = BytesRECV[d] \/ short' = short \cup {d}
    <3>1. BytesRECV[d] > BytesSEND[d]  BY <1>0, <2>0
    <3>2. BytesSEND'[d] = BytesSEND[d] + n  BY <1>0, <2>2
    <3>3. d \in short' \/ (IsRock /\ BytesSEND'[d] = BytesRECV[d])  BY <2>2, <3>2
    <3>4. QED  BY <2>0, <2>2, <3>1, <3>3
  <2>3. QED  BY <1>6, <2>1, <2>2, SendFrame
<1>7. QED  BY <1>1, <1>2, <1>3, <1>4, <1>5, <1>6 DEF Works

\* The block of a connection that was accepted just now is new.
LEMMA NewBlock ==
  ASSUME IInv, [Next]_vars, NEW d \in infos', d \notin infos
  PROVE  ~RecvPosted'[d] /\ BytesRECV'[d] = 0
<1>1. d \in Conns /\ Takes /\ conn[d] = "pending"  BY InfosStep, TakesFrame
<1>2. ~RecvPosted[d] /\ BytesRECV[d] = 0  BY <1>1 DEF IInv, SocketsOK
<1>3. QED  BY <1>1, <1>2, TakesFrame DEF ioVars

LEMMA WritesStep == IInv /\ [Next]_vars => WritesOK'
<1> SUFFICES ASSUME IInv, [Next]_vars, NEW d \in Conns
             PROVE  /\ RecvPosted'[d] => BytesRECV'[d] > 0
                    /\ d \in infos' /\ d \notin misled' /\ d \notin short' =>
                         /\ ~IsRock' /\ BytesRECV'[d] > 0 => WriteDue(d)'
                         /\ IsRock' /\ d \notin blocked' /\ RecvPosted'[d] =>
                              Handled(d, "WRITE")' /\ BytesRECV'[d] = BytesSEND'[d]
  <2>1. IInv /\ [Next]_vars => infos' \subseteq Conns  BY TypeStep DEF TypeOK
  <2>2. QED  BY <2>1 DEF WritesOK
<1>0. /\ TypeOK /\ WritesOK /\ {"READ", "WRITE"} \subseteq Events
      /\ BytesRECV[d] \in Nat /\ BytesSEND[d] \in Nat /\ BytesSEND[d] <= BytesRECV[d]
  BY NetFacts DEF IInv, Events
<1>1. RecvPosted'[d] => BytesRECV'[d] > 0
  <2>1. RecvPosted[d] => BytesRECV[d] > 0  BY <1>0 DEF WritesOK
  <2>2. CASE ~Works(d)  BY <2>1, <2>2, BlockStep
  <2>3. CASE Works(d)  BY <2>1, <2>3, CountersFrame
  <2>4. QED  BY <2>2, <2>3
<1>2. ASSUME d \in infos', d \notin misled', d \notin short'
      PROVE  /\ ~IsRock' /\ BytesRECV'[d] > 0 => WriteDue(d)'
             /\ IsRock' /\ d \notin blocked' /\ RecvPosted'[d] =>
                  Handled(d, "WRITE")' /\ BytesRECV'[d] = BytesSEND'[d]
  <2>1. CASE d \notin infos  BY <1>2, <2>1, NewBlock
  <2>2. CASE d \in infos
    <3>1. d \notin misled /\ ~Frees(d) /\ (IsRock' <=> IsRock)
      BY <1>2, <2>2, MisledStep, InfosStep DEF IsRock
    <3>2. ASSUME d \notin short
          PROVE  /\ ~IsRock /\ BytesRECV[d] > 0 => WriteDue(d)
                 /\ IsRock /\ d \notin blocked /\ RecvPosted[d] =>
                      Handled(d, "WRITE") /\ BytesRECV[d] = BytesSEND[d]
      BY <1>0, <2>2, <3>1, <3>2 DEF WritesOK
    <3>3. CASE Works(d)
      <4>0. /\ Finds(d) /\ NextHandling /\ IsHandled /\ handling.of = d
            /\ handling.event \in {"READ", "WRITE"}
        <5>1. Finds(d) /\ NextHandling /\ handling.event \in {"READ", "WRITE"}
          BY <3>3, WorksFrame
        <5>2. IsHandled  BY <1>0, <5>1, HandlingFacts
        <5>3. QED  BY <3>1, <5>1, <5>2 DEF IInv, OwnMessage, Finds
      <4>1. d \notin short
        <5>1. short \subseteq short'
          BY <3>3, SendFrame
          DEF Works, PutOff, RecvNothing, NothingToSend, SendBlocks, Recv, history
        <5>2. QED  BY <1>2, <5>1
      <4>2. CASE /\ PutOff(d) /\ RecvPosted'[d] /\ BytesRECV[d] > 0
                 /\ UNCHANGED <<BytesRECV, BytesSEND, enabled, queue>>
        <5>1. handling.event = "READ"  BY <4>2 DEF PutOff
        <5>2. BytesRECV[d] = BytesSEND[d] \/ d \in blocked
          <6>1. ~Writing(d)  BY <5>1 DEF Writing
          <6>2. ~(BytesRECV[d] > BytesSEND[d]) \/ d \in blocked
            BY <2>2, <4>1, <6>1 DEF IInv, LeftOver
          <6>3. QED  BY <1>0, <6>2
        <5>3. blocked' = blocked  BY <4>2 DEF PutOff, history
        <5>4. CASE IsRock
          <6>1. handling' = [handling EXCEPT !.event = "WRITE"]
            BY <4>2, <5>4 DEF PutOff, ReturnFromRead, GoOnTo
          <6>2. Handled(d, "WRITE")'
            <7>1. handling \in Message  BY <1>0, <4>0, HandlingFacts
            <7>2. handling'.event = "WRITE" /\ handling'.of = d
              BY <4>0, <6>1, <7>1 DEF Message
            <7>3. QED  BY <7>2 DEF Handled
          <6>3. QED  BY <3>1, <4>2, <5>2, <5>3, <5>4, <6>2
        <5>5. CASE ~IsRock
          <6>1. WriteDue(d) /\ ~Handled(d, "WRITE")
            BY <3>2, <4>1, <4>2, <5>1, <5>5 DEF Handled
          <6>2. Told(d, "WRITE")' = Told(d, "WRITE") /\ enabled' = enabled
            BY <4>2, SameTold
          <6>3. WriteDue(d)'  BY <6>1, <6>2 DEF WriteDue, Pending
          <6>4. QED  BY <3>1, <5>5, <6>3
        <5>6. QED  BY <5>4, <5>5
      <4>3. CASE /\ handling.event = "READ" /\ BytesRECV[d] = 0
                 /\ RecvPosted' = RecvPosted /\ BytesSEND' = BytesSEND
                 /\ \/ BytesRECV' = BytesRECV
                    \/ BytesRECV'[d] > 0 /\ handling' = [handling EXCEPT !.event = "WRITE"]
        <5>1. ~RecvPosted'[d]  BY <1>0, <4>3 DEF WritesOK
        <5>2. ASSUME handling' = [handling EXCEPT !.event = "WRITE"]  PROVE WriteDue(d)'
          <6>1. handling \in Message  BY <1>0, <4>0, HandlingFacts
          <6>2. handling'.event = "WRITE" /\ handling'.of = d
            BY <4>0, <5>2, <6>1 DEF Message
          <6>3. QED  BY <6>2 DEF WriteDue, Pending, Handled
        <5>3. QED  BY <4>3, <5>1, <5>2
      <4>4. CASE handling.event = "WRITE" /\ ~RecvPosted'[d] /\ BytesRECV'[d] = 0
        BY <4>4
      <4>5. CASE SendBlocks(d) /\ d \in blocked' /\ "WRITE" \in enabled'[d]
        BY <4>5 DEF WriteDue
      <4>6. CASE /\ handling.event = "WRITE" /\ BytesRECV[d] > BytesSEND[d]
                 /\ UNCHANGED <<BytesRECV, RecvPosted>>
                 /\ d \in short' \/ (IsRock /\ BytesSEND'[d] = BytesRECV[d])
        <5>1. IsRock  BY <1>2, <4>6
        <5>2. d \in blocked \/ ~RecvPosted[d]
          <6>1. BytesRECV[d] # BytesSEND[d]  BY <1>0, <4>6
          <6>2. QED  BY <3>2, <4>1, <5>1, <6>1
        <5>3. d \in blocked => d \in blocked'
          BY <3>3, SendFrame
          DEF Works, PutOff, RecvNothing, NothingToSend, SendBlocks, Recv, history
        <5>4. QED  BY <3>1, <4>6, <5>1, <5>2, <5>3
      <4>7. QED  BY <3>3, <4>2, <4>3, <4>4, <4>5, <4>6, CountersFrame
    <3>4. CASE Dispatch
      <4>1. /\ UNCHANGED <<BytesRECV, BytesSEND, RecvPosted, enabled, blocked, short>>
        BY <3>4 DEF Dispatch, listVars, ioVars
      <4>2. /\ ~Handled(d, "WRITE")
            /\ Told(d, "WRITE")' # {} \/ Handled(d, "WRITE")' <=> Told(d, "WRITE") # {}
        BY <1>0, <3>4, DispatchTold
      <4>3. WriteDue(d)' <=> WriteDue(d)  BY <4>1, <4>2 DEF WriteDue, Pending
      <4>4. QED  BY <1>2, <3>1, <3>2, <4>1, <4>2, <4>3
    <3>5. ASSUME NEW e \in Events, Post(d, e)
          PROVE  /\ ~IsRock' /\ BytesRECV'[d] > 0 => WriteDue(d)'
                 /\ IsRock' /\ d \notin blocked' /\ RecvPosted'[d] =>
                      Handled(d, "WRITE")' /\ BytesRECV'[d] = BytesSEND'[d]
      <4>1. /\ Adds(d, e) /\ e \in enabled[d] /\ enabled'[d] = enabled[d] \ SpentWith(e)
            /\ UNCHANGED <<handling, BytesRECV, BytesSEND, RecvPosted, blocked, short>>
        BY <3>5, PostFacts DEF listVars, ioVars, history
      <4>2. Handled(d, "WRITE")' <=> Handled(d, "WRITE")  BY <4>1, SameHandled
      <4>3. WriteDue(d) => WriteDue(d)'
        <5>1. CASE e = "WRITE"
          BY <1>0, <4>1, <5>1, AddsTold DEF WriteDue, Pending
        <5>2. CASE e # "WRITE"
          <6>1. Told(d, "WRITE")' = Told(d, "WRITE")  BY <1>0, <4>1, <5>2, AddsTold
          <6>2. "WRITE" \in enabled[d] => "WRITE" \in enabled'[d]
            BY <4>1, <5>2 DEF SpentWith
          <6>3. QED  BY <4>2, <6>1, <6>2 DEF WriteDue, Pending
        <5>3. QED  BY <5>1, <5>2
      <4>4. QED  BY <1>2, <3>1, <3>2, <4>1, <4>2, <4>3
    <3>6. CASE Quiet(d)
      <4>1. /\ enabled'[d] = enabled[d] /\ RecvPosted'[d] = RecvPosted[d]
            /\ BytesRECV'[d] = BytesRECV[d] /\ BytesSEND'[d] = BytesSEND[d]
            /\ (d \in blocked' <=> d \in blocked) /\ (d \in short' <=> d \in short)
            /\ Told(d, "WRITE")' = Told(d, "WRITE")
            /\ Handled(d, "WRITE")' <=> Handled(d, "WRITE")
        BY <1>0, <2>2, <3>6, QuietStep
      <4>2. WriteDue(d)' <=> WriteDue(d)  BY <4>1 DEF WriteDue, Pending
      <4>3. QED  BY <1>2, <3>1, <3>2, <4>1, <4>2
    <3>7. QED  BY <3>1, <3>3, <3>4, <3>5, <3>6 DEF Quiet
  <2>3. QED  BY <2>1, <2>2
<1>3. QED  BY <1>1, <1>2

\* Bytes are left in a buffer only while their write is handled, or a send was not taken whole.
LEMMA LeftOverStep == IInv /\ [Next]_vars => LeftOver'
<1> SUFFICES ASSUME IInv, [Next]_vars, NEW d \in infos', d \notin blocked', d \notin short',
                    BytesRECV'[d] > BytesSEND'[d]
             PROVE  Writing(d)'
  BY DEF LeftOver
<1>0. /\ d \in Conns /\ TypeOK /\ {"READ", "WRITE"} \subseteq Events
      /\ BytesSEND'[d] \in Nat /\ BytesRECV'[d] \in Nat
  <2>1. TypeOK'  BY TypeStep
  <2>2. d \in Conns  BY InfosStep
  <2>3. BytesSEND'[d] \in Nat /\ BytesRECV'[d] \in Nat  BY <2>1, <2>2 DEF TypeOK
  <2>4. QED  BY <2>2, <2>3 DEF Events, IInv
<1>1. CASE d \notin infos
  <2>1. BytesRECV'[d] = 0  BY <1>1, NewBlock
  <2>2. QED  BY <1>0, <2>1
<1>2. CASE d \in infos /\ ~Works(d)
  <2>1. /\ BytesRECV[d] > BytesSEND[d] /\ d \notin blocked /\ d \notin short
    BY <1>0, <1>2, BlockStep
  <2>2. Writing(d)  BY <1>2, <2>1 DEF IInv, LeftOver
  <2>3. handling.event = "WRITE" /\ Finds(d) /\ IsHandled
    BY <1>0, <2>2, HandlingFacts DEF Writing
  <2>4. \A c \in Conns : Finds(c) => c = d  BY <1>0, <2>3, FindsFacts DEF Finds
  <2>5. ~Frees(d)  BY <1>0, <1>2, InfosStep
  <2>6. ASSUME NEW c \in Conns, Works(c) \/ Frees(c)  PROVE FALSE
    BY <1>2, <2>4, <2>5, <2>6, WorksFrame, FreesFrame
  <2>7. ~Takes /\ ~Goes /\ ~Dispatch
    BY <2>3, TakesFrame, GoesFrame DEF FindsNone, Finds, Dispatch, IsHandled
  <2>8. Clients \/ Posts \/ UNCHANGED vars => UNCHANGED <<handling, infos, socket>>
    BY ClientsFrame DEF serverVars, listVars, Posts, PostAccept, Post, vars
  <2>9. UNCHANGED <<handling, infos, socket>>  BY <2>6, <2>7, <2>8, StepCases
  <2>10. QED  BY <2>3, <2>9 DEF Writing, Finds
<1>3. CASE d \in infos /\ Works(d)
  <2>0. Finds(d) /\ UNCHANGED <<infos, socket>> /\ BytesSEND[d] \in Nat /\ BytesRECV[d] \in Nat
    BY <1>0, <1>3, WorksFrame, NetFacts
  <2>1. d \notin blocked /\ d \notin short
    BY <1>0, <1>3, SendFrame
    DEF Works, PutOff, RecvNothing, NothingToSend, SendBlocks, Recv, history
  <2>2. handling.event = "READ" => ~(BytesRECV[d] > BytesSEND[d])
    BY <1>3, <2>1 DEF IInv, LeftOver, Writing
  <2>3. ASSUME handling.event = "READ", handling' = [handling EXCEPT !.event = "WRITE"]
        PROVE  Writing(d)'
    <3>1. handling \in Message  BY <1>0, <2>3, HandlingFacts
    <3>2. handling'.event = "WRITE" /\ handling'.sock = handling.sock
      BY <2>3, <3>1 DEF Message
    <3>3. QED  BY <2>0, <3>2 DEF Writing, Finds
  <2>4. ~PutOff(d) \/ ~UNCHANGED <<BytesRECV, BytesSEND, enabled, queue>>
    BY <2>2 DEF PutOff
  <2>5. QED  BY <1>0, <1>3, <2>0, <2>2, <2>3, <2>4, CountersFrame
<1>4. QED  BY <1>1, <1>2, <1>3

-----------------------------------------------------------------------------
(* The echo. *)

\* A connection none of whose counters, buffer and streams changed.
LEMMA EchoedFrame ==
  ASSUME NEW d, Echoed(d), sent[d] <= sent'[d], taken[d] \in Nat, sent[d] \in Nat,
         sent'[d] \in Nat,
         BytesSEND'[d] = BytesSEND[d], BytesRECV'[d] = BytesRECV[d], taken'[d] = taken[d],
         echo'[d] = echo[d], Buffer'[d] = Buffer[d]
  PROVE  Echoed(d)'
BY DEF Echoed

\* After a receive into an empty buffer.
LEMMA EchoedRecv ==
  ASSUME IInv, NEW c \in Conns, NEW n \in 1..DATA_BUFSIZE, Recv(c, n)
  PROVE  Echoed(c)'
<1>2. Echoed(c) /\ BytesSEND[c] = 0 /\ BytesRECV[c] = 0  BY RecvFrame DEF IInv
<1>3. /\ echo[c] \in Seq(Nat) /\ taken[c] \in Nat /\ sent[c] \in Nat
      /\ Len(echo[c]) = taken[c] /\ Len(Buffer[c]) = DATA_BUFSIZE
  BY <1>2 DEF IInv, TypeOK, NetTypeOK, Echoed
<1>4. /\ BytesRECV'[c] = n /\ BytesSEND'[c] = 0 /\ taken'[c] = taken[c] + n
      /\ echo'[c] = echo[c] /\ sent'[c] = sent[c]
      /\ Buffer'[c] = Overwrite(Buffer[c], Incoming(c, n))
  <2>1. /\ Buffer' = [Buffer EXCEPT ![c] = Overwrite(@, Incoming(c, n))]
        /\ BytesRECV' = [BytesRECV EXCEPT ![c] = n]
        /\ taken' = [taken EXCEPT ![c] = @ + n]
        /\ UNCHANGED <<clientVars, echo, BytesSEND>>
    BY RecvFrame
  <2>2. /\ Buffer \in [Conns -> [1..DATA_BUFSIZE -> Nat]]
        /\ BytesRECV \in [Conns -> 0..DATA_BUFSIZE] /\ taken \in [Conns -> Nat]
    BY DEF IInv, TypeOK, NetTypeOK
  <2>3. Buffer'[c] = Overwrite(Buffer[c], Incoming(c, n))  BY <2>1, <2>2
  <2>4. BytesRECV'[c] = n /\ taken'[c] = taken[c] + n  BY <2>1, <2>2
  <2>5. BytesSEND'[c] = 0 /\ echo'[c] = echo[c] /\ sent'[c] = sent[c]
    BY <1>2, <2>1 DEF clientVars
  <2>6. QED  BY <2>3, <2>4, <2>5
<1>5. taken[c] + n <= sent[c]  BY <1>3, RecvFrame DEF Avail
<1>6. \A k \in 1..n : Buffer'[c][k] = taken[c] + k
  <2>1. Len(Incoming(c, n)) = n /\ \A k \in 1..n : Incoming(c, n)[k] = taken[c] + k
    BY DEF Incoming
  <2>2. n <= DATA_BUFSIZE /\ Len(Buffer[c]) = DATA_BUFSIZE  BY <1>3
  <2>3. \A k \in 1..n : Overwrite(Buffer[c], Incoming(c, n))[k] = Incoming(c, n)[k]
    BY <2>1, <2>2 DEF Overwrite
  <2>4. QED  BY <1>4, <2>1, <2>3
<1>7. taken'[c] <= sent'[c]  BY <1>4, <1>5
<1>8. Len(echo'[c]) + (BytesRECV'[c] - BytesSEND'[c]) = taken'[c]  BY <1>3, <1>4
<1>9. \A k \in 1..Len(echo'[c]) : echo'[c][k] = k  BY <1>2, <1>4 DEF Echoed
<1>10. ASSUME NEW k \in BytesSEND'[c]+1..BytesRECV'[c]
       PROVE  Buffer'[c][k] = Len(echo'[c]) + (k - BytesSEND'[c])
  <2>1. k \in 1..n /\ k - BytesSEND'[c] = k  BY <1>4
  <2>2. Buffer'[c][k] = taken[c] + k  BY <1>6, <2>1
  <2>3. QED  BY <1>3, <1>4, <2>1, <2>2
<1>11. QED  BY <1>7, <1>8, <1>9, <1>10 DEF Echoed

LEMMA ConcatFacts ==
  ASSUME NEW s \in Seq(Nat), NEW t \in Seq(Nat)
  PROVE  /\ Len(s \o t) = Len(s) + Len(t)
         /\ \A k \in 1..Len(s) : (s \o t)[k] = s[k]
         /\ \A k \in 1..Len(t) : (s \o t)[Len(s) + k] = t[k]
OBVIOUS

\* What a send takes from the buffer are the stream's next bytes.
LEMMA SendIsNext ==
  ASSUME IInv, NEW c \in Conns, NEW n \in 1..DATA_BUFSIZE, Send(c, n)
  PROVE  /\ n <= BytesRECV[c] - BytesSEND[c]
         /\ echo'[c] = echo[c] \o Unsent(c, n)
         /\ Unsent(c, n) \in Seq(Nat) /\ Len(Unsent(c, n)) = n
         /\ Unsent(c, n) = [k \in 1..n |-> Len(echo[c]) + k]
         /\ Len(echo[c]) + n <= sent[c]
<1>1. Echoed(c)  BY DEF IInv
<1>2. /\ echo[c] \in Seq(Nat) /\ Len(echo[c]) \in Nat
      /\ taken[c] \in Nat /\ sent[c] \in Nat
      /\ BytesSEND[c] \in Nat /\ BytesRECV[c] \in Nat
  BY NetFacts DEF IInv
<1>3. n <= BytesRECV[c] - BytesSEND[c]  BY SendFrame
<1>4. echo'[c] = echo[c] \o Unsent(c, n)
  <2>1. echo' = [echo EXCEPT ![c] = @ \o Unsent(c, n)]  BY SendFrame
  <2>2. echo \in [Conns -> Seq(Nat)]  BY DEF IInv, TypeOK, NetTypeOK
  <2>3. QED  BY <2>1, <2>2
<1>5. \A k \in 1..n : Buffer[c][BytesSEND[c] + k] = Len(echo[c]) + k
  <2>1. \A k \in 1..n : BytesSEND[c] + k \in BytesSEND[c]+1..BytesRECV[c]  BY <1>2, <1>3
  <2>2. ASSUME NEW k \in 1..n  PROVE Buffer[c][BytesSEND[c] + k] = Len(echo[c]) + k
    <3>1. Buffer[c][BytesSEND[c] + k] = Len(echo[c]) + ((BytesSEND[c] + k) - BytesSEND[c])
      BY <1>1, <2>1 DEF Echoed
    <3>2. (BytesSEND[c] + k) - BytesSEND[c] = k  BY <1>2
    <3>3. QED  BY <3>1, <3>2
  <2>3. QED  BY <2>2
<1>6. Unsent(c, n) = [k \in 1..n |-> Len(echo[c]) + k]  BY <1>5 DEF Unsent
<1>7. Unsent(c, n) \in Seq(Nat) /\ Len(Unsent(c, n)) = n  BY <1>2, <1>6
<1>8. Len(echo[c]) + n <= sent[c]  BY <1>1, <1>2, <1>3 DEF Echoed
<1>9. QED  BY <1>3, <1>4, <1>6, <1>7, <1>8

\* After a send of the next bytes of the buffer.
LEMMA EchoedSend ==
  ASSUME IInv, NEW c \in Conns, NEW n \in 1..DATA_BUFSIZE, Send(c, n)
  PROVE  Echoed(c)'
<1>1. Echoed(c)  BY DEF IInv
<1>2. /\ echo[c] \in Seq(Nat) /\ Len(echo[c]) \in Nat
      /\ taken[c] \in Nat /\ sent[c] \in Nat
      /\ BytesSEND[c] \in Nat /\ BytesRECV[c] \in Nat
  BY NetFacts DEF IInv
<1>3. /\ n <= BytesRECV[c] - BytesSEND[c]
      /\ echo'[c] = echo[c] \o Unsent(c, n)
      /\ Unsent(c, n) \in Seq(Nat) /\ Len(Unsent(c, n)) = n
      /\ \A k \in 1..n : Unsent(c, n)[k] = Len(echo[c]) + k
  <2>1. Unsent(c, n) = [k \in 1..n |-> Len(echo[c]) + k]  BY SendIsNext
  <2>2. \A k \in 1..n : Unsent(c, n)[k] = Len(echo[c]) + k  BY ONLY <2>1
  <2>3. QED  BY <2>2, SendIsNext
<1>4. /\ taken'[c] = taken[c] /\ sent'[c] = sent[c] /\ Buffer'[c] = Buffer[c]
  BY SendFrame DEF clientVars
<1>5. /\ Len(echo'[c]) = Len(echo[c]) + n
      /\ \A k \in 1..Len(echo'[c]) : echo'[c][k] = k
  <2>0. /\ Len(echo[c] \o Unsent(c, n)) = Len(echo[c]) + Len(Unsent(c, n))
        /\ \A k \in 1..Len(echo[c]) : (echo[c] \o Unsent(c, n))[k] = echo[c][k]
        /\ \A k \in 1..Len(Unsent(c, n)) :
             (echo[c] \o Unsent(c, n))[Len(echo[c]) + k] = Unsent(c, n)[k]
    BY <1>2, <1>3, ConcatFacts
  <2>1. Len(echo'[c]) = Len(echo[c]) + n  BY <1>3, <2>0
  <2>2. \A k \in 1..Len(echo[c]) : echo'[c][k] = echo[c][k]  BY <1>3, <2>0
  <2>3. \A k \in 1..n : echo'[c][Len(echo[c]) + k] = Unsent(c, n)[k]  BY <1>3, <2>0
  <2>4. ASSUME NEW k \in 1..Len(echo'[c])  PROVE echo'[c][k] = k
    <3>1. CASE k \in 1..Len(echo[c])  BY <1>1, <2>2, <3>1 DEF Echoed
    <3>2. CASE k \notin 1..Len(echo[c])
      <4>1. k - Len(echo[c]) \in 1..n /\ Len(echo[c]) + (k - Len(echo[c])) = k
        BY <1>2, <2>1, <3>2
      <4>2. QED  BY <1>3, <2>3, <4>1
    <3>3. QED  BY <3>1, <3>2
  <2>5. QED  BY <2>1, <2>4
<1>6. CASE /\ BytesSEND[c] + n = BytesRECV[c]
           /\ BytesRECV' = [BytesRECV EXCEPT ![c] = 0]
           /\ BytesSEND' = [BytesSEND EXCEPT ![c] = 0]
  <2>1. BytesSEND'[c] = 0 /\ BytesRECV'[c] = 0  BY <1>6 DEF IInv, TypeOK
  <2>2. (BytesSEND'[c]+1..BytesRECV'[c]) = {}  BY <2>1
  <2>3. /\ taken'[c] <= sent'[c]
        /\ Len(echo[c]) + (BytesRECV[c] - BytesSEND[c]) = taken[c]
    BY <1>1, <1>4 DEF Echoed
  <2>4. Len(echo'[c]) = Len(echo[c]) + n  BY <1>5
  <2>5. Len(echo'[c]) + (BytesRECV'[c] - BytesSEND'[c]) = taken'[c]
    BY <1>2, <1>4, <1>6, <2>1, <2>3, <2>4
  <2>6. QED  BY <1>5, <2>2, <2>3, <2>5 DEF Echoed
<1>7. CASE BytesSEND' = [BytesSEND EXCEPT ![c] = @ + n] /\ BytesRECV' = BytesRECV
  <2>1. BytesSEND'[c] = BytesSEND[c] + n /\ BytesRECV'[c] = BytesRECV[c]
    BY <1>7 DEF IInv, TypeOK
  <2>2. ASSUME NEW k \in BytesSEND'[c]+1..BytesRECV'[c]
        PROVE  Buffer'[c][k] = Len(echo'[c]) + (k - BytesSEND'[c])
    <3>1. k \in BytesSEND[c]+1..BytesRECV[c] /\ k \in Nat  BY <1>2, <2>1
    <3>2. Buffer[c][k] = Len(echo[c]) + (k - BytesSEND[c])  BY <1>1, <3>1 DEF Echoed
    <3>3. Len(echo[c]) + (k - BytesSEND[c]) = (Len(echo[c]) + n) + (k - (BytesSEND[c] + n))
      BY <1>2, <3>1
    <3>4. QED  BY <1>4, <1>5, <2>1, <3>2, <3>3
  <2>3. /\ taken'[c] <= sent'[c]
        /\ Len(echo[c]) + (BytesRECV[c] - BytesSEND[c]) = taken[c]
    BY <1>1, <1>4 DEF Echoed
  <2>4. Len(echo'[c]) = Len(echo[c]) + n  BY <1>5
  <2>5. Len(echo'[c]) + (BytesRECV'[c] - BytesSEND'[c]) = taken'[c]
    BY <1>2, <1>4, <2>1, <2>3, <2>4
  <2>6. QED  BY <1>5, <2>2, <2>3, <2>5 DEF Echoed
<1>8. QED  BY <1>6, <1>7, SendFrame

LEMMA EchoStep == IInv /\ [Next]_vars => \A d \in Conns : Echoed(d)'
<1> SUFFICES ASSUME IInv, [Next]_vars, NEW d \in Conns  PROVE Echoed(d)'
  OBVIOUS
<1>0. /\ Echoed(d) /\ taken[d] \in Nat /\ sent[d] \in Nat /\ sent'[d] \in Nat
      /\ sent[d] <= sent'[d] /\ TypeOK
  BY TypeStep, ClientSide DEF IInv, TypeOK, NetTypeOK
<1>1. CASE ~Works(d)
  <2>1. /\ Buffer'[d] = Buffer[d] /\ BytesRECV'[d] = BytesRECV[d]
        /\ BytesSEND'[d] = BytesSEND[d] /\ taken'[d] = taken[d] /\ echo'[d] = echo[d]
    BY <1>1, BlockStep
  <2>2. QED  BY <1>0, <2>1, EchoedFrame
<1>2. CASE PutOff(d) \/ RecvNothing(d) \/ SendBlocks(d)
  <2>1. UNCHANGED <<Buffer, BytesRECV, BytesSEND, taken, echo>>
    BY <1>2 DEF PutOff, RecvNothing, SendBlocks, netVars, listVars, ioVars
  <2>2. QED  BY <1>0, <2>1, EchoedFrame
<1>3. CASE NothingToSend(d)
  <2>1. /\ BytesSEND[d] = BytesRECV[d] /\ BytesSEND'[d] = 0 /\ BytesRECV'[d] = 0
        /\ UNCHANGED <<netVars, Buffer>>
    BY <1>0, <1>3 DEF NothingToSend, ResetCounts, TypeOK
  <2>2. BytesRECV[d] \in Nat /\ Len(echo[d]) \in Nat  BY <1>0, NetFacts
  <2>3. (BytesSEND'[d]+1..BytesRECV'[d]) = {}  BY <2>1
  <2>4. QED  BY <1>0, <2>1, <2>2, <2>3 DEF Echoed, netVars
<1>4. QED  BY <1>1, <1>2, <1>3, EchoedRecv, EchoedSend DEF Works

-----------------------------------------------------------------------------
(* The invariants of MessageServer hold together in every behaviour.        *)

LEMMA InvInit == Init => IInv
<1> SUFFICES ASSUME Init  PROVE IInv
  OBVIOUS
<1>1. TypeOK  BY TypeInit
<1>2. /\ backlog = <<>> /\ queue = <<>> /\ infos = {} /\ handling = NoMessage
      /\ acceptEnabled /\ ~crashed
      /\ \A c \in Conns :
           /\ conn[c] = "new" /\ socket[c] = NoSocket /\ ~RecvPosted[c]
           /\ BytesSEND[c] = 0 /\ BytesRECV[c] = 0 /\ taken[c] = 0 /\ sent[c] = 0
           /\ echo[c] = <<>> /\ enabled[c] = {}
  BY DEF Init, NetInit
<1>3. \A c, e : Told(c, e) = {}  BY <1>2 DEF Told
<1>4. \A c, e : e \in Events \cup {"ACCEPT"} => ~Handled(c, e)
  BY <1>1, <1>2, HandlingFacts DEF Handled, IsHandled
<1>5. BacklogOK /\ SocketsOK  BY <1>2 DEF BacklogOK, SocketsOK
<1>6. MessagesOK /\ OwnMessage  BY <1>2 DEF MessagesOK, OwnMessage, IsHandled
<1>7. AcceptOnce
  <2>1. handling.event # "ACCEPT"  BY <1>1, <1>2, HandlingFacts DEF IsHandled
  <2>2. QED  BY <1>3, <2>1 DEF AcceptOnce, Accepts
<1>8. ASSUME NEW c \in Conns  PROVE Echoed(c)
  <2>1. Len(echo[c]) = 0 /\ BytesSEND[c] = 0 /\ BytesRECV[c] = 0 /\ taken[c] = 0 /\ sent[c] = 0
    BY <1>2
  <2>2. 1..Len(echo[c]) = {} /\ BytesSEND[c]+1..BytesRECV[c] = {}  BY <2>1
  <2>3. QED  BY <2>1, <2>2 DEF Echoed
<1>9. \A c \in Conns : EndOnce(c)
  BY <1>2, <1>3, <1>4 DEF EndOnce, Pending, Events
<1>10. CalmOK  BY <1>2, <1>3, <1>4 DEF CalmOK, ReadDue, Pending, Events
<1>11. LeftOver /\ ReadsOK /\ WritesOK /\ CrashHasCause
  BY <1>2 DEF LeftOver, ReadsOK, WritesOK, CrashHasCause
<1>12. QED  BY <1>1, <1>5, <1>6, <1>7, <1>8, <1>9, <1>10, <1>11 DEF IInv

LEMMA Invariance == Spec => []IInv
<1>1. IInv /\ [Next]_vars => IInv'
  BY TypeStep, BacklogStep, SocketsStep, MessagesStep, AcceptOnceStep, OwnMessageStep,
     EchoStep, LeftOverStep, EndOnceStep, CalmStep, ReadsStep, WritesStep, CrashStep DEF IInv
<1>2. QED  BY InvInit, <1>1, PTL DEF Spec

(* Every variable keeps its type in every behaviour of either server (the   *)
(* state of WSAAsyncSelect.cpp, lines 38-61, and of RockSocket.h).          *)
THEOREM TypeCorrect == Spec => []TypeOK
BY Invariance, PTL DEF IInv

(* No read of a connection is lost or doubled, as long as no message of an  *)
(* earlier connection was handled for it (WSAAsyncSelect.cpp 338-475,       *)
(* RockSocket.cpp 402-490).                                                 *)
THEOREM ReadsAreOwed == Spec => []ReadIsOwed
<1>1. IInv => ReadIsOwed
  <2> SUFFICES ASSUME IInv, NEW c \in infos, c \notin misled
               PROVE  /\ LET here(p) == IF p THEN 1 ELSE 0 IN
                           here("READ" \in enabled[c]) + Cardinality(Told(c, "READ"))
                             + here(Handled(c, "READ")) + here(RecvPosted[c]) = 1
                      /\ RecvPosted[c] /\ c \notin Stuck =>
                           "WRITE" \in enabled[c] \/ Told(c, "WRITE") # {} \/ Handled(c, "WRITE")
    BY DEF ReadIsOwed
  <2>1. OneRead(c) /\ c \in Conns  BY DEF IInv, ReadsOK, TypeOK
  <2>2. Told(c, "READ") = {} => Cardinality(Told(c, "READ")) = 0  BY FS_EmptySet
  <2>3. Told(c, "READ") # {} => Cardinality(Told(c, "READ")) = 1
    <3>1. ASSUME Told(c, "READ") # {}  PROVE Cardinality(Told(c, "READ")) = 1
      <4>1. PICK k : k \in Told(c, "READ")  BY <3>1
      <4>2. Told(c, "READ") = {k}  BY <2>1, <4>1 DEF OneRead
      <4>3. QED  BY <4>2, FS_Singleton
    <3>2. QED  BY <3>1
  <2>4. LET here(p) == IF p THEN 1 ELSE 0 IN
          here("READ" \in enabled[c]) + Cardinality(Told(c, "READ"))
            + here(Handled(c, "READ")) + here(RecvPosted[c]) = 1
    BY <2>1, <2>2, <2>3 DEF OneRead, Enabled, Pending
  <2>5. RecvPosted[c] /\ c \notin Stuck => WriteDue(c)
    BY <2>1 DEF IInv, WritesOK, Stuck, WriteDue, Pending
  <2>6. QED  BY <2>4, <2>5 DEF WriteDue, Pending
<1>2. QED  BY <1>1, Invariance, PTL

(* A block that is gone is used only after a reset, after an accept without *)
(* a block, or by RockSocket after a shutdown (WSAAsyncSelect.cpp 344,      *)
(* RockSocket.cpp 412 and 454).                                             *)
THEOREM CrashesHaveCause == Spec => []CrashHasCause
BY Invariance, PTL DEF IInv

(* What has been echoed on a connection is the beginning of its client's    *)
(* stream (WSAAsyncSelect.cpp 338-475, RockSocket.cpp 402-490).             *)
EchoIsPrefix ==
  \A c \in Conns : Len(echo[c]) <= sent[c] /\ \A k \in 1..Len(echo[c]) : echo[c][k] = k

THEOREM EchoIsExact == Spec => []EchoIsPrefix
<1>1. IInv => EchoIsPrefix
  <2> SUFFICES ASSUME IInv, NEW c \in Conns
               PROVE  Len(echo[c]) <= sent[c] /\ \A k \in 1..Len(echo[c]) : echo[c][k] = k
    BY DEF EchoIsPrefix
  <2>1. Echoed(c)  BY DEF IInv
  <2>2. /\ Len(echo[c]) \in Nat /\ taken[c] \in Nat /\ sent[c] \in Nat
        /\ BytesRECV[c] \in Nat /\ BytesSEND[c] \in Nat /\ BytesSEND[c] <= BytesRECV[c]
    BY NetFacts DEF IInv
  <2>3. QED  BY <2>1, <2>2 DEF Echoed
<1>2. QED  BY <1>1, Invariance, PTL

-----------------------------------------------------------------------------
(* MessageServer implements EchoService. *)

LEMMA TakesRefines ==
  ASSUME IInv, Takes
  PROVE  Promise!Next
<1> DEFINE c == Head(backlog)
<1>1. c \in Conns /\ conn[c] = "pending" /\ UNCHANGED <<sent, fin, rst, echo>>
  BY TakesFrame DEF clientVars
<1>2. \/ conn' = [conn EXCEPT ![c] = "open"]
      \/ conn' = [conn EXCEPT ![c] = "closed"] /\ rst[c]
  BY DEF Takes, Accept, CreateFails, AcceptFails, TakeSocket
<1> HIDE DEF c
<1>3. Promise!Accept(c) \/ Promise!Close(c)
  BY <1>1, <1>2 DEF Promise!Accept, Promise!Close
<1>4. QED  BY <1>1, <1>3 DEF Promise!Next

LEMMA WorksRefines ==
  ASSUME IInv, NEW c \in Conns, Works(c)
  PROVE  [Promise!Next]_Promise!vars
<1> USE DEF Promise!vars
<1>1. UNCHANGED <<conn, sent, fin, rst>>  BY WorksFrame DEF clientVars
<1>2. CASE UNCHANGED echo  BY <1>1, <1>2
<1>3. ASSUME NEW n \in 1..DATA_BUFSIZE, Send(c, n)  PROVE [Promise!Next]_Promise!vars
  <2>1. /\ echo' = [echo EXCEPT ![c] = @ \o Unsent(c, n)]
        /\ conn[c] = "open" /\ ~rst[c]
    BY <1>3, SendFrame, WorksFrame, FindsFacts
  <2>2. /\ Len(echo[c]) + n <= sent[c]
        /\ Unsent(c, n) = [k \in 1..n |-> Len(echo[c]) + k]
    BY <1>3, SendIsNext
  <2>3. Promise!Echo(c, n)  BY <1>1, <2>1, <2>2 DEF Promise!Echo
  <2>4. n \in 1..sent[c]
    <3>1. sent[c] \in Nat /\ Len(echo[c]) \in Nat  BY NetFacts DEF IInv
    <3>2. QED  BY <2>2, <3>1
  <2>5. QED  BY <2>3, <2>4 DEF Promise!Next
<1>4. (\E n \in 1..DATA_BUFSIZE : Send(c, n)) \/ UNCHANGED echo
  BY DEF Works, PutOff, RecvNothing, NothingToSend, SendBlocks, Recv, netVars
<1>5. QED  BY <1>2, <1>3, <1>4

\* Why a connection may be given up.
LEMMA FreesRefines ==
  ASSUME IInv, NEW c \in Conns, Frees(c)
  PROVE  Promise!Next
<1>1. /\ conn[c] = "open" /\ c \in infos /\ Finds(c)
      /\ conn' = [conn EXCEPT ![c] = "closed"] /\ UNCHANGED <<sent, fin, rst, echo>>
  BY FreesFrame DEF FreeSocketInformation, clientVars
<1>2. rst[c] \/ (fin[c] /\ Len(echo[c]) = sent[c]) \/ c \in Lossy
  <2> SUFFICES ASSUME ~rst[c], c \notin misled  PROVE fin[c] /\ (Len(echo[c]) = sent[c] \/ c \in Lossy)
    BY DEF Lossy
  <2>1. handling.event \in {"CLOSE", "ABORT"}  BY FreesFrame
  <2>2. IsHandled /\ handling.of = c
    <3>1. IsHandled  BY <2>1, HandlingFacts DEF IInv, Events
    <3>2. QED  BY <1>1, <3>1 DEF IInv, OwnMessage, Finds
  <2>3. handling.event = "CLOSE"
    BY <2>1, <2>2 DEF IInv, EndOnce, Pending, Handled
  <2>4. fin[c] /\ taken[c] = sent[c]
    BY <2>2, <2>3 DEF IInv, EndOnce, Pending, Handled, AllReceived
  <2>5. ASSUME c \notin blocked, c \notin short  PROVE Len(echo[c]) = sent[c]
    <3>1. /\ BytesRECV[c] \in Nat /\ BytesSEND[c] \in Nat /\ BytesSEND[c] <= BytesRECV[c]
          /\ Len(echo[c]) \in Nat /\ sent[c] \in Nat
      BY NetFacts DEF IInv
    <3>2. ~(BytesRECV[c] > BytesSEND[c])
      BY <1>1, <2>3, <2>5 DEF IInv, LeftOver, Writing
    <3>3. Echoed(c)  BY DEF IInv
    <3>4. QED  BY <2>4, <3>1, <3>2, <3>3 DEF Echoed
  <2>6. QED  BY <2>4, <2>5 DEF Lossy
<1>3. Promise!Close(c)  BY <1>1, <1>2 DEF Promise!Close
<1>4. QED  BY <1>3 DEF Promise!Next

LEMMA ClientRefines ==
  ASSUME NEW c \in Conns, Client(c)
  PROVE  [Promise!Next]_Promise!vars
<1>1. CASE Connect(c)
  BY <1>1 DEF Connect, Promise!Connect, Promise!Next
<1>2. CASE ClientSend(c)
  BY <1>2 DEF ClientSend, Connected, Promise!ClientSend, Promise!Next
<1>3. CASE ClientRead(c)  BY <1>3 DEF ClientRead, Promise!vars
<1>4. CASE ClientShutdown(c)
  BY <1>4 DEF ClientShutdown, Promise!Shutdown, Promise!Next
<1>5. CASE ClientReset(c)
  BY <1>5 DEF ClientReset, Promise!Reset, Promise!Next
<1>6. QED  BY <1>1, <1>2, <1>3, <1>4, <1>5 DEF Client

LEMMA StepRefines == IInv /\ [Next]_vars => [Promise!Next]_Promise!vars
<1> SUFFICES ASSUME IInv, [Next]_vars  PROVE [Promise!Next]_Promise!vars
  OBVIOUS
<1>1. CASE Clients  BY <1>1, ClientRefines DEF Clients, ClientStep
<1>2. CASE Goes \/ Dispatch \/ Posts \/ UNCHANGED vars
  <2>1. UNCHANGED netVars
    BY <1>2, GoesFrame DEF Dispatch, Posts, PostAccept, Post, vars
  <2>2. QED  BY <2>1 DEF netVars, Promise!vars
<1>3. QED
  BY <1>1, <1>2, TakesRefines, WorksRefines, FreesRefines, StepCases

(* Both window-message servers implement EchoService, except for            *)
(* connections that bear the socket number of an earlier one whose message  *)
(* was handled for them, and the bytes of a refused send that an FD_CLOSE   *)
(* makes them drop (WSAAsyncSelect.cpp 270-490, RockSocket.cpp 340-500).    *)
THEOREM Implements == Spec => EchoServiceSpec
<1>1. Init => Promise!Init  BY DEF Init, NetInit, Promise!Init
<1>2. QED  BY <1>1, StepRefines, Invariance, PTL DEF Spec, EchoServiceSpec, Promise!Spec

(* A connection that is closed and was not reset had been shut down by its  *)
(* client, and but for a send that did not take all it was given, all its   *)
(* client sent was echoed; or a message of an earlier connection, which had *)
(* the same socket number, was handled for it.                              *)
CloseIsExplained ==
  \A c \in Conns : conn[c] = "closed" /\ ~rst[c] =>
    c \in misled \/ (fin[c] /\ (c \in blocked \cup short \/ Len(echo[c]) = sent[c]))

LEMMA HistoryGrows ==
  IInv /\ [Next]_vars =>
    misled \subseteq misled' /\ blocked \subseteq blocked' /\ short \subseteq short'
<1> SUFFICES ASSUME IInv, [Next]_vars
             PROVE  misled \subseteq misled' /\ blocked \subseteq blocked' /\ short \subseteq short'
  OBVIOUS
<1>1. CASE Takes \/ Goes \/ Posts \/ Clients \/ UNCHANGED vars
  <2>1. UNCHANGED history
    BY <1>1 DEF Takes, Accept, CreateFails, AcceptFails, Accepted, Goes, ReadGone, WriteGone,
       CloseGone, Posts, PostAccept, Post, Clients, ClientStep, serverVars, vars, history
  <2>2. QED  BY <2>1 DEF history
<1>2. CASE Dispatch  BY <1>2 DEF Dispatch
<1>3. ASSUME NEW c \in Conns, Works(c) \/ Frees(c)
      PROVE  misled \subseteq misled' /\ blocked \subseteq blocked' /\ short \subseteq short'
  BY <1>3 DEF Works, PutOff, RecvNothing, NothingToSend, SendBlocks, Recv, Send, Frees, RecvFails,
     SendFails, Close, FreeSocketInformation, history
<1>4. QED  BY <1>1, <1>2, <1>3, StepCases

LEMMA CloseStep ==
  ASSUME TypeOK, CloseIsExplained, [Promise!Next]_Promise!vars,
         misled \subseteq misled', blocked \subseteq blocked', short \subseteq short'
  PROVE  CloseIsExplained'
<1>0. /\ conn \in [Conns -> {"new", "pending", "open", "closed"}]
      /\ sent \in [Conns -> Nat] /\ echo \in [Conns -> Seq(Nat)]
      /\ fin \in [Conns -> BOOLEAN] /\ rst \in [Conns -> BOOLEAN]
  BY DEF TypeOK, NetTypeOK
<1> SUFFICES ASSUME NEW d \in Conns, conn'[d] = "closed", ~rst'[d]
             PROVE  d \in misled' \/ (fin'[d] /\ (d \in blocked' \cup short' \/ Len(echo'[d]) = sent'[d]))
  BY DEF CloseIsExplained
<1>1. conn[d] = "closed" /\ ~rst[d] => d \in misled \/ (fin[d] /\ (d \in blocked \cup short \/ Len(echo[d]) = sent[d]))
  BY DEF CloseIsExplained
<1>2. CASE UNCHANGED Promise!vars  BY <1>1, <1>2 DEF Promise!vars
<1>3. ASSUME NEW c \in Conns, Promise!Connect(c) \/ Promise!Accept(c)
      PROVE  d \in misled' \/ (fin'[d] /\ (d \in blocked' \cup short' \/ Len(echo'[d]) = sent'[d]))
  <2>1. conn[d] = "closed" /\ UNCHANGED <<sent, fin, rst, echo>>
    BY <1>0, <1>3 DEF Promise!Connect, Promise!Accept
  <2>2. QED  BY <1>1, <2>1
<1>4. ASSUME NEW c \in Conns, Promise!ClientSend(c)
      PROVE  d \in misled' \/ (fin'[d] /\ (d \in blocked' \cup short' \/ Len(echo'[d]) = sent'[d]))
  <2>1. conn[d] = "closed" /\ ~rst[d] /\ UNCHANGED <<fin, echo>> /\ ~fin[c]
    BY <1>4 DEF Promise!ClientSend
  <2>2. d # c => sent'[d] = sent[d]  BY <1>0, <1>4 DEF Promise!ClientSend
  <2>3. QED  BY <1>1, <2>1, <2>2
<1>5. ASSUME NEW c \in Conns, Promise!Shutdown(c) \/ Promise!Reset(c)
      PROVE  d \in misled' \/ (fin'[d] /\ (d \in blocked' \cup short' \/ Len(echo'[d]) = sent'[d]))
  <2>1. conn[d] = "closed" /\ UNCHANGED <<sent, echo>>
    BY <1>5 DEF Promise!Shutdown, Promise!Reset
  <2>2. ~rst[d] /\ (fin[d] => fin'[d])
    BY <1>0, <1>5 DEF Promise!Shutdown, Promise!Reset
  <2>3. QED  BY <1>1, <2>1, <2>2
<1>6. ASSUME NEW c \in Conns, NEW n \in 1..sent[c], Promise!Echo(c, n)
      PROVE  d \in misled' \/ (fin'[d] /\ (d \in blocked' \cup short' \/ Len(echo'[d]) = sent'[d]))
  <2>1. conn[d] = "closed" /\ c # d /\ ~rst[d] /\ UNCHANGED <<sent, fin>>
    BY <1>6 DEF Promise!Echo
  <2>2. echo'[d] = echo[d]  BY <1>0, <1>6, <2>1 DEF Promise!Echo
  <2>3. QED  BY <1>1, <2>1, <2>2
<1>7. ASSUME NEW c \in Conns, Promise!Close(c)
      PROVE  d \in misled' \/ (fin'[d] /\ (d \in blocked' \cup short' \/ Len(echo'[d]) = sent'[d]))
  <2>1. UNCHANGED <<sent, fin, rst, echo>>  BY <1>7 DEF Promise!Close
  <2>2. CASE conn[d] = "closed"  BY <1>1, <2>1, <2>2
  <2>3. CASE conn[d] # "closed"
    <3>1. c = d  BY <1>0, <1>7, <2>3 DEF Promise!Close
    <3>2. QED  BY <1>7, <2>1, <3>1 DEF Promise!Close, Lossy
  <2>4. QED  BY <2>2, <2>3
<1>8. QED  BY <1>2, <1>3, <1>4, <1>5, <1>6, <1>7 DEF Promise!Next

(* Neither window-message server closes a connection on a client that is    *)
(* not done, but for what a short or refused send leaves behind and for the *)
(* messages of an earlier connection with the same socket number            *)
(* (WSAAsyncSelect.cpp 477-483, RockSocket.cpp 492-496).                    *)
THEOREM CloseIsGraceful == Spec => []CloseIsExplained
<1>1. Init => CloseIsExplained
  BY DEF Init, NetInit, CloseIsExplained
<1>2. IInv /\ CloseIsExplained /\ [Next]_vars => CloseIsExplained'
  BY StepRefines, HistoryGrows, CloseStep DEF IInv
<1>3. QED  BY <1>1, <1>2, Invariance, PTL DEF Spec
=============================================================================
