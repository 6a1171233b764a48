-------------------------- MODULE OverlappedServer --------------------------
(***************************************************************************)
(* OverlappedModel/OverlappedModel.cpp: the echo server built on           *)
(* overlapped I/O and events.  The main thread accepts connections and     *)
(* adds them to the arrays under CriticalSection; a worker thread waits    *)
(* for the events of the connections it knows of and serves them.  Event 0 *)
(* tells the worker that there is a new one.                               *)
(*                                                                         *)
(* The block of connection c is c itself: Infos = Conns.                   *)
(***************************************************************************)
EXTENDS OverlappedIO, FiniteSets

CONSTANTS
  WSA_MAXIMUM_WAIT_EVENTS,  \* entries of EventArray and SocketArray
  Faults                    \* failures the behaviour may contain

(* main fills the arrays without looking at their size; as many connections *)
(* as fill them leave the program's defined behaviour, and this module.     *)
ASSUME ServerAssumption ==
  /\ Infos = Conns
  /\ WSA_MAXIMUM_WAIT_EVENTS \in Nat \ {0}
  /\ Faults \subseteq {"accept", "alloc"}

VARIABLES
  main,         \* where the main thread is, or why it returned
  worker,       \* where the worker thread is, or why it returned
  SocketArray,  \* the connections from index 1 on, in the order of the C array
  acceptEvent,  \* is EventArray[0] signalled?
  accepted,     \* main's AcceptSocket
  waitTotal,    \* EventTotal as the worker last read it
  Index         \* the index the worker is serving

threadVars == <<main, worker, SocketArray, acceptEvent, accepted, waitTotal, Index>>
vars == <<netVars, infoVars, threadVars>>

TypeOK ==
  /\ NetTypeOK /\ InfoTypeOK
  /\ main \in {"start", "accept", "add", "signal", "exit", "noMemory"}
  /\ worker \in {"wait", "waiting", "reset", "squash", "waitFailed", "ioFailed"}
  /\ SocketArray \in Seq(Conns)
  /\ acceptEvent \in BOOLEAN
  /\ accepted \in Conns \cup {NoSocket}
  /\ waitTotal \in Nat
  /\ Index \in Nat

\* CreateThread has returned: the worker may already run.
Init ==
  /\ NetInit /\ InfoInit
  /\ main = "start" /\ worker = "wait"
  /\ SocketArray = <<>>
  /\ acceptEvent = FALSE
  /\ accepted = NoSocket
  /\ waitTotal = 0 /\ Index = 0
-----------------------------------------------------------------------------
\* EventTotal is zero until main has set it, after it created the worker.
EventTotal == IF main = "start" THEN 0 ELSE 1 + Len(SocketArray)

(* Plausible bugs, for the mutation runs: the squash off by one, or no more *)
(* than a cleared entry; EventTotal read before the loop only; the worker   *)
(* not told of a new connection.                                            *)
SquashLeavesHole(arr, x) == [arr EXCEPT ![x] = NoSocket]
SquashOffByOne(arr, x) == [k \in 1..(Len(arr) - 1) |-> IF k <= x THEN arr[k] ELSE arr[k + 1]]
OldTotal == "waiting"
NotSignalled == FALSE

\* The entry at index x goes and the later ones move up.
Squash(arr, x) == [k \in 1..(Len(arr) - 1) |-> IF k < x THEN arr[k] ELSE arr[k + 1]]

CountEvents ==
  /\ main = "start"
  /\ main' = "accept"
  /\ UNCHANGED <<netVars, infoVars, worker, SocketArray, acceptEvent, accepted, waitTotal, Index>>

\* accept() blocks until there is a connection.
Accept ==
  /\ main = "accept" /\ backlog # <<>>
  /\ EventTotal < WSA_MAXIMUM_WAIT_EVENTS
  /\ accepted' = Head(backlog)
  /\ conn' = [conn EXCEPT ![Head(backlog)] = "open"]
  /\ backlog' = Tail(backlog)
  /\ main' = "add"
  /\ UNCHANGED <<clientVars, taken, echo, infoVars, worker, SocketArray, acceptEvent,
                 waitTotal, Index>>

\* accept() fails for a connection that was reset: main returns.
AcceptFails ==
  /\ "accept" \in Faults
  /\ main = "accept" /\ backlog # <<>> /\ rst[Head(backlog)]
  /\ conn' = [conn EXCEPT ![Head(backlog)] = "closed"]
  /\ backlog' = Tail(backlog)
  /\ main' = "exit"
  /\ UNCHANGED <<clientVars, taken, echo, infoVars, worker, SocketArray, acceptEvent, accepted,
                 waitTotal, Index>>

(* Under CriticalSection: a block and an event for the socket, its first    *)
(* receive, and only then EventTotal++.                                     *)
Add ==
  /\ main = "add"
  /\ NewInfo(accepted, accepted)
  /\ SocketArray' = Append(SocketArray, accepted)
  /\ main' = "signal"
  /\ UNCHANGED <<netVars, worker, acceptEvent, accepted, waitTotal, Index>>

\* The allocation, or the first receive on a dead socket, fails: main returns.
AddFails ==
  /\ main = "add"
  /\ \/ "alloc" \in Faults /\ main' = "noMemory"
     \/ Dead(accepted) /\ main' = "exit"
  /\ UNCHANGED <<netVars, infoVars, worker, SocketArray, acceptEvent, accepted, waitTotal, Index>>

SignalValue == TRUE

\* WSASetEvent(EventArray[0]), outside CriticalSection.
SignalWorker ==
  /\ main = "signal"
  /\ acceptEvent' = SignalValue
  /\ accepted' = NoSocket
  /\ main' = "accept"
  /\ UNCHANGED <<netVars, infoVars, worker, SocketArray, waitTotal, Index>>

MainThread == CountEvents \/ Accept \/ AcceptFails \/ Add \/ AddFails \/ SignalWorker
-----------------------------------------------------------------------------
(* The worker calls WSAWaitForMultipleEvents with the EventTotal of the     *)
(* moment, read without the lock; a wait for no event at all fails.         *)
BeginWait ==
  /\ worker = "wait"
  /\ waitTotal' = EventTotal
  /\ worker' = IF EventTotal = 0 THEN "waitFailed" ELSE "waiting"
  /\ UNCHANGED <<netVars, infoVars, main, SocketArray, acceptEvent, accepted, Index>>

\* Event 0 is signalled: it has the lowest index, so it comes first ...
WakeForAccept ==
  /\ worker = "waiting" /\ acceptEvent
  /\ worker' = "reset"
  /\ UNCHANGED <<netVars, infoVars, main, SocketArray, acceptEvent, accepted, waitTotal, Index>>

AfterReset == "wait"

\* ... and is reset before EventTotal is read again.
ResetAccept ==
  /\ worker = "reset"
  /\ acceptEvent' = FALSE
  /\ worker' = AfterReset
  /\ UNCHANGED <<netVars, infoVars, main, SocketArray, accepted, waitTotal, Index>>

\* Of the connections waited for, k is the first whose event is signalled.
Lowest(k) == \A j \in 1..(k - 1) : ~Completed(SocketArray[j])

Wakes(k) ==
  /\ worker = "waiting" /\ ~acceptEvent
  /\ k < waitTotal /\ Completed(SocketArray[k])
  /\ Lowest(k)

(* The event is reset, the result fetched, the next operation posted.  If    *)
(* the post fails at once, the worker returns.                               *)
Serve(k) ==
  /\ Wakes(k)
  /\ \E posted \in BOOLEAN :
       /\ Continue(SocketArray[k], posted)
       /\ worker' = IF posted THEN "wait" ELSE "ioFailed"
  /\ Index' = k
  /\ UNCHANGED <<netVars, main, SocketArray, acceptEvent, accepted, waitTotal>>

\* The connection is over: closesocket and GlobalFree, without the lock ...
CloseSocket(k) ==
  /\ Wakes(k) /\ Ended(SocketArray[k])
  /\ FreeInfo(SocketArray[k])
  /\ worker' = "squash" /\ Index' = k
  /\ UNCHANGED <<clientVars, backlog, taken, echo, main, SocketArray, acceptEvent, accepted, waitTotal>>

\* ... then, under CriticalSection, the squash and EventTotal--.
Remove ==
  /\ worker = "squash"
  /\ SocketArray' = Squash(SocketArray, Index)
  /\ worker' = "wait"
  /\ UNCHANGED <<netVars, infoVars, main, acceptEvent, accepted, waitTotal, Index>>

ProcessIO ==
  \/ BeginWait \/ WakeForAccept \/ ResetAccept \/ Remove
  \/ \E k \in 1..Len(SocketArray) : Serve(k) \/ CloseSocket(k)

\* The process ends with main.
Running == main \notin {"exit", "noMemory"}

Server == Running /\ (MainThread \/ ProcessIO)
StackStep(s) == Stack(s) /\ UNCHANGED threadVars
ClientStep(c) == Client(c) /\ UNCHANGED <<infoVars, threadVars>>

Next == Server \/ (\E s \in Infos : StackStep(s)) \/ (\E c \in Conns : ClientStep(c))

Spec == Init /\ [][Next]_vars

(* Both threads run, the stack completes what it can, clients read what     *)
(* comes back to them; they need not connect, send or shut down.            *)
FairSpec ==
  /\ Spec
  /\ WF_vars(Running /\ MainThread) /\ WF_vars(Running /\ ProcessIO)
  /\ \A s \in Infos : WF_vars(StackStep(s))
  /\ \A c \in Conns : WF_vars(ClientRead(c) /\ UNCHANGED <<infoVars, threadVars>>)
-----------------------------------------------------------------------------
(* The arrays hold each open connection once and nothing else, but for the  *)
(* one main is about to add and the one the worker is about to squash,      *)
(* although both threads change them (lines 254-336, 434-476).              *)
ArrayIsOpenSockets ==
  Running =>
    /\ \A c \in Conns :
         (conn[c] = "open" /\ ~(main = "add" /\ accepted = c))
           <=> \E k \in 1..Len(SocketArray) : SocketArray[k] = c /\ ~(worker = "squash" /\ Index = k)
    /\ \A j, k \in 1..Len(SocketArray) : SocketArray[j] = SocketArray[k] => j = k

(* No lost wake-up: a worker that waits for fewer events than there are     *)
(* will be woken by event 0, although main counts and signals in two steps  *)
(* and the worker reads the count without the lock (lines 334-344, 388-412).*)
WaitCoversAll ==
  worker = "waiting" /\ waitTotal < EventTotal => acceptEvent \/ main = "signal" \/ ~Running

(* What may stop the threads: memory, the worker's early start, and a reset *)
(* connection, which takes the service of all others with it (lines 322,    *)
(* 540, 584).  A client that does not reset never does.                     *)
Stopped ==
  \/ main = "noMemory" \/ worker = "waitFailed"
  \/ SomeReset /\ (main = "exit" \/ worker = "ioFailed")

(* Liveness: while both threads run, a byte a client has sent is echoed,     *)
(* unless the connection is reset.                                          *)
EveryByteEchoed ==
  \A c \in Conns : \A k \in 1..MaxBytes :
    (conn[c] \in {"pending", "open"} /\ sent[c] >= k) ~> (Len(echo[c]) >= k \/ rst[c] \/ Stopped)

(* Liveness: and a client that shuts down gets its connection closed. *)
ShutdownIsClosed ==
  \A c \in Conns : (conn[c] # "new" /\ fin[c]) ~> (conn[c] = "closed" \/ Stopped)

(* A client gets back what it sends and its connection closed when it is    *)
(* done, however the others behave.                                         *)
ClientsAreServed == EveryByteEchoed /\ ShutdownIsClosed

(* The header comment (lines 21-26) knows no way for the server to stop      *)
(* echoing once it runs: starting it in any order of its threads will do.    *)
EchoesOnceStarted ==
  \A c \in Conns : \A k \in 1..MaxBytes :
    (conn[c] = "open" /\ sent[c] >= k)
      ~> (Len(echo[c]) >= k \/ rst[c] \/ ~Running \/ worker = "ioFailed")
=============================================================================
