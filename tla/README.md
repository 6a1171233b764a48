# Verification of mspCode's network programs

The repository is a collection of small Windows programs. Most of its own logic is in a
family of TCP echo servers, one per Winsock I/O model, and in an asynchronous HTTP client
on WinInet. They do the same simple thing, echo a byte stream or transfer two files, but
each over another kind of concurrency: readiness that is old when it is used, operations
that complete in any order, completion routines, two threads sharing arrays or one global,
callbacks that overtake the call they belong to. That concurrency is what is modelled here.

All servers carry the same promise in their header comment (for example
`src/SocketioSelect/SocketioSelect.cpp`, lines 19-25): *When this application receives data
from a client, it simply echos the data back in its original form until the client closes
the connection.* There are no other documents and no tests in the repository.

## 1. Inventory

| Component (under `src/`) | State | Operations | Interacts through | What is hard | Correct when |
|---|---|---|---|---|---|
| `SocketioSelect` | `SocketArray`, `TotalSockets`, per socket `Buffer`, `BytesRECV`, `BytesSEND`; the two `FD_SET`s, `Total` | one loop: select, accept, service of each entry; create, free | non-blocking sockets | readiness used later than it was reported; entries squashed under the loop; partial sends; full sets | the echo is exact, the array is the set of open sockets, the sets fit the buffers, every byte comes back |
| `CommandHttpClient/async.cpp` | `REQUEST_CONTEXT`: `State`, `HandleUsageCount`, `Closing`, two events, `OutputBuffer` and its counters | `ProcessRequest` and its handlers, acquire, release and close of the handle, wait, clean-up | callbacks of WinInet's threads, a critical section, events | a callback overtakes the return of its call; timeout against completion; last release against close; free against callback | one driver at a time, handle closed once and unused afterwards, context freed last, files exact, the program ends |
| `OverlappedModel` | `EventArray`, `SocketArray`, `EventTotal`, blocks of overlapped operations | main: accept, add, signal; worker: wait, serve, close, squash | two threads, a critical section, event 0 | `EventTotal` read without the lock; arrays changed by both threads; start-up order | as above, and no wake-up is lost |
| `CallbackAccept` | global `AcceptSocket`, one event, blocks | main: accept, signal; worker: take, completion routine | two threads without a lock, completion routines | the global is overwritten; event set and reset cross | every connection gets exactly one block |
| `CallbackAcceptEx` | `AcceptSocket`, one event, blocks | post, wait, add, completion routine | completion routines inside the wait | routines of all connections between two accepts; failed accepts | as above |
| `OverlappedModelAcceptEx` | arrays as in `OverlappedModel`, one `AcceptEx` | wait, accept, serve, close, squash | one thread, events | completion order; the limit of the arrays | as in `OverlappedModel` |
| `WSAAsyncSelect` | list of `SOCKET_INFORMATION`, `RecvPosted` | `WindowProc` per message | a message queue | messages for freed sockets, or for a number another connection has got; re-posted reads; close with unsent bytes | every byte comes back, no freed entry is used |
| `WSAEventSelect` | arrays, network events | loop over events | events recorded once until a call enables them | an event that is dropped never comes again | every byte comes back |
| `IOComplete` | per-handle and per-I/O data | accept loop, worker per processor | completion port | none reached: the accept loop (lines 251-283) has no exit | - |
| `wsaAsyncSelectServer` | the same list, a sink | `onAccept`, `onRead`, `onWrite`, `onClose` | window messages | early return before the counters are reset; freed sockets | as `WSAAsyncSelect` |
| `WininetSample` | `hConnect`, `hRequest`, `bAllDone` | three calls and a callback | WinInet callback | the callback and the call's result write the same variable | the handle is the one the callback gave |
| `SocketTestClient`, `SampleSocketClient` | one socket, one buffer | send, one receive | a server | one receive for one send | the whole echo is read |
| `Win32Project1`, `directshowTest`, `commandCamera` | COM graphs, windows | calls into DirectShow | - | the state machine is DirectShow's | - |
| `SampleCode`, `ProgramingWithLua`, `commandlineExcel2picture`, `MFCApplication1` | none kept | straight-line calls | - | - | - |
| `ExternalCode` | third-party libraries | - | - | - | - |

How they interact: each server only meets its clients, through the sockets; the two clients
meet a server the same way. No two components share memory or code, but for the copies of
the same lines that the servers carry. Inside a component the interactions are those of the
fifth column.

## 2. Modules

| Module | Models | Extends |
|---|---|---|
| `Winsock` | external: byte streams, the listening queue and remote clients, as the servers use them | |
| `EchoService` | the promise of the header comments, as an abstract specification | |
| `SelectServer` | `SocketioSelect.cpp` | `Winsock` |
| `OverlappedIO` | what the overlapped servers share: the block, its one operation in flight, what is done when it completes | `Winsock` |
| `OverlappedServer` | `OverlappedModel.cpp`, both threads | `OverlappedIO` |
| `CallbackServer` | `CallbackAccept.cpp`, both threads | `OverlappedIO` |
| `AcceptExIO` | the `AcceptEx` in flight and its event | `OverlappedIO` |
| `CallbackExServer` | `CallbackAcceptEx.cpp` | `AcceptExIO` |
| `AcceptExServer` | `OverlappedModelAcceptEx.cpp` | `AcceptExIO` |
| `EventSelectServer` | `WSAEventSelect.cpp` | `Winsock` |
| `MessageServer` | `WSAAsyncSelect.cpp` and `wsaAsyncSelectServer/RockSocket.cpp` | `Winsock` |
| `AsyncRequest` | `async.cpp`: main, WinInet's threads, the request context | |
| `OverlappedIO_proofs` | lemmas for every server built from `OverlappedIO` | `OverlappedIO`, `TLAPS` |
| `OverlappedServer_proofs`, `AcceptExServer_proofs`, `CallbackExServer_proofs` | theorems; the last is also about `CallbackServer`, which it takes by `INSTANCE` | the module and `OverlappedIO_proofs` |
| `SelectServer_proofs`, `AsyncRequest_proofs`, `EventSelectServer_proofs`, `MessageServer_proofs` | theorems | the module and `TLAPS` |
| `...MC` | symmetry for the small instances | the module and `TLC` |

### From code to state and actions

**Bytes.** Byte *k* of a client's stream is the number *k*; 0 is a byte of a zeroed buffer.
So a correct echo reads 1, 2, 3, ..., and a lost, repeated, reordered or invented byte shows.
`sent`, `fin`, `rst`, `got` belong to the client; `conn`, `backlog`, `taken`, `echo` to the
stack's view of the server. A client may connect, send, read, shut down its side, or reset
at any moment between two calls of the server.

**SelectServer.** One action per call whose answer depends on the outside: `Select` and
`SelectFails` (lines 213-261), the accept branch (`NoArrival`, `Accept`, `AcceptWouldBlock`, `AcceptFails`,
`CreateFails`, 267-337), then one step of the service loop per entry: `Pass`, `Recv`,
`RecvClose`, `Send`, `WouldBlock`, `Fail` (345-489). `i` and `Total` are the loop's own, and
`FreeSocketInformation` squashes the array under `i`, which the loop increments all the same.
An entry that was in `ReadSet` cannot also be in `WriteSet` (lines 239-245), so that one step
does one call.

**OverlappedIO.** `io[s]` is the operation in flight on block `s`: which, whether it is
pending, done or failed, and how many bytes it moved. The stack's steps (`CompleteRecv`,
`CompleteSend`, `CompleteFailed`) complete it; the server's `Continue` is the code that
follows a completion: decide from `BytesRECV` alone whether it was a receive, account for the
bytes, and post a send as long as bytes are left, a receive after that. `FreeInfo` is
`closesocket` and `GlobalFree`.

**OverlappedServer.** `main` and `worker` are the two program counters. A step of a thread
ends where another thread can see a difference: before and after the critical section, the
read of `EventTotal` and the wait, the wake-up and the reset of event 0. `EventTotal` is not a
variable of its own: it is zero until line 228 and one more than the length of `SocketArray`
from then on, as both are changed inside the same critical section.

**CallbackServer, CallbackExServer, AcceptExServer.** The same, with the global
`AcceptSocket`, the alertable wait in which completion routines run (`RoutineCloses`,
`RoutineContinues`), and the `AcceptEx` in flight (`acceptOp`). In the callback servers a
faulty hand-over could give one socket two blocks, so blocks are a set of their own (`Infos`)
there; in the other servers the block of a connection is the connection.

In `CallbackServer` main and the worker share `AcceptSocket` without a lock (lines 208, 212, 296, 318), and
clients connect whenever they like. `PickUp` is the worker's read of it. Two history variables, which no
step looks at, say what came of the hand-over: `picked`, the sockets the worker has read, and `pickedTwice`,
whether it has read one again. `Overwritten(c)` names the connections lost on the way: open, not read, and
no longer in `AcceptSocket`.

**EventSelectServer.** The stack's side is two sets per socket: `enabled`, the network events it
will still record, and `recorded`, those it has recorded and nobody has fetched. `Stack` moves
what is the case from the first to the second; `Enumerate` (lines 225-239) takes what is recorded for
the lowest signalled index, and `WaitFails` is the failure of the wait, of that call, or an error bit of
the event (lines 209-255, 321-345); only a receive, or a send that would block, enables an event again.
The one thread's `pc` is the call it is about to make with the events it has fetched (`read` at
line 368, `write` at 414, `close` at 469); the world may move before each. A socket whose
`CreateSocketInformation` failed (line 289, unchecked) is open with no entry: an orphan.
`refused` is a history variable, the sockets on which a send did not take all it was given.

**MessageServer.** `queue` is the thread's message queue and `handling` the message that
`WindowProc` is at; `Dispatch` takes the next one (`WSAAsyncSelect.cpp` lines 238-266). A message
names a socket number and an event. A server's view of a connection is its `SOCKET_INFORMATION`
in `infos`, looked up by the number (`Finds`), so that a message that outlives its connection
finds nothing, or, if `accept` has returned the number again, another connection. `Post` is the
stack, with `enabled` as above; the code's own `PostMessage` (line 469) is `PostReadAgain`. FD_READ
is two steps, the receive and the write it falls through to, as the client may move in between.
`program` chooses between the sample and `RockSocket`, whose window procedure is a copy with three
differences: `onRead` that returns early is still followed by `onWrite` (line 595),
`onWrite` does not look for NULL (line 454), and it returns before the counters are reset (line 475).
They are in `ReturnFromRead`, `WriteGone` and `Send`. Using a NULL entry sets `crashed` and ends the
behaviour. `blocked`, `short` and `misled` are history variables: the connections on which a send
would have blocked, on which one took only a part, and for which a message of an earlier
connection was handled.

**AsyncRequest.** `pc[t]` is where thread *t* is inside `ProcessRequest` and its handlers;
`State` is set before the handler runs (line 313 before 314), as in the code. A handler is
split where the lock is released: acquire, call, release, close. A call succeeds at once,
fails at once or pends; a pending call is completed by a callback in any idle thread of
WinInet, also before the call has returned. The code reads `GetLastError` only after
`ReleaseRequestHandle` (lines 430-434, and so in every handler), which may have called
`InternetCloseHandle` in between. `CloseInRelease` therefore lets a call that had not succeeded end with
any value: another error, "pending", or zero, which is "success". `strays` is a history variable, the threads that have read such a zero: they go on in the
loop as if the call were done (line 306). A handler that works on the buffer (`GetDataToPost`,
`WriteResponseData`) is one step. That is exact as long as there is a single driver, which
`SingleDriver` says; once there is a stray two threads may interleave inside it, the model is coarser
than the code there, and nothing is claimed about the downloaded bytes any more.

## 3. Runs

| Run | Instance | What it shows |
|---|---|---|
| `select` | 2 connections, 2 bytes each, buffer of 2, sends of 1, every failure | the echo is exact; a closed connection was echoed in full; the array, the sets and `Total` are right at every step of the loop; it implements `EchoService`; every byte comes back and every shut down connection is closed (`ClientsAreServed`) |
| `select_full` | 2 connections, `FD_SETSIZE` 2 | **violated**: the listening socket takes a place of the read set, so the last connection is never asked about (line 245) |
| `async` | 3 callback threads, GET and POST, 3 bytes each way, buffer of 2, every failure | the handle is closed once and never used afterwards, the context outlives its users, `wmain` ends; one driver at a time but for one stray after the close; the upload exact, the download as long as there is no stray |
| `overlapped` | 2 connections, 1 byte each | it implements `EchoService` under both threads; the arrays hold the open sockets; the worker never sleeps on too few events without event 0 to wake it; liveness unless memory runs out or a reset connection has ended a thread |
| `overlapped_start` | 1 connection | **violated**: a worker that waits before line 228 waits for no event, gets `WSA_WAIT_FAILED` and returns |
| `callback` | 2 connections that connect when they like, 2 bytes each, `ListenBacklog` 1 | the worker reads a socket twice only if one was overwritten or reset; until then each connection it has read has one block, and one that waits in `AcceptSocket` has a wake-up coming; `EchoService` until a socket is read twice; liveness with the same excuse and for connections that were not overwritten |
| `callback_burst` | 2 connections at once | **violated**: the second accept overwrites `AcceptSocket` (line 208) before the worker has read it, and the first connection is never served |
| `callbackex` | 2 connections, 2 bytes each | every connection has one place; refinement; liveness with the same excuse as in `overlapped` |
| `acceptex` | 2 connections, 2 bytes each | the arrays hold the open sockets; refinement; liveness with the same excuse, whatever the order of completions |
| `eventselect` | 2 connections, 2 bytes each, buffer of 2, sends of 1, every failure | it implements `EchoService` (with the excuse of section 4); the array holds the open sockets; an event that a client waits for is recorded, to be recorded, or being handled (`NoEventLost`), as long as every send took all it was given |
| `eventselect_stall` | 1 connection, 3 bytes, buffer of 1 | **violated**: a client that goes on sending and reading is no longer echoed |
| `message` | both programs, 2 connections, 2 bytes each, buffer of 2, sends of 1, 2 socket numbers, every failure | the one FD_READ of a connection is in exactly one place, and one that is put off is owed (`ReadIsOwed`); clients that close do not crash the sample, although their messages stay queued, nor clients that stay connected RockSocket (`CrashHasCause`); both implement `EchoService` (with the excuse of section 4) |

What the violated runs say in words. (1) Two of the servers can lose a connection for good
without any failure: `CallbackAccept` on two connections in quick succession (and `OnePlace` says that
this is the only way, and that nothing but this, or a reset, gives a socket two blocks), `SocketioSelect`
with a full set. A third, `WSAEventSelect`, stops echoing on one once a send would block: the
FD_READ that comes meanwhile finds the buffer full (line 359), no receive is made, and nothing
enables FD_READ again; the FD_WRITE that follows only empties the buffer. (2) `OverlappedModel` may never serve anybody if its worker is scheduled
first. What the passing runs leave open, by the excuses in their properties:

- In `OverlappedModel`, `CallbackAccept`, `CallbackAcceptEx` and `OverlappedModelAcceptEx` a reset
  connection can end the thread that serves all the others (lines 540 and 584; 346; 319; 461). The
  excuse is exactly that: `Stopped` needs a connection that was reset (`SomeReset`), or an
  allocation that failed. So clients that behave never end a server, which is what `ClientsAreServed` shows.
- `OverlappedModelAcceptEx` (line 293) and `WSAEventSelect` (line 275) check for too many
  connections one connection late. The modules stop before.
- In `async.cpp` the last user of a closing handle closes it in `ReleaseRequestHandle` and reads `GetLastError`
  after that. If the close has left zero, a read that is still pending, or was cancelled, looks done. The
  statements without that excuse are false, as TLC finds when it is dropped from `SingleDriver` and
  `DownloadExact`: main times out and announces the close; the read that w1 has posted completes in w2
  before w1 has released; w1 is the last user, closes, reads zero and writes the chunk that w2 writes as
  well (the file is 1, 2, 1, 2), or takes the old count of zero for the end and reports COMPLETE. It
  takes a timeout and a close that leaves zero. The life of the handle and of the context, the
  upload and the end of `wmain` do not depend on it. Whether WinInet's close ever leaves zero
  the repository does not say; no assumption is made.
- In `CallbackAccept` what is excused is the overwritten connection itself, and everything after a socket was
  read twice: its two blocks take each other's bytes.
- In `WSAEventSelect` any error that comes with an event, or any failed call on one socket, ends
  the server for all (lines 209, 225, 247, 293, 327, 343, 385, 479).
- FD_CLOSE frees a socket with bytes still unsent if a send was refused before (`WSAEventSelect`
  line 469, `WSAAsyncSelect` line 481, `RockSocket` line 494).
- In the two message servers a reset connection, or one without a `SOCKET_INFORMATION`, can end
  everything (line 344: NULL is used). `RockSocket` does not survive a client that shuts down
  when its FD_CLOSE is told before its FD_WRITE (line 454). A message that outlives its connection
  can free another that got the same number (`misled`). `ReadIsOwed` names in `Stuck` where
  the flow stops after a send that was not complete, as in `WSAEventSelect`: nothing tells the
  sample of room for the rest of a partial send, and `RockSocket`, which empties the buffer one
  call late (line 475), does not go on after one that would have blocked either.

### Bounds, and why they are enough

- Two connections: one to be served and one that is accepted, freed, reset or squashed
  meanwhile.
- Two bytes per connection, a buffer of two and a stack that takes one byte at a time
  (`SndBuf = 1`): a receive may bring one or two bytes, a send of two goes out in two parts,
  and a second receive refills a buffer that was used. In `overlapped` one byte per connection:
  its hazards are those of the two threads, and the handling of partial sends is the shared
  `OverlappedIO`, which the three other runs exercise with two bytes.
- `ListenBacklog` 1 or 2, `WSA_MAXIMUM_WAIT_EVENTS` and `FD_SETSIZE` 3: the limits are in reach.
- `async`: files of three bytes and a buffer of two give a full chunk, a short one and the
  empty one that ends the transfer; with three callback threads two may be on their way out of
  calls that are already completed while the third drives.
- Where section 5 proves a property the bounds do not matter: the theorem is for every number of
  connections and bytes, every buffer and every array size.

`MaxBytes` is the only bound that exists for checking alone; it limits what clients send.
`Faults` and `Failures` name the failures a behaviour may contain; every passing server run
has those of its module.
- `message`: with two socket numbers for two connections, a number is both free and used again. Symmetry
  of connections and of numbers is sound there: the run has no liveness property.
- `eventselect`: a partial send (`SndBuf` 1, two bytes received) is what the events depend on. The
  stall needs a third byte, to find the buffer full, with a buffer of one.

### Fairness

- `WF` on each thread of a server: the code's loops do nothing but block in a call, and a
  thread that can go on is scheduled. The failure of a wait that has nothing to report (`SelectFails`,
  `WaitFails`) is left out of it: it may happen, and nothing makes it happen. The two threads are fair separately.
- `WF` on the completion of each operation and of the `AcceptEx`: the stack completes what it can.
- `SF` on the answer of a call for each connection in `SelectServer`: a socket that select()
  reports again and again is not refused with `WSAEWOULDBLOCK` for ever. With `WF` alone the
  stack could refuse every second time.
- `WF` on a client's read of what has come back: a client that never reads fills the server's
  send buffer, and nothing obliges the server then. Clients need not connect, send or shut down.
- `AsyncRequest`: `WF` on the threads, on main (whose wait has a timeout) and on the closing
  notification. A call that nobody cancels need never complete.

`EventSelectServer` is checked for safety: what its liveness rests on, that no event is lost, is
the invariant `NoEventLost`. `eventselect_stall` runs under `FairSpec`: `WF` on the thread, on
the stack's recording, and on the client's reads. `MessageServer` is checked for safety
too: its `ReadIsOwed` is what its liveness would rest on.

Deadlock is not checked: when all clients are done, a server rightly waits for ever, and the
HTTP request ends.

## 4. The abstract specification

`EchoService` has per connection the client's `sent`, `fin`, `rst` and the server's `conn`,
`echo`. Its only server steps are: accept; echo the next *n* bytes of the stream; close a
connection that was reset, or that was shut down and echoed in full. Each server implements it with the identity mapping on these five variables and stutters
on all the rest (`EchoServiceSpec`): a server that closes early, repeats a byte or echoes one it
has not received makes a step that `EchoService` does not have.

The sixth variable, `lossy`, names the connections that may be closed with bytes unsent. The
refinement mapping gives its value: it is empty for the five servers that close on a receive of zero
bytes. For `EventSelectServer` it is the connections that have shut down and on which a send was
refused (`refused`); for `MessageServer` the same (`blocked`, `short`), and those that got a message of
another connection (`misled`).

## 5. What is proved

All theorems hold for every value of the constants under the modules' named assumptions, which TLC
evaluates in every run: sizes are positive and failures are those the module knows
(`WinsockAssumption` and one per module); the threads of `AsyncRequest` are finitely many and main is
not one of the callbacks; the listening socket is no connection; `INVALID_SOCKET` (`NoSocket`) is no
socket's number; where the block of a connection is the connection, `Infos = Conns`.

| | `TypeOK` | the array, the hand-over or the messages | the bytes | `EchoServiceSpec` | what a close means |
|---|---|---|---|---|---|
| `SelectServer` | proved | `ArrayIsOpenSockets`, `ReadinessHolds`, `TotalCoversAhead` proved | `EchoInv` proved | proved | `GracefulClose` proved |
| `OverlappedServer` | proved | `ArrayIsOpenSockets`, `WaitCoversAll` proved | `HeldIsNext`, `EchoIsPrefix` proved | proved | `GracefulClose`, `EchoOnlyGrows` proved |
| `AcceptExServer` | proved | `ArrayIsOpenSockets` proved | `HeldIsNext`, `EchoIsPrefix` proved | proved | `GracefulClose`, `EchoOnlyGrows` proved |
| `CallbackExServer` | proved | `OnePlace` proved | `HeldIsNext`, `EchoIsPrefix` proved | proved | `GracefulClose`, `EchoOnlyGrows` proved |
| `CallbackServer` | proved | `OnePlace`, `CallbackTwiceHasCause` proved | `HeldIsNext`, `EchoIsPrefix` proved unless `pickedTwice` | `EchoServiceUntilTwice` proved | `GracefulClose` proved unless `pickedTwice` |
| `EventSelectServer` | proved | `ArrayIsOpenSockets`, `NoEventLost` proved | `EchoIsPrefix` proved | proved | `CloseIsExplained` proved |
| `MessageServer` | proved | `ReadIsOwed`, `CrashHasCause` proved | `EchoIsPrefix` proved | proved | `CloseIsExplained` proved |
| `AsyncRequest` | proved | `NoUseAfterClose`, `ClosedOnce`, `NoUseAfterFree`, `SingleDriver` proved | `DownloadExact`, `UploadExact` proved | - | - |

None of these invariants is inductive alone. Each proof module starts with the strengthening
`IInv`, as a conjunction of named parts, and has a lemma per action, or per kind of action, and part.

**SelectServer_proofs.** The argument is one induction. `EchoInv` needs, for a receive not to
overwrite unsent bytes, `ReadinessHolds`, which speaks about the entries the loop has not
reached, and keeping that while sockets are freed needs that the array holds each socket once
(`ArrayIsOpenSockets`), for two entries of one socket would be served twice on one report. Four
small facts complete it: a connection waits in the backlog once (`BacklogOK`), a buffer that
is empty has both counters at zero (`CountersReset`), a connection not yet accepted has nothing
in a buffer (`FreshOK`), and what `select()` reported is right when accept is reached
(`ReadinessAtAccept`). `TotalCoversAhead` counts marked sockets ahead of the loop: its proof is
about the cardinality of that set as the loop passes an entry, frees one and squashes the rest, or
creates one, which is in neither set. `Implements`
maps each action to the abstract step it makes, using `EchoInv` for the bytes that a send adds
and the closed-stream condition of the zero-byte receive for `Close`.

**OverlappedIO_proofs, and the four servers on it.** What a block does does not depend on who
calls it. `IOStep` lists the kinds of step that a server may make on a block and its connection: take
a connection from the backlog, start a block for one that has none, complete an operation, continue
after a completion, end. The lemma `IOStepInv` says that all of them keep `IOInv`: no two
blocks of one connection; the bytes held are the next of the stream, with the operation in flight
accounted for; and what a result says (zero bytes, a failure) is still so when somebody looks at it,
however late. The last is why a completion may be handled in any order. `IOStepRefines` makes each
kind of step one of `EchoService`. A server's module then shows that its actions are of these kinds,
and has only its own control left:

- `OverlappedServer_proofs`: main appends while the worker is between finding a closed entry and
  squashing it (`SquashOK`: the index stays valid, as nobody else removes); the connection main is
  about to add has no block yet (`AddingOK`); and nothing is waited for before event 0 is counted
  (`StartOK`). With these `ArrayIsOpenSockets` and `WaitCoversAll` are inductive.
- `AcceptExServer_proofs`: exactly from the completion of the `AcceptEx` until main has seen it there is
  an accepted connection that is in no array (`AcceptedOK`).
- `CallbackExServer_proofs`: `AcceptSocket` keeps its old value after the hand-over, so that who has a
  block is said by `pc` and it together (`ServedOK`); `OnePlace` follows from that, and from there
  being no two blocks of one connection.
- `CallbackExServer_proofs`, on `CallbackServer`: the hand-over of `CallbackAccept.cpp` (lines 204-318) goes
  through a global and an event that nobody locks, and no theorem assumes anything about when clients
  connect. What is inductive is what the worker has read: it has read only accepted sockets, each has its
  block until it is closed, and no other has one (`PickedServed`, `PickedOK`), so that the step that takes a
  socket for the first time is an `IOStep`, however many have been overwritten meanwhile.
  For the cause of a second read (`WakeupsOK`): without an overwritten or failed accept, a
  wake-up still to come means a socket that has not been read. An accepted socket that was neither
  read nor is in `AcceptSocket` stays so, as nothing closes it (`Lost`); two wake-ups under way
  at once, such as main about to set the event behind a worker that has not yet read (`TwoWakeups`), are how a
  second read comes about, and they too need a loss.

What the theorems say after the damage is little, because nothing more is true: `callback_burst` shows a connection
that is overwritten before the worker has read it, and a worker that reads the newer one twice gives one
socket two blocks, which then take each other's bytes. So `CallbackEchoIsExact`, `CallbackImplements` and
`CallbackCloseIsGraceful` hold up to that second read, whose cause is the theorem `CallbackTwiceHasCause`; the
overwriting alone harms nobody but the connection overwritten. `CallbackTypeCorrect` holds throughout: types rest on
`BytesOK` alone, that no send in flight, and no accounting for one, goes past what the block itself received.

**What EchoService entails.** The abstract specification says what each step may do. The same module
proves what follows for whole behaviours where nothing is lossy: a connection that was closed, and not
reset, had been shut down and was echoed in full (`PromiseIsGraceful`), and an echo is never taken back, nor
continued after the close (`PromiseOnlyGrows`). The servers on `OverlappedIO` inherit it through `Implements` (`CloseIsGraceful`, `EchoIsFinal`). For `EventSelectServer` and `MessageServer` what is lossy
changes as the server runs, so theirs is an invariant of its own, carried along the same refinement:
`CloseIsExplained`, that a closed connection was reset, or shut down and echoed in full, or is one on which
a send was refused or cut short, or one that got a message of another connection.

**EventSelectServer_proofs.** `NoEventLost` speaks only of events that are the case. What is inductive
is `EventsKept`: FD_READ and FD_CLOSE are each to be recorded, recorded, or being handled, whether
the case or not. It breaks when FD_READ is fetched and no receive follows, because the
buffer is not empty (line 359); `LeftOverRefused` says that this needs a refused send, since any other
send empties the buffer before the loop goes on. `CloseTold` carries what FD_CLOSE said (all has
been received) to the close, which is what `Implements` needs for it. The indices that the wait
returned stay right as the array is changed only by the one thread (`IndexOK`, `ArrayIsOpenSockets`).

**MessageServer_proofs.** One proof for both programs. Messages outlive connections, so the invariant
is about the whole queue: a message bears the number its connection has, as long as that is open
(`MessagesOK`), hence the connection found is the one meant or is in `misled` (`OwnMessage`); the
FD_ACCEPT is unique (`AcceptOnce`), and so is the FD_CLOSE, which says that all was received
(`EndOnce`). `ReadIsOwed` is `OneRead` (FD_READ enabled, queued, being handled or put off, and only one
of them) with `WritesOK`, that whoever put a read off has a write coming. `CrashHasCause` needs that as
long as nobody was reset (`Calm`) no message of a read outlives its connection. A read that is due has
bytes to be received (`CalmOK`), so that the end of the stream cannot have been told. This and
`OneRead` depend on one another: a connection misled by a message of another's end has still
its own FD_READ in one place, which is why `ReadsOK` is stated for more connections than `ReadIsOwed`.

**AsyncRequest_proofs.** `TypeCorrect`, `ClosedUnused`, `ClosesOnce`, `FreedUnused`,
`DriverIsSingle`, `DownloadIsExact`, `UploadIsExact`. The invariant has a part about control
(`CtrlInv`), a part about data (`DataInv`) and a part about the time before the first step
(`Untouched`). Control: `HandleUsageCount` is the number of threads between acquire and release, so
that zero under `Closing` means that no thread is inside and none will come in; of the threads
that may close the handle there is at most one, and only with nobody inside; a thread whose
`err` is `pending` and a thread that drives exclude one another. That is why the context can be
freed after the last notification, and why the unlocked `State` and buffer have a single
writer. Data: with a single driver, what has been fetched, buffered and written are
consecutive pieces of the response, and the same for the body; `State` and the handler being
run tell which of the three the newest piece is in. The one exception to the single driver is in the
invariant as the set `strays`: a thread gets into it only where it closes the handle, which happens
once, so there is at most one, and from then on every acquire fails. Hence a stray can make no call, the body
that was posted is out of its reach, and what is proved of the download is proved up to it.

Only model-checked:

- Liveness (`ClientsAreServed`, `MainTerminates`) and what rests on fairness or `ENABLED`, which are out
  of the prover's reach.
- The runs whose property is violated: a counterexample is its own proof.

## 6. Not modelled, and why

- Start-up and shut-down of the programs before the loop (`WSAStartup`, `bind`, `listen`): they
  run once, sequentially. `OverlappedServer` begins right after `CreateThread`, as the race
  with the worker is there.
- Memory past the end of an array: the modules have a guard at the limit, beyond which the
  code's behaviour is undefined.
- `WininetSample`: one request in one thread and a callback that sets three events. The race that
  is in it, of a call with the callback that completes it, is modelled for the client that handles it (`AsyncRequest`).
- `SocketTestClient`, `SampleSocketClient`: what they do is among what the clients of `Winsock` do.
- In the two message servers, an FD_READ, FD_WRITE or FD_ACCEPT message that bears an error code, which also
  frees the socket (`WSAAsyncSelect.cpp` line 298, `RockSocket.cpp` line 581): Winsock gives these events one
  only when the network is down, for all connections at once. FD_CLOSE with an error is modelled (`ABORT`).
- In `RockSocket`: `clientCount`, which is only printed; the sink, whose methods in `SampleServer.cpp`
  override none of those that are called; functions that nobody calls (`senddata`, `closeSocket`).
- `IOComplete`: everything after line 283 is unreachable, since the accept loop has no exit. A
  model of the workers would be a model of code that never gets a completion.
- Argument parsing, logging and opening files of `async.cpp`; user interfaces, DirectShow, Lua,
  image and character conversion; third-party code.

## 7. Plan

Done: every module of section 2, model-checked and with proofs; every safety property that a passing run
checks is a theorem.

Left to TLC: liveness (`ClientsAreServed`, `MainTerminates`), which the prover cannot reach. `NoEventLost`
and `ReadIsOwed` are proved, and are what a liveness proof of the last two servers would start from.
