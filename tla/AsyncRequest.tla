---------------------------- MODULE AsyncRequest ----------------------------
(***************************************************************************)
(* CommandHttpClient/async.cpp: one HTTP request driven through            *)
(* asynchronous WinInet.  The main thread starts the request, waits for it *)
(* with a timeout and cleans up; WinInet's threads call back when a call   *)
(* that returned ERROR_IO_PENDING completes, possibly before that call has *)
(* returned in the thread that made it.  State is set before each call and *)
(* is not locked; the handle is counted under a critical section.          *)
(*                                                                         *)
(* WinInet itself is external: a call succeeds at once, fails at once or   *)
(* pends; closing the handle ends a pending call; the closing notification *)
(* comes last, when no call is pending and no callback is running.         *)
(***************************************************************************)
EXTENDS Integers, Sequences, FiniteSets

CONSTANTS
  Main,        \* the main thread
  Workers,     \* WinInet's callback threads
  Methods,     \* the methods a request may have, of {"GET", "POST"}
  BUFFER_LEN,  \* bytes of OutputBuffer
  UploadLen,   \* bytes of the file to post
  RespLen,     \* bytes of the server's response
  Failures     \* may calls and file operations fail?

ASSUME AsyncAssumption ==
  /\ Main \notin Workers
  /\ IsFiniteSet(Workers)
  /\ Methods \subseteq {"GET", "POST"}
  /\ BUFFER_LEN \in Nat \ {0}
  /\ UploadLen \in Nat /\ RespLen \in Nat
  /\ Failures \in BOOLEAN

Threads == {Main} \cup Workers

VARIABLES
  \* the threads
  pc,        \* where each thread is
  err,       \* the local Error of its ProcessRequest
  doing,     \* the state whose handler it runs
  \* REQUEST_CONTEXT
  State, HandleUsageCount, Closing, CompletionEvent, CleanUpEvent,
  OutputBuffer, DownloadedBytes, ReadBytes,
  freed,     \* has the context been freed?
  \* the files
  uploaded,  \* bytes of the upload file that have been read
  file,      \* what has been written to the download file
  \* WinInet
  pendingOp, \* the call that is pending, or "none"
  fetched,   \* bytes of the response that have been read
  posted,    \* the request body that has been sent
  closes,    \* how often InternetCloseHandle was called for the request handle
  strays,    \* history: callers told by GetLastError that a call succeeded that had not
  closingSent \* has INTERNET_STATUS_HANDLE_CLOSING been delivered?

threadVars == <<pc, err, doing>>
handleVars == <<HandleUsageCount, Closing, closes, strays>>
eventVars  == <<CompletionEvent, CleanUpEvent, closingSent, freed>>
dataVars   == <<OutputBuffer, DownloadedBytes, ReadBytes, uploaded, file, fetched, posted>>
vars == <<threadVars, handleVars, eventVars, dataVars, State, pendingOp>>

\* The states whose handler is one WinInet call; POST_SEND_DATA calls too.
CallStates == {"SEND_REQ", "SEND_REQ_WITH_BODY", "POST_COMPLETE", "RESPONSE_RECV_DATA"}
WorkStates == {"POST_GET_DATA", "POST_SEND_DATA", "RESPONSE_WRITE_DATA"}
States == CallStates \cup WorkStates \cup {"COMPLETE"}

PCs == {"idle", "alloc", "loop", "work", "acquire", "call", "release", "close", "signal",
        "wait", "cleanup", "closeMain", "waitClosed", "done"}

Errors == {"success", "pending", "failed"}

Bytes == {"req", "resp"} \X Nat

TypeOK ==
  /\ pc \in [Threads -> PCs]
  /\ err \in [Threads -> Errors]
  /\ doing \in [Threads -> States]
  /\ State \in States
  /\ HandleUsageCount \in Nat /\ Closing \in BOOLEAN /\ closes \in Nat
  /\ strays \subseteq Workers
  /\ CompletionEvent \in BOOLEAN /\ CleanUpEvent \in BOOLEAN
  /\ closingSent \in BOOLEAN /\ freed \in BOOLEAN
  /\ OutputBuffer \in Seq(Bytes) /\ file \in Seq(Bytes) /\ posted \in Seq(Bytes)
  /\ DownloadedBytes \in Nat /\ ReadBytes \in Nat /\ uploaded \in Nat /\ fetched \in Nat
  /\ pendingOp \in {"none", "POST_SEND_DATA"} \cup CallStates

Init ==
  /\ pc = [t \in Threads |-> IF t = Main THEN "alloc" ELSE "idle"]
  /\ err = [t \in Threads |-> "success"]
  /\ State \in {IF m = "GET" THEN "SEND_REQ" ELSE "SEND_REQ_WITH_BODY" : m \in Methods}
  /\ doing = [t \in Threads |-> "COMPLETE"]
  /\ HandleUsageCount = 0 /\ Closing = FALSE /\ closes = 0 /\ strays = {}
  /\ CompletionEvent = FALSE /\ CleanUpEvent = FALSE
  /\ closingSent = FALSE /\ freed = FALSE
  /\ OutputBuffer = <<>> /\ file = <<>> /\ posted = <<>>
  /\ DownloadedBytes = 0 /\ ReadBytes = 0 /\ uploaded = 0 /\ fetched = 0
  /\ pendingOp = "none"
-----------------------------------------------------------------------------
(* Plausible bugs, for the mutation runs: a use that is not counted; a      *)
(* closing handle still handed out; every release of a closing handle       *)
(* closes it; no release does; the wrong event awaited before the context   *)
(* is freed; the loop gone on with while a call is pending; the state not   *)
(* set back after a write; a short read taken for the end of the file.      *)
UncountedUse(n) == n
HandedOut == TRUE
EveryReleaseCloses(count) == IF Closing THEN "close" ELSE "loop"
NoReleaseCloses(count) == "loop"
WrongEvent == CompletionEvent
GoesOnPending(e) == e # "failed"
WritesAgain(s) ==
  CASE s \in {"SEND_REQ", "POST_COMPLETE"} -> "RESPONSE_RECV_DATA"
    [] s \in {"SEND_REQ_WITH_BODY", "POST_SEND_DATA"} -> "POST_GET_DATA"
    [] s = "POST_GET_DATA" -> "POST_SEND_DATA"
    [] OTHER -> "RESPONSE_WRITE_DATA"
ShortReadEnds == ReadBytes < BUFFER_LEN

Go(t, place) == pc' = [pc EXCEPT ![t] = place]
GoWith(t, place, e) == Go(t, place) /\ err' = [err EXCEPT ![t] = e]

\* The state ProcessRequest sets before it runs the handler of s.
Following(s) ==
  CASE s = "SEND_REQ"            -> "RESPONSE_RECV_DATA"
    [] s = "SEND_REQ_WITH_BODY"  -> "POST_GET_DATA"
    [] s = "POST_GET_DATA"       -> "POST_SEND_DATA"
    [] s = "POST_SEND_DATA"      -> "POST_GET_DATA"
    [] s = "POST_COMPLETE"       -> "RESPONSE_RECV_DATA"
    [] s = "RESPONSE_RECV_DATA"  -> "RESPONSE_WRITE_DATA"
    [] s = "RESPONSE_WRITE_DATA" -> "RESPONSE_RECV_DATA"

\* The next bytes of a file or a stream of `len' bytes, `at' of them gone.
Chunk(kind, at, len) ==
  LET n == IF len - at < BUFFER_LEN THEN len - at ELSE BUFFER_LEN
  IN  [k \in 1..n |-> <<kind, at + k>>]

\* Where ProcessRequest returns to: wmain, or WinInet.
Return(t) == IF t = Main THEN "wait" ELSE "idle"
-----------------------------------------------------------------------------
(* ProcessRequest, in thread t. *)

GoesOn(e) == e = "success"

Dispatch(t) ==
  /\ pc[t] = "loop" /\ GoesOn(err[t]) /\ State # "COMPLETE"
  /\ doing' = [doing EXCEPT ![t] = State]
  /\ State' = Following(State)
  /\ Go(t, IF State \in CallStates THEN "acquire" ELSE "work")
  /\ UNCHANGED <<err, handleVars, eventVars, dataVars, pendingOp>>

\* The loop ends: the request is complete, has failed, or a call is pending.
EndLoop(t) ==
  /\ pc[t] = "loop" /\ (~GoesOn(err[t]) \/ State = "COMPLETE")
  /\ Go(t, IF err[t] = "pending" THEN Return(t) ELSE "signal")
  /\ UNCHANGED <<err, doing, handleVars, eventVars, dataVars, State, pendingOp>>

Signal(t) ==
  /\ pc[t] = "signal"
  /\ CompletionEvent' = TRUE
  /\ Go(t, Return(t))
  /\ UNCHANGED <<err, doing, handleVars, CleanUpEvent, closingSent, freed, dataVars, State, pendingOp>>

\* GetDataToPost: ReadFile, inline.
GetDataToPost(t) ==
  /\ pc[t] = "work" /\ doing[t] = "POST_GET_DATA"
  /\ \/ /\ OutputBuffer' = Chunk("req", uploaded, UploadLen)
        /\ ReadBytes' = Len(OutputBuffer')
        /\ uploaded' = uploaded + ReadBytes'
        /\ GoWith(t, "loop", "success")
        /\ UNCHANGED <<DownloadedBytes, file, fetched, posted>>
     \/ Failures /\ GoWith(t, "loop", "failed") /\ UNCHANGED dataVars
  /\ UNCHANGED <<doing, handleVars, eventVars, State, pendingOp>>

BodyDone == ReadBytes = 0

\* PostDataToServer, up to its call: nothing was read, so the body is done.
PostDataToServer(t) ==
  /\ pc[t] = "work" /\ doing[t] = "POST_SEND_DATA"
  /\ \/ /\ BodyDone
        /\ State' = "POST_COMPLETE"
        /\ GoWith(t, "loop", "success")
     \/ /\ ~BodyDone
        /\ Go(t, "acquire")
        /\ UNCHANGED <<State, err>>
  /\ UNCHANGED <<doing, handleVars, eventVars, dataVars, pendingOp>>

\* WriteResponseData: the response is finished, or WriteFile, inline.
WriteResponseData(t) ==
  /\ pc[t] = "work" /\ doing[t] = "RESPONSE_WRITE_DATA"
  /\ \/ /\ DownloadedBytes = 0
        /\ State' = "COMPLETE"
        /\ GoWith(t, "loop", "success")
        /\ UNCHANGED dataVars
     \/ /\ DownloadedBytes # 0
        /\ file' = file \o SubSeq(OutputBuffer, 1, DownloadedBytes)
        /\ GoWith(t, "loop", "success")
        /\ UNCHANGED <<State, OutputBuffer, DownloadedBytes, ReadBytes, uploaded, fetched, posted>>
     \/ /\ DownloadedBytes # 0 /\ Failures
        /\ GoWith(t, "loop", "failed")
        /\ UNCHANGED <<State, dataVars>>
  /\ UNCHANGED <<doing, handleVars, eventVars, pendingOp>>
-----------------------------------------------------------------------------
(* The request handle. *)

MayUse == ~Closing
OneMore(n) == n + 1

AcquireRequestHandle(t) ==
  /\ pc[t] = "acquire"
  /\ IF MayUse
       THEN Go(t, "call") /\ HandleUsageCount' = OneMore(HandleUsageCount) /\ UNCHANGED err
       ELSE GoWith(t, "loop", "failed") /\ UNCHANGED HandleUsageCount
  /\ UNCHANGED <<doing, Closing, closes, strays, eventVars, dataVars, State, pendingOp>>

AfterRelease(count) == IF Closing /\ count = 0 THEN "close" ELSE "loop"

ReleaseRequestHandle(t) ==
  /\ pc[t] = "release"
  /\ HandleUsageCount' = HandleUsageCount - 1
  /\ Go(t, AfterRelease(HandleUsageCount'))
  /\ UNCHANGED <<err, doing, Closing, closes, strays, eventVars, dataVars, State, pendingOp>>

(* The last user of a closing handle closes it.  If its call had not        *)
(* succeeded, its caller reads GetLastError only after that close, which    *)
(* may have left any other error, or none.                                  *)
CloseInRelease(t) ==
  /\ pc[t] = "close"
  /\ closes' = closes + 1
  /\ \/ err[t] = "success" /\ Go(t, "loop") /\ UNCHANGED <<err, strays>>
     \/ /\ err[t] # "success"
        /\ \E e \in Errors :
             /\ GoWith(t, "loop", e)
             /\ strays' = IF e = "success" THEN strays \cup {t} ELSE strays
  /\ UNCHANGED <<doing, HandleUsageCount, Closing, eventVars, dataVars, State, pendingOp>>

(* A completed InternetReadFile has filled the buffer as far as the         *)
(* response goes; a completed InternetWriteFile has sent the buffer.        *)
Transfer(op) ==
  CASE op = "RESPONSE_RECV_DATA" ->
         /\ OutputBuffer' = Chunk("resp", fetched, RespLen)
         /\ DownloadedBytes' = Len(OutputBuffer')
         /\ fetched' = fetched + DownloadedBytes'
         /\ UNCHANGED <<ReadBytes, uploaded, file, posted>>
    [] op = "POST_SEND_DATA" ->
         /\ posted' = posted \o SubSeq(OutputBuffer, 1, ReadBytes)
         /\ UNCHANGED <<OutputBuffer, DownloadedBytes, ReadBytes, uploaded, file, fetched>>
    [] OTHER -> UNCHANGED dataVars

\* The WinInet call of t's handler: done at once, failed at once, or pending.
Call(t) ==
  /\ pc[t] = "call"
  /\ \/ Transfer(doing[t]) /\ GoWith(t, "release", "success") /\ UNCHANGED pendingOp
     \/ /\ pendingOp' = doing[t]
        /\ GoWith(t, "release", "pending") /\ UNCHANGED dataVars
     \/ Failures /\ GoWith(t, "release", "failed") /\ UNCHANGED <<dataVars, pendingOp>>
  /\ UNCHANGED <<doing, handleVars, eventVars, State>>

\* INTERNET_STATUS_REQUEST_COMPLETE in callback thread w: ProcessRequest(dwError).
RequestComplete(w) ==
  /\ pc[w] = "idle" /\ pendingOp # "none"
  /\ \/ closes = 0 /\ Transfer(pendingOp) /\ GoWith(w, "loop", "success")
     \/ (Failures \/ closes > 0) /\ GoWith(w, "loop", "failed") /\ UNCHANGED dataVars
  /\ pendingOp' = "none"
  /\ UNCHANGED <<doing, handleVars, eventVars, State>>

\* Closing the handle ends a pending call without a callback.
Cancelled ==
  /\ closes > 0 /\ pendingOp # "none"
  /\ pendingOp' = "none"
  /\ UNCHANGED <<threadVars, handleVars, eventVars, dataVars, State>>

\* INTERNET_STATUS_HANDLE_CLOSING, the last callback.
HandleClosing ==
  /\ closes > 0 /\ ~closingSent
  /\ pendingOp = "none" /\ \A w \in Workers : pc[w] = "idle"
  /\ closingSent' = TRUE /\ CleanUpEvent' = TRUE
  /\ UNCHANGED <<threadVars, handleVars, CompletionEvent, freed, dataVars, State, pendingOp>>
-----------------------------------------------------------------------------
(* wmain. *)

\* AllocateAndInitializeRequestContext: wmain goes on to ProcessRequest ...
Allocate ==
  /\ pc[Main] = "alloc"
  /\ Go(Main, "loop")
  /\ UNCHANGED <<err, doing, handleVars, eventVars, dataVars, State, pendingOp>>

\* ... or it frees what it made; there is no request handle to wait for.
AllocateFails ==
  /\ Failures /\ pc[Main] = "alloc"
  /\ freed' = TRUE
  /\ Go(Main, "done")
  /\ UNCHANGED <<err, doing, handleVars, CompletionEvent, CleanUpEvent, closingSent, dataVars,
                 State, pendingOp>>

\* WaitForRequestCompletion: the auto-reset event, or a timeout at any time.
WaitForRequestCompletion ==
  /\ pc[Main] = "wait"
  /\ CompletionEvent' \in IF CompletionEvent THEN {TRUE, FALSE} ELSE {FALSE}
  /\ Go(Main, "cleanup")
  /\ UNCHANGED <<err, doing, handleVars, CleanUpEvent, closingSent, freed, dataVars, State, pendingOp>>

CloseRequestHandle ==
  /\ pc[Main] = "cleanup"
  /\ Closing' = TRUE
  /\ Go(Main, IF HandleUsageCount = 0 THEN "closeMain" ELSE "waitClosed")
  /\ UNCHANGED <<err, doing, HandleUsageCount, closes, strays, eventVars, dataVars, State, pendingOp>>

CloseInMain ==
  /\ pc[Main] = "closeMain"
  /\ closes' = closes + 1
  /\ Go(Main, "waitClosed")
  /\ UNCHANGED <<err, doing, HandleUsageCount, Closing, strays, eventVars, dataVars, State, pendingOp>>

SafeToFree == CleanUpEvent

\* CleanUpRequestContext, once the closing notification has come.
CleanUpRequestContext ==
  /\ pc[Main] = "waitClosed" /\ SafeToFree
  /\ CleanUpEvent' = FALSE
  /\ freed' = TRUE
  /\ Go(Main, "done")
  /\ UNCHANGED <<err, doing, handleVars, CompletionEvent, closingSent, dataVars, State, pendingOp>>
-----------------------------------------------------------------------------
ProcessRequest(t) ==
  \/ Dispatch(t) \/ EndLoop(t) \/ Signal(t)
  \/ GetDataToPost(t) \/ PostDataToServer(t) \/ WriteResponseData(t)
  \/ AcquireRequestHandle(t) \/ Call(t) \/ ReleaseRequestHandle(t) \/ CloseInRelease(t)

MainStep ==
  \/ Allocate \/ AllocateFails \/ WaitForRequestCompletion
  \/ CloseRequestHandle \/ CloseInMain \/ CleanUpRequestContext

WinInet == Cancelled \/ HandleClosing \/ \E w \in Workers : RequestComplete(w)

Next == MainStep \/ WinInet \/ \E t \in Threads : ProcessRequest(t)

Spec == Init /\ [][Next]_vars

(* Threads keep running, the wait has a timeout, and WinInet gives its last *)
(* notification.  It need not complete a call that nobody cancels.          *)
FairSpec ==
  /\ Spec
  /\ WF_vars(MainStep)
  /\ WF_vars(Cancelled) /\ WF_vars(HandleClosing)
  /\ \A t \in Threads : WF_vars(ProcessRequest(t))
-----------------------------------------------------------------------------
\* The threads between AcquireRequestHandle and ReleaseRequestHandle.
Users == {t \in Threads : pc[t] \in {"call", "release"}}

(* "At this point there must be the guarantee that all calls to wininet     *)
(* with this handle have returned ..., and none will be made after          *)
(* InternetCloseHandle" (async.cpp 894-899, 974-979): a thread about to     *)
(* close the handle, or a closed handle, means no user, now or later.       *)
NoUseAfterClose ==
  closes > 0 \/ pc[Main] = "closeMain" \/ (\E t \in Threads : pc[t] = "close") => Users = {}

(* However cancellation, releases and callbacks interleave, the handle is  *)
(* closed at most once, and by the time it is, closing has been announced  *)
(* (lines 883-900 and 963-980).                                             *)
ClosedOnce == closes <= 1 /\ (closes = 1 => Closing)

(* The context is freed only after the last notification, and no thread     *)
(* then still runs code that reads it, nor will (lines 1344-1351, 1399).    *)
NoUseAfterFree ==
  freed => pc[Main] = "done" /\ pendingOp = "none" /\ \A w \in Workers : pc[w] = "idle"

(* State, OutputBuffer and the counters are not locked.  What protects     *)
(* them is that at any time at most one thread drives the request or one    *)
(* call is pending, although a callback can overtake the return of the      *)
(* call it completes (lines 306-378).  One thread may break that, a stray:  *)
(* the last user of a closing handle, which read its error after the close  *)
(* (lines 430-434, 883-900); and it may do so only then.                    *)
Driving(t) ==
  \/ pc[t] \in {"work", "acquire", "call"}
  \/ pc[t] \in {"loop", "release", "close"} /\ err[t] = "success"

SingleDriver ==
  /\ \A t, u \in Threads \ strays : Driving(t) /\ Driving(u) => t = u
  /\ pendingOp # "none" => \A t \in Threads \ strays : ~Driving(t)
  /\ \A t, u \in strays : closes = 1 /\ t = u

(* Nothing of the response is lost, repeated or reordered on its way to the *)
(* file, and a request that completes has all of it (lines 352-368): as     *)
(* long as no stray has taken a read that failed or is pending for done.    *)
DownloadExact ==
  strays = {} =>
    /\ \A k \in 1..Len(file) : file[k] = <<"resp", k>>
    /\ Len(file) <= fetched
    /\ State = "COMPLETE" => Len(file) = RespLen

(* The same for the body of a POST: when the request is ended with          *)
(* HttpEndRequest, all of the upload file has been posted (lines 325-350).  *)
(* A stray cannot harm it: the handle is closed, and no call is made.       *)
UploadExact ==
  /\ \A k \in 1..Len(posted) : posted[k] = <<"req", k>>
  /\ (\E t \in Threads : pc[t] = "call" /\ doing[t] = "POST_COMPLETE") => Len(posted) = UploadLen

(* Whatever the server does, the program gets to its end: the timeout, the  *)
(* last release and the closing notification cannot wait for one another    *)
(* (lines 1284-1285, 1342-1351).                                            *)
MainTerminates == <>(pc[Main] = "done")
=============================================================================
