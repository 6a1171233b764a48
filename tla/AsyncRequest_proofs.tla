------------------------- MODULE AsyncRequest_proofs -------------------------
(***************************************************************************)
(* Proofs about AsyncRequest, for any number of callback threads, any file *)
(* and buffer sizes, with and without failures.                            *)
(***************************************************************************)
EXTENDS AsyncRequest, FiniteSetTheorems, TLAPS

(* The types of what the control of the program depends on. *)
CtrlType ==
  /\ pc \in [Threads -> PCs]
  /\ err \in [Threads -> Errors]
  /\ strays \subseteq Workers
  /\ doing \in [Threads -> States]
  /\ State \in States
  /\ HandleUsageCount \in Nat /\ closes \in Nat
  /\ Closing \in BOOLEAN
  /\ pendingOp \in {"none", "POST_SEND_DATA"} \cup CallStates

EventType ==
  /\ CompletionEvent \in BOOLEAN /\ CleanUpEvent \in BOOLEAN
  /\ closingSent \in BOOLEAN /\ freed \in BOOLEAN

(* What a thread at a place of ProcessRequest is there for. *)
Placed ==
  \A t \in Threads :
    /\ pc[t] \in {"acquire", "call"} => doing[t] \in CallStates \cup {"POST_SEND_DATA"}
    /\ pc[t] = "work" => doing[t] \in WorkStates

(* The usage count counts the users. *)
CountExact == HandleUsageCount = Cardinality(Users)

(* Only the main thread starts the closing. *)
ClosingIsMains ==
  /\ Closing => pc[Main] \in {"closeMain", "waitClosed", "done"}
  /\ pc[Main] \in {"closeMain", "waitClosed"} => Closing

(* There is one right to close the handle.  It is with the main thread, or  *)
(* with the thread that released the handle last, or it has been used; and  *)
(* it is not given while the handle has users.                              *)
OneClose ==
  /\ closes <= 1
  /\ closes = 1 => Closing
  /\ Users # {} => closes = 0
  /\ pc[Main] = "closeMain" => closes = 0 /\ Users = {}
  /\ \A t \in Threads : pc[t] = "close" =>
       /\ Closing /\ closes = 0 /\ Users = {} /\ pc[Main] # "closeMain"
       /\ \A u \in Threads : pc[u] = "close" => u = t

WorkersIdle == \A w \in Workers : pc[w] = "idle"

(* The closing notification is the last thing WinInet does. *)
ClosingComesLast ==
  /\ closingSent => closes > 0 /\ pendingOp = "none" /\ WorkersIdle
  /\ CleanUpEvent => closingSent
  /\ pc[Main] = "alloc" => pendingOp = "none" /\ WorkersIdle

CtrlInv ==
  /\ CtrlType
  /\ EventType
  /\ Placed
  /\ CountExact
  /\ ClosingIsMains
  /\ OneClose
  /\ ClosingComesLast
  /\ NoUseAfterFree
  /\ SingleDriver

USE AsyncAssumption
-----------------------------------------------------------------------------
(* Types and places. *)

LEMMA CtrlInit == Init => CtrlInv
<1> SUFFICES ASSUME Init PROVE CtrlInv
  OBVIOUS
<1>1. CtrlType /\ EventType /\ Placed
  BY DEF Init, CtrlType, EventType, Placed, Threads, PCs, Errors, States, CallStates,
              WorkStates
<1>2. Users = {}
  BY DEF Init, Users
<1>3. CountExact
  BY <1>2, FS_EmptySet DEF Init, CountExact
<1>4. ClosingIsMains /\ OneClose /\ ClosingComesLast /\ NoUseAfterFree
  BY <1>2 DEF Init, ClosingIsMains, OneClose, ClosingComesLast, WorkersIdle, NoUseAfterFree,
              Threads
<1>5. SingleDriver
  BY DEF Init, SingleDriver, Driving, Threads
<1>6. QED  BY <1>1, <1>3, <1>4, <1>5 DEF CtrlInv

(* The states ProcessRequest goes on to. *)
LEMMA FollowingType ==
  ASSUME NEW s \in States \ {"COMPLETE"}
  PROVE  Following(s) \in States
BY DEF Following, States, CallStates, WorkStates

(* What an action of a thread, apart from the main thread's own part, does  *)
(* to the control state.                                                    *)
LEMMA ProcessMoves ==
  ASSUME CtrlType, NEW t \in Threads, ProcessRequest(t)
  PROVE  /\ pc[t] \in {"loop", "work", "acquire", "call", "release", "close", "signal"}
         /\ \E p \in PCs : pc' = [pc EXCEPT ![t] = p]
         /\ \E e \in Errors : err' = [err EXCEPT ![t] = e]
         /\ CleanUpEvent' = CleanUpEvent /\ closingSent' = closingSent /\ freed' = freed
         /\ Closing' = Closing
         /\ strays' = strays \/ CloseInRelease(t)
         /\ CompletionEvent' \in {CompletionEvent, TRUE}
<1> USE DEF CtrlType, PCs, Errors, Go, GoWith, threadVars, handleVars, eventVars
<1>1. CASE Dispatch(t)  BY <1>1 DEF Dispatch
<1>2. CASE EndLoop(t)  BY <1>2 DEF EndLoop, Return
<1>3. CASE Signal(t)  BY <1>3 DEF Signal, Return
<1>4. CASE GetDataToPost(t)  BY <1>4 DEF GetDataToPost
<1>5. CASE PostDataToServer(t)  BY <1>5 DEF PostDataToServer
<1>6. CASE WriteResponseData(t)  BY <1>6 DEF WriteResponseData
<1>7. CASE AcquireRequestHandle(t)  BY <1>7 DEF AcquireRequestHandle
<1>8. CASE Call(t)  BY <1>8 DEF Call
<1>9. CASE ReleaseRequestHandle(t)  BY <1>9 DEF ReleaseRequestHandle, AfterRelease
<1>10. CASE CloseInRelease(t)  BY <1>10 DEF CloseInRelease
<1>11. QED
  BY <1>1, <1>2, <1>3, <1>4, <1>5, <1>6, <1>7, <1>8, <1>9, <1>10 DEF ProcessRequest

(* The users are finitely many, so that the count is a natural number.      *)
LEMMA UsersFinite ==
  /\ IsFiniteSet(Threads)
  /\ IsFiniteSet(Users)
  /\ Cardinality(Users) \in Nat
  /\ Cardinality(Users) = 0 <=> Users = {}
<1>1. IsFiniteSet(Threads)
  BY FS_Singleton, FS_Union DEF Threads
<1>2. IsFiniteSet(Users)
  BY <1>1, FS_Subset DEF Users
<1>3. QED  BY <1>1, <1>2, FS_CardinalityType, FS_EmptySet

LEMMA TypeProcess ==
  ASSUME CtrlInv, NEW t \in Threads, ProcessRequest(t)
  PROVE  CtrlType' /\ EventType' /\ Placed'
<1>0. CtrlType /\ EventType /\ Placed /\ CountExact
  BY DEF CtrlInv
<1>1. /\ pc' \in [Threads -> PCs]
      /\ err' \in [Threads -> Errors]
      /\ Closing' \in BOOLEAN
  <2>1. PICK p \in PCs : pc' = [pc EXCEPT ![t] = p]  BY <1>0, ProcessMoves
  <2>2. PICK e \in Errors : err' = [err EXCEPT ![t] = e]  BY <1>0, ProcessMoves
  <2>3. Closing' = Closing  BY <1>0, ProcessMoves
  <2>4. QED  BY <1>0, <2>1, <2>2, <2>3 DEF CtrlType
<1>2. EventType'
  BY <1>0, ProcessMoves DEF EventType
<1>3. doing' \in [Threads -> States] /\ State' \in States
  <2>1. CASE Dispatch(t)
    BY <1>0, <2>1, FollowingType DEF Dispatch, CtrlType
  <2>2. CASE PostDataToServer(t) \/ WriteResponseData(t)
    BY <1>0, <2>2 DEF PostDataToServer, WriteResponseData, CtrlType, States, CallStates
  <2>3. CASE \/ EndLoop(t) \/ Signal(t) \/ GetDataToPost(t) \/ AcquireRequestHandle(t)
             \/ Call(t) \/ ReleaseRequestHandle(t) \/ CloseInRelease(t)
    BY <1>0, <2>3 DEF EndLoop, Signal, GetDataToPost, AcquireRequestHandle, Call,
       ReleaseRequestHandle, CloseInRelease, CtrlType
  <2>4. QED  BY <2>1, <2>2, <2>3 DEF ProcessRequest
<1>4. HandleUsageCount' \in Nat
  <2>1. CASE AcquireRequestHandle(t)
    BY <1>0, <2>1 DEF AcquireRequestHandle, OneMore, CtrlType
  <2>2. CASE ReleaseRequestHandle(t)
    <3>1. t \in Users  BY <2>2 DEF ReleaseRequestHandle, Users
    <3>2. HandleUsageCount \in Nat \ {0}
      BY <1>0, <3>1, UsersFinite DEF CountExact
    <3>3. QED  BY <2>2, <3>2 DEF ReleaseRequestHandle
  <2>3. CASE \/ Dispatch(t) \/ EndLoop(t) \/ Signal(t) \/ GetDataToPost(t)
             \/ PostDataToServer(t) \/ WriteResponseData(t) \/ Call(t) \/ CloseInRelease(t)
    BY <1>0, <2>3 DEF Dispatch, EndLoop, Signal, GetDataToPost, PostDataToServer,
       WriteResponseData, Call, CloseInRelease, handleVars, CtrlType
  <2>4. QED  BY <2>1, <2>2, <2>3 DEF ProcessRequest
<1>5. closes' \in Nat
  <2>1. CASE CloseInRelease(t)  BY <1>0, <2>1 DEF CloseInRelease, CtrlType
  <2>2. CASE ~CloseInRelease(t)
    BY <1>0, <2>2 DEF ProcessRequest, Dispatch, EndLoop, Signal, GetDataToPost, PostDataToServer,
       WriteResponseData, AcquireRequestHandle, Call, ReleaseRequestHandle, handleVars, CtrlType
  <2>3. QED  BY <2>1, <2>2
<1>6. pendingOp' \in {"none", "POST_SEND_DATA"} \cup CallStates
  <2>1. CASE Call(t)
    BY <1>0, <2>1 DEF Call, Placed, CtrlType
  <2>2. CASE ~Call(t)
    BY <1>0, <2>2 DEF ProcessRequest, Dispatch, EndLoop, Signal, GetDataToPost, PostDataToServer,
       WriteResponseData, AcquireRequestHandle, ReleaseRequestHandle, CloseInRelease, CtrlType
  <2>3. QED  BY <2>1, <2>2
<1>7. Placed'
  <2>1. CASE Dispatch(t)
    BY <1>0, <2>1 DEF Dispatch, Go, Placed, CtrlType, States, WorkStates
  <2>2. CASE PostDataToServer(t)
    BY <1>0, <2>2 DEF PostDataToServer, Go, GoWith, Placed, CtrlType
  <2>3. CASE AcquireRequestHandle(t)
    BY <1>0, <2>3 DEF AcquireRequestHandle, Go, GoWith, Placed, CtrlType
  <2>4. CASE \/ EndLoop(t) \/ Signal(t) \/ GetDataToPost(t) \/ WriteResponseData(t)
             \/ Call(t) \/ ReleaseRequestHandle(t) \/ CloseInRelease(t)
    <3>1. doing' = doing /\ \E p \in PCs \ {"work", "acquire", "call"} : pc' = [pc EXCEPT ![t] = p]
      BY <2>4 DEF EndLoop, Signal, GetDataToPost, WriteResponseData, Call, ReleaseRequestHandle,
         CloseInRelease, Go, GoWith, Return, AfterRelease, PCs
    <3>2. QED  BY <1>0, <3>1 DEF Placed, CtrlType
  <2>5. QED  BY <2>1, <2>2, <2>3, <2>4 DEF ProcessRequest
<1>8. strays' \subseteq Workers
  <2>1. CASE CloseInRelease(t)
    <3>1. t # Main
      BY <1>0, <2>1 DEF CloseInRelease, CtrlInv, ClosingIsMains, OneClose
    <3>2. QED  BY <1>0, <2>1, <3>1 DEF CloseInRelease, CtrlType, Threads
  <2>2. CASE ~CloseInRelease(t)  BY <1>0, <2>2, ProcessMoves DEF CtrlType
  <2>3. QED  BY <2>1, <2>2
<1>9. QED
  BY <1>1, <1>2, <1>3, <1>4, <1>5, <1>6, <1>7, <1>8 DEF CtrlType

LEMMA TypeOthers ==
  ASSUME CtrlInv, MainStep \/ WinInet \/ UNCHANGED vars
  PROVE  CtrlType' /\ EventType' /\ Placed'
<1>0. CtrlType /\ EventType /\ Placed
  BY DEF CtrlInv
<1>1. CASE MainStep
  <2>1. \E p \in PCs \ {"work", "acquire", "call"} : pc' = [pc EXCEPT ![Main] = p]
    BY <1>1 DEF MainStep, Allocate, AllocateFails, WaitForRequestCompletion, CloseRequestHandle,
       CloseInMain, CleanUpRequestContext, Go, PCs
  <2>2. UNCHANGED <<err, doing, State, pendingOp, HandleUsageCount, strays>>
    BY <1>1 DEF MainStep, Allocate, AllocateFails, WaitForRequestCompletion, CloseRequestHandle,
       CloseInMain, CleanUpRequestContext, handleVars
  <2>3. closes' \in Nat /\ Closing' \in BOOLEAN
    <3>1. closes' = closes \/ closes' = closes + 1
      BY <1>1 DEF MainStep, Allocate, AllocateFails, WaitForRequestCompletion,
         CloseRequestHandle, CloseInMain, CleanUpRequestContext, handleVars
    <3>2. closes' \in Nat
      BY <1>0, <3>1 DEF CtrlType
    <3>3. Closing' \in BOOLEAN
      BY <1>0, <1>1 DEF MainStep, Allocate, AllocateFails, WaitForRequestCompletion,
         CloseRequestHandle, CloseInMain, CleanUpRequestContext, handleVars, CtrlType
    <3>4. QED  BY <3>2, <3>3
  <2>4. EventType'
    BY <1>0, <1>1 DEF MainStep, Allocate, AllocateFails, WaitForRequestCompletion,
       CloseRequestHandle, CloseInMain, CleanUpRequestContext, eventVars, EventType
  <2>5. CtrlType'  BY <1>0, <2>1, <2>2, <2>3 DEF CtrlType
  <2>6. Placed'  BY <1>0, <2>1, <2>2 DEF CtrlType, Placed
  <2>7. QED  BY <2>4, <2>5, <2>6
<1>2. CASE WinInet
  <2>1. CASE Cancelled \/ HandleClosing
    BY <1>0, <2>1 DEF Cancelled, HandleClosing, threadVars, handleVars, eventVars, CtrlType,
       EventType, Placed
  <2>2. ASSUME NEW w \in Workers, RequestComplete(w)
        PROVE  CtrlType' /\ EventType' /\ Placed'
    <3>1. /\ pc' = [pc EXCEPT ![w] = "loop"]
          /\ \E e \in {"success", "failed"} : err' = [err EXCEPT ![w] = e]
      BY <2>2 DEF RequestComplete, Go, GoWith
    <3>2. UNCHANGED <<doing, State, handleVars, eventVars>> /\ pendingOp' = "none"
      BY <2>2 DEF RequestComplete
    <3>3. CtrlType'
      BY <1>0, <3>1, <3>2 DEF CtrlType, PCs, Errors, handleVars
    <3>4. EventType' /\ Placed'
      BY <1>0, <3>1, <3>2 DEF CtrlType, EventType, Placed, eventVars
    <3>5. QED  BY <3>3, <3>4
  <2>3. QED  BY <1>2, <2>1, <2>2 DEF WinInet
<1>3. CASE UNCHANGED vars
  BY <1>0, <1>3 DEF vars, threadVars, handleVars, eventVars, CtrlType, EventType, Placed
<1>4. QED  BY <1>1, <1>2, <1>3
-----------------------------------------------------------------------------
(* The handle. *)

(* A move of a thread that neither begins nor ends its use of the handle,   *)
(* and has nothing to do with the closing.                                  *)
LEMMA HandleQuiet ==
  ASSUME CtrlInv, NEW t \in Threads, NEW p \in PCs,
         pc' = [pc EXCEPT ![t] = p],
         pc[t] \in {"call", "release"} <=> p \in {"call", "release"},
         pc[t] \notin {"close", "closeMain", "waitClosed", "done"},
         p \notin {"close", "closeMain", "waitClosed"},
         UNCHANGED handleVars
  PROVE  CountExact' /\ ClosingIsMains' /\ OneClose'
<1>0. CtrlType /\ CountExact /\ ClosingIsMains /\ OneClose
  BY DEF CtrlInv
<1>1. Users' = Users
  BY <1>0 DEF Users, CtrlType
<1>2. CountExact'
  BY <1>0, <1>1 DEF CountExact, handleVars
<1>3. ClosingIsMains'
  BY <1>0 DEF ClosingIsMains, handleVars, CtrlType
<1>4. OneClose'
  BY <1>0, <1>1 DEF OneClose, handleVars, CtrlType
<1>5. QED  BY <1>2, <1>3, <1>4

LEMMA HandleProcess ==
  ASSUME CtrlInv, NEW t \in Threads, ProcessRequest(t)
  PROVE  CountExact' /\ ClosingIsMains' /\ OneClose'
<1>0. CtrlType /\ CountExact /\ ClosingIsMains /\ OneClose
  BY DEF CtrlInv
<1>1. CASE \/ Dispatch(t) \/ EndLoop(t) \/ Signal(t) \/ GetDataToPost(t)
           \/ PostDataToServer(t) \/ WriteResponseData(t) \/ Call(t)
  <2>1. UNCHANGED handleVars
    BY <1>1 DEF Dispatch, EndLoop, Signal, GetDataToPost, PostDataToServer, WriteResponseData,
       Call
  <2>2. \/ pc[t] \in {"loop", "work", "signal"} /\
              \E p \in {"loop", "work", "acquire", "signal", "wait", "idle"} :
                 pc' = [pc EXCEPT ![t] = p]
        \/ pc[t] = "call" /\ pc' = [pc EXCEPT ![t] = "release"]
    BY <1>1 DEF Dispatch, EndLoop, Signal, GetDataToPost, PostDataToServer, WriteResponseData,
       Call, Go, GoWith, Return
  <2>3. QED  BY <2>1, <2>2, HandleQuiet DEF PCs
<1>2. CASE AcquireRequestHandle(t)
  <2>1. CASE Closing
    <3>1. pc[t] = "acquire" /\ pc' = [pc EXCEPT ![t] = "loop"] /\ UNCHANGED handleVars
      BY <1>2, <2>1 DEF AcquireRequestHandle, MayUse, GoWith, Go, handleVars
    <3>2. QED  BY <3>1, HandleQuiet DEF PCs
  <2>2. CASE ~Closing
    <3>1. /\ pc[t] = "acquire" /\ pc' = [pc EXCEPT ![t] = "call"]
          /\ HandleUsageCount' = HandleUsageCount + 1 /\ UNCHANGED <<Closing, closes>>
      BY <1>2, <2>2 DEF AcquireRequestHandle, MayUse, OneMore, Go
    <3>2. Users' = Users \cup {t} /\ t \notin Users
      BY <1>0, <3>1 DEF Users, CtrlType
    <3>3. Cardinality(Users \cup {t}) = Cardinality(Users) + 1
      BY <3>2, UsersFinite, FS_AddElement
    <3>4. CountExact'
      BY <1>0, <3>1, <3>2, <3>3 DEF CountExact
    <3>5. ClosingIsMains'
      BY <1>0, <2>2, <3>1 DEF ClosingIsMains, CtrlType
    <3>6. closes = 0 /\ \A u \in Threads : pc[u] # "close"
      BY <1>0, <2>2 DEF OneClose, CtrlType
    <3>7. pc'[Main] # "closeMain" /\ \A u \in Threads : pc'[u] # "close"
      BY <1>0, <2>2, <3>1, <3>6 DEF ClosingIsMains, CtrlType, Threads
    <3>8. OneClose'
      BY <3>1, <3>6, <3>7 DEF OneClose
    <3>9. QED  BY <3>4, <3>5, <3>8
  <2>3. QED  BY <2>1, <2>2
<1>3. CASE ReleaseRequestHandle(t)
  <2>1. /\ pc[t] = "release" /\ HandleUsageCount' = HandleUsageCount - 1
        /\ pc' = [pc EXCEPT ![t] = IF Closing /\ HandleUsageCount - 1 = 0 THEN "close" ELSE "loop"]
        /\ UNCHANGED <<Closing, closes>>
    BY <1>3 DEF ReleaseRequestHandle, AfterRelease, Go
  <2>2. t \in Users /\ Users' = Users \ {t}
    BY <1>0, <2>1 DEF Users, CtrlType
  <2>3. Cardinality(Users \ {t}) = Cardinality(Users) - 1
    BY <2>2, UsersFinite, FS_RemoveElement
  <2>4. CountExact'
    BY <1>0, <2>1, <2>2, <2>3 DEF CountExact
  <2>5. closes = 0 /\ pc[Main] # "closeMain" /\ \A u \in Threads : pc[u] # "close"
    BY <1>0, <2>2 DEF OneClose
  <2>6. ClosingIsMains'
    BY <1>0, <2>1 DEF ClosingIsMains, CtrlType
  <2>7. OneClose'
    <3>1. CASE Closing /\ HandleUsageCount - 1 = 0
      <4>1. Users' = {}
        BY <1>0, <2>2, <2>3, <3>1, UsersFinite, FS_RemoveElement, FS_EmptySet DEF CountExact
      <4>2. pc' = [pc EXCEPT ![t] = "close"]  BY <2>1, <3>1
      <4>3. t # Main
        BY <1>0, <2>1, <3>1 DEF ClosingIsMains
      <4>4. pc'[Main] # "closeMain" /\ \A u \in Threads : pc'[u] = "close" => u = t
        BY <1>0, <2>5, <4>2, <4>3 DEF CtrlType, Threads
      <4>5. QED  BY <2>1, <2>5, <3>1, <4>1, <4>4 DEF OneClose
    <3>2. CASE ~(Closing /\ HandleUsageCount - 1 = 0)
      <4>1. pc' = [pc EXCEPT ![t] = "loop"]  BY <2>1, <3>2
      <4>2. pc'[Main] # "closeMain" /\ \A u \in Threads : pc'[u] # "close"
        BY <1>0, <2>5, <4>1 DEF CtrlType, Threads
      <4>3. QED  BY <2>1, <2>5, <4>2 DEF OneClose
    <3>3. QED  BY <3>1, <3>2
  <2>8. QED  BY <2>4, <2>6, <2>7
<1>4. CASE CloseInRelease(t)
  <2>1. /\ pc[t] = "close" /\ pc' = [pc EXCEPT ![t] = "loop"] /\ closes' = closes + 1
        /\ UNCHANGED <<HandleUsageCount, Closing>>
    BY <1>4 DEF CloseInRelease, Go, GoWith
  <2>2. Closing /\ closes = 0 /\ Users = {} /\ pc[Main] # "closeMain"
        /\ \A u \in Threads : pc[u] = "close" => u = t
    BY <1>0, <2>1 DEF OneClose
  <2>3. Users' = Users  BY <1>0, <2>1 DEF Users, CtrlType
  <2>4. CountExact'  BY <1>0, <2>1, <2>3 DEF CountExact
  <2>5. ClosingIsMains'
    BY <1>0, <2>1, <2>2 DEF ClosingIsMains, CtrlType
  <2>6. pc'[Main] # "closeMain" /\ \A u \in Threads : pc'[u] # "close"
    BY <1>0, <2>1, <2>2 DEF CtrlType, Threads
  <2>7. OneClose'  BY <2>1, <2>2, <2>3, <2>6 DEF OneClose
  <2>8. QED  BY <2>4, <2>5, <2>7
<1>5. QED
  BY <1>1, <1>2, <1>3, <1>4 DEF ProcessRequest

LEMMA HandleOthers ==
  ASSUME CtrlInv, MainStep \/ WinInet \/ UNCHANGED vars
  PROVE  CountExact' /\ ClosingIsMains' /\ OneClose'
<1>0. CtrlType /\ CountExact /\ ClosingIsMains /\ OneClose /\ Main \in Threads
  BY DEF CtrlInv, Threads
<1>1. CASE Allocate \/ AllocateFails \/ WaitForRequestCompletion
  <2>1. /\ UNCHANGED handleVars /\ pc[Main] \in {"alloc", "wait"}
        /\ \E p \in {"loop", "done", "cleanup"} : pc' = [pc EXCEPT ![Main] = p]
    BY <1>1 DEF Allocate, AllocateFails, WaitForRequestCompletion, Go
  <2>2. QED  BY <1>0, <2>1, HandleQuiet DEF PCs
<1>2. CASE CloseRequestHandle
  <2>1. /\ pc[Main] = "cleanup" /\ Closing' /\ UNCHANGED <<HandleUsageCount, closes>>
        /\ pc' = [pc EXCEPT ![Main] = IF HandleUsageCount = 0 THEN "closeMain" ELSE "waitClosed"]
    BY <1>2 DEF CloseRequestHandle, Go
  <2>2. Users' = Users  BY <1>0, <2>1 DEF Users, CtrlType
  <2>3. CountExact'  BY <1>0, <2>1, <2>2 DEF CountExact
  <2>4. ClosingIsMains'  BY <1>0, <2>1 DEF ClosingIsMains, CtrlType
  <2>5. ~Closing  BY <1>0, <2>1 DEF ClosingIsMains
  <2>6. closes = 0 /\ \A u \in Threads : pc[u] # "close"
    BY <1>0, <2>5 DEF OneClose, CtrlType
  <2>7. \A u \in Threads : pc'[u] # "close"
    BY <1>0, <2>1, <2>6 DEF CtrlType
  <2>8. pc'[Main] = "closeMain" => Users = {}
    BY <1>0, <2>1, UsersFinite DEF CountExact, CtrlType
  <2>9. OneClose'  BY <2>1, <2>2, <2>6, <2>7, <2>8 DEF OneClose
  <2>10. QED  BY <2>3, <2>4, <2>9
<1>3. CASE CloseInMain
  <2>1. /\ pc[Main] = "closeMain" /\ pc' = [pc EXCEPT ![Main] = "waitClosed"]
        /\ closes' = closes + 1 /\ UNCHANGED <<HandleUsageCount, Closing>>
    BY <1>3 DEF CloseInMain, Go
  <2>2. Users' = Users  BY <1>0, <2>1 DEF Users, CtrlType
  <2>3. CountExact'  BY <1>0, <2>1, <2>2 DEF CountExact
  <2>4. ClosingIsMains'  BY <1>0, <2>1 DEF ClosingIsMains, CtrlType
  <2>5. Closing /\ closes = 0 /\ Users = {} /\ \A u \in Threads : pc[u] # "close"
    BY <1>0, <2>1 DEF OneClose, ClosingIsMains
  <2>6. pc'[Main] # "closeMain" /\ \A u \in Threads : pc'[u] # "close"
    BY <1>0, <2>1, <2>5 DEF CtrlType
  <2>7. OneClose'  BY <2>1, <2>2, <2>5, <2>6 DEF OneClose
  <2>8. QED  BY <2>3, <2>4, <2>7
<1>4. CASE CleanUpRequestContext
  <2>1. /\ pc[Main] = "waitClosed" /\ pc' = [pc EXCEPT ![Main] = "done"] /\ UNCHANGED handleVars
    BY <1>4 DEF CleanUpRequestContext, Go
  <2>2. Users' = Users  BY <1>0, <2>1 DEF Users, CtrlType
  <2>3. CountExact'  BY <1>0, <2>1, <2>2 DEF CountExact, handleVars
  <2>4. ClosingIsMains'  BY <1>0, <2>1 DEF ClosingIsMains, CtrlType, handleVars
  <2>5. OneClose'  BY <1>0, <2>1, <2>2 DEF OneClose, CtrlType, handleVars
  <2>6. QED  BY <2>3, <2>4, <2>5
<1>5. CASE Cancelled \/ HandleClosing \/ UNCHANGED vars
  <2>1. UNCHANGED <<pc, HandleUsageCount, Closing, closes>>
    BY <1>5 DEF Cancelled, HandleClosing, vars, threadVars, handleVars
  <2>2. Users' = Users  BY <2>1 DEF Users
  <2>3. QED  BY <1>0, <2>1, <2>2 DEF CountExact, ClosingIsMains, OneClose
<1>6. ASSUME NEW w \in Workers, RequestComplete(w)
      PROVE  CountExact' /\ ClosingIsMains' /\ OneClose'
  <2>1. /\ pc[w] = "idle" /\ pc' = [pc EXCEPT ![w] = "loop"] /\ UNCHANGED handleVars
        /\ w \in Threads
    BY <1>6 DEF RequestComplete, Go, GoWith, Threads
  <2>2. QED  BY <2>1, HandleQuiet DEF PCs
<1>7. QED
  BY <1>1, <1>2, <1>3, <1>4, <1>5, <1>6 DEF MainStep, WinInet
-----------------------------------------------------------------------------
(* The closing notification and the end of the context. *)

LEMMA NotBackToAlloc ==
  ASSUME CtrlInv, NEW t \in Threads, ProcessRequest(t)
  PROVE  pc'[Main] # "alloc"
<1>1. CtrlType /\ ClosingComesLast
  BY DEF CtrlInv
<1>2. /\ pc[t] \in {"loop", "work", "acquire", "call", "release", "close", "signal"}
      /\ \E p \in PCs : pc' = [pc EXCEPT ![t] = p]
  BY <1>1, ProcessMoves
<1>3. CASE t = Main
  BY <1>1, <1>3 DEF ProcessRequest, Dispatch, EndLoop, Signal, GetDataToPost, PostDataToServer,
     WriteResponseData, AcquireRequestHandle, Call, ReleaseRequestHandle, CloseInRelease,
     AfterRelease, Return, Go, GoWith, CtrlType
<1>4. CASE t # Main
  BY <1>1, <1>2, <1>4 DEF ClosingComesLast, WorkersIdle, CtrlType, Threads
<1>5. QED  BY <1>3, <1>4

LEMMA EndProcess ==
  ASSUME CtrlInv, NEW t \in Threads, ProcessRequest(t)
  PROVE  ClosingComesLast' /\ NoUseAfterFree'
<1>0. CtrlType /\ OneClose /\ ClosingComesLast /\ NoUseAfterFree
  BY DEF CtrlInv
<1>1. /\ pc[t] \in {"loop", "work", "acquire", "call", "release", "close", "signal"}
      /\ \E p \in PCs : pc' = [pc EXCEPT ![t] = p]
      /\ CleanUpEvent' = CleanUpEvent /\ closingSent' = closingSent /\ freed' = freed
  BY <1>0, ProcessMoves
<1>2. closes <= closes'
  BY <1>0 DEF ProcessRequest, Dispatch, EndLoop, Signal, GetDataToPost, PostDataToServer,
     WriteResponseData, AcquireRequestHandle, Call, ReleaseRequestHandle, CloseInRelease,
     handleVars, CtrlType
<1>3. pendingOp' = pendingOp \/ Call(t)
  BY DEF ProcessRequest, Dispatch, EndLoop, Signal, GetDataToPost, PostDataToServer,
     WriteResponseData, AcquireRequestHandle, ReleaseRequestHandle, CloseInRelease
<1>4. Call(t) => t \in Users /\ closes = 0
  BY <1>0 DEF Call, Users, OneClose
<1>5. closingSent => t = Main /\ ~Call(t)
  BY <1>0, <1>1, <1>4 DEF ClosingComesLast, WorkersIdle, Threads, CtrlType
<1>6. freed => FALSE
  BY <1>0, <1>1 DEF NoUseAfterFree, Threads
<1>7. t = Main => WorkersIdle' = WorkersIdle
  BY <1>0, <1>1 DEF WorkersIdle, CtrlType, Threads
<1>8. pc'[Main] # "alloc"
  BY NotBackToAlloc
<1>9. ClosingComesLast'
  <2>1. closingSent => closes' > 0 /\ pendingOp' = "none" /\ WorkersIdle'
    BY <1>0, <1>2, <1>3, <1>5, <1>7, TypeProcess DEF ClosingComesLast, CtrlType
  <2>2. QED  BY <1>0, <1>1, <1>8, <2>1 DEF ClosingComesLast
<1>10. NoUseAfterFree'
  BY <1>1, <1>6 DEF NoUseAfterFree
<1>11. QED  BY <1>9, <1>10

LEMMA EndOthers ==
  ASSUME CtrlInv, MainStep \/ WinInet \/ UNCHANGED vars
  PROVE  ClosingComesLast' /\ NoUseAfterFree'
<1>0. CtrlType /\ OneClose /\ ClosingComesLast /\ NoUseAfterFree /\ EventType
      /\ Main \in Threads /\ Main \notin Workers
  BY DEF CtrlInv, Threads
<1>1. CASE MainStep
  <2>1. \E p \in PCs \ {"alloc"} : pc' = [pc EXCEPT ![Main] = p]
    BY <1>1 DEF MainStep, Allocate, AllocateFails, WaitForRequestCompletion, CloseRequestHandle,
       CloseInMain, CleanUpRequestContext, Go, PCs
  <2>2. UNCHANGED <<pendingOp, closingSent>>
    BY <1>1 DEF MainStep, Allocate, AllocateFails, WaitForRequestCompletion, CloseRequestHandle,
       CloseInMain, CleanUpRequestContext, eventVars
  <2>3. closes <= closes'
    <3>1. closes' = closes \/ closes' = closes + 1
      BY <1>1 DEF MainStep, Allocate, AllocateFails, WaitForRequestCompletion,
         CloseRequestHandle, CloseInMain, CleanUpRequestContext, handleVars
    <3>2. QED  BY <1>0, <3>1 DEF CtrlType
  <2>4. WorkersIdle' <=> WorkersIdle
    BY <1>0, <2>1 DEF WorkersIdle, CtrlType, Threads
  <2>5. pc'[Main] # "alloc"
    BY <1>0, <2>1 DEF CtrlType
  <2>6. CleanUpEvent' => CleanUpEvent
    BY <1>1 DEF MainStep, Allocate, AllocateFails, WaitForRequestCompletion, CloseRequestHandle,
       CloseInMain, CleanUpRequestContext, eventVars
  <2>7. ClosingComesLast'
    <3>1. closes' \in Nat  BY TypeOthers, <1>1 DEF CtrlType
    <3>2. QED  BY <1>0, <2>2, <2>3, <2>4, <2>5, <2>6, <3>1 DEF ClosingComesLast, CtrlType
  <2>8. CASE AllocateFails \/ CleanUpRequestContext
    <3>1. pc'[Main] = "done" /\ pendingOp = "none" /\ WorkersIdle
      BY <1>0, <2>8 DEF AllocateFails, CleanUpRequestContext, SafeToFree, Go, ClosingComesLast,
         CtrlType
    <3>2. NoUseAfterFree'
      BY <2>2, <2>4, <3>1 DEF NoUseAfterFree, WorkersIdle
    <3>3. QED  BY <2>7, <3>2
  <2>9. CASE \/ Allocate \/ WaitForRequestCompletion \/ CloseRequestHandle \/ CloseInMain
    <3>1. freed' = freed /\ pc[Main] # "done"
      BY <2>9 DEF Allocate, WaitForRequestCompletion, CloseRequestHandle, CloseInMain, eventVars
    <3>2. NoUseAfterFree'
      BY <1>0, <3>1 DEF NoUseAfterFree
    <3>3. QED  BY <2>7, <3>2
  <2>10. QED  BY <1>1, <2>8, <2>9 DEF MainStep
<1>2. CASE Cancelled \/ HandleClosing
  BY <1>0, <1>2 DEF Cancelled, HandleClosing, threadVars, handleVars, eventVars, WorkersIdle,
     ClosingComesLast, NoUseAfterFree
<1>3. ASSUME NEW w \in Workers, RequestComplete(w)
      PROVE  ClosingComesLast' /\ NoUseAfterFree'
  <2>1. /\ pendingOp # "none" /\ UNCHANGED <<handleVars, eventVars>>
        /\ pc' = [pc EXCEPT ![w] = "loop"]
    BY <1>3 DEF RequestComplete, Go, GoWith
  <2>2. pc'[Main] = pc[Main]
    BY <1>0, <2>1 DEF CtrlType, Threads
  <2>3. ~closingSent /\ ~freed /\ pc[Main] # "alloc"
    BY <1>0, <2>1 DEF ClosingComesLast, NoUseAfterFree
  <2>4. QED
    BY <1>0, <2>1, <2>2, <2>3 DEF eventVars, ClosingComesLast, NoUseAfterFree
<1>4. CASE UNCHANGED vars
  BY <1>0, <1>4 DEF vars, threadVars, handleVars, eventVars, WorkersIdle, ClosingComesLast,
     NoUseAfterFree
<1>5. QED  BY <1>1, <1>2, <1>3, <1>4 DEF WinInet
-----------------------------------------------------------------------------
(* One driver. *)

(* No thread but t begins to drive, and either t does not drive afterwards, *)
(* or it drove before and no call became pending, or it has become a stray. *)
LEMMA DriverProcess ==
  ASSUME CtrlInv, NEW t \in Threads, ProcessRequest(t)
  PROVE  /\ \A u \in Threads \ {t} : Driving(u)' <=> Driving(u)
         /\ Driving(t)' => t \in strays' \/ (Driving(t) /\ pendingOp' = pendingOp)
         /\ pendingOp' # pendingOp => Driving(t)
<1>0. CtrlType
  BY DEF CtrlInv
<1>1. \A u \in Threads \ {t} : pc'[u] = pc[u] /\ err'[u] = err[u]
  <2>1. PICK p \in PCs : pc' = [pc EXCEPT ![t] = p]  BY <1>0, ProcessMoves
  <2>2. PICK e \in Errors : err' = [err EXCEPT ![t] = e]
    BY <1>0, ProcessMoves
  <2>3. QED  BY <1>0, <2>1, <2>2 DEF CtrlType
<1>2. \A u \in Threads \ {t} : Driving(u)' <=> Driving(u)
  BY <1>1 DEF Driving
<1> USE DEF Driving, Go, GoWith, CtrlType
<1>3. CASE Dispatch(t)  BY <1>0, <1>2, <1>3 DEF Dispatch, GoesOn
<1>4. CASE EndLoop(t)  BY <1>0, <1>2, <1>4 DEF EndLoop, Return
<1>5. CASE Signal(t)  BY <1>0, <1>2, <1>5 DEF Signal, Return
<1>6. CASE GetDataToPost(t)  BY <1>0, <1>2, <1>6 DEF GetDataToPost
<1>7. CASE PostDataToServer(t)  BY <1>0, <1>2, <1>7 DEF PostDataToServer
<1>8. CASE WriteResponseData(t)  BY <1>0, <1>2, <1>8 DEF WriteResponseData
<1>9. CASE AcquireRequestHandle(t)  BY <1>0, <1>2, <1>9 DEF AcquireRequestHandle
<1>10. CASE Call(t)  BY <1>0, <1>2, <1>10 DEF Call
<1>11. CASE ReleaseRequestHandle(t)
  BY <1>0, <1>2, <1>11 DEF ReleaseRequestHandle, AfterRelease
<1>12. CASE CloseInRelease(t)
  <2>1. pendingOp' = pendingOp /\ pc[t] = "close"
    BY <1>12 DEF CloseInRelease
  <2>2. CASE err[t] = "success"  BY <1>2, <2>1, <2>2
  <2>3. CASE err[t] # "success"
    <3>1. PICK e \in Errors : /\ err' = [err EXCEPT ![t] = e] /\ pc' = [pc EXCEPT ![t] = "loop"]
                             /\ strays' = IF e = "success" THEN strays \cup {t} ELSE strays
      BY <1>12, <2>3 DEF CloseInRelease
    <3>2. Driving(t)' => e = "success"  BY <1>0, <3>1
    <3>3. QED  BY <1>2, <2>1, <3>1, <3>2
  <2>4. QED  BY <2>2, <2>3
<1>13. QED
  BY <1>3, <1>4, <1>5, <1>6, <1>7, <1>8, <1>9, <1>10, <1>11, <1>12 DEF ProcessRequest

(* A thread becomes a stray where it closes the handle, and nowhere else:   *)
(* there is one at most, and it makes no call.                              *)
LEMMA StraysProcess ==
  ASSUME CtrlInv, NEW t \in Threads, ProcessRequest(t)
  PROVE  /\ strays \subseteq strays'
         /\ \A u, v \in strays' : closes' = 1 /\ u = v
         /\ strays' # {} /\ strays = {} => CloseInRelease(t)
<1>0. CtrlType /\ OneClose /\ SingleDriver
  BY DEF CtrlInv
<1>1. CASE CloseInRelease(t)
  <2>1. closes = 0  BY <1>0, <1>1 DEF CloseInRelease, OneClose
  <2>2. strays = {}  BY <1>0, <2>1 DEF SingleDriver
  <2>3. strays' \in {{}, {t}} /\ closes' = 1
    BY <1>1, <2>1, <2>2 DEF CloseInRelease
  <2>4. QED  BY <1>1, <2>2, <2>3
<1>2. CASE ~CloseInRelease(t)
  <2>1. strays' = strays  BY <1>0, <1>2, ProcessMoves
  <2>2. closes' = closes
    BY <1>2 DEF ProcessRequest, Dispatch, EndLoop, Signal, GetDataToPost, PostDataToServer,
       WriteResponseData, AcquireRequestHandle, Call, ReleaseRequestHandle, handleVars
  <2>3. QED  BY <1>0, <2>1, <2>2 DEF SingleDriver
<1>3. QED  BY <1>1, <1>2

LEMMA SingleProcess ==
  ASSUME CtrlInv, NEW t \in Threads, ProcessRequest(t)
  PROVE  SingleDriver'
<1>0. SingleDriver  BY DEF CtrlInv
<1>1. strays \subseteq strays' /\ \A u, v \in strays' : closes' = 1 /\ u = v
  BY StraysProcess
<1>2. \A u \in Threads \ strays' : Driving(u)' => u \in Threads \ strays /\ Driving(u)
  BY <1>1, DriverProcess
<1>3. \A u, v \in Threads \ strays' : Driving(u)' /\ Driving(v)' => u = v
  BY <1>0, <1>2 DEF SingleDriver
<1>4. ASSUME pendingOp' # "none", NEW u \in Threads \ strays', Driving(u)'  PROVE FALSE
  <2>1. Driving(u) /\ u \in Threads \ strays /\ pendingOp = "none"
    BY <1>0, <1>2, <1>4, DriverProcess DEF SingleDriver
  <2>2. Driving(t)  BY <1>4, <2>1, DriverProcess
  <2>3. CASE t \notin strays
    <3>1. u = t  BY <1>0, <2>1, <2>2, <2>3 DEF SingleDriver
    <3>2. QED  BY <1>4, <2>1, <3>1, DriverProcess
  <2>4. CASE t \in strays
    <3>1. closes = 1 /\ Users = {}
      BY <1>0, <2>4 DEF SingleDriver, CtrlInv, OneClose
    <3>2. ~Call(t)  BY <3>1 DEF Call, Users
    <3>3. pendingOp' = pendingOp
      BY <3>2 DEF ProcessRequest, Dispatch, EndLoop, Signal, GetDataToPost, PostDataToServer,
         WriteResponseData, AcquireRequestHandle, ReleaseRequestHandle, CloseInRelease
    <3>4. QED  BY <1>4, <2>1, <3>3
  <2>5. QED  BY <2>3, <2>4
<1>5. QED  BY <1>1, <1>3, <1>4 DEF SingleDriver

LEMMA SingleOthers ==
  ASSUME CtrlInv, MainStep \/ WinInet \/ UNCHANGED vars
  PROVE  SingleDriver'
<1>0. CtrlType /\ SingleDriver /\ ClosingComesLast /\ Main \in Threads /\ Main \notin Workers
  BY DEF CtrlInv, Threads
<1>1. CASE Allocate
  <2>1. /\ pc[Main] = "alloc" /\ pc' = [pc EXCEPT ![Main] = "loop"]
        /\ UNCHANGED <<err, pendingOp, strays, closes>>
    BY <1>1 DEF Allocate, Go, handleVars
  <2>2. pendingOp' = "none" /\ \A u \in Threads \ {Main} : pc'[u] = "idle"
    BY <1>0, <2>1 DEF ClosingComesLast, WorkersIdle, CtrlType, Threads
  <2>3. \A u \in Threads \ {Main} : ~Driving(u)'
    BY <2>2 DEF Driving
  <2>4. QED  BY <1>0, <2>1, <2>2, <2>3 DEF SingleDriver
<1>2. CASE \/ AllocateFails \/ WaitForRequestCompletion \/ CloseRequestHandle \/ CloseInMain
           \/ CleanUpRequestContext
  <2>1. /\ \E p \in {"done", "cleanup", "closeMain", "waitClosed"} : pc' = [pc EXCEPT ![Main] = p]
        /\ UNCHANGED <<err, pendingOp, strays>>
        /\ closes' = closes \/ CloseInMain
    BY <1>2 DEF AllocateFails, WaitForRequestCompletion, CloseRequestHandle, CloseInMain,
       CleanUpRequestContext, Go, handleVars
  <2>2. \A u \in Threads : Driving(u)' => Driving(u)
    BY <1>0, <2>1 DEF Driving, CtrlType
  <2>3. CloseInMain => strays = {}
    BY <1>0 DEF CloseInMain, SingleDriver, CtrlInv, OneClose
  <2>4. QED  BY <1>0, <2>1, <2>2, <2>3 DEF SingleDriver
<1>3. CASE Cancelled \/ HandleClosing \/ UNCHANGED vars
  <2>1. UNCHANGED <<pc, err, strays, closes>> /\ (pendingOp' = pendingOp \/ pendingOp' = "none")
    BY <1>3 DEF Cancelled, HandleClosing, vars, threadVars, handleVars
  <2>2. \A u \in Threads : Driving(u)' <=> Driving(u)
    BY <2>1 DEF Driving
  <2>3. QED  BY <1>0, <2>1, <2>2 DEF SingleDriver
<1>4. ASSUME NEW w \in Workers, RequestComplete(w)
      PROVE  SingleDriver'
  <2>1. /\ pendingOp # "none" /\ pendingOp' = "none" /\ w \in Threads
        /\ pc' = [pc EXCEPT ![w] = "loop"]
        /\ \E e \in {"success", "failed"} : err' = [err EXCEPT ![w] = e]
        /\ UNCHANGED <<strays, closes>>
    BY <1>4 DEF RequestComplete, Go, GoWith, Threads, handleVars
  <2>2. \A u \in Threads \ (strays \cup {w}) : ~Driving(u)'
    BY <1>0, <2>1 DEF SingleDriver, Driving, CtrlType
  <2>3. QED  BY <1>0, <2>1, <2>2 DEF SingleDriver
<1>5. QED  BY <1>1, <1>2, <1>3, <1>4 DEF MainStep, WinInet
-----------------------------------------------------------------------------
LEMMA CtrlStep == CtrlInv /\ [Next]_vars => CtrlInv'
<1> SUFFICES ASSUME CtrlInv, [Next]_vars PROVE CtrlInv'
  OBVIOUS
<1>1. ASSUME NEW t \in Threads, ProcessRequest(t)  PROVE CtrlInv'
  BY <1>1, TypeProcess, HandleProcess, EndProcess, SingleProcess DEF CtrlInv
<1>2. CASE MainStep \/ WinInet \/ UNCHANGED vars
  BY <1>2, TypeOthers, HandleOthers, EndOthers, SingleOthers DEF CtrlInv
<1>3. QED  BY <1>1, <1>2 DEF Next
-----------------------------------------------------------------------------
(* The data.  What is in the buffer and in the files depends on the handler *)
(* that comes next, and only the driver, or the pending call, knows it: as  *)
(* long as there is no stray.                                               *)

DataType ==
  /\ OutputBuffer \in Seq(Bytes) /\ file \in Seq(Bytes) /\ posted \in Seq(Bytes)
  /\ DownloadedBytes \in Nat /\ ReadBytes \in Nat
  /\ uploaded \in 0..UploadLen /\ fetched \in 0..RespLen

(* The first n bytes of the buffer go after those of a stream's prefix.     *)
Holds(kind, n, prefix) ==
  /\ Len(OutputBuffer) = n
  /\ \A k \in 1..n : OutputBuffer[k] = <<kind, Len(prefix) + k>>

(* What is known when the handler of s is, or is about to be, run.          *)
DataAt(s) ==
  CASE s = "POST_SEND_DATA" ->
         /\ Holds("req", ReadBytes, posted)
         /\ Len(posted) + ReadBytes = uploaded
         /\ ReadBytes = 0 => uploaded = UploadLen
         /\ Len(file) = fetched
    [] s = "POST_COMPLETE" -> Len(posted) = UploadLen /\ Len(file) = fetched
    [] s \in {"SEND_REQ_WITH_BODY", "POST_GET_DATA"} ->
         Len(posted) = uploaded /\ Len(file) = fetched
    [] s = "RESPONSE_WRITE_DATA" ->
         /\ Holds("resp", DownloadedBytes, file)
         /\ Len(file) + DownloadedBytes = fetched
         /\ DownloadedBytes = 0 => fetched = RespLen
    [] OTHER -> Len(file) = fetched

Stage(t) == IF pc[t] \in {"work", "acquire", "call"} THEN doing[t] ELSE State

InStep ==
  /\ \A t \in Threads : Driving(t) => DataAt(Stage(t))
  /\ pendingOp # "none" => DataAt(pendingOp)

(* The state has been moved on before the handler that is being run.        *)
MovedOn ==
  /\ \A t \in Threads : pc[t] \in {"work", "acquire", "call"} => State = Following(doing[t])
  /\ pendingOp # "none" => State = Following(pendingOp)

WrittenData ==
  /\ \A k \in 1..Len(file) : file[k] = <<"resp", k>>
  /\ \A k \in 1..Len(posted) : posted[k] = <<"req", k>>
  /\ Len(file) <= fetched

AllWritten == State = "COMPLETE" => Len(file) = RespLen

DataInv == DataType /\ InStep /\ MovedOn /\ WrittenData /\ AllWritten

LEMMA IsSequence ==
  ASSUME NEW S, NEW n \in Nat, NEW f \in [1..n -> S]
  PROVE  f \in Seq(S) /\ Len(f) = n
OBVIOUS

LEMMA AllOf ==
  ASSUME NEW S, NEW s \in Seq(S)
  PROVE  SubSeq(s, 1, Len(s)) = s
OBVIOUS

LEMMA Concatenation ==
  ASSUME NEW S, NEW s \in Seq(S), NEW u \in Seq(S)
  PROVE  /\ s \o u \in Seq(S)
         /\ Len(s \o u) = Len(s) + Len(u)
         /\ \A k \in 1..Len(s) : (s \o u)[k] = s[k]
         /\ \A k \in 1..Len(u) : (s \o u)[Len(s) + k] = u[k]
OBVIOUS

(* A stream of `kind' whose bytes are numbered stays so when the buffer's   *)
(* next bytes are appended to it.                                           *)
LEMMA Appended ==
  ASSUME NEW kind \in {"req", "resp"}, NEW s \in Seq(Bytes), NEW u \in Seq(Bytes),
         \A k \in 1..Len(s) : s[k] = <<kind, k>>,
         \A k \in 1..Len(u) : u[k] = <<kind, Len(s) + k>>
  PROVE  \A k \in 1..Len(s \o u) : (s \o u)[k] = <<kind, k>>
<1> SUFFICES ASSUME NEW k \in 1..Len(s \o u) PROVE (s \o u)[k] = <<kind, k>>
  OBVIOUS
<1>0. Len(s \o u) = Len(s) + Len(u)
  BY Concatenation
<1>1. CASE k <= Len(s)
  <2>1. k \in 1..Len(s)  BY <1>0, <1>1
  <2>2. (s \o u)[k] = s[k]  BY <2>1, Concatenation
  <2>3. QED  BY <2>1, <2>2
<1>2. CASE k > Len(s)
  <2>1. PICK j \in 1..Len(u) : k = Len(s) + j
    <3>1. k - Len(s) \in 1..Len(u) /\ k = Len(s) + (k - Len(s))
      BY <1>0, <1>2
    <3>2. QED  BY <3>1
  <2>2. (s \o u)[Len(s) + j] = u[j]  BY Concatenation
  <2>3. QED  BY <2>1, <2>2
<1>3. QED  BY <1>1, <1>2

LEMMA ByteType ==
  ASSUME NEW kind \in {"req", "resp"}, NEW m \in Nat
  PROVE  <<kind, m>> \in Bytes
BY DEF Bytes

(* A chunk of a stream is not longer than what is left of it, is its next   *)
(* bytes, and is empty only at the stream's end.                            *)
LEMMA ChunkFacts ==
  ASSUME NEW kind \in {"req", "resp"}, NEW len \in Nat, NEW at \in 0..len
  PROVE  /\ Chunk(kind, at, len) \in Seq(Bytes)
         /\ Len(Chunk(kind, at, len)) \in 0..(len - at)
         /\ Len(Chunk(kind, at, len)) = 0 => at = len
         /\ \A k \in 1..Len(Chunk(kind, at, len)) : Chunk(kind, at, len)[k] = <<kind, at + k>>
<1> DEFINE n == IF len - at < BUFFER_LEN THEN len - at ELSE BUFFER_LEN
<1>1. n \in 0..(len - at) /\ (n = 0 => at = len)
  <2>1. len - at \in Nat /\ BUFFER_LEN \in Nat \ {0}  OBVIOUS
  <2>2. CASE len - at < BUFFER_LEN  BY <2>1, <2>2
  <2>3. CASE ~(len - at < BUFFER_LEN)  BY <2>1, <2>3
  <2>4. QED  BY <2>2, <2>3
<1>2. Chunk(kind, at, len) = [k \in 1..n |-> <<kind, at + k>>]
  BY DEF Chunk
<1> HIDE DEF n
<1>3. [k \in 1..n |-> <<kind, at + k>>] \in [1..n -> Bytes]
  <2>1. \A k \in 1..n : at + k \in Nat  BY <1>1
  <2>2. ASSUME NEW k \in 1..n  PROVE <<kind, at + k>> \in Bytes
    <3>1. PICK m \in Nat : m = at + k  BY <2>1
    <3>2. <<kind, m>> \in Bytes  BY ByteType
    <3>3. QED  BY <3>1, <3>2
  <2>3. QED  BY <2>2
<1>4. Chunk(kind, at, len) \in Seq(Bytes) /\ Len(Chunk(kind, at, len)) = n
  <2>1. n \in Nat  BY <1>1
  <2>2. PICK f \in [1..n -> Bytes] : f = Chunk(kind, at, len)  BY <1>2, <1>3
  <2>3. f \in Seq(Bytes) /\ Len(f) = n  BY <2>1, IsSequence
  <2>4. QED  BY <2>2, <2>3
<1>5. QED  BY <1>1, <1>2, <1>4

(* A transfer leaves the data as the next handler needs it.                 *)
LEMMA TransferData ==
  ASSUME DataType, WrittenData, NEW op \in CallStates \cup {"POST_SEND_DATA"},
         DataAt(op), Transfer(op)
  PROVE  DataType' /\ WrittenData' /\ DataAt(Following(op))'
<1>1. CASE op = "RESPONSE_RECV_DATA"
  <2>1. /\ OutputBuffer' = Chunk("resp", fetched, RespLen)
        /\ DownloadedBytes' = Len(OutputBuffer')
        /\ fetched' = fetched + DownloadedBytes'
        /\ UNCHANGED <<ReadBytes, uploaded, file, posted>>
    BY <1>1 DEF Transfer
  <2>2. Len(file) = fetched
    BY <1>1 DEF DataAt
  <2>3. /\ OutputBuffer' \in Seq(Bytes)
        /\ DownloadedBytes' \in 0..(RespLen - fetched)
        /\ DownloadedBytes' = 0 => fetched = RespLen
        /\ \A k \in 1..Len(OutputBuffer') : OutputBuffer'[k] = <<"resp", fetched + k>>
    <3>1. fetched \in 0..RespLen /\ RespLen \in Nat  BY DEF DataType
    <3>2. QED  BY <2>1, <3>1, ChunkFacts
  <2>4. DataType' /\ WrittenData'
    BY <2>1, <2>2, <2>3 DEF DataType, WrittenData
  <2>5. Following(op) = "RESPONSE_WRITE_DATA"  BY <1>1 DEF Following
  <2>6. DataAt("RESPONSE_WRITE_DATA")'
    BY <2>1, <2>2, <2>3 DEF DataAt, Holds, DataType
  <2>7. QED  BY <2>4, <2>5, <2>6
<1>2. CASE op = "POST_SEND_DATA"
  <2>1. /\ posted' = posted \o SubSeq(OutputBuffer, 1, ReadBytes)
        /\ UNCHANGED <<OutputBuffer, DownloadedBytes, ReadBytes, uploaded, file, fetched>>
    BY <1>2 DEF Transfer
  <2>2. /\ Len(OutputBuffer) = ReadBytes
        /\ \A k \in 1..ReadBytes : OutputBuffer[k] = <<"req", Len(posted) + k>>
        /\ Len(posted) + ReadBytes = uploaded /\ Len(file) = fetched
    BY <1>2 DEF DataAt, Holds
  <2>3. posted' = posted \o OutputBuffer
    BY <2>1, <2>2, AllOf DEF DataType
  <2>4. posted' \in Seq(Bytes) /\ Len(posted') = uploaded
    BY <2>2, <2>3, Concatenation DEF DataType
  <2>5. \A k \in 1..Len(posted') : posted'[k] = <<"req", k>>
    BY <2>2, <2>3, Appended DEF DataType, WrittenData
  <2>6. DataType' /\ WrittenData'
    BY <2>1, <2>4, <2>5 DEF DataType, WrittenData
  <2>7. Following(op) = "POST_GET_DATA"  BY <1>2 DEF Following
  <2>8. DataAt("POST_GET_DATA")'
    BY <2>1, <2>2, <2>4 DEF DataAt
  <2>9. QED  BY <2>6, <2>7, <2>8
<1>3. CASE op \in {"SEND_REQ", "SEND_REQ_WITH_BODY", "POST_COMPLETE"}
  <2>1. UNCHANGED dataVars
    BY <1>3 DEF Transfer
  <2>2. DataType' /\ WrittenData'
    BY <2>1 DEF dataVars, DataType, WrittenData
  <2>3. CASE op = "SEND_REQ_WITH_BODY"
    <3>1. Following(op) = "POST_GET_DATA"  BY <2>3 DEF Following
    <3>2. DataAt("POST_GET_DATA")'  BY <2>1, <2>3 DEF DataAt, dataVars
    <3>3. QED  BY <2>2, <3>1, <3>2
  <2>4. CASE op \in {"SEND_REQ", "POST_COMPLETE"}
    <3>1. Following(op) = "RESPONSE_RECV_DATA"  BY <2>4 DEF Following
    <3>2. DataAt("RESPONSE_RECV_DATA")'  BY <2>1, <2>4 DEF DataAt, dataVars
    <3>3. QED  BY <2>2, <3>1, <3>2
  <2>5. QED  BY <1>3, <2>3, <2>4
<1>4. QED  BY <1>1, <1>2, <1>3 DEF CallStates

(* What the steps of the driver have in common: no other thread drives, and *)
(* none is at one of its places, before and after.                          *)
LEMMA Alone ==
  ASSUME CtrlInv, strays = {}, NEW t \in Threads, Driving(t), ProcessRequest(t)
  PROVE  /\ pendingOp = "none"
         /\ \A u \in Threads \ {t} : ~Driving(u) /\ ~Driving(u)'
         /\ \A u \in Threads \ {t} : pc'[u] \notin {"work", "acquire", "call"}
<1>1. pendingOp = "none" /\ \A u \in Threads \ {t} : ~Driving(u)
  BY DEF CtrlInv, SingleDriver
<1>2. \A u \in Threads \ {t} : ~Driving(u)'
  BY <1>1, DriverProcess
<1>3. QED  BY <1>1, <1>2 DEF Driving

LEMMA FollowingNotComplete ==
  ASSUME NEW s \in States \ {"COMPLETE"}
  PROVE  Following(s) # "COMPLETE"
BY DEF Following, States, CallStates, WorkStates

(* Steps that change neither the data nor the state.                        *)
LEMMA DataQuiet ==
  ASSUME CtrlInv, DataInv, UNCHANGED <<dataVars, State>>, pendingOp' \in {pendingOp, "none"},
         \A u \in Threads : Driving(u)' => Driving(u) /\ Stage(u)' = Stage(u),
         \A u \in Threads : pc'[u] \in {"work", "acquire", "call"} =>
            pc[u] \in {"work", "acquire", "call"} /\ doing'[u] = doing[u]
  PROVE  DataInv'
<1>1. \A s \in States : DataAt(s)' <=> DataAt(s)
  BY DEF DataAt, Holds, dataVars
<1>2. CtrlType /\ DataType /\ InStep /\ MovedOn /\ WrittenData /\ AllWritten
  BY DEF CtrlInv, DataInv
<1>3. DataType' /\ WrittenData' /\ AllWritten'
  BY <1>2 DEF dataVars, DataType, WrittenData, AllWritten
<1>4. MovedOn'
  BY <1>2 DEF MovedOn
<1>5. ASSUME NEW u \in Threads, Driving(u)'  PROVE DataAt(Stage(u))'
  <2>1. PICK s \in States : s = Stage(u)  BY <1>2 DEF Stage, CtrlType
  <2>2. DataAt(s)  BY <1>2, <1>5, <2>1 DEF InStep
  <2>3. DataAt(s)'  BY <1>1, <2>2
  <2>4. s = Stage(u)'  BY <1>5, <2>1
  <2>5. QED  BY <2>3, <2>4
<1>6. pendingOp' # "none" => DataAt(pendingOp)'
  <2>1. SUFFICES ASSUME pendingOp' # "none" PROVE DataAt(pendingOp)'
    OBVIOUS
  <2>2. pendingOp' = pendingOp /\ DataAt(pendingOp)  BY <1>2, <2>1 DEF InStep
  <2>3. PICK s \in States : s = pendingOp
    BY <1>2, <2>1, <2>2 DEF CtrlType, States, CallStates, WorkStates
  <2>4. DataAt(s)'  BY <1>1, <2>2, <2>3
  <2>5. s = pendingOp'  BY <2>2, <2>3
  <2>6. QED  BY <2>4, <2>5
<1>7. QED
  BY <1>3, <1>4, <1>5, <1>6 DEF DataInv, InStep

(* After a step of the driver, only its own place and the call that it left *)
(* pending have to be looked at.                                            *)
LEMMA DataOfDriver ==
  ASSUME NEW t \in Threads,
         \A u \in Threads \ {t} : ~Driving(u)' /\ pc'[u] \notin {"work", "acquire", "call"},
         DataType', WrittenData', AllWritten',
         Driving(t)' => DataAt(Stage(t))',
         pc'[t] \in {"work", "acquire", "call"} => State' = Following(doing'[t]),
         pendingOp' # "none" => DataAt(pendingOp)' /\ State' = Following(pendingOp')
  PROVE  DataInv'
<1>1. InStep'  BY DEF InStep
<1>2. MovedOn'  BY DEF MovedOn
<1>3. QED  BY <1>1, <1>2 DEF DataInv

LEMMA DataDispatch ==
  ASSUME CtrlInv, DataInv, strays = {}, NEW t \in Threads, Dispatch(t)
  PROVE  DataInv'
<1>1. CtrlType /\ DataType /\ InStep /\ WrittenData /\ AllWritten
  BY DEF CtrlInv, DataInv
<1>2. PICK s \in States : s = State
  BY <1>1 DEF CtrlType
<1>3. /\ pc[t] = "loop" /\ err[t] = "success" /\ s # "COMPLETE"
      /\ doing' = [doing EXCEPT ![t] = s] /\ State' = Following(s)
      /\ pc' = [pc EXCEPT ![t] = IF s \in CallStates THEN "acquire" ELSE "work"]
      /\ UNCHANGED <<err, dataVars, pendingOp>>
  BY <1>2 DEF Dispatch, GoesOn, Go
<1>4. Driving(t) /\ Stage(t) = s
  BY <1>2, <1>3 DEF Driving, Stage
<1>5. /\ pendingOp = "none"
      /\ \A u \in Threads \ {t} : ~Driving(u)' /\ pc'[u] \notin {"work", "acquire", "call"}
  BY <1>4, Alone DEF ProcessRequest
<1>6. DataAt(s)'
  <2>1. DataAt(s)  BY <1>1, <1>4 DEF InStep
  <2>2. QED  BY <1>3, <2>1 DEF DataAt, Holds, dataVars
<1>7. pc'[t] \in {"acquire", "work"} /\ doing'[t] = s
  BY <1>1, <1>3 DEF CtrlType
<1>8. DataAt(Stage(t))'
  BY <1>6, <1>7 DEF Stage
<1>9. DataType' /\ WrittenData'
  BY <1>1, <1>3 DEF dataVars, DataType, WrittenData
<1>10. AllWritten'
  BY <1>3, FollowingNotComplete DEF AllWritten
<1>11. QED
  BY <1>3, <1>5, <1>7, <1>8, <1>9, <1>10, DataOfDriver

(* The handlers that work on a file.                                        *)
LEMMA DataWork ==
  ASSUME CtrlInv, DataInv, strays = {}, NEW t \in Threads,
         GetDataToPost(t) \/ PostDataToServer(t) \/ WriteResponseData(t)
  PROVE  DataInv'
<1>1. CtrlType /\ DataType /\ InStep /\ MovedOn /\ WrittenData /\ AllWritten
  BY DEF CtrlInv, DataInv
<1>2. pc[t] = "work" /\ pendingOp' = pendingOp /\ doing' = doing
  BY DEF GetDataToPost, PostDataToServer, WriteResponseData
<1>3. Driving(t) /\ DataAt(doing[t]) /\ State = Following(doing[t])
  BY <1>1, <1>2 DEF Driving, Stage, InStep, MovedOn
<1>4. /\ pendingOp' = "none"
      /\ \A u \in Threads \ {t} : ~Driving(u)' /\ pc'[u] \notin {"work", "acquire", "call"}
  BY <1>2, <1>3, Alone DEF ProcessRequest
<1>5. CASE GetDataToPost(t)
  <2>1. /\ State = "POST_SEND_DATA" /\ State' = State
        /\ Len(posted) = uploaded /\ Len(file) = fetched
    BY <1>3, <1>5 DEF GetDataToPost, Following, DataAt
  <2>2. pc'[t] = "loop"
    BY <1>1, <1>5 DEF GetDataToPost, Go, GoWith, CtrlType
  <2>3. CASE err'[t] = "success"
    <3>1. /\ OutputBuffer' = Chunk("req", uploaded, UploadLen)
          /\ ReadBytes' = Len(OutputBuffer')
          /\ uploaded' = uploaded + ReadBytes'
          /\ UNCHANGED <<DownloadedBytes, file, fetched, posted>>
      BY <1>1, <1>5, <2>3 DEF GetDataToPost, GoWith, CtrlType
    <3>2. /\ OutputBuffer' \in Seq(Bytes)
          /\ ReadBytes' \in 0..(UploadLen - uploaded)
          /\ ReadBytes' = 0 => uploaded = UploadLen
          /\ \A k \in 1..Len(OutputBuffer') : OutputBuffer'[k] = <<"req", uploaded + k>>
      <4>1. uploaded \in 0..UploadLen /\ UploadLen \in Nat  BY <1>1 DEF DataType
      <4>2. QED  BY <3>1, <4>1, ChunkFacts
    <3>3. DataType' /\ WrittenData'
      BY <1>1, <3>1, <3>2 DEF DataType, WrittenData
    <3>4. DataAt("POST_SEND_DATA")'
      BY <1>1, <2>1, <3>1, <3>2 DEF DataAt, Holds, DataType
    <3>5. Stage(t)' = "POST_SEND_DATA"  BY <2>1, <2>2 DEF Stage
    <3>6. AllWritten'  BY <2>1 DEF AllWritten
    <3>7. QED  BY <1>4, <2>2, <3>3, <3>4, <3>5, <3>6, DataOfDriver
  <2>4. CASE err'[t] # "success"
    <3>1. UNCHANGED dataVars
      BY <1>1, <1>5, <2>4 DEF GetDataToPost, GoWith, CtrlType
    <3>2. DataType' /\ WrittenData' /\ AllWritten'
      BY <1>1, <2>1, <3>1 DEF dataVars, DataType, WrittenData, AllWritten
    <3>3. ~Driving(t)'  BY <2>2, <2>4 DEF Driving
    <3>4. QED  BY <1>4, <2>2, <3>2, <3>3, DataOfDriver
  <2>5. QED  BY <2>3, <2>4
<1>6. CASE PostDataToServer(t)
  <2>1. /\ doing[t] = "POST_SEND_DATA" /\ UNCHANGED dataVars
        /\ State = "POST_GET_DATA" /\ DataAt("POST_SEND_DATA")
    BY <1>3, <1>6 DEF PostDataToServer, Following
  <2>2. DataType' /\ WrittenData'
    BY <1>1, <2>1 DEF dataVars, DataType, WrittenData
  <2>3. CASE BodyDone
    <3>1. pc'[t] = "loop" /\ State' = "POST_COMPLETE"
      BY <1>1, <1>6, <2>3 DEF PostDataToServer, Go, GoWith, CtrlType
    <3>2. DataAt("POST_COMPLETE")'
      BY <1>1, <2>1, <2>3 DEF DataAt, BodyDone, dataVars, DataType
    <3>3. Stage(t)' = "POST_COMPLETE" /\ AllWritten'  BY <3>1 DEF Stage, AllWritten
    <3>4. QED  BY <1>4, <2>2, <3>1, <3>2, <3>3, DataOfDriver
  <2>4. CASE ~BodyDone
    <3>1. pc'[t] = "acquire" /\ State' = State
      BY <1>1, <1>6, <2>4 DEF PostDataToServer, Go, GoWith, CtrlType
    <3>2. DataAt("POST_SEND_DATA")'
      BY <2>1 DEF DataAt, Holds, dataVars
    <3>3. Stage(t)' = "POST_SEND_DATA" /\ AllWritten'
      BY <1>2, <2>1, <3>1 DEF Stage, AllWritten
    <3>4. State' = Following(doing'[t])  BY <1>2, <1>3, <3>1
    <3>5. QED  BY <1>4, <2>2, <3>2, <3>3, <3>4, DataOfDriver
  <2>5. QED  BY <2>3, <2>4
<1>7. CASE WriteResponseData(t)
  <2>1. /\ doing[t] = "RESPONSE_WRITE_DATA" /\ State = "RESPONSE_RECV_DATA"
        /\ Holds("resp", DownloadedBytes, file) /\ Len(file) + DownloadedBytes = fetched
        /\ DownloadedBytes = 0 => fetched = RespLen
    BY <1>3, <1>7 DEF WriteResponseData, Following, DataAt
  <2>2. pc'[t] = "loop"
    BY <1>1, <1>7 DEF WriteResponseData, Go, GoWith, CtrlType
  <2>3. CASE err'[t] = "success" /\ DownloadedBytes = 0
    <3>1. State' = "COMPLETE" /\ UNCHANGED dataVars
      BY <1>7, <2>3 DEF WriteResponseData
    <3>2. DataType' /\ WrittenData'
      BY <1>1, <3>1 DEF dataVars, DataType, WrittenData
    <3>3. DataAt("COMPLETE")' /\ AllWritten'
      BY <1>1, <2>1, <2>3, <3>1 DEF DataAt, dataVars, AllWritten, DataType
    <3>4. Stage(t)' = "COMPLETE"  BY <2>2, <3>1 DEF Stage
    <3>5. QED  BY <1>4, <2>2, <3>2, <3>3, <3>4, DataOfDriver
  <2>4. CASE err'[t] = "success" /\ DownloadedBytes # 0
    <3>1. /\ file' = file \o SubSeq(OutputBuffer, 1, DownloadedBytes)
          /\ UNCHANGED <<State, OutputBuffer, DownloadedBytes, ReadBytes, uploaded, fetched, posted>>
      BY <1>1, <1>7, <2>4 DEF WriteResponseData, GoWith, CtrlType
    <3>2. /\ Len(OutputBuffer) = DownloadedBytes
          /\ \A k \in 1..Len(OutputBuffer) : OutputBuffer[k] = <<"resp", Len(file) + k>>
      BY <2>1 DEF Holds
    <3>3. file' = file \o OutputBuffer
      BY <1>1, <3>1, <3>2, AllOf DEF DataType
    <3>4. file' \in Seq(Bytes) /\ Len(file') = fetched
      <4>1. file \in Seq(Bytes) /\ OutputBuffer \in Seq(Bytes)  BY <1>1 DEF DataType
      <4>2. file' \in Seq(Bytes) /\ Len(file') = Len(file) + Len(OutputBuffer)
        BY <3>3, <4>1, Concatenation
      <4>3. QED  BY <2>1, <3>2, <4>2
    <3>5. \A k \in 1..Len(file') : file'[k] = <<"resp", k>>
      BY <1>1, <3>2, <3>3, Appended DEF DataType, WrittenData
    <3>6. DataType' /\ WrittenData'
      <4>1. DataType'  BY <1>1, <3>1, <3>4 DEF DataType
      <4>2. Len(file') <= fetched'  BY <1>1, <3>1, <3>4 DEF DataType
      <4>3. QED  BY <1>1, <3>1, <3>5, <4>1, <4>2 DEF WrittenData
    <3>7. DataAt("RESPONSE_RECV_DATA")' /\ AllWritten'
      BY <2>1, <3>1, <3>4 DEF DataAt, AllWritten
    <3>8. Stage(t)' = "RESPONSE_RECV_DATA"  BY <2>1, <2>2, <3>1 DEF Stage
    <3>9. QED  BY <1>4, <2>2, <3>6, <3>7, <3>8, DataOfDriver
  <2>5. CASE err'[t] # "success"
    <3>1. UNCHANGED <<State, dataVars>>
      BY <1>1, <1>7, <2>5 DEF WriteResponseData, GoWith, CtrlType
    <3>2. DataType' /\ WrittenData' /\ AllWritten'
      BY <1>1, <3>1 DEF dataVars, DataType, WrittenData, AllWritten
    <3>3. ~Driving(t)'  BY <2>2, <2>5 DEF Driving
    <3>4. QED  BY <1>4, <2>2, <3>2, <3>3, DataOfDriver
  <2>6. QED  BY <2>3, <2>4, <2>5
<1>8. QED  BY <1>5, <1>6, <1>7

LEMMA DataCall ==
  ASSUME CtrlInv, DataInv, strays = {}, NEW t \in Threads, Call(t)
  PROVE  DataInv'
<1>1. CtrlType /\ Placed /\ DataType /\ InStep /\ MovedOn /\ WrittenData /\ AllWritten
  BY DEF CtrlInv, DataInv
<1>2. pc[t] = "call" /\ doing' = doing /\ State' = State
  BY DEF Call
<1>3. PICK op \in CallStates \cup {"POST_SEND_DATA"} : op = doing[t]
  BY <1>1, <1>2 DEF Placed
<1>4. Driving(t) /\ DataAt(op) /\ State = Following(op)
  BY <1>1, <1>2, <1>3 DEF Driving, Stage, InStep, MovedOn
<1>5. /\ pendingOp = "none"
      /\ \A u \in Threads \ {t} : ~Driving(u)' /\ pc'[u] \notin {"work", "acquire", "call"}
  BY <1>2, <1>4, Alone DEF ProcessRequest
<1>6. op \in States \ {"COMPLETE"} /\ op # "none"
  BY DEF States, CallStates, WorkStates
<1>7. AllWritten'
  BY <1>2, <1>4, <1>6, FollowingNotComplete DEF AllWritten
<1>8. pc'[t] = "release"
  BY <1>1 DEF Call, Go, GoWith, CtrlType
<1>9. CASE err'[t] = "success"
  <2>1. Transfer(op) /\ UNCHANGED pendingOp
    BY <1>1, <1>3, <1>9 DEF Call, GoWith, CtrlType
  <2>2. DataType' /\ WrittenData' /\ DataAt(Following(op))'
    BY <1>1, <1>4, <2>1, TransferData
  <2>3. Stage(t)' = Following(op)  BY <1>2, <1>4, <1>8 DEF Stage
  <2>4. DataAt(Stage(t))'  BY <2>2, <2>3
  <2>5. QED  BY <1>5, <1>7, <1>8, <2>1, <2>2, <2>4, DataOfDriver
<1>10. CASE err'[t] # "success"
  <2>1. UNCHANGED dataVars /\ pendingOp' \in {op, "none"}
    BY <1>1, <1>3, <1>5, <1>10 DEF Call, GoWith, CtrlType
  <2>2. DataType' /\ WrittenData'
    BY <1>1, <2>1 DEF dataVars, DataType, WrittenData
  <2>3. DataAt(op)'
    BY <1>4, <2>1 DEF DataAt, Holds, dataVars
  <2>4. pendingOp' # "none" => DataAt(pendingOp)' /\ State' = Following(pendingOp')
    BY <1>2, <1>4, <2>1, <2>3
  <2>5. ~Driving(t)'  BY <1>8, <1>10 DEF Driving
  <2>6. QED  BY <1>5, <1>7, <1>8, <2>2, <2>4, <2>5, DataOfDriver
<1>11. QED  BY <1>9, <1>10

LEMMA DataComplete ==
  ASSUME CtrlInv, DataInv, strays = {}, NEW w \in Workers, RequestComplete(w)
  PROVE  DataInv'
<1>1. /\ CtrlType /\ SingleDriver /\ DataType /\ InStep /\ MovedOn /\ WrittenData /\ AllWritten
      /\ w \in Threads
  BY DEF CtrlInv, DataInv, Threads
<1>2. pendingOp # "none" /\ pendingOp' = "none" /\ doing' = doing /\ State' = State
  BY DEF RequestComplete
<1>3. PICK op \in CallStates \cup {"POST_SEND_DATA"} : op = pendingOp
  BY <1>1, <1>2 DEF CtrlType
<1>4. DataAt(op) /\ State = Following(op)
  BY <1>1, <1>2, <1>3 DEF InStep, MovedOn
<1>5. \A u \in Threads \ {w} : pc'[u] = pc[u] /\ err'[u] = err[u]
  BY <1>1 DEF RequestComplete, Go, GoWith, CtrlType
<1>6. \A u \in Threads \ {w} : ~Driving(u)' /\ pc'[u] \notin {"work", "acquire", "call"}
  BY <1>1, <1>2, <1>5 DEF SingleDriver, Driving
<1>7. op \in States \ {"COMPLETE"}
  BY DEF States, CallStates, WorkStates
<1>8. AllWritten'
  BY <1>2, <1>4, <1>7, FollowingNotComplete DEF AllWritten
<1>9. pc'[w] = "loop"
  BY <1>1 DEF RequestComplete, Go, GoWith, CtrlType
<1>10. CASE err'[w] = "success"
  <2>1. Transfer(op)
    BY <1>1, <1>3, <1>10 DEF RequestComplete, GoWith, CtrlType
  <2>2. DataType' /\ WrittenData' /\ DataAt(Following(op))'
    BY <1>1, <1>4, <2>1, TransferData
  <2>3. Stage(w)' = Following(op)  BY <1>2, <1>4, <1>9 DEF Stage
  <2>4. DataAt(Stage(w))'  BY <2>2, <2>3
  <2>5. QED  BY <1>1, <1>2, <1>6, <1>8, <1>9, <2>2, <2>4, DataOfDriver
<1>11. CASE err'[w] # "success"
  <2>1. UNCHANGED dataVars
    BY <1>1, <1>11 DEF RequestComplete, GoWith, CtrlType
  <2>2. DataType' /\ WrittenData'
    BY <1>1, <2>1 DEF dataVars, DataType, WrittenData
  <2>3. ~Driving(w)'  BY <1>9, <1>11 DEF Driving
  <2>4. QED  BY <1>1, <1>2, <1>6, <1>8, <1>9, <2>2, <2>3, DataOfDriver
<1>12. QED  BY <1>10, <1>11

LEMMA DataRest ==
  ASSUME CtrlInv, DataInv, strays' = {},
         \/ \E t \in Threads : \/ EndLoop(t) \/ Signal(t) \/ AcquireRequestHandle(t)
                               \/ ReleaseRequestHandle(t) \/ CloseInRelease(t)
         \/ AllocateFails \/ WaitForRequestCompletion \/ CloseRequestHandle \/ CloseInMain
         \/ CleanUpRequestContext \/ Cancelled \/ HandleClosing \/ UNCHANGED vars
  PROVE  DataInv'
<1>1. CtrlType /\ Main \in Threads
  BY DEF CtrlInv, Threads
<1>2. ASSUME NEW t \in Threads,
             \/ EndLoop(t) \/ Signal(t) \/ AcquireRequestHandle(t)
             \/ ReleaseRequestHandle(t) \/ CloseInRelease(t)
      PROVE  DataInv'
  <2>1. UNCHANGED <<dataVars, State, pendingOp, doing>>
    BY <1>2 DEF EndLoop, Signal, AcquireRequestHandle, ReleaseRequestHandle, CloseInRelease
  <2>2. \A u \in Threads \ {t} : pc'[u] = pc[u] /\ err'[u] = err[u]
    <3>1. PICK p \in PCs : pc' = [pc EXCEPT ![t] = p]
      BY <1>1, <1>2, ProcessMoves DEF ProcessRequest
    <3>2. PICK e \in Errors : err' = [err EXCEPT ![t] = e]
      BY <1>1, <1>2, ProcessMoves DEF ProcessRequest
    <3>3. QED  BY <1>1, <3>1, <3>2 DEF CtrlType
  <2>3. /\ Driving(t)' => Driving(t) /\ Stage(t)' = Stage(t)
        /\ pc'[t] \in {"work", "acquire", "call"} => pc[t] \in {"work", "acquire", "call"}
    <3>1. CASE EndLoop(t) \/ Signal(t)
      <4>1. pc'[t] \in {"signal", "wait", "idle"}
        BY <1>1, <3>1 DEF EndLoop, Signal, Go, Return, CtrlType
      <4>2. QED  BY <4>1 DEF Driving
    <3>2. CASE AcquireRequestHandle(t)
      <4>1. \/ pc'[t] = "call"
            \/ pc'[t] = "loop" /\ err'[t] = "failed"
        BY <1>1, <3>2 DEF AcquireRequestHandle, Go, GoWith, CtrlType
      <4>2. pc[t] = "acquire"  BY <3>2 DEF AcquireRequestHandle
      <4>3. QED  BY <2>1, <4>1, <4>2 DEF Driving, Stage
    <3>3. CASE ReleaseRequestHandle(t) \/ CloseInRelease(t)
      <4>1. pc[t] \in {"release", "close"} /\ pc'[t] \in {"close", "loop"}
        BY <1>1, <3>3 DEF ReleaseRequestHandle, CloseInRelease, AfterRelease, Go, GoWith, CtrlType
      <4>2. err'[t] = "success" => err[t] = "success"
        BY <1>1, <3>3 DEF ReleaseRequestHandle, CloseInRelease, GoWith, CtrlType
      <4>3. QED  BY <2>1, <4>1, <4>2 DEF Driving, Stage
    <3>4. QED  BY <1>2, <3>1, <3>2, <3>3
  <2>4. \A u \in Threads : Driving(u)' => Driving(u) /\ Stage(u)' = Stage(u)
    BY <2>1, <2>2, <2>3 DEF Driving, Stage
  <2>5. \A u \in Threads : pc'[u] \in {"work", "acquire", "call"} =>
            pc[u] \in {"work", "acquire", "call"} /\ doing'[u] = doing[u]
    BY <2>1, <2>2, <2>3
  <2>6. QED  BY <2>1, <2>4, <2>5, DataQuiet
<1>3. CASE \/ AllocateFails \/ WaitForRequestCompletion \/ CloseRequestHandle \/ CloseInMain
           \/ CleanUpRequestContext
  <2>1. /\ UNCHANGED <<dataVars, State, pendingOp, doing, err>>
        /\ \E p \in {"done", "cleanup", "closeMain", "waitClosed"} : pc' = [pc EXCEPT ![Main] = p]
    BY <1>3 DEF AllocateFails, WaitForRequestCompletion, CloseRequestHandle, CloseInMain,
       CleanUpRequestContext, Go
  <2>2. /\ pc'[Main] \in {"done", "cleanup", "closeMain", "waitClosed"}
        /\ \A u \in Threads \ {Main} : pc'[u] = pc[u]
    BY <1>1, <2>1 DEF CtrlType
  <2>3. \A u \in Threads : Driving(u)' => Driving(u) /\ Stage(u)' = Stage(u)
    BY <2>1, <2>2 DEF Driving, Stage
  <2>4. QED  BY <2>1, <2>2, <2>3, DataQuiet
<1>4. CASE Cancelled \/ HandleClosing \/ UNCHANGED vars
  <2>1. UNCHANGED <<dataVars, State, pc, err, doing>> /\ pendingOp' \in {pendingOp, "none"}
    BY <1>4 DEF Cancelled, HandleClosing, vars, threadVars, dataVars
  <2>2. \A u \in Threads : Driving(u)' => Driving(u) /\ Stage(u)' = Stage(u)
    BY <2>1 DEF Driving, Stage
  <2>3. QED  BY <2>1, <2>2, DataQuiet
<1>5. QED  BY <1>2, <1>3, <1>4

(* The main thread starts to drive with nothing transferred yet.            *)
Untouched ==
  pc[Main] = "alloc" =>
    /\ State \in {"SEND_REQ", "SEND_REQ_WITH_BODY"}
    /\ fetched = 0 /\ uploaded = 0 /\ file = <<>> /\ posted = <<>>

LEMMA DataAllocate ==
  ASSUME CtrlInv, DataInv, Untouched, Allocate
  PROVE  DataInv'
<1>1. /\ CtrlType /\ DataType /\ WrittenData /\ AllWritten /\ ClosingComesLast
      /\ Main \in Threads /\ Main \notin Workers
  BY DEF CtrlInv, DataInv, Threads
<1>2. /\ pc[Main] = "alloc" /\ pc' = [pc EXCEPT ![Main] = "loop"]
      /\ UNCHANGED <<err, doing, dataVars, State, pendingOp>>
  BY DEF Allocate, Go
<1>3. pendingOp' = "none" /\ \A u \in Threads \ {Main} : pc'[u] = "idle"
  BY <1>1, <1>2 DEF ClosingComesLast, WorkersIdle, CtrlType, Threads
<1>4. \A u \in Threads \ {Main} : ~Driving(u)'
  BY <1>3 DEF Driving
<1>5. DataType' /\ WrittenData' /\ AllWritten'
  BY <1>1, <1>2 DEF dataVars, DataType, WrittenData, AllWritten
<1>6. pc'[Main] = "loop"
  BY <1>1, <1>2 DEF CtrlType
<1>7. Stage(Main)' = State
  BY <1>2, <1>6 DEF Stage
<1>8. DataAt(Stage(Main))'
  <2>1. PICK s \in {"SEND_REQ", "SEND_REQ_WITH_BODY"} : s = State
    BY <1>2 DEF Untouched
  <2>2. Len(posted) = 0 /\ Len(file) = 0 /\ fetched = 0 /\ uploaded = 0
    BY <1>2 DEF Untouched
  <2>3. DataAt(s)'
    BY <1>2, <2>2 DEF DataAt, dataVars
  <2>4. QED  BY <1>7, <2>1, <2>3
<1>9. QED
  BY <1>1, <1>3, <1>4, <1>5, <1>6, <1>8, DataOfDriver

LEMMA UntouchedStep ==
  ASSUME CtrlInv, Untouched, [Next]_vars
  PROVE  Untouched'
<1>1. CtrlType /\ ClosingComesLast /\ Main \in Threads /\ Main \notin Workers
  BY DEF CtrlInv, Threads
<1>2. SUFFICES ASSUME pc'[Main] = "alloc" PROVE Untouched'
  BY DEF Untouched
<1>3. CASE UNCHANGED vars
  BY <1>3 DEF vars, threadVars, dataVars, Untouched
<1>4. CASE MainStep
  BY <1>1, <1>2, <1>4 DEF MainStep, Allocate, AllocateFails, WaitForRequestCompletion,
     CloseRequestHandle, CloseInMain, CleanUpRequestContext, Go, CtrlType
<1>5. CASE Cancelled \/ HandleClosing
  BY <1>5 DEF Cancelled, HandleClosing, threadVars, dataVars, Untouched
<1>6. ASSUME NEW w \in Workers, RequestComplete(w)  PROVE FALSE
  <2>1. pc'[Main] = pc[Main] /\ pendingOp # "none"
    BY <1>1, <1>6 DEF RequestComplete, Go, GoWith, CtrlType, Threads
  <2>2. QED  BY <1>1, <1>2, <2>1 DEF ClosingComesLast
<1>7. ASSUME NEW t \in Threads, ProcessRequest(t)  PROVE FALSE
  BY <1>2, <1>7, NotBackToAlloc
<1>8. QED  BY <1>3, <1>4, <1>5, <1>6, <1>7 DEF Next, WinInet
-----------------------------------------------------------------------------
(* What holds of the data even with a stray, which may write to the file    *)
(* what is in the buffer, but transfers nothing.                            *)

Responding == {"RESPONSE_RECV_DATA", "RESPONSE_WRITE_DATA", "COMPLETE"}

(* There is as much in the buffer as DownloadedBytes says, because the file *)
(* to post is not read any more once a response is.                         *)
BufferHolds ==
  DownloadedBytes # 0 =>
    /\ DownloadedBytes <= Len(OutputBuffer)
    /\ State \in Responding
    /\ \A t \in Threads : pc[t] \in {"work", "acquire", "call"} => doing[t] \in Responding

PostedData == \A k \in 1..Len(posted) : posted[k] = <<"req", k>>

(* The inductive invariant. *)
IInv ==
  /\ CtrlInv
  /\ Untouched
  /\ DataType
  /\ BufferHolds
  /\ PostedData
  /\ strays = {} => DataInv

LEMMA StraysGrow ==
  ASSUME CtrlInv, [Next]_vars
  PROVE  strays \subseteq strays'
<1>1. CASE MainStep
  BY <1>1 DEF MainStep, Allocate, AllocateFails, WaitForRequestCompletion, CloseRequestHandle,
     CloseInMain, CleanUpRequestContext, handleVars
<1>2. CASE WinInet \/ UNCHANGED vars
  BY <1>2 DEF WinInet, Cancelled, HandleClosing, RequestComplete, vars, handleVars
<1>3. ASSUME NEW t \in Threads, ProcessRequest(t)  PROVE strays \subseteq strays'
  BY <1>3, StraysProcess
<1>4. QED  BY <1>1, <1>2, <1>3 DEF Next

LEMMA DataStep ==
  ASSUME IInv, [Next]_vars, strays' = {}
  PROVE  DataInv'
<1>1. CtrlInv /\ Untouched /\ strays = {} /\ DataInv
  BY StraysGrow DEF IInv
<1>2. ASSUME NEW t \in Threads, ProcessRequest(t)  PROVE DataInv'
  BY <1>1, <1>2, DataDispatch, DataWork, DataCall, DataRest DEF ProcessRequest
<1>3. CASE MainStep
  BY <1>1, <1>3, DataAllocate, DataRest DEF MainStep
<1>4. CASE WinInet \/ UNCHANGED vars
  BY <1>1, <1>4, DataComplete, DataRest DEF WinInet
<1>5. QED  BY <1>2, <1>3, <1>4 DEF Next

(* The handle is closed when there is a stray: no call transfers anything.  *)
LEMMA NoTransfer ==
  ASSUME CtrlInv, [Next]_vars, strays' # {}
  PROVE  UNCHANGED dataVars \/ \E t \in Threads : GetDataToPost(t) \/ WriteResponseData(t)
<1>1. OneClose /\ SingleDriver /\ CtrlType
  BY DEF CtrlInv
<1>2. ASSUME NEW t \in Threads, Call(t)  PROVE FALSE
  <2>1. t \in Users  BY <1>2 DEF Call, Users
  <2>2. strays = {}  BY <1>1, <2>1 DEF OneClose, SingleDriver
  <2>3. strays' = strays  BY <1>2 DEF Call, handleVars
  <2>4. QED  BY <2>2, <2>3
<1>3. ASSUME NEW w \in Workers, RequestComplete(w)  PROVE UNCHANGED dataVars
  <2>1. strays' = strays  BY <1>3 DEF RequestComplete, handleVars
  <2>2. closes = 1  BY <1>1, <2>1 DEF SingleDriver
  <2>3. QED  BY <1>3, <2>2 DEF RequestComplete
<1>4. CASE MainStep \/ Cancelled \/ HandleClosing \/ UNCHANGED vars
  BY <1>4 DEF MainStep, Allocate, AllocateFails, WaitForRequestCompletion, CloseRequestHandle,
     CloseInMain, CleanUpRequestContext, Cancelled, HandleClosing, vars
<1>5. ASSUME NEW t \in Threads, ProcessRequest(t), ~GetDataToPost(t), ~WriteResponseData(t)
      PROVE  UNCHANGED dataVars
  BY <1>2, <1>5 DEF ProcessRequest, Dispatch, EndLoop, Signal, PostDataToServer,
     AcquireRequestHandle, ReleaseRequestHandle, CloseInRelease
<1>6. QED  BY <1>3, <1>4, <1>5 DEF Next, WinInet

LEMMA SubSequence ==
  ASSUME NEW S, NEW s \in Seq(S), NEW n \in Nat, n <= Len(s)
  PROVE  SubSeq(s, 1, n) \in Seq(S)
OBVIOUS

LEMMA TypedStep ==
  ASSUME IInv, [Next]_vars
  PROVE  DataType' /\ PostedData'
<1>1. CtrlInv /\ DataType /\ BufferHolds /\ PostedData
  BY DEF IInv
<1>2. CASE strays' = {}
  BY <1>2, DataStep DEF DataInv, WrittenData, PostedData
<1>3. CASE UNCHANGED dataVars
  BY <1>1, <1>3 DEF dataVars, DataType, PostedData
<1>4. ASSUME NEW t \in Threads, GetDataToPost(t), ~UNCHANGED dataVars
      PROVE  DataType' /\ PostedData'
  <2>1. /\ OutputBuffer' = Chunk("req", uploaded, UploadLen)
        /\ ReadBytes' = Len(OutputBuffer')
        /\ uploaded' = uploaded + ReadBytes'
        /\ UNCHANGED <<DownloadedBytes, file, fetched, posted>>
    BY <1>4 DEF GetDataToPost
  <2>2. OutputBuffer' \in Seq(Bytes) /\ ReadBytes' \in 0..(UploadLen - uploaded)
    <3>1. uploaded \in 0..UploadLen /\ UploadLen \in Nat  BY <1>1 DEF DataType
    <3>2. QED  BY <2>1, <3>1, ChunkFacts
  <2>3. QED  BY <1>1, <2>1, <2>2 DEF DataType, PostedData
<1>5. ASSUME NEW t \in Threads, WriteResponseData(t), ~UNCHANGED dataVars
      PROVE  DataType' /\ PostedData'
  <2>1. /\ DownloadedBytes # 0 /\ file' = file \o SubSeq(OutputBuffer, 1, DownloadedBytes)
        /\ UNCHANGED <<OutputBuffer, DownloadedBytes, ReadBytes, uploaded, fetched, posted>>
    BY <1>5 DEF WriteResponseData
  <2>2. /\ OutputBuffer \in Seq(Bytes) /\ file \in Seq(Bytes)
        /\ DownloadedBytes \in Nat /\ DownloadedBytes <= Len(OutputBuffer)
    BY <1>1, <2>1 DEF DataType, BufferHolds
  <2>3. SubSeq(OutputBuffer, 1, DownloadedBytes) \in Seq(Bytes)
    BY <2>2, SubSequence
  <2>4. file' \in Seq(Bytes)
    BY <2>1, <2>2, <2>3, Concatenation
  <2>5. QED  BY <1>1, <2>1, <2>4 DEF DataType, PostedData
<1>6. QED  BY <1>1, <1>2, <1>3, <1>4, <1>5, NoTransfer

(* Steps that leave the buffer alone. *)
LEMMA BufferQuiet ==
  ASSUME BufferHolds, UNCHANGED <<OutputBuffer, DownloadedBytes>>,
         DownloadedBytes # 0 => State' \in Responding,
         DownloadedBytes # 0 =>
           \A u \in Threads : pc'[u] \in {"work", "acquire", "call"} =>
              \/ pc[u] \in {"work", "acquire", "call"} /\ doing'[u] = doing[u]
              \/ doing'[u] \in Responding
  PROVE  BufferHolds'
BY DEF BufferHolds

(* The response arrives while its reader, or its pending read, is alone.    *)
LEMMA BufferFilled ==
  ASSUME CtrlInv, DataType, BufferHolds, NEW op \in CallStates \cup {"POST_SEND_DATA"},
         DataAt(op), Transfer(op), State = Following(op), State' = State,
         \A u \in Threads : pc'[u] \notin {"work", "acquire", "call"}
  PROVE  BufferHolds'
<1>1. CASE op = "RESPONSE_RECV_DATA"
  <2>1. OutputBuffer' = Chunk("resp", fetched, RespLen) /\ DownloadedBytes' = Len(OutputBuffer')
    BY <1>1 DEF Transfer
  <2>2. Len(OutputBuffer') \in Nat
    <3>1. fetched \in 0..RespLen /\ RespLen \in Nat  BY DEF DataType
    <3>2. QED  BY <2>1, <3>1, ChunkFacts
  <2>3. State' \in Responding  BY <1>1 DEF Following, Responding
  <2>4. QED  BY <2>1, <2>2, <2>3 DEF BufferHolds
<1>2. CASE op # "RESPONSE_RECV_DATA"
  <2>1. UNCHANGED <<OutputBuffer, DownloadedBytes>>
    BY <1>2 DEF Transfer, dataVars
  <2>2. QED  BY <2>1 DEF BufferHolds
<1>3. QED  BY <1>1, <1>2

LEMMA BufferProcess ==
  ASSUME IInv, NEW t \in Threads, ProcessRequest(t)
  PROVE  BufferHolds'
<1>1. CtrlInv /\ CtrlType /\ Placed /\ DataType /\ BufferHolds /\ (strays = {} => DataInv)
  BY DEF IInv, CtrlInv
<1>2. \A u \in Threads \ {t} : pc'[u] = pc[u]
  <2>1. PICK p \in PCs : pc' = [pc EXCEPT ![t] = p]  BY <1>1, ProcessMoves
  <2>2. QED  BY <1>1, <2>1 DEF CtrlType
<1>3. CASE Dispatch(t)
  <2>1. /\ doing' = [doing EXCEPT ![t] = State] /\ State' = Following(State)
        /\ State # "COMPLETE" /\ UNCHANGED <<OutputBuffer, DownloadedBytes>>
    BY <1>3 DEF Dispatch, dataVars
  <2>2. doing'[t] = State /\ \A u \in Threads \ {t} : doing'[u] = doing[u]
    BY <1>1, <2>1 DEF CtrlType
  <2>3. State \in Responding => State' \in Responding
    BY <2>1 DEF Following, Responding
  <2>4. DownloadedBytes # 0 => State \in Responding
    BY <1>1 DEF BufferHolds
  <2>5. QED  BY <1>1, <1>2, <2>1, <2>2, <2>3, <2>4, BufferQuiet
<1>4. CASE GetDataToPost(t) \/ PostDataToServer(t)
  <2>1. doing[t] \in {"POST_GET_DATA", "POST_SEND_DATA"} /\ pc[t] = "work"
        /\ DownloadedBytes' = DownloadedBytes
    BY <1>4 DEF GetDataToPost, PostDataToServer, dataVars
  <2>2. DownloadedBytes = 0
    BY <1>1, <2>1 DEF BufferHolds, Responding
  <2>3. QED  BY <2>1, <2>2 DEF BufferHolds
<1>5. CASE WriteResponseData(t)
  <2>1. /\ UNCHANGED <<OutputBuffer, DownloadedBytes, doing>>
        /\ State' \in {State, "COMPLETE"} /\ pc[t] = "work"
    BY <1>5 DEF WriteResponseData, dataVars
  <2>2. DownloadedBytes # 0 => State' \in Responding
    BY <1>1, <2>1 DEF BufferHolds, Responding
  <2>3. QED  BY <1>1, <1>2, <2>1, <2>2, BufferQuiet
<1>6. CASE Call(t)
  <2>1. pc[t] = "call" /\ UNCHANGED <<State, doing>>
    BY <1>6 DEF Call
  <2>2. CASE UNCHANGED dataVars
    <3>1. UNCHANGED <<OutputBuffer, DownloadedBytes>>  BY <2>2 DEF dataVars
    <3>2. DownloadedBytes # 0 => State' \in Responding
      BY <1>1, <2>1 DEF BufferHolds
    <3>3. QED  BY <1>1, <1>2, <2>1, <3>1, <3>2, BufferQuiet
  <2>3. CASE Transfer(doing[t])
    <3>1. PICK op \in CallStates \cup {"POST_SEND_DATA"} : op = doing[t]
      BY <1>1, <2>1 DEF Placed
    <3>2. strays = {} /\ DataInv
      <4>1. t \in Users  BY <2>1 DEF Users
      <4>2. QED  BY <1>1, <4>1 DEF CtrlInv, OneClose, SingleDriver
    <3>3. Driving(t) /\ DataAt(op) /\ State = Following(op)
      BY <2>1, <3>1, <3>2 DEF Driving, Stage, DataInv, InStep, MovedOn
    <3>4. pc'[t] = "release"
      BY <1>1, <1>6 DEF Call, Go, GoWith, CtrlType
    <3>5. \A u \in Threads : pc'[u] \notin {"work", "acquire", "call"}
      BY <1>1, <3>2, <3>3, <3>4, Alone
    <3>6. QED  BY <1>1, <2>1, <2>3, <3>1, <3>3, <3>5, BufferFilled
  <2>4. QED  BY <1>6, <2>2, <2>3 DEF Call
<1>7. CASE \/ EndLoop(t) \/ Signal(t) \/ AcquireRequestHandle(t) \/ ReleaseRequestHandle(t)
           \/ CloseInRelease(t)
  <2>1. /\ UNCHANGED <<OutputBuffer, DownloadedBytes, State, doing>>
        /\ pc'[t] \in {"work", "acquire", "call"} => pc[t] = "acquire"
    BY <1>1, <1>7 DEF EndLoop, Signal, AcquireRequestHandle, ReleaseRequestHandle,
       CloseInRelease, dataVars, Go, GoWith, Return, AfterRelease, CtrlType
  <2>2. DownloadedBytes # 0 => State' \in Responding
    BY <1>1, <2>1 DEF BufferHolds
  <2>3. QED  BY <1>1, <1>2, <2>1, <2>2, BufferQuiet
<1>8. QED  BY <1>3, <1>4, <1>5, <1>6, <1>7 DEF ProcessRequest

LEMMA BufferOthers ==
  ASSUME IInv, MainStep \/ WinInet \/ UNCHANGED vars
  PROVE  BufferHolds'
<1>1. CtrlInv /\ CtrlType /\ DataType /\ BufferHolds /\ (strays = {} => DataInv)
      /\ Main \in Threads
  BY DEF IInv, CtrlInv, Threads
<1>2. DownloadedBytes # 0 => State \in Responding
  BY <1>1 DEF BufferHolds
<1>3. CASE MainStep
  <2>1. /\ UNCHANGED <<OutputBuffer, DownloadedBytes, State, doing>>
        /\ \E p \in PCs \ {"work", "acquire", "call"} : pc' = [pc EXCEPT ![Main] = p]
    BY <1>3 DEF MainStep, Allocate, AllocateFails, WaitForRequestCompletion,
       CloseRequestHandle, CloseInMain, CleanUpRequestContext, Go, PCs, dataVars
  <2>2. \A u \in Threads : pc'[u] \in {"work", "acquire", "call"} => pc'[u] = pc[u]
    BY <1>1, <2>1 DEF CtrlType
  <2>3. QED  BY <1>1, <1>2, <2>1, <2>2, BufferQuiet
<1>4. CASE Cancelled \/ HandleClosing \/ UNCHANGED vars
  <2>1. UNCHANGED <<OutputBuffer, DownloadedBytes, State, doing, pc>>
    BY <1>4 DEF Cancelled, HandleClosing, vars, threadVars, dataVars
  <2>2. QED  BY <1>1, <1>2, <2>1, BufferQuiet
<1>5. ASSUME NEW w \in Workers, RequestComplete(w)  PROVE BufferHolds'
  <2>1. /\ pc[w] = "idle" /\ pc' = [pc EXCEPT ![w] = "loop"] /\ w \in Threads
        /\ UNCHANGED <<State, doing>> /\ pendingOp # "none"
    BY <1>5 DEF RequestComplete, Go, GoWith, Threads
  <2>2. pc'[w] = "loop" /\ \A u \in Threads \ {w} : pc'[u] = pc[u]
    BY <1>1, <2>1 DEF CtrlType
  <2>3. CASE UNCHANGED dataVars
    <3>1. UNCHANGED <<OutputBuffer, DownloadedBytes>>  BY <2>3 DEF dataVars
    <3>2. QED  BY <1>1, <1>2, <2>1, <2>2, <3>1, BufferQuiet
  <2>4. CASE closes = 0 /\ Transfer(pendingOp)
    <3>1. PICK op \in CallStates \cup {"POST_SEND_DATA"} : op = pendingOp
      BY <1>1, <2>1 DEF CtrlType
    <3>2. strays = {} /\ DataInv
      BY <1>1, <2>4 DEF CtrlInv, SingleDriver
    <3>3. DataAt(op) /\ State = Following(op)
      BY <2>1, <3>1, <3>2 DEF DataInv, InStep, MovedOn
    <3>4. \A u \in Threads : pc'[u] \notin {"work", "acquire", "call"}
      BY <1>1, <2>1, <2>2, <3>2 DEF CtrlInv, SingleDriver, Driving
    <3>5. QED  BY <1>1, <2>1, <2>4, <3>1, <3>3, <3>4, BufferFilled
  <2>5. QED  BY <1>5, <2>3, <2>4 DEF RequestComplete
<1>6. QED  BY <1>3, <1>4, <1>5 DEF WinInet

LEMMA IInvInit == Init => IInv
<1> SUFFICES ASSUME Init PROVE IInv
  OBVIOUS
<1>1. CtrlInv
  BY CtrlInit
<1>2. DataType /\ WrittenData /\ AllWritten /\ Untouched /\ BufferHolds /\ PostedData
  BY DEF Init, DataType, WrittenData, AllWritten, Untouched, BufferHolds, PostedData
<1>3. (\A t \in Threads : ~Driving(t) /\ pc[t] \in {"alloc", "idle"}) /\ pendingOp = "none"
  BY DEF Init, Driving
<1>4. InStep /\ MovedOn
  BY <1>3 DEF InStep, MovedOn
<1>5. QED  BY <1>1, <1>2, <1>4 DEF IInv, DataInv

LEMMA IInvStep == IInv /\ [Next]_vars => IInv'
<1> SUFFICES ASSUME IInv, [Next]_vars PROVE IInv'
  OBVIOUS
<1>1. CtrlInv /\ Untouched
  BY DEF IInv
<1>2. CtrlInv'
  BY <1>1, CtrlStep
<1>3. Untouched'
  BY <1>1, UntouchedStep
<1>4. DataType' /\ PostedData'
  BY TypedStep
<1>5. BufferHolds'
  BY BufferProcess, BufferOthers DEF Next
<1>6. strays' = {} => DataInv'
  BY DataStep
<1>7. QED  BY <1>2, <1>3, <1>4, <1>5, <1>6 DEF IInv

LEMMA Invariant == Spec => []IInv
BY IInvInit, IInvStep, PTL DEF Spec

(* Every variable keeps its type (async.h 73-99). *)
THEOREM TypeCorrect == Spec => []TypeOK
<1>1. IInv => TypeOK
  <2>1. DataType => uploaded \in Nat /\ fetched \in Nat  BY DEF DataType
  <2>2. QED  BY <2>1 DEF IInv, CtrlInv, CtrlType, EventType, DataType, TypeOK
<1>2. QED  BY <1>1, Invariant, PTL

(* No WinInet call is made, or still running, once some thread may close    *)
(* the handle (async.cpp 894-899 and 974-979).                              *)
THEOREM ClosedUnused == Spec => []NoUseAfterClose
<1>1. IInv => NoUseAfterClose
  BY DEF IInv, CtrlInv, CtrlType, OneClose, NoUseAfterClose
<1>2. QED  BY <1>1, Invariant, PTL

(* The handle is closed once, by the main thread or by the last user, and   *)
(* after the closing was announced (lines 883-900 and 963-980).             *)
THEOREM ClosesOnce == Spec => []ClosedOnce
<1>1. IInv => ClosedOnce
  BY DEF IInv, CtrlInv, OneClose, ClosedOnce
<1>2. QED  BY <1>1, Invariant, PTL

(* The context outlives every thread that reads it (lines 1344-1351, 1399). *)
THEOREM FreedUnused == Spec => []NoUseAfterFree
<1>1. IInv => NoUseAfterFree
  BY DEF IInv, CtrlInv
<1>2. QED  BY <1>1, Invariant, PTL

(* The unlocked state and buffer have one driver at a time, but for the one *)
(* caller that may read a success left by the close it made itself (lines   *)
(* 306-378, 430-434).                                                       *)
THEOREM DriverIsSingle == Spec => []SingleDriver
<1>1. IInv => SingleDriver
  BY DEF IInv, CtrlInv
<1>2. QED  BY <1>1, Invariant, PTL

(* The download file is the response, byte for byte, unless that caller has *)
(* gone on with a read that is not done (lines 352-368, 750-754).           *)
THEOREM DownloadIsExact == Spec => []DownloadExact
<1>1. IInv => DownloadExact
  BY DEF IInv, DataInv, WrittenData, AllWritten, DownloadExact
<1>2. QED  BY <1>1, Invariant, PTL

(* The body that was posted is the upload file (lines 325-350).             *)
THEOREM UploadIsExact == Spec => []UploadExact
<1>1. IInv => UploadExact
  <2> SUFFICES ASSUME IInv PROVE UploadExact
    OBVIOUS
  <2>1. PostedData  BY DEF IInv
  <2>2. ASSUME NEW t \in Threads, pc[t] = "call", doing[t] = "POST_COMPLETE"
        PROVE  Len(posted) = UploadLen
    <3>1. t \in Users  BY <2>2 DEF Users
    <3>2. strays = {}  BY <3>1 DEF IInv, CtrlInv, OneClose, SingleDriver
    <3>3. InStep  BY <3>2 DEF IInv, DataInv
    <3>4. QED  BY <2>2, <3>3 DEF InStep, Driving, Stage, DataAt
  <2>3. QED  BY <2>1, <2>2 DEF PostedData, UploadExact
<1>2. QED  BY <1>1, Invariant, PTL
=============================================================================
