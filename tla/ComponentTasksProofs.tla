------------------------ MODULE ComponentTasksProofs ------------------------
(***************************************************************************)
(* Theorems about ComponentTasks, for any set of tasks, any mix of kinds   *)
(* and any bounds.                                                         *)
(***************************************************************************)
EXTENDS ComponentTasks, SequenceTheorems, FiniteSetTheorems, TLAPS

USE TasksAssumption, KindAssumption, FlagAssumption, BoundAssumption

-----------------------------------------------------------------------------
(* Type correctness. *)

(* The program counters, one by one: cheaper for the provers than the sets. *)
LEMMA PCMembers ==
    /\ "idle" \in PCs
    /\ "prepared" \in PCs
    /\ "preSuspended" \in PCs
    /\ "preResumed" \in PCs
    /\ "queued" \in PCs
    /\ "exited" \in PCs
    /\ "failedStart" \in PCs
    /\ "enterSuspended" \in PCs
    /\ "enterResumed" \in PCs
    /\ "entered" \in PCs
    /\ "lost" \in PCs
    /\ "failedReturn" \in PCs
    /\ "running" \in PCs
    /\ "parkedYield" \in PCs
    /\ "parkedWait" \in PCs
    /\ "unparked" \in PCs
    /\ "unparkedWait" \in PCs
    /\ "retExit" \in PCs
    /\ "retYield" \in PCs
    /\ "retWait" \in PCs
    /\ "drvYield" \in PCs
    /\ "drvWait" \in PCs
    /\ "drvResumed" \in PCs
    /\ "drvWoken" \in PCs
BY DEF PCs, Unqueued, InSlot, Entering, InWasm, Parked, Returned, InDriver

(* Dropping the latest task leaves a sequence of tasks. *)
LEMMA ClearCurrentTaskType ==
    ASSUME TypeOK, NEW t \in Tasks
    PROVE  ClearCurrentTask(t) \in Seq(Tasks)
<1>1. CASE GetCurrentTask = t
  <2>1. taskMetas # <<>>
    BY <1>1 DEF GetCurrentTask
  <2>2. taskMetas \in Seq(Tasks)
    BY DEF TypeOK
  <2>3. Len(taskMetas) \in Nat /\ Len(taskMetas) >= 1
    BY <2>1, <2>2, EmptySeq
  <2>4. \A i \in 1 .. Len(taskMetas) - 1 : taskMetas[i] \in Tasks
    BY <2>2, <2>3
  <2> QED
    BY <1>1, <2>2, <2>3, <2>4, SubSeqProperties DEF ClearCurrentTask
<1>2. CASE GetCurrentTask # t
  BY <1>2 DEF ClearCurrentTask, TypeOK
<1> QED
  BY <1>1, <1>2

(* The latest task is a task, or there is none. *)
LEMMA GetCurrentTaskType ==
    ASSUME TypeOK
    PROVE  GetCurrentTask \in TasksOrNone
<1>1. taskMetas \in Seq(Tasks)
  BY DEF TypeOK
<1> QED
  BY <1>1, EmptySeq DEF GetCurrentTask, TasksOrNone

(* The part of the type invariant an error path touches. *)
CallTyped ==
    /\ pc \in [Tasks -> PCs]
    /\ locked \in BOOLEAN
    /\ backpressure \in 0 .. BackpressureLimit - 1
    /\ backpressureWaiters \in Int
    /\ taskMetas \in Seq(Tasks)
    /\ currentTaskMeta \in TasksOrNone
    /\ resolved \in [Tasks -> BOOLEAN]
    /\ resolvedBy \in [Tasks -> TasksOrNone]
    /\ rejected \in [Tasks -> BOOLEAN]

(* exit() past its checks keeps the types it touches. *)
LEMMA ExitType ==
    ASSUME TypeOK, NEW t \in Tasks, Exit(t)
    PROVE  pc' \in [Tasks -> PCs] /\ locked' \in BOOLEAN /\ taskMetas' \in Seq(Tasks)
BY ClearCurrentTaskType DEF TypeOK, Exit, PCs

(* So does reject(). *)
LEMMA RejectType ==
    ASSUME TypeOK, NEW t \in Tasks, Reject(t)
    PROVE  /\ resolved' \in [Tasks -> BOOLEAN]
           /\ resolvedBy' \in [Tasks -> TasksOrNone]
           /\ rejected' \in [Tasks -> BOOLEAN]
BY DEF TypeOK, Reject

(* An error that leaves the wasm function keeps the types. *)
LEMMA CallFailsType ==
    ASSUME TypeOK, NEW t \in Tasks, CallFails(t)
    PROVE  CallTyped'
<1>1. CASE Reject(t) /\ Exit(t)
  BY <1>1, ExitType, RejectType DEF TypeOK, CallFails, CallTyped, TasksOrNone
<1>2. CASE Reject(t) /\ ExitThrows(t)
  BY <1>2, RejectType DEF TypeOK, CallFails, CallTyped, TasksOrNone, ExitThrows,
     PCs, InSlot
<1>3. CASE ExitThrows(t) /\ UNCHANGED resVars
  BY <1>3 DEF TypeOK, CallFails, CallTyped, TasksOrNone, ExitThrows, PCs, InSlot,
     resVars
<1> QED
  BY <1>1, <1>2, <1>3 DEF CallFails

(* suspendTask() keeps the types it touches. *)
LEMMA SuspendUnderType ==
    ASSUME TypeOK, NEW t \in Tasks, NEW id \in Tasks, SuspendUnder(id, t)
    PROVE  /\ suspendedTaskIDs' \in Seq(TasksOrNone)
           /\ suspendedTasks' \in [Tasks -> TasksOrNone]
           /\ tickLoop' \in BOOLEAN
BY DEF TypeOK, SuspendUnder, TasksOrNone

(* The first half of enter() keeps the types it touches. *)
LEMMA EnterQueueType ==
    ASSUME TypeOK, NEW t \in Tasks, EnterQueue(t)
    PROVE  /\ pc' \in [Tasks -> PCs]
           /\ nextTaskQueue' \in Seq(Tasks)
           /\ nextTaskPromise' \in TasksOrNone
           /\ awaits' \in [Tasks -> TasksOrNone]
           /\ completed' \in [Tasks -> BOOLEAN]
BY DEF TypeOK, EnterQueue, PCs

(* A built-in that blocks keeps the types it touches. *)
LEMMA BlockType ==
    ASSUME TypeOK, NEW t \in Tasks, NEW id \in Tasks, NEW ready,
           NEW parkedAt \in PCs, NEW direct \in PCs,
           Block(t, id, ready, parkedAt, direct)
    PROVE  /\ CallTyped'
           /\ suspendedTaskIDs' \in Seq(TasksOrNone)
           /\ suspendedTasks' \in [Tasks -> TasksOrNone]
           /\ tickLoop' \in BOOLEAN
<1>1. CASE CallFails(t) /\ UNCHANGED suspVars
  BY <1>1, CallFailsType DEF TypeOK, suspVars
<1>2. CASE SuspendUnder(id, t) /\ pc' = [pc EXCEPT ![t] = parkedAt]
           /\ UNCHANGED <<lockVars, metaVars, resVars>>
  BY <1>2, SuspendUnderType DEF TypeOK, CallTyped, lockVars, metaVars, resVars
<1>3. CASE pc' = [pc EXCEPT ![t] = direct]
           /\ UNCHANGED <<suspVars, lockVars, metaVars, resVars>>
  BY <1>3 DEF TypeOK, CallTyped, suspVars, lockVars, metaVars, resVars
<1> QED
  BY <1>1, <1>2, <1>3 DEF Block

(* Each action keeps the types. *)
LEMMA TypeStep ==
    ASSUME TypeOK, [Next]_vars
    PROVE  TypeOK'
<1> USE DEF TypeOK, slotVars, lockVars, suspVars, metaVars, resVars
<1>1. ASSUME NEW t \in Tasks, CallExport(t) PROVE TypeOK'
  BY <1>1, EnterQueueType DEF CallExport
<1>2. ASSUME NEW t \in Tasks, PrepareCall(t) PROVE TypeOK'
  BY <1>2, PCMembers DEF PrepareCall, TasksOrNone
<1>3. ASSUME NEW t \in Tasks, StartResumed(t) PROVE TypeOK'
  BY <1>3, EnterQueueType DEF StartResumed
<1>4. ASSUME NEW t \in Tasks, AwaitAgain(t) PROVE TypeOK'
  BY <1>4 DEF AwaitAgain
<1>5. ASSUME NEW t \in Tasks, EnterResumed(t) PROVE TypeOK'
  <2>1. locked' \in BOOLEAN
    BY <1>5 DEF EnterResumed, exclusiveLock
  <2>2. pc' \in [Tasks -> PCs] /\ backpressureWaiters' \in Int
    BY <1>5, PCMembers DEF EnterResumed, removeBackpressureWaiter
  <2> QED
    BY <1>5, <2>1, <2>2 DEF EnterResumed
<1>6. ASSUME NEW t \in Tasks, BeginCall(t) PROVE TypeOK'
  BY <1>6, PCMembers DEF BeginCall, SetCurrentTaskMeta, TasksOrNone
<1>7. ASSUME NEW t \in Tasks, SetBackpressure(t) PROVE TypeOK'
  BY <1>7 DEF SetBackpressure,
     BackpressureSteps, decrementBackpressure
<1>8. ASSUME NEW t \in Tasks, Trap(t) PROVE TypeOK'
  BY <1>8, CallFailsType DEF Trap,
     CallTyped
<1>9. ASSUME NEW t \in Tasks, MarkCompleted(t) PROVE TypeOK'
  BY <1>9 DEF MarkCompleted
<1>10. ASSUME NEW t \in Tasks, HostEvent(t) PROVE TypeOK'
  BY <1>10 DEF HostEvent
<1>11. ASSUME NEW t \in Tasks, ReturnCode(t) PROVE TypeOK'
  <2>1. pc' \in [Tasks -> PCs]
    BY <1>11, PCMembers DEF ReturnCode, AfterReturn
  <2>2. blocks' \in [Tasks -> 0 .. MaxBlocks]
    <3>1. CASE UNCHANGED blocks
      BY <3>1
    <3>2. CASE blocks[t] < MaxBlocks /\ blocks' = [blocks EXCEPT ![t] = @ + 1]
      BY <3>2
    <3> QED
      BY <1>11, <3>1, <3>2 DEF ReturnCode
  <2>3. currentTaskMeta' \in TasksOrNone
    BY <1>11 DEF ReturnCode, TasksOrNone
  <2> QED
    BY <1>11, <2>1, <2>2, <2>3 DEF ReturnCode
<1>12. ASSUME NEW t \in Tasks, AsyncStartCall(t) PROVE TypeOK'
  <2>1. CASE EnterQueue(t) /\ UNCHANGED suspVars
    BY <1>12, <2>1, EnterQueueType DEF AsyncStartCall
  <2>2. CASE SuspendUnder(t, t) /\ pc' = [pc EXCEPT ![t] = "preSuspended"]
             /\ UNCHANGED slotVars
    BY <1>12, <2>2, SuspendUnderType, PCMembers DEF AsyncStartCall
  <2>3. CASE pc' = [pc EXCEPT ![t] = "failedStart"]
             /\ UNCHANGED <<slotVars, suspVars>>
    BY <1>12, <2>3, PCMembers DEF AsyncStartCall
  <2> QED
    BY <1>12, <2>1, <2>2, <2>3 DEF AsyncStartCall
<1>13. ASSUME NEW t \in Tasks, TakeSlot(t) PROVE TypeOK'
  <2>1. pc' \in [Tasks -> PCs]
    BY <1>13, PCMembers DEF TakeSlot
  <2>2. locked' \in BOOLEAN
    BY <1>13 DEF TakeSlot, exclusiveLock
  <2>3. backpressureWaiters' \in Int /\ nextTaskPromise' \in TasksOrNone
    BY <1>13 DEF TakeSlot, TasksOrNone
  <2>4. /\ suspendedTaskIDs' \in Seq(TasksOrNone)
        /\ suspendedTasks' \in [Tasks -> TasksOrNone]
        /\ tickLoop' \in BOOLEAN
    BY <1>13, SuspendUnderType DEF TakeSlot
  <2> QED
    BY <1>13, <2>1, <2>2, <2>3, <2>4 DEF TakeSlot
<1>14. ASSUME NEW t \in Tasks, Unpark(t) PROVE TypeOK'
  <2>1. CASE CallFails(t)
    BY <1>14, <2>1, CallFailsType DEF Unpark, CallTyped
  <2>2. CASE UNCHANGED <<lockVars, metaVars, resVars>>
    <3>1. pc' \in [Tasks -> PCs] 
      BY <1>14, <2>2, PCMembers DEF Unpark, CallFails, ExitThrows, Exit
    <3>2. pendingEvent' \in [Tasks -> BOOLEAN]
      BY <1>14 DEF Unpark
    <3> QED
      BY <1>14, <2>2, <3>1, <3>2 DEF Unpark
  <2> QED
    BY <1>14, <2>1, <2>2 DEF Unpark
<1>15. ASSUME NEW t \in Tasks, DriverExit(t) PROVE TypeOK'
  <2>1. CASE Exit(t) /\ UNCHANGED resVars
    BY <1>15, <2>1, ExitType DEF DriverExit
  <2>2. CASE DriverFails(t) /\ UNCHANGED <<locked, taskMetas>>
    BY <1>15, <2>2, RejectType, PCMembers DEF DriverExit, DriverFails
  <2> QED
    BY <1>15, <2>1, <2>2 DEF DriverExit
<1>16. ASSUME NEW t \in Tasks, DriverBlock(t) PROVE TypeOK'
  <2>1. pc' \in [Tasks -> PCs] /\ locked' \in BOOLEAN
    <3>1. PICK q \in {"drvYield", "drvWait", "drvResumed", "drvWoken", "lost"} :
             pc' = [pc EXCEPT ![t] = q]
      BY <1>16 DEF DriverBlock, DriverFails
    <3>2. q \in PCs
      BY PCMembers
    <3> QED
      BY <1>16, <3>1, <3>2 DEF DriverBlock
  <2>2. /\ suspendedTaskIDs' \in Seq(TasksOrNone)
        /\ suspendedTasks' \in [Tasks -> TasksOrNone]
        /\ tickLoop' \in BOOLEAN
    BY <1>16, SuspendUnderType DEF DriverBlock
  <2>3. /\ resolved' \in [Tasks -> BOOLEAN]
        /\ resolvedBy' \in [Tasks -> TasksOrNone]
        /\ rejected' \in [Tasks -> BOOLEAN]
    BY <1>16, RejectType DEF DriverBlock, DriverFails
  <2> QED
    BY <1>16, <2>1, <2>2, <2>3 DEF DriverBlock
<1>17. ASSUME NEW t \in Tasks, DriverResume(t) PROVE TypeOK'
  <2>1. pc' \in [Tasks -> PCs] /\ phase' \in [Tasks -> {"callee", "callback"}]
    <3>1. PICK q \in {"running", "lost"} : pc' = [pc EXCEPT ![t] = q]
      BY <1>17 DEF DriverResume, DriverFails
    <3>2. q \in PCs
      BY PCMembers
    <3>3. UNCHANGED phase \/ phase' = [phase EXCEPT ![t] = "callback"]
      BY <1>17 DEF DriverResume
    <3> QED
      BY <3>1, <3>2, <3>3
  <2>2. locked' \in BOOLEAN
    BY <1>17 DEF DriverResume, exclusiveLock
  <2>3. /\ resolved' \in [Tasks -> BOOLEAN]
        /\ resolvedBy' \in [Tasks -> TasksOrNone]
        /\ rejected' \in [Tasks -> BOOLEAN]
    BY <1>17, RejectType DEF DriverResume, DriverFails
  <2>4. currentTaskMeta' \in TasksOrNone /\ pendingEvent' \in [Tasks -> BOOLEAN]
    BY <1>17 DEF DriverResume, SetCurrentTaskMeta, TasksOrNone
  <2> QED
    BY <1>17, <2>1, <2>2, <2>3, <2>4 DEF DriverResume
<1>18. ASSUME NEW t \in Tasks, TaskReturn(t) PROVE TypeOK'
  <2>1. CASE CallFails(t)
    BY <1>18, <2>1, CallFailsType DEF TaskReturn, CallTyped
  <2>2. CASE /\ TaskReturnTarget # NoTask
             /\ resolved' = [resolved EXCEPT ![TaskReturnTarget] = TRUE]
             /\ resolvedBy' = [resolvedBy EXCEPT ![TaskReturnTarget] = t]
             /\ UNCHANGED <<pc, rejected, lockVars, metaVars>>
    BY <1>18, <2>2 DEF TaskReturn, TaskReturnTarget, TasksOrNone
  <2> QED
    BY <1>18, <2>1, <2>2 DEF TaskReturn
<1>19. ASSUME NEW t \in Tasks, Yield(t) PROVE TypeOK'
  <2>1. CASE CallFails(t) /\ UNCHANGED suspVars
    BY <1>19, <2>1, CallFailsType DEF Yield, CallTyped
  <2>2. CASE /\ currentTaskMeta # NoTask
             /\ Block(t, currentTaskMeta, TRUE, "parkedYield", "unparked")
    <3>1. currentTaskMeta \in Tasks /\ "parkedYield" \in PCs /\ "unparked" \in PCs
      BY <2>2, PCMembers DEF TasksOrNone
    <3>2. /\ CallTyped'
          /\ suspendedTaskIDs' \in Seq(TasksOrNone)
          /\ suspendedTasks' \in [Tasks -> TasksOrNone]
          /\ tickLoop' \in BOOLEAN
      BY <2>2, <3>1, BlockType, Zenon
    <3>3. blocks' \in [Tasks -> 0 .. MaxBlocks]
      BY <1>19 DEF Yield
    <3> QED
      BY <1>19, <3>2, <3>3 DEF Yield, CallTyped
  <2> QED
    BY <1>19, <2>1, <2>2 DEF Yield
<1>20. ASSUME NEW t \in Tasks, WaitableSetWait(t) PROVE TypeOK'
  <2>1. CASE CallFails(t) /\ UNCHANGED suspVars
    BY <1>20, <2>1, CallFailsType DEF WaitableSetWait, CallTyped
  <2>2. CASE /\ GetCurrentTask # NoTask
             /\ Block(t, GetCurrentTask, pendingEvent[t], "parkedWait", "unparkedWait")
    <3>1. GetCurrentTask \in Tasks /\ "parkedWait" \in PCs /\ "unparkedWait" \in PCs
      BY <2>2, GetCurrentTaskType, PCMembers DEF TasksOrNone
    <3>2. /\ CallTyped'
          /\ suspendedTaskIDs' \in Seq(TasksOrNone)
          /\ suspendedTasks' \in [Tasks -> TasksOrNone]
          /\ tickLoop' \in BOOLEAN
      BY <2>2, <3>1, BlockType, Zenon
    <3>3. blocks' \in [Tasks -> 0 .. MaxBlocks]
      BY <1>20 DEF WaitableSetWait
    <3> QED
      BY <1>20, <3>2, <3>3 DEF WaitableSetWait, CallTyped
  <2> QED
    BY <1>20, <2>1, <2>2 DEF WaitableSetWait
<1>21. ASSUME NEW t \in Tasks, ReturnValue(t) PROVE TypeOK'
  <2>0. TypeOK /\ NoTask \in TasksOrNone /\ t \in TasksOrNone
    BY DEF TasksOrNone
  <2>1. /\ resolved' \in [Tasks -> BOOLEAN]
        /\ resolvedBy' \in [Tasks -> TasksOrNone]
    <3>1. CASE UNCHANGED <<resolved, resolvedBy>>
      BY <2>0, <3>1
    <3>2. CASE /\ resolved' = [resolved EXCEPT ![t] = TRUE]
               /\ resolvedBy' = [resolvedBy EXCEPT ![t] = IF resolved[t] THEN @ ELSE t]
      <4>1. resolvedBy[t] \in TasksOrNone
        BY <2>0
      <4> QED
        BY <2>0, <3>2, <4>1
    <3> QED
      BY <1>21, <3>1, <3>2 DEF ReturnValue
  <2>2. /\ currentTaskMeta' = NoTask
        /\ UNCHANGED <<phase, slotVars, backpressure, backpressureWaiters,
                       suspVars, pendingEvent, rejected, blocks>>
    BY <1>21 DEF ReturnValue
  <2>3. pc' \in [Tasks -> PCs] /\ locked' \in BOOLEAN /\ taskMetas' \in Seq(Tasks)
    <3>1. CASE Exit(t)
      BY <3>1, ExitType
    <3>2. CASE ExitThrows(t)
      BY <3>2, PCMembers DEF ExitThrows
    <3>3. CASE ReturnFails(t)
      BY <3>3, PCMembers DEF ReturnFails
    <3> QED
      BY <1>21, <3>1, <3>2, <3>3 DEF ReturnValue
  <2> QED
    BY <2>1, <2>2, <2>3 DEF TasksOrNone
<1>22. ASSUME Tick PROVE TypeOK'
  <2>1. \A p \in PCs : \A k \in BOOLEAN : Resumed(p, k) \in PCs
    BY PCMembers DEF Resumed
  <2>2. pc' \in [Tasks -> PCs]
    BY <1>22, <2>1 DEF Tick
  <2>3. suspendedTaskIDs' \in Seq(TasksOrNone)
    <3> DEFINE nulled == [i \in DOMAIN suspendedTaskIDs |->
                             IF i \in SweptAt THEN NoTask ELSE suspendedTaskIDs[i]]
    <3>1. nulled \in [1 .. Len(suspendedTaskIDs) -> TasksOrNone]
      BY DEF TasksOrNone
    <3>2. nulled \in Seq(TasksOrNone)
      BY <3>1, SeqDef
    <3> QED
      BY <1>22, <3>2 DEF Tick
  <2>4. tickLoop' \in BOOLEAN /\ suspendedTasks' \in [Tasks -> TasksOrNone]
    BY <1>22 DEF Tick, TasksOrNone
  <2> QED
    BY <1>22, <2>2, <2>3, <2>4 DEF Tick
<1>23. ASSUME CallSyncExport PROVE TypeOK'
  <2>1. backpressure' \in 0 .. BackpressureLimit - 1
    BY <1>23 DEF CallSyncExport, BackpressureSteps, decrementBackpressure
  <2>2. pendingEvent' \in [Tasks -> BOOLEAN]
    <3>1. CASE UNCHANGED pendingEvent
      BY <3>1
    <3>2. CASE \E t \in Tasks : pendingEvent' = [pendingEvent EXCEPT ![t] = FALSE]
      BY <3>2
    <3> QED
      BY <1>23, <3>1, <3>2 DEF CallSyncExport
  <2>3. locked' \in BOOLEAN /\ currentTaskMeta' \in TasksOrNone
    BY <1>23 DEF CallSyncExport, TasksOrNone
  <2> QED
    BY <1>23, <2>1, <2>2, <2>3 DEF CallSyncExport
<1>24. CASE UNCHANGED vars
  BY <1>24 DEF vars
<1> QED
  BY <1>1, <1>2, <1>3, <1>4, <1>5, <1>6, <1>7, <1>8, <1>9, <1>10, <1>11, <1>12, <1>13, <1>14, <1>15, <1>16, <1>17, <1>18, <1>19, <1>20, <1>21, <1>22, <1>23, <1>24
     DEF Next, Job, GuestStep, AllExited

(* Type correctness of the task runtime: in every reachable state the        *)
(* variables have their types; in particular backpressure stays in the range *)
(* incrementBackpressure() and decrementBackpressure() keep it in.           *)
THEOREM TypeCorrect == Spec => []TypeOK
<1>1. ASSUME Init PROVE TypeOK
  <2>1. pc \in [Tasks -> PCs] /\ phase \in [Tasks -> {"callee", "callback"}]
    BY <1>1, PCMembers DEF Init
  <2>2. nextTaskQueue \in Seq(Tasks) /\ suspendedTaskIDs \in Seq(TasksOrNone)
        /\ taskMetas \in Seq(Tasks)
    BY <1>1 DEF Init
  <2>3. backpressure \in 0 .. BackpressureLimit - 1 /\ backpressureWaiters \in Int
        /\ blocks \in [Tasks -> 0 .. MaxBlocks]
    BY <1>1 DEF Init
  <2>4. /\ nextTaskPromise \in TasksOrNone /\ currentTaskMeta \in TasksOrNone
        /\ awaits \in [Tasks -> TasksOrNone]
        /\ suspendedTasks \in [Tasks -> TasksOrNone]
        /\ resolvedBy \in [Tasks -> TasksOrNone]
    BY <1>1 DEF Init, TasksOrNone
  <2>5. /\ locked \in BOOLEAN /\ tickLoop \in BOOLEAN
        /\ completed \in [Tasks -> BOOLEAN] /\ pendingEvent \in [Tasks -> BOOLEAN]
        /\ resolved \in [Tasks -> BOOLEAN] /\ rejected \in [Tasks -> BOOLEAN]
    BY <1>1 DEF Init
  <2> QED
    BY <2>1, <2>2, <2>3, <2>4, <2>5 DEF TypeOK
<1> QED
  BY <1>1, TypeStep, PTL DEF Spec

-----------------------------------------------------------------------------
(* The execution slot.  Seen from the slot, a program counter is outside,     *)
(* queued, in the slot, or exited, and a step is one of five kinds.           *)

SameSide(p, q) ==
    /\ p \in Outside <=> q \in Outside
    /\ p \in InSlot <=> q \in InSlot
    /\ p = "queued" <=> q = "queued"
    /\ p = "exited" <=> q = "exited"

SlotUnchanged == nextTaskQueue' = nextTaskQueue /\ completed' = completed

Enqueues(t) ==
    /\ pc[t] \in Outside
    /\ pc' = [pc EXCEPT ![t] = "queued"]
    /\ nextTaskQueue' = Append(nextTaskQueue, t)
    /\ completed' = completed

Takes(t) ==
    /\ pc[t] = "queued" /\ IsNext(t)
    /\ \E q \in InSlot : pc' = [pc EXCEPT ![t] = q]
    /\ SlotUnchanged

Leaves(t) ==
    /\ pc[t] \in InSlot
    /\ pc' = [pc EXCEPT ![t] = "exited"]
    /\ SlotUnchanged

Marks(t) ==
    /\ pc[t] = "exited"
    /\ completed' = [completed EXCEPT ![t] = TRUE]
    /\ UNCHANGED <<pc, nextTaskQueue>>

StaysPut ==
    /\ pc' \in [Tasks -> PCs]
    /\ \A t \in Tasks : SameSide(pc[t], pc'[t])
    /\ SlotUnchanged

(* On which side each program counter is. *)
LEMMA Sides ==
    /\ "idle" \in Outside /\ "idle" \notin InSlot
    /\ "prepared" \in Outside /\ "prepared" \notin InSlot
    /\ "preSuspended" \in Outside /\ "preSuspended" \notin InSlot
    /\ "preResumed" \in Outside /\ "preResumed" \notin InSlot
    /\ "failedStart" \in Outside /\ "failedStart" \notin InSlot
    /\ "queued" \notin Outside /\ "queued" \notin InSlot
    /\ "exited" \notin Outside /\ "exited" \notin InSlot
    /\ "enterSuspended" \in InSlot /\ "enterSuspended" \notin Outside
    /\ "enterResumed" \in InSlot /\ "enterResumed" \notin Outside
    /\ "entered" \in InSlot /\ "entered" \notin Outside
    /\ "lost" \in InSlot /\ "lost" \notin Outside
    /\ "failedReturn" \in InSlot /\ "failedReturn" \notin Outside
    /\ "running" \in InSlot /\ "running" \notin Outside
    /\ "parkedYield" \in InSlot /\ "parkedYield" \notin Outside
    /\ "parkedWait" \in InSlot /\ "parkedWait" \notin Outside
    /\ "unparked" \in InSlot /\ "unparked" \notin Outside
    /\ "unparkedWait" \in InSlot /\ "unparkedWait" \notin Outside
    /\ "retExit" \in InSlot /\ "retExit" \notin Outside
    /\ "retYield" \in InSlot /\ "retYield" \notin Outside
    /\ "retWait" \in InSlot /\ "retWait" \notin Outside
    /\ "drvYield" \in InSlot /\ "drvYield" \notin Outside
    /\ "drvWait" \in InSlot /\ "drvWait" \notin Outside
    /\ "drvResumed" \in InSlot /\ "drvResumed" \notin Outside
    /\ "drvWoken" \in InSlot /\ "drvWoken" \notin Outside
BY DEF Outside, Unqueued, InSlot, Entering, InWasm, Parked, Returned, InDriver

(* Moving one task within its side is no step of the slot. *)
LEMMA MoveStays ==
    ASSUME TypeOK, NEW t \in Tasks, NEW q \in PCs, SameSide(pc[t], q),
           pc' = [pc EXCEPT ![t] = q], SlotUnchanged
    PROVE  StaysPut
BY DEF TypeOK, StaysPut, SameSide

(* A task that moves on inside the slot is no step of the slot. *)
LEMMA InSlotMoves ==
    ASSUME TypeOK, NEW t \in Tasks, pc[t] \in InSlot, NEW q \in InSlot,
           pc' = [pc EXCEPT ![t] = q], SlotUnchanged
    PROVE  StaysPut
<1>1. q \in PCs
  BY DEF PCs
<1>2. SameSide(pc[t], q)
  BY Sides DEF SameSide, Outside, Unqueued, InSlot, Entering, InWasm, Parked,
     Returned, InDriver
<1> QED
  BY <1>1, <1>2, MoveStays

(* An error that leaves wasm keeps the slot or leaves it. *)
LEMMA FailingStays ==
    ASSUME TypeOK, NEW t \in Tasks, pc[t] \in InSlot, CallFails(t), SlotUnchanged
    PROVE  Leaves(t) \/ StaysPut
<1>1. CASE pc' = [pc EXCEPT ![t] = "exited"]
  BY <1>1 DEF Leaves
<1>2. CASE pc' = [pc EXCEPT ![t] = "lost"]
  BY <1>2, InSlotMoves, Sides
<1> QED
  BY <1>1, <1>2 DEF CallFails, Exit, ExitThrows

(* So does a built-in that blocks. *)
LEMMA BlockingStays ==
    ASSUME TypeOK, NEW t \in Tasks, pc[t] \in InSlot, NEW id, NEW ready,
           NEW parkedAt \in InSlot, NEW direct \in InSlot,
           Block(t, id, ready, parkedAt, direct), SlotUnchanged
    PROVE  Leaves(t) \/ StaysPut
<1>1. CASE CallFails(t)
  BY <1>1, FailingStays
<1>2. CASE pc' = [pc EXCEPT ![t] = parkedAt]
  BY <1>2, InSlotMoves
<1>3. CASE pc' = [pc EXCEPT ![t] = direct]
  BY <1>3, InSlotMoves
<1> QED
  BY <1>1, <1>2, <1>3 DEF Block

SlotSees ==
    \/ \E t \in Tasks : Enqueues(t) \/ Takes(t) \/ Leaves(t) \/ Marks(t)
    \/ StaysPut

(* Every step of the runtime is one of the five kinds. *)
LEMMA SlotView ==
    ASSUME TypeOK, [Next]_vars
    PROVE  SlotSees
<1> USE DEF slotVars, SlotUnchanged
<1>0. ASSUME UNCHANGED pc, SlotUnchanged PROVE StaysPut
  BY <1>0 DEF TypeOK, StaysPut, SameSide
<1>1. ASSUME NEW t \in Tasks, CallExport(t) PROVE SlotSees
  BY <1>1, Sides DEF CallExport, EnterQueue, Enqueues, SlotSees
<1>2. ASSUME NEW t \in Tasks, PrepareCall(t) PROVE SlotSees
  <2>1. SameSide(pc[t], "prepared")
    BY <1>2, Sides DEF PrepareCall, SameSide
  <2> QED
    BY <1>2, <2>1, MoveStays, PCMembers DEF PrepareCall, SlotSees
<1>3. ASSUME NEW t \in Tasks, StartResumed(t) PROVE SlotSees
  BY <1>3, Sides DEF StartResumed, EnterQueue, Enqueues, SlotSees
<1>4. ASSUME NEW t \in Tasks, AwaitAgain(t) PROVE SlotSees
  BY <1>4, <1>0 DEF AwaitAgain, SlotSees
<1>5. ASSUME NEW t \in Tasks, EnterResumed(t) PROVE SlotSees
  BY <1>5, InSlotMoves, Sides DEF EnterResumed, SlotSees
<1>6. ASSUME NEW t \in Tasks, BeginCall(t) PROVE SlotSees
  BY <1>6, InSlotMoves, Sides DEF BeginCall, SlotSees
<1>7. ASSUME NEW t \in Tasks, SetBackpressure(t) PROVE SlotSees
  BY <1>7, <1>0 DEF SetBackpressure, SlotSees
<1>8. ASSUME NEW t \in Tasks, Trap(t) PROVE SlotSees
  BY <1>8, FailingStays, Sides DEF Trap, SlotSees
<1>9. ASSUME NEW t \in Tasks, MarkCompleted(t) PROVE SlotSees
  BY <1>9 DEF MarkCompleted, Marks, SlotSees
<1>10. ASSUME NEW t \in Tasks, HostEvent(t) PROVE SlotSees
  BY <1>10, <1>0 DEF HostEvent, SlotSees
<1>11. ASSUME NEW t \in Tasks, ReturnCode(t) PROVE SlotSees
  <2>1. PICK q \in {"retExit", "retYield", "retWait", "lost"} :
           pc' = [pc EXCEPT ![t] = q]
    BY <1>11 DEF ReturnCode, AfterReturn
  <2>2. q \in InSlot /\ pc[t] \in InSlot
    BY <1>11, <2>1, Sides DEF ReturnCode
  <2> QED
    BY <1>11, <2>1, <2>2, InSlotMoves DEF ReturnCode, SlotSees
<1>12. ASSUME NEW t \in Tasks, AsyncStartCall(t) PROVE SlotSees
  <2>1. CASE EnterQueue(t)
    BY <1>12, <2>1, Sides DEF AsyncStartCall, EnterQueue, Enqueues, SlotSees
  <2>2. CASE UNCHANGED slotVars /\ \E q \in {"preSuspended", "failedStart"} :
                pc' = [pc EXCEPT ![t] = q]
    <3>1. PICK q \in {"preSuspended", "failedStart"} : pc' = [pc EXCEPT ![t] = q]
      BY <2>2
    <3>2. SameSide(pc[t], q) /\ q \in PCs
      BY <1>12, Sides, PCMembers DEF AsyncStartCall, SameSide
    <3> QED
      BY <2>2, <3>1, <3>2, MoveStays DEF SlotSees
  <2> QED
    BY <1>12, <2>1, <2>2 DEF AsyncStartCall
<1>13. ASSUME NEW t \in Tasks, TakeSlot(t) PROVE SlotSees
  <2>1. PICK q \in {"entered", "enterSuspended", "lost"} : pc' = [pc EXCEPT ![t] = q]
    BY <1>13 DEF TakeSlot
  <2>2. q \in InSlot
    BY Sides
  <2> QED
    BY <1>13, <2>1, <2>2 DEF TakeSlot, Takes, SlotSees
<1>14. ASSUME NEW t \in Tasks, Unpark(t) PROVE SlotSees
  <2>1. pc[t] \in InSlot /\ SlotUnchanged
    BY <1>14, Sides DEF Unpark
  <2>2. CASE CallFails(t)
    BY <2>1, <2>2, FailingStays DEF SlotSees
  <2>3. CASE pc' = [pc EXCEPT ![t] = "running"]
    BY <2>1, <2>3, InSlotMoves, Sides DEF SlotSees
  <2> QED
    BY <1>14, <2>2, <2>3 DEF Unpark
<1>15. ASSUME NEW t \in Tasks, DriverExit(t) PROVE SlotSees
  <2>1. pc[t] \in InSlot /\ SlotUnchanged
    BY <1>15, Sides DEF DriverExit
  <2>2. CASE Exit(t)
    BY <2>1, <2>2 DEF Exit, Leaves, SlotSees
  <2>3. CASE DriverFails(t)
    BY <2>1, <2>3, InSlotMoves, Sides DEF DriverFails, SlotSees
  <2> QED
    BY <1>15, <2>2, <2>3 DEF DriverExit
<1>16. ASSUME NEW t \in Tasks, DriverBlock(t) PROVE SlotSees
  <2>1. PICK q \in {"drvYield", "drvWait", "drvResumed", "drvWoken", "lost"} :
           pc' = [pc EXCEPT ![t] = q]
    BY <1>16 DEF DriverBlock, DriverFails
  <2>2. q \in InSlot /\ pc[t] \in InSlot /\ SlotUnchanged
    BY <1>16, Sides DEF DriverBlock
  <2> QED
    BY <2>1, <2>2, InSlotMoves DEF SlotSees
<1>17. ASSUME NEW t \in Tasks, DriverResume(t) PROVE SlotSees
  <2>1. PICK q \in {"running", "lost"} : pc' = [pc EXCEPT ![t] = q]
    BY <1>17 DEF DriverResume, DriverFails
  <2>2. q \in InSlot /\ pc[t] \in InSlot /\ SlotUnchanged
    BY <1>17, Sides DEF DriverResume
  <2> QED
    BY <2>1, <2>2, InSlotMoves DEF SlotSees
<1>18. ASSUME NEW t \in Tasks, TaskReturn(t) PROVE SlotSees
  <2>1. pc[t] \in InSlot /\ SlotUnchanged
    BY <1>18, Sides DEF TaskReturn
  <2>2. CASE CallFails(t)
    BY <2>1, <2>2, FailingStays DEF SlotSees
  <2>3. CASE UNCHANGED pc
    BY <2>1, <2>3, <1>0 DEF SlotSees
  <2> QED
    BY <1>18, <2>2, <2>3 DEF TaskReturn
<1>19. ASSUME NEW t \in Tasks, Yield(t) PROVE SlotSees
  <2>1. pc[t] \in InSlot /\ SlotUnchanged
    BY <1>19, Sides DEF Yield
  <2>2. CASE CallFails(t)
    BY <2>1, <2>2, FailingStays DEF SlotSees
  <2>3. CASE Block(t, currentTaskMeta, TRUE, "parkedYield", "unparked")
    BY <2>1, <2>3, BlockingStays, Sides DEF SlotSees
  <2> QED
    BY <1>19, <2>2, <2>3 DEF Yield
<1>20. ASSUME NEW t \in Tasks, WaitableSetWait(t) PROVE SlotSees
  <2>1. pc[t] \in InSlot /\ SlotUnchanged
    BY <1>20, Sides DEF WaitableSetWait
  <2>2. CASE CallFails(t)
    BY <2>1, <2>2, FailingStays DEF SlotSees
  <2>3. CASE Block(t, GetCurrentTask, pendingEvent[t], "parkedWait", "unparkedWait")
    BY <2>1, <2>3, BlockingStays, Sides DEF SlotSees
  <2> QED
    BY <1>20, <2>2, <2>3 DEF WaitableSetWait
<1>21. ASSUME NEW t \in Tasks, ReturnValue(t) PROVE SlotSees
  <2>1. pc[t] \in InSlot /\ SlotUnchanged
    BY <1>21, Sides DEF ReturnValue
  <2>2. CASE Exit(t)
    BY <2>1, <2>2 DEF Exit, Leaves, SlotSees
  <2>3. CASE ExitThrows(t)
    BY <2>1, <2>3, InSlotMoves, Sides DEF ExitThrows, SlotSees
  <2>4. CASE ReturnFails(t)
    BY <2>1, <2>4, InSlotMoves, Sides DEF ReturnFails, SlotSees
  <2> QED
    BY <1>21, <2>2, <2>3, <2>4 DEF ReturnValue
<1>22. ASSUME Tick PROVE SlotSees
  <2>1. \A p \in PCs : \A k \in BOOLEAN : Resumed(p, k) \in PCs /\ SameSide(p, Resumed(p, k))
    BY PCMembers, Sides DEF Resumed, SameSide
  <2>2. \A p \in PCs : SameSide(p, p)
    BY DEF SameSide
  <2>3. StaysPut
    BY <1>22, <2>1, <2>2 DEF Tick, StaysPut, TypeOK
  <2> QED
    BY <2>3 DEF SlotSees
<1>23. ASSUME CallSyncExport PROVE SlotSees
  BY <1>23, <1>0 DEF CallSyncExport, SlotSees
<1>24. CASE UNCHANGED vars
  BY <1>24, <1>0 DEF vars, SlotSees
<1> QED
  BY <1>1, <1>2, <1>3, <1>4, <1>5, <1>6, <1>7, <1>8, <1>9, <1>10, <1>11, <1>12,
     <1>13, <1>14, <1>15, <1>16, <1>17, <1>18, <1>19, <1>20, <1>21, <1>22, <1>23,
     <1>24
     DEF Next, Job, GuestStep, AllExited

(* Each kind of step keeps the slot invariant. *)
LEMMA SlotStep ==
    ASSUME TypeOK, SlotInv, [Next]_vars
    PROVE  SlotInv'
<1> USE DEF SlotInv, SlotsInOrder
<1>0. /\ nextTaskQueue \in Seq(Tasks)
      /\ pc \in [Tasks -> PCs]
      /\ completed \in [Tasks -> BOOLEAN]
      /\ \A i \in DOMAIN nextTaskQueue : nextTaskQueue[i] \in Tasks
  BY DEF TypeOK
<1>1. ASSUME NEW t \in Tasks, Enqueues(t) PROVE SlotInv'
  <2> DEFINE n == Len(nextTaskQueue)
  <2>1. /\ DOMAIN nextTaskQueue = 1 .. n /\ n \in Nat
        /\ DOMAIN nextTaskQueue' = 1 .. n + 1
        /\ nextTaskQueue'[n + 1] = t
        /\ \A i \in 1 .. n : nextTaskQueue'[i] = nextTaskQueue[i]
    BY <1>0, <1>1 DEF Enqueues
  <2>2. \A i \in 1 .. n : nextTaskQueue[i] # t
    BY <1>1, <2>1 DEF Enqueues
  <2>3. /\ pc'[t] = "queued" /\ pc'[t] \notin Outside
        /\ \A u \in Tasks : u # t => pc'[u] = pc[u]
        /\ completed' = completed
    BY <1>0, <1>1, Sides DEF Enqueues
  <2>4. ~completed[t]
    BY <1>1, Sides DEF Enqueues
  <2> HIDE DEF n
  <2>5. \A i, j \in DOMAIN nextTaskQueue' : nextTaskQueue'[i] = nextTaskQueue'[j] => i = j
    BY <2>1, <2>2
  <2>6. \A u \in Tasks : pc'[u] \in Outside <=>
           \A i \in DOMAIN nextTaskQueue' : nextTaskQueue'[i] # u
    <3>1. n + 1 \in DOMAIN nextTaskQueue'
      BY <2>1
    <3>2. 1 .. n \subseteq 1 .. n + 1 /\ \A i \in 1 .. n + 1 : i \in 1 .. n \/ i = n + 1
      BY <2>1
    <3> QED
      BY <2>1, <2>2, <2>3, <3>1, <3>2
  <2>7. \A u \in Tasks : completed'[u] => pc'[u] = "exited"
    BY <2>3, <2>4
  <2>8. SlotsInOrder'
    BY <1>0, <2>1, <2>2, <2>3
  <2> QED
    BY <2>5, <2>6, <2>7, <2>8
<1>2. ASSUME NEW t \in Tasks, Takes(t) PROVE SlotInv'
  <2>1. PICK q \in InSlot : pc' = [pc EXCEPT ![t] = q]
    BY <1>2 DEF Takes
  <2>2. /\ pc[t] = "queued" /\ pc[t] \notin Outside /\ q \notin Outside
        /\ UNCHANGED <<nextTaskQueue, completed>>
    BY <1>2, Sides DEF Takes, SlotUnchanged, Outside, Unqueued, InSlot, Entering,
       InWasm, Parked, Returned, InDriver
  <2>3. PICK k \in DOMAIN nextTaskQueue :
           nextTaskQueue[k] = t /\ \A j \in 1 .. k - 1 : completed[nextTaskQueue[j]]
    BY <1>2 DEF Takes, IsNext
  <2>4. ~completed[t]
    BY <2>2
  <2>5. SlotsInOrder'
    BY <1>0, <2>1, <2>2, <2>3
  <2> QED
    BY <1>0, <2>1, <2>2, <2>4, <2>5
<1>3. ASSUME NEW t \in Tasks, Leaves(t) PROVE SlotInv'
  <2>1. /\ pc[t] # "queued" /\ pc[t] \notin Outside /\ "exited" \notin Outside
    BY <1>3, Sides DEF Leaves, Outside, Unqueued, InSlot, Entering,
       InWasm, Parked, Returned, InDriver
  <2> QED
    BY <1>0, <1>3, <2>1 DEF Leaves, SlotUnchanged
<1>4. ASSUME NEW t \in Tasks, Marks(t) PROVE SlotInv'
  BY <1>0, <1>4 DEF Marks
<1>5. ASSUME StaysPut PROVE SlotInv'
  BY <1>0, <1>5 DEF StaysPut, SameSide, SlotUnchanged
<1> QED
  BY <1>1, <1>2, <1>3, <1>4, <1>5, SlotView DEF SlotSees

(* The slot invariant makes the holder of the slot unique. *)
LEMMA SlotExclusive ==
    ASSUME TypeOK, SlotInv
    PROVE  OneTaskInSlot
<1> SUFFICES ASSUME NEW t \in Tasks, NEW u \in Tasks,
                    pc[t] \in InSlot, pc[u] \in InSlot
             PROVE  t = u
  BY DEF OneTaskInSlot
<1>1. /\ pc[t] \notin Outside /\ pc[t] # "queued" /\ pc[t] # "exited"
      /\ pc[u] \notin Outside /\ pc[u] # "queued" /\ pc[u] # "exited"
  BY DEF Outside, Unqueued, InSlot, Entering, InWasm, Parked, Returned, InDriver
<1>2. PICK i \in DOMAIN nextTaskQueue : nextTaskQueue[i] = t
  BY <1>1 DEF SlotInv
<1>3. PICK j \in DOMAIN nextTaskQueue : nextTaskQueue[j] = u
  BY <1>1 DEF SlotInv
<1>4. ~completed[t] /\ ~completed[u]
  BY <1>1 DEF SlotInv
<1>5. ~(i < j) /\ ~(j < i)
  BY <1>1, <1>2, <1>3, <1>4 DEF SlotInv, SlotsInOrder
<1>6. i \in Nat /\ j \in Nat
  BY DEF TypeOK
<1> QED
  BY <1>2, <1>3, <1>5, <1>6

(* The slot invariant holds in every reachable state. *)
LEMMA SlotInvariant == Spec => []SlotInv
<1>1. Init => SlotInv
  BY Sides DEF Init, SlotInv, SlotsInOrder
<1>2. TypeOK /\ SlotInv /\ [Next]_vars => SlotInv'
  BY SlotStep
<1> QED
  BY <1>1, <1>2, TypeCorrect, PTL DEF Spec

(* Two async tasks of an instance are never both past                         *)
(* nextTaskExecutionSlot() and not out of exit(), for any number of tasks,    *)
(* whatever errors, waits and synchronous calls happen.                       *)
THEOREM MutualExclusion == Spec => []OneTaskInSlot
<1>1. TypeOK /\ SlotInv => OneTaskInSlot
  BY SlotExclusive
<1> QED
  BY <1>1, TypeCorrect, SlotInvariant, PTL

(* nextTaskExecutionSlot() serves in the order enter() was called.            *)
THEOREM ServedInOrder == Spec => []SlotsInOrder
<1>1. SlotInv => SlotsInOrder
  BY DEF SlotInv
<1> QED
  BY <1>1, SlotInvariant, PTL

-----------------------------------------------------------------------------
(* The exclusive lock. *)

Locking == {"entered"} \cup InWasm \cup Returned

(* On which side of the lock each program counter is. *)
LEMMA LockSides ==
    /\ Locking \subseteq InSlot
    /\ "entered" \in Locking /\ "running" \in Locking
    /\ "unparked" \in Locking /\ "unparkedWait" \in Locking
    /\ "retExit" \in Locking /\ "retYield" \in Locking /\ "retWait" \in Locking
    /\ \A q \in {"queued", "exited", "lost", "failedReturn", "prepared", "preSuspended", "failedStart",
                 "enterSuspended", "drvYield", "drvWait", "drvResumed", "drvWoken"} :
          q \notin Locking
BY DEF Locking, InSlot, InWasm, Parked, Returned, Entering, InDriver

(* The holder of the slot may drop the lock when it stops running wasm.       *)
LEMMA HolderMayUnlock ==
    ASSUME TypeOK, OneTaskInSlot, NEW t \in Tasks, pc[t] \in InSlot,
           NEW q, q \notin Locking, pc' = [pc EXCEPT ![t] = q]
    PROVE  LockHeldInWasm'
<1>1. \A u \in Tasks : u # t => pc[u] \notin InSlot
  BY DEF OneTaskInSlot
<1>2. \A u \in Tasks : pc'[u] \notin Locking
  BY <1>1, LockSides DEF TypeOK
<1> QED
  BY <1>2 DEF LockHeldInWasm, Locking

(* A step that leaves the lock alone may move tasks within Locking. *)
LEMMA LockKept ==
    ASSUME TypeOK, LockHeldInWasm, NEW t \in Tasks, NEW q,
           q \in Locking => pc[t] \in Locking,
           pc' = [pc EXCEPT ![t] = q], UNCHANGED locked
    PROVE  LockHeldInWasm'
BY DEF TypeOK, LockHeldInWasm, Locking

(* A step that takes the lock may let any task run. *)
LEMMA LockTaken ==
    ASSUME TypeOK, LockHeldInWasm, NEW t \in Tasks, NEW q,
           pc' = [pc EXCEPT ![t] = q],
           locked' = IF needsExclusiveLock(t) THEN TRUE ELSE locked
    PROVE  LockHeldInWasm'
BY DEF TypeOK, LockHeldInWasm, Locking

(* An error that leaves wasm. *)
LEMMA FailingUnlocks ==
    ASSUME TypeOK, OneTaskInSlot, NEW t \in Tasks, pc[t] \in InSlot, CallFails(t)
    PROVE  LockHeldInWasm'
<1>1. PICK q \in {"exited", "lost"} : pc' = [pc EXCEPT ![t] = q]
  BY DEF CallFails, Exit, ExitThrows
<1>2. q \notin Locking
  BY LockSides
<1> QED
  BY <1>1, <1>2, HolderMayUnlock

(* Each action keeps the lock where it is needed. *)
LEMMA LockStep ==
    ASSUME TypeOK, OneTaskInSlot, LockHeldInWasm, SyncExports = FALSE, [Next]_vars
    PROVE  LockHeldInWasm'
<1> USE DEF lockVars
<1>0. ASSUME UNCHANGED <<pc, locked>> PROVE LockHeldInWasm'
  BY <1>0 DEF LockHeldInWasm
<1>1. ASSUME NEW t \in Tasks, CallExport(t) PROVE LockHeldInWasm'
  BY <1>1, LockKept, LockSides DEF CallExport, EnterQueue
<1>2. ASSUME NEW t \in Tasks, PrepareCall(t) PROVE LockHeldInWasm'
  BY <1>2, LockKept, LockSides DEF PrepareCall
<1>3. ASSUME NEW t \in Tasks, StartResumed(t) PROVE LockHeldInWasm'
  BY <1>3, LockKept, LockSides DEF StartResumed, EnterQueue
<1>4. ASSUME NEW t \in Tasks, AwaitAgain(t) PROVE LockHeldInWasm'
  BY <1>4, <1>0 DEF AwaitAgain
<1>5. ASSUME NEW t \in Tasks, EnterResumed(t) PROVE LockHeldInWasm'
  BY <1>5, LockTaken DEF EnterResumed, exclusiveLock
<1>6. ASSUME NEW t \in Tasks, BeginCall(t) PROVE LockHeldInWasm'
  BY <1>6, LockKept, LockSides DEF BeginCall
<1>7. ASSUME NEW t \in Tasks, SetBackpressure(t) PROVE LockHeldInWasm'
  BY <1>7, <1>0 DEF SetBackpressure
<1>8. ASSUME NEW t \in Tasks, Trap(t) PROVE LockHeldInWasm'
  BY <1>8, FailingUnlocks, Sides DEF Trap
<1>9. ASSUME NEW t \in Tasks, MarkCompleted(t) PROVE LockHeldInWasm'
  BY <1>9, <1>0 DEF MarkCompleted
<1>10. ASSUME NEW t \in Tasks, HostEvent(t) PROVE LockHeldInWasm'
  BY <1>10, <1>0 DEF HostEvent
<1>11. ASSUME NEW t \in Tasks, ReturnCode(t) PROVE LockHeldInWasm'
  <2>1. PICK q \in {"retExit", "retYield", "retWait", "lost"} :
           pc' = [pc EXCEPT ![t] = q]
    BY <1>11 DEF ReturnCode, AfterReturn
  <2> QED
    BY <1>11, <2>1, LockKept, LockSides DEF ReturnCode
<1>12. ASSUME NEW t \in Tasks, AsyncStartCall(t) PROVE LockHeldInWasm'
  <2>1. PICK q \in {"queued", "preSuspended", "failedStart"} :
           pc' = [pc EXCEPT ![t] = q]
    BY <1>12 DEF AsyncStartCall, EnterQueue
  <2> QED
    BY <1>12, <2>1, LockKept, LockSides DEF AsyncStartCall
<1>13. ASSUME NEW t \in Tasks, TakeSlot(t) PROVE LockHeldInWasm'
  <2>1. CASE locked' = exclusiveLock
    BY <1>13, <2>1 DEF LockHeldInWasm, exclusiveLock
  <2>2. CASE /\ locked' = IF needsExclusiveLock(t) THEN exclusiveLock ELSE locked
             /\ pc' = [pc EXCEPT ![t] = "entered"]
    BY <2>2, LockTaken DEF exclusiveLock
  <2>3. CASE UNCHANGED locked /\ \E q \in {"enterSuspended", "lost"} :
                pc' = [pc EXCEPT ![t] = q]
    BY <2>3, LockKept, LockSides
  <2> QED
    BY <1>13, <2>1, <2>2, <2>3 DEF TakeSlot
<1>14. ASSUME NEW t \in Tasks, Unpark(t) PROVE LockHeldInWasm'
  <2>1. pc[t] \in InSlot /\ pc[t] \in Locking
    BY <1>14, Sides, LockSides DEF Unpark
  <2>2. CASE CallFails(t)
    BY <2>1, <2>2, FailingUnlocks
  <2>3. CASE pc' = [pc EXCEPT ![t] = "running"] /\ UNCHANGED lockVars
    BY <2>1, <2>3, LockKept
  <2> QED
    BY <1>14, <2>2, <2>3 DEF Unpark
<1>15. ASSUME NEW t \in Tasks, DriverExit(t) PROVE LockHeldInWasm'
  <2>1. PICK q \in {"exited", "lost"} : pc' = [pc EXCEPT ![t] = q]
    BY <1>15 DEF DriverExit, Exit, DriverFails
  <2> QED
    BY <1>15, <2>1, HolderMayUnlock, Sides, LockSides DEF DriverExit
<1>16. ASSUME NEW t \in Tasks, DriverBlock(t) PROVE LockHeldInWasm'
  <2>1. PICK q \in {"drvYield", "drvWait", "drvResumed", "drvWoken", "lost"} :
           pc' = [pc EXCEPT ![t] = q]
    BY <1>16 DEF DriverBlock, DriverFails
  <2>2. q \notin Locking /\ pc[t] \in InSlot
    BY <1>16, Sides, LockSides DEF DriverBlock
  <2> QED
    BY <2>1, <2>2, HolderMayUnlock
<1>17. ASSUME NEW t \in Tasks, DriverResume(t) PROVE LockHeldInWasm'
  <2>1. CASE locked' = exclusiveLock
    BY <2>1 DEF LockHeldInWasm, exclusiveLock
  <2>2. CASE DriverFails(t) /\ UNCHANGED locked
    BY <2>2, LockKept, LockSides DEF DriverFails
  <2> QED
    BY <1>17, <2>1, <2>2 DEF DriverResume
<1>18. ASSUME NEW t \in Tasks, TaskReturn(t) PROVE LockHeldInWasm'
  <2>1. CASE CallFails(t)
    BY <1>18, <2>1, FailingUnlocks, Sides DEF TaskReturn
  <2>2. CASE UNCHANGED <<pc, lockVars>>
    BY <2>2, <1>0
  <2> QED
    BY <1>18, <2>1, <2>2 DEF TaskReturn
<1>19. ASSUME NEW t \in Tasks, Yield(t) \/ WaitableSetWait(t) PROVE LockHeldInWasm'
  <2>1. pc[t] \in InSlot /\ pc[t] \in Locking
    BY <1>19, Sides, LockSides DEF Yield, WaitableSetWait
  <2>2. CASE CallFails(t)
    BY <2>1, <2>2, FailingUnlocks
  <2>3. CASE UNCHANGED lockVars /\ \E q : pc' = [pc EXCEPT ![t] = q]
    BY <2>1, <2>3, LockKept
  <2> QED
    BY <1>19, <2>2, <2>3 DEF Yield, WaitableSetWait, Block
<1>20. ASSUME NEW t \in Tasks, ReturnValue(t) PROVE LockHeldInWasm'
  <2>1. PICK q \in {"exited", "lost", "failedReturn"} : pc' = [pc EXCEPT ![t] = q]
    BY <1>20 DEF ReturnValue, Exit, ExitThrows, ReturnFails
  <2> QED
    BY <1>20, <2>1, HolderMayUnlock, Sides, LockSides DEF ReturnValue
<1>21. ASSUME Tick PROVE LockHeldInWasm'
  <2>1. \A p \in PCs : \A k \in BOOLEAN : Resumed(p, k) \in Locking => p \in Locking
    BY DEF Resumed, Locking, InWasm, Parked, Returned
  <2>2. \A t \in Tasks : pc'[t] \in Locking => pc[t] \in Locking
    BY <1>21, <2>1 DEF Tick, TypeOK
  <2> QED
    BY <1>21, <2>2 DEF Tick, LockHeldInWasm, Locking
<1>22. CASE UNCHANGED vars
  BY <1>22, <1>0 DEF vars
<1> QED
  BY <1>1, <1>2, <1>3, <1>4, <1>5, <1>6, <1>7, <1>8, <1>9, <1>10, <1>11, <1>12,
     <1>13, <1>14, <1>15, <1>16, <1>17, <1>18, <1>19, <1>20, <1>21, <1>22
     DEF Next, Job, GuestStep, AllExited, CallSyncExport

(* exclusiveLock() never looks at the lock, and YIELD and WAIT drop it; still, *)
(* as long as the host calls no synchronous export, a task that needs the      *)
(* lock has it while its wasm function is on the stack, because only the       *)
(* holder of the execution slot ever touches it.                               *)
THEOREM LockHeld == SyncExports = FALSE => (Spec => []LockHeldInWasm)
<1> SUFFICES ASSUME SyncExports = FALSE PROVE Spec => []LockHeldInWasm
  OBVIOUS
<1>1. Init => LockHeldInWasm
  BY LockSides DEF Init, LockHeldInWasm, Locking, InWasm, Parked, Returned
<1>2. TypeOK /\ OneTaskInSlot /\ LockHeldInWasm /\ [Next]_vars => LockHeldInWasm'
  BY LockStep
<1> QED
  BY <1>1, <1>2, TypeCorrect, MutualExclusion, PTL DEF Spec

-----------------------------------------------------------------------------
(* Suspended tasks.  Seen from the list that tick() sweeps, a step leaves it   *)
(* and every sleeper alone, parks a task that was awake, or is a tick.         *)

(* Which program counters are asleep. *)
LEMMA Sleeping ==
    /\ "preSuspended" \in Suspended /\ "enterSuspended" \in Suspended
    /\ "parkedYield" \in Suspended /\ "parkedWait" \in Suspended
    /\ "drvYield" \in Suspended /\ "drvWait" \in Suspended
    /\ \A q \in {"idle", "prepared", "preResumed", "queued", "exited", "failedStart",
                 "enterResumed", "entered", "lost", "failedReturn", "running", "unparked",
                 "unparkedWait", "retExit", "retYield", "retWait", "drvResumed",
                 "drvWoken"} : q \notin Suspended
BY DEF Suspended

(* What NoSleeperForgotten needs to be kept with: the wait of                  *)
(* asyncStartCall(), the only one outside the slot, is parked under its own ID. *)
SleepInv ==
    /\ NoSleeperForgotten
    /\ \A id \in Tasks :
          suspendedTasks[id] # NoTask /\ pc[suspendedTasks[id]] = "preSuspended"
             => suspendedTasks[id] = id

LetsSleep ==
    /\ UNCHANGED suspVars
    /\ \A t \in Tasks : pc'[t] \in Suspended \/ pc[t] \in Suspended => pc'[t] = pc[t]

ParksUnder(id, t) ==
    /\ pc[t] \notin Suspended /\ suspendedTasks[id] = NoTask
    /\ SuspendUnder(id, t)
    /\ \E q \in Suspended : /\ pc' = [pc EXCEPT ![t] = q]
                            /\ q = "preSuspended" => id = t
    /\ id # t => pc[t] = "running" /\ id \in {currentTaskMeta, GetCurrentTask}

SleepSees ==
    \/ LetsSleep
    \/ \E id, t \in Tasks : ParksUnder(id, t)
    \/ Tick

(* A step of a task that is awake before and after lets the others sleep. *)
LEMMA AwakeMoves ==
    ASSUME TypeOK, NEW t \in Tasks, pc[t] \notin Suspended,
           NEW q, q \notin Suspended, pc' = [pc EXCEPT ![t] = q], UNCHANGED suspVars
    PROVE  LetsSleep
BY DEF TypeOK, LetsSleep

(* An error that leaves wasm parks nobody. *)
LEMMA FailingAwake ==
    ASSUME TypeOK, NEW t \in Tasks, pc[t] \notin Suspended, CallFails(t), UNCHANGED suspVars
    PROVE  LetsSleep
<1>1. PICK q \in {"exited", "lost"} : pc' = [pc EXCEPT ![t] = q]
  BY DEF CallFails, Exit, ExitThrows
<1> QED
  BY <1>1, AwakeMoves, Sleeping

(* A built-in that blocks parks its caller, or nobody. *)
LEMMA BlockingSleeps ==
    ASSUME TypeOK, NEW t \in Tasks, pc[t] \notin Suspended, NEW id \in Tasks, NEW ready,
           NEW parkedAt \in Suspended, parkedAt # "preSuspended",
           NEW direct, direct \notin Suspended,
           pc[t] = "running", id \in {currentTaskMeta, GetCurrentTask},
           Block(t, id, ready, parkedAt, direct)
    PROVE  SleepSees
<1>1. CASE CallFails(t) /\ UNCHANGED suspVars
  BY <1>1, FailingAwake DEF SleepSees
<1>2. CASE pc' = [pc EXCEPT ![t] = direct] /\ UNCHANGED suspVars
  BY <1>2, AwakeMoves DEF SleepSees
<1>3. CASE /\ suspendedTasks[id] = NoTask /\ SuspendUnder(id, t)
           /\ pc' = [pc EXCEPT ![t] = parkedAt]
  BY <1>3 DEF ParksUnder, SleepSees
<1> QED
  BY <1>1, <1>2, <1>3 DEF Block

(* Every step of the runtime is one of the three kinds. *)
LEMMA SleepView ==
    ASSUME TypeOK, [Next]_vars
    PROVE  SleepSees
<1>0. ASSUME UNCHANGED pc, UNCHANGED suspVars PROVE SleepSees
  BY <1>0 DEF LetsSleep, SleepSees
<1>1. ASSUME NEW t \in Tasks, CallExport(t) PROVE SleepSees
  BY <1>1, AwakeMoves, Sleeping DEF CallExport, EnterQueue, SleepSees
<1>2. ASSUME NEW t \in Tasks, PrepareCall(t) PROVE SleepSees
  BY <1>2, AwakeMoves, Sleeping DEF PrepareCall, SleepSees
<1>3. ASSUME NEW t \in Tasks, StartResumed(t) PROVE SleepSees
  BY <1>3, AwakeMoves, Sleeping DEF StartResumed, EnterQueue, SleepSees
<1>4. ASSUME NEW t \in Tasks, AwaitAgain(t) PROVE SleepSees
  BY <1>4, <1>0 DEF AwaitAgain
<1>5. ASSUME NEW t \in Tasks, EnterResumed(t) PROVE SleepSees
  BY <1>5, AwakeMoves, Sleeping DEF EnterResumed, SleepSees
<1>6. ASSUME NEW t \in Tasks, BeginCall(t) PROVE SleepSees
  BY <1>6, AwakeMoves, Sleeping DEF BeginCall, SleepSees
<1>7. ASSUME NEW t \in Tasks, SetBackpressure(t) PROVE SleepSees
  BY <1>7, <1>0 DEF SetBackpressure
<1>8. ASSUME NEW t \in Tasks, Trap(t) PROVE SleepSees
  BY <1>8, FailingAwake, Sleeping DEF Trap, SleepSees
<1>9. ASSUME NEW t \in Tasks, MarkCompleted(t) PROVE SleepSees
  BY <1>9, <1>0 DEF MarkCompleted
<1>10. ASSUME NEW t \in Tasks, HostEvent(t) PROVE SleepSees
  BY <1>10, <1>0 DEF HostEvent
<1>11. ASSUME NEW t \in Tasks, ReturnCode(t) PROVE SleepSees
  <2>1. PICK q \in {"retExit", "retYield", "retWait", "lost"} :
           pc' = [pc EXCEPT ![t] = q]
    BY <1>11 DEF ReturnCode, AfterReturn
  <2> QED
    BY <1>11, <2>1, AwakeMoves, Sleeping DEF ReturnCode, SleepSees
<1>12. ASSUME NEW t \in Tasks, AsyncStartCall(t) PROVE SleepSees
  <2>0. pc[t] \notin Suspended
    BY <1>12, Sleeping DEF AsyncStartCall
  <2>1. CASE UNCHANGED suspVars /\ \E q \in {"queued", "failedStart"} :
                pc' = [pc EXCEPT ![t] = q]
    BY <2>0, <2>1, AwakeMoves, Sleeping DEF SleepSees
  <2>2. CASE /\ suspendedTasks[t] = NoTask /\ SuspendUnder(t, t)
             /\ pc' = [pc EXCEPT ![t] = "preSuspended"]
    BY <2>0, <2>2, Sleeping DEF ParksUnder, SleepSees
  <2> QED
    BY <1>12, <2>1, <2>2 DEF AsyncStartCall, EnterQueue
<1>13. ASSUME NEW t \in Tasks, TakeSlot(t) PROVE SleepSees
  <2>0. pc[t] \notin Suspended
    BY <1>13, Sleeping DEF TakeSlot
  <2>1. CASE UNCHANGED suspVars /\ \E q \in {"entered", "lost"} :
                pc' = [pc EXCEPT ![t] = q]
    BY <2>0, <2>1, AwakeMoves, Sleeping DEF SleepSees
  <2>2. CASE /\ suspendedTasks[t] = NoTask /\ SuspendUnder(t, t)
             /\ pc' = [pc EXCEPT ![t] = "enterSuspended"]
    BY <2>0, <2>2, Sleeping DEF ParksUnder, SleepSees
  <2> QED
    BY <1>13, <2>1, <2>2 DEF TakeSlot
<1>14. ASSUME NEW t \in Tasks, Unpark(t) PROVE SleepSees
  <2>1. pc[t] \notin Suspended /\ UNCHANGED suspVars
    BY <1>14, Sleeping DEF Unpark
  <2>2. CASE CallFails(t)
    BY <2>1, <2>2, FailingAwake DEF SleepSees
  <2>3. CASE pc' = [pc EXCEPT ![t] = "running"]
    BY <2>1, <2>3, AwakeMoves, Sleeping DEF SleepSees
  <2> QED
    BY <1>14, <2>2, <2>3 DEF Unpark
<1>15. ASSUME NEW t \in Tasks, DriverExit(t) PROVE SleepSees
  <2>1. PICK q \in {"exited", "lost"} : pc' = [pc EXCEPT ![t] = q]
    BY <1>15 DEF DriverExit, Exit, DriverFails
  <2> QED
    BY <1>15, <2>1, AwakeMoves, Sleeping DEF DriverExit, SleepSees
<1>16. ASSUME NEW t \in Tasks, DriverBlock(t) PROVE SleepSees
  <2>0. pc[t] \notin Suspended
    BY <1>16, Sleeping DEF DriverBlock
  <2>1. CASE UNCHANGED suspVars /\ \E q \in {"drvResumed", "drvWoken", "lost"} :
                pc' = [pc EXCEPT ![t] = q]
    BY <2>0, <2>1, AwakeMoves, Sleeping DEF SleepSees
  <2>2. CASE /\ suspendedTasks[t] = NoTask /\ SuspendUnder(t, t)
             /\ \E q \in {"drvYield", "drvWait"} : pc' = [pc EXCEPT ![t] = q]
    BY <2>0, <2>2, Sleeping DEF ParksUnder, SleepSees
  <2> QED
    BY <1>16, <2>1, <2>2 DEF DriverBlock, DriverFails
<1>17. ASSUME NEW t \in Tasks, DriverResume(t) PROVE SleepSees
  <2>1. PICK q \in {"running", "lost"} : pc' = [pc EXCEPT ![t] = q]
    BY <1>17 DEF DriverResume, DriverFails
  <2> QED
    BY <1>17, <2>1, AwakeMoves, Sleeping DEF DriverResume, SleepSees
<1>18. ASSUME NEW t \in Tasks, TaskReturn(t) PROVE SleepSees
  <2>1. CASE CallFails(t)
    BY <1>18, <2>1, FailingAwake, Sleeping DEF TaskReturn, SleepSees
  <2>2. CASE UNCHANGED pc
    BY <1>18, <2>2, <1>0 DEF TaskReturn
  <2> QED
    BY <1>18, <2>1, <2>2 DEF TaskReturn
<1>19. ASSUME NEW t \in Tasks, Yield(t) PROVE SleepSees
  <2>1. pc[t] \notin Suspended /\ pc[t] = "running"
    BY <1>19, Sleeping DEF Yield
  <2>2. CASE CallFails(t) /\ UNCHANGED suspVars
    BY <2>1, <2>2, FailingAwake DEF SleepSees
  <2>3. CASE /\ currentTaskMeta # NoTask
             /\ Block(t, currentTaskMeta, TRUE, "parkedYield", "unparked")
    <3>1. currentTaskMeta \in Tasks
      BY <2>3 DEF TypeOK, TasksOrNone
    <3> QED
      BY <2>1, <2>3, <3>1, BlockingSleeps, Sleeping
  <2> QED
    BY <1>19, <2>2, <2>3 DEF Yield
<1>20. ASSUME NEW t \in Tasks, WaitableSetWait(t) PROVE SleepSees
  <2>1. pc[t] \notin Suspended /\ pc[t] = "running"
    BY <1>20, Sleeping DEF WaitableSetWait
  <2>2. CASE CallFails(t) /\ UNCHANGED suspVars
    BY <2>1, <2>2, FailingAwake DEF SleepSees
  <2>3. CASE /\ GetCurrentTask # NoTask
             /\ Block(t, GetCurrentTask, pendingEvent[t], "parkedWait", "unparkedWait")
    <3>1. GetCurrentTask \in Tasks
      BY <2>3, GetCurrentTaskType DEF TasksOrNone
    <3> QED
      BY <2>1, <2>3, <3>1, BlockingSleeps, Sleeping
  <2> QED
    BY <1>20, <2>2, <2>3 DEF WaitableSetWait
<1>21. ASSUME NEW t \in Tasks, ReturnValue(t) PROVE SleepSees
  <2>1. PICK q \in {"exited", "lost", "failedReturn"} : pc' = [pc EXCEPT ![t] = q]
    BY <1>21 DEF ReturnValue, Exit, ExitThrows, ReturnFails
  <2> QED
    BY <1>21, <2>1, AwakeMoves, Sleeping DEF ReturnValue, SleepSees
<1>22. ASSUME Tick PROVE SleepSees
  BY <1>22 DEF SleepSees
<1>23. ASSUME CallSyncExport PROVE SleepSees
  BY <1>23, <1>0 DEF CallSyncExport
<1>24. CASE UNCHANGED vars
  BY <1>24, <1>0 DEF vars
<1> QED
  BY <1>1, <1>2, <1>3, <1>4, <1>5, <1>6, <1>7, <1>8, <1>9, <1>10, <1>11, <1>12,
     <1>13, <1>14, <1>15, <1>16, <1>17, <1>18, <1>19, <1>20, <1>21, <1>22, <1>23,
     <1>24
     DEF Next, Job, GuestStep, AllExited

(* What a tick does to a program counter: a sleeper wakes. *)
LEMMA ResumedAwake ==
    ASSUME NEW p \in Suspended, NEW k \in BOOLEAN
    PROVE  Resumed(p, k) \notin Suspended /\ Resumed(p, k) # "preSuspended"
BY DEF Suspended, Resumed

(* Each kind of step keeps the sleepers. *)
LEMMA SleepStep ==
    ASSUME TypeOK, SleepInv, [Next]_vars
    PROVE  SleepInv'
<1>0. /\ pc \in [Tasks -> PCs] /\ suspendedTasks \in [Tasks -> Tasks \cup {NoTask}]
      /\ suspendedTaskIDs \in Seq(Tasks \cup {NoTask}) /\ NoTask \notin Tasks
      /\ tickLoop \in BOOLEAN /\ rejected \in [Tasks -> BOOLEAN]
  BY DEF TypeOK, TasksOrNone
<1>1. CASE LetsSleep
  BY <1>0, <1>1 DEF LetsSleep, SleepInv, NoSleeperForgotten, suspVars
<1>2. ASSUME NEW id \in Tasks, NEW t \in Tasks, ParksUnder(id, t) PROVE SleepInv'
  <2>1. PICK q \in Suspended : pc' = [pc EXCEPT ![t] = q]
                               /\ (q = "preSuspended" => id = t)
    BY <1>2 DEF ParksUnder
  <2>2. /\ pc'[t] = q /\ \A u \in Tasks : u # t => pc'[u] = pc[u]
        /\ suspendedTasks'[id] = t
        /\ \A jd \in Tasks : jd # id => suspendedTasks'[jd] = suspendedTasks[jd]
        /\ suspendedTasks[id] = NoTask /\ pc[t] \notin Suspended
        /\ tickLoop' = TRUE /\ suspendedTaskIDs' = Append(suspendedTaskIDs, id)
    BY <1>0, <1>2, <2>1 DEF ParksUnder, SuspendUnder
  <2>3. \A jd \in Tasks : suspendedTasks[jd] # t
    BY <2>2 DEF SleepInv, NoSleeperForgotten
  <2>4. \A u \in Tasks : pc'[u] \in Suspended <=> \E jd \in Tasks : suspendedTasks'[jd] = u
    BY <1>0, <2>1, <2>2, <2>3 DEF SleepInv, NoSleeperForgotten
  <2>5. \A jd, kd \in Tasks :
           suspendedTasks'[jd] # NoTask /\ suspendedTasks'[jd] = suspendedTasks'[kd] => jd = kd
    BY <1>0, <2>2, <2>3 DEF SleepInv, NoSleeperForgotten
  <2>6. \A jd \in Tasks : suspendedTasks'[jd] # NoTask =>
           \E i \in DOMAIN suspendedTaskIDs' : suspendedTaskIDs'[i] = jd
    <3>1. \E i \in DOMAIN suspendedTaskIDs' : suspendedTaskIDs'[i] = id
      <4>1. /\ Len(suspendedTaskIDs) + 1 \in DOMAIN suspendedTaskIDs'
            /\ suspendedTaskIDs'[Len(suspendedTaskIDs) + 1] = id
        BY <1>0, <2>2
      <4> QED
        BY <4>1
    <3>2. \A i \in DOMAIN suspendedTaskIDs :
             i \in DOMAIN suspendedTaskIDs' /\ suspendedTaskIDs'[i] = suspendedTaskIDs[i]
      BY <1>0, <2>2
    <3> QED
      BY <2>2, <3>1, <3>2 DEF SleepInv, NoSleeperForgotten
  <2>7. \A jd \in Tasks :
          suspendedTasks'[jd] # NoTask /\ pc'[suspendedTasks'[jd]] = "preSuspended"
             => suspendedTasks'[jd] = jd
    BY <1>0, <2>1, <2>2, <2>3 DEF SleepInv
  <2> QED
    BY <2>2, <2>4, <2>5, <2>6, <2>7 DEF SleepInv, NoSleeperForgotten
<1>3. CASE Tick
  <2> DEFINE swept == {suspendedTaskIDs[i] : i \in SweptAt}
             woken == {suspendedTasks[id] : id \in swept}
             kept(t) == \E id \in swept : suspendedTasks[id] = t /\ ~rejected[id]
  <2>1. /\ pc' = [t \in Tasks |-> IF t \in woken THEN Resumed(pc[t], kept(t)) ELSE pc[t]]
        /\ suspendedTasks' = [id \in Tasks |-> IF id \in swept THEN NoTask
                                               ELSE suspendedTasks[id]]
        /\ suspendedTaskIDs' =
              IF SweptAt = ParkedAt THEN <<>>
              ELSE [i \in DOMAIN suspendedTaskIDs |->
                       IF i \in SweptAt THEN NoTask ELSE suspendedTaskIDs[i]]
        /\ tickLoop' = (RejectedAt # {} \/ SweptAt # ParkedAt)
    BY <1>3 DEF Tick
  <2>2. swept \subseteq Tasks
    BY <1>0 DEF SweptAt, ParkedAt
  <2>3. \A t \in Tasks : kept(t) \in BOOLEAN
    OBVIOUS
  <2>4. \A id \in Tasks : suspendedTasks[id] # NoTask => id \in swept \/
           (SweptAt # ParkedAt /\ \E i \in DOMAIN suspendedTaskIDs :
               i \notin SweptAt /\ suspendedTaskIDs[i] = id)
    BY <1>0 DEF SleepInv, NoSleeperForgotten, ParkedAt
  <2>5. \A t \in Tasks : t \in woken <=> \E id \in swept : suspendedTasks[id] = t
    OBVIOUS
  <2>6. \A t \in Tasks : t \in woken => pc[t] \in Suspended
    BY <2>2, <2>5 DEF SleepInv, NoSleeperForgotten
  <2>7. \A t \in Tasks : IF t \in woken THEN pc'[t] \notin Suspended ELSE pc'[t] = pc[t]
    <3> SUFFICES ASSUME NEW t \in Tasks
                 PROVE  IF t \in woken THEN pc'[t] \notin Suspended ELSE pc'[t] = pc[t]
      OBVIOUS
    <3>1. pc'[t] = IF t \in woken THEN Resumed(pc[t], kept(t)) ELSE pc[t]
      BY <2>1
    <3>2. kept(t) \in BOOLEAN
      OBVIOUS
    <3> HIDE DEF woken, kept
    <3> QED
      BY <2>6, <3>1, <3>2, ResumedAwake
  <2>8. \A id \in Tasks : suspendedTasks'[id] = IF id \in swept THEN NoTask
                                                ELSE suspendedTasks[id]
    BY <2>1
  <2> HIDE DEF swept, woken, kept
  <2>9. \A t \in Tasks : pc'[t] \in Suspended <=> \E id \in Tasks : suspendedTasks'[id] = t
    <3> SUFFICES ASSUME NEW t \in Tasks
                 PROVE  pc'[t] \in Suspended <=> \E id \in Tasks : suspendedTasks'[id] = t
      OBVIOUS
    <3>1. CASE t \in woken
      <4>1. PICK id \in swept : suspendedTasks[id] = t
        BY <2>5, <3>1
      <4>2. \A jd \in Tasks : suspendedTasks[jd] = t => jd = id
        BY <1>0, <2>2, <4>1 DEF SleepInv, NoSleeperForgotten
      <4> QED
        BY <1>0, <2>7, <2>8, <3>1, <4>1, <4>2
    <3>2. CASE t \notin woken
      BY <1>0, <2>2, <2>5, <2>7, <2>8, <3>2 DEF SleepInv, NoSleeperForgotten
    <3> QED
      BY <3>1, <3>2
  <2>10. \A id, jd \in Tasks :
            suspendedTasks'[id] # NoTask /\ suspendedTasks'[id] = suspendedTasks'[jd] => id = jd
    BY <2>8 DEF SleepInv, NoSleeperForgotten
  <2>11. ASSUME NEW id \in Tasks, suspendedTasks'[id] # NoTask
         PROVE  tickLoop' /\ \E i \in DOMAIN suspendedTaskIDs' : suspendedTaskIDs'[i] = id
    <3>1. id \notin swept /\ suspendedTasks[id] # NoTask
      BY <2>8, <2>11
    <3>2. PICK i \in DOMAIN suspendedTaskIDs :
             SweptAt # ParkedAt /\ i \notin SweptAt /\ suspendedTaskIDs[i] = id
      BY <2>4, <3>1
    <3>3. suspendedTaskIDs' = [j \in DOMAIN suspendedTaskIDs |->
                                  IF j \in SweptAt THEN NoTask ELSE suspendedTaskIDs[j]]
      BY <2>1, <3>2
    <3> QED
      BY <2>1, <3>2, <3>3
  <2>12. \A id \in Tasks :
           suspendedTasks'[id] # NoTask /\ pc'[suspendedTasks'[id]] = "preSuspended"
              => suspendedTasks'[id] = id
    <3> SUFFICES ASSUME NEW id \in Tasks, suspendedTasks'[id] # NoTask,
                        pc'[suspendedTasks'[id]] = "preSuspended"
                 PROVE  suspendedTasks'[id] = id
      OBVIOUS
    <3>1. suspendedTasks'[id] = suspendedTasks[id] /\ suspendedTasks[id] \in Tasks
      BY <1>0, <2>8
    <3>2. pc[suspendedTasks[id]] = "preSuspended"
      BY <2>7, <3>1, Sleeping
    <3> QED
      BY <3>1, <3>2 DEF SleepInv
  <2> QED
    BY <2>9, <2>10, <2>11, <2>12 DEF SleepInv, NoSleeperForgotten
<1> QED
  BY <1>1, <1>2, <1>3, SleepView DEF SleepSees

(* The sleepers are kept in every reachable state. *)
LEMMA SleepInvariant == Spec => []SleepInv
<1>1. Init => SleepInv
  BY Sleeping DEF Init, SleepInv, NoSleeperForgotten
<1>2. TypeOK /\ SleepInv /\ [Next]_vars => SleepInv'
  BY SleepStep
<1> QED
  BY <1>1, <1>2, TypeCorrect, PTL DEF Spec

(* No continuation given to suspendTask() is forgotten: as long as a task is   *)
(* parked it is stored under one ID, that ID is in the list tick() sweeps and  *)
(* the timer is armed, for any tasks, errors, waits and synchronous calls.     *)
THEOREM SleepersRemembered == Spec => []NoSleeperForgotten
<1>1. SleepInv => NoSleeperForgotten
  BY DEF SleepInv
<1> QED
  BY <1>1, SleepInvariant, PTL

-----------------------------------------------------------------------------
(* The tasks that wait in enter(). *)

(* Which program counters those are. *)
LEMMA EnteringSides ==
    /\ Entering \subseteq InSlot
    /\ "enterSuspended" \in Entering /\ "enterResumed" \in Entering
    /\ \A q \in {"idle", "prepared", "preSuspended", "preResumed", "queued", "exited",
                 "failedStart", "entered", "lost", "failedReturn", "running", "parkedYield",
                 "parkedWait", "unparked", "unparkedWait", "retExit", "retYield",
                 "retWait", "drvYield", "drvWait", "drvResumed", "drvWoken"} :
          q \notin Entering
BY DEF Entering, InSlot

(* When it is the turn of a queued task, nobody is in the slot. *)
LEMMA SlotFree ==
    ASSUME TypeOK, SlotInv, NEW t \in Tasks, pc[t] = "queued", IsNext(t)
    PROVE  \A u \in Tasks : pc[u] \notin InSlot
<1> SUFFICES ASSUME NEW u \in Tasks, pc[u] \in InSlot PROVE FALSE
  OBVIOUS
<1>1. pc[u] \notin Outside /\ pc[u] # "queued" /\ pc[u] # "exited"
  BY DEF Outside, Unqueued, InSlot, Entering, InWasm, Parked, Returned, InDriver
<1>2. PICK i \in DOMAIN nextTaskQueue :
         nextTaskQueue[i] = t /\ \A j \in 1 .. i - 1 : completed[nextTaskQueue[j]]
  BY DEF IsNext
<1>3. PICK j \in DOMAIN nextTaskQueue : nextTaskQueue[j] = u
  BY <1>1 DEF SlotInv
<1>4. ~completed[t] /\ ~completed[u] /\ u # t
  BY <1>1 DEF SlotInv
<1>5. i \in Nat /\ j \in Nat /\ j >= 1 /\ i # j
  BY <1>2, <1>3, <1>4 DEF TypeOK
<1>6. ~(i < j)
  BY <1>1, <1>2, <1>3, <1>4 DEF SlotInv, SlotsInOrder
<1>7. j \in 1 .. i - 1
  BY <1>5, <1>6
<1> QED
  BY <1>2, <1>3, <1>4, <1>7

(* Then nothing is parked under its ID: suspendTask() does not throw in        *)
(* enter().                                                                    *)
LEMMA EnterMayPark ==
    ASSUME TypeOK, SlotInv, SleepInv, NEW t \in Tasks, pc[t] = "queued", IsNext(t)
    PROVE  suspendedTasks[t] = NoTask
<1> SUFFICES ASSUME suspendedTasks[t] # NoTask PROVE FALSE
  OBVIOUS
<1>1. suspendedTasks[t] \in Tasks
  BY DEF TypeOK, TasksOrNone
<1>2. pc[suspendedTasks[t]] \in Suspended
  BY <1>1 DEF SleepInv, NoSleeperForgotten
<1>3. pc[suspendedTasks[t]] # "preSuspended"
  BY DEF SleepInv
<1>4. pc[suspendedTasks[t]] \in InSlot
  BY <1>2, <1>3, Sides DEF Suspended
<1> QED
  BY <1>1, <1>4, SlotFree

SameWaiters ==
    /\ \A t \in Tasks : pc'[t] \in Entering <=> pc[t] \in Entering
    /\ backpressureWaiters' = backpressureWaiters

StartsWaiting(t) ==
    /\ \A u \in Tasks : pc[u] \notin Entering
    /\ pc' = [pc EXCEPT ![t] = "enterSuspended"]
    /\ backpressureWaiters' = backpressureWaiters + 1

StopsWaiting(t) ==
    /\ pc[t] \in Entering
    /\ pc' = [pc EXCEPT ![t] = "entered"]
    /\ backpressureWaiters' = backpressureWaiters - 1

WaitersSee == SameWaiters \/ \E t \in Tasks : StartsWaiting(t) \/ StopsWaiting(t)

(* A task that is not in enter() before and after does not count. *)
LEMMA NoWaiterMoves ==
    ASSUME TypeOK, NEW t \in Tasks, pc[t] \notin Entering, NEW q, q \notin Entering,
           pc' = [pc EXCEPT ![t] = q], UNCHANGED backpressureWaiters
    PROVE  WaitersSee
BY DEF TypeOK, SameWaiters, WaitersSee

(* An error that leaves wasm. *)
LEMMA FailingWaits ==
    ASSUME TypeOK, NEW t \in Tasks, pc[t] \notin Entering, CallFails(t)
    PROVE  WaitersSee
<1>1. PICK q \in {"exited", "lost"} : pc' = [pc EXCEPT ![t] = q]
  BY DEF CallFails, Exit, ExitThrows
<1>2. UNCHANGED backpressureWaiters
  BY DEF CallFails
<1> QED
  BY <1>1, <1>2, NoWaiterMoves, EnteringSides

(* Every step starts one wait in enter(), ends one, or neither. *)
LEMMA WaitersView ==
    ASSUME TypeOK, SlotInv, SleepInv, [Next]_vars
    PROVE  WaitersSee
<1> USE DEF lockVars
<1>0. ASSUME UNCHANGED <<pc, backpressureWaiters>> PROVE WaitersSee
  BY <1>0 DEF SameWaiters, WaitersSee
<1>1. ASSUME NEW t \in Tasks, CallExport(t) PROVE WaitersSee
  BY <1>1, NoWaiterMoves, EnteringSides DEF CallExport, EnterQueue
<1>2. ASSUME NEW t \in Tasks, PrepareCall(t) PROVE WaitersSee
  BY <1>2, NoWaiterMoves, EnteringSides DEF PrepareCall
<1>3. ASSUME NEW t \in Tasks, StartResumed(t) PROVE WaitersSee
  BY <1>3, NoWaiterMoves, EnteringSides DEF StartResumed, EnterQueue
<1>4. ASSUME NEW t \in Tasks, AwaitAgain(t) PROVE WaitersSee
  BY <1>4, <1>0 DEF AwaitAgain
<1>5. ASSUME NEW t \in Tasks, EnterResumed(t) PROVE WaitersSee
  BY <1>5, EnteringSides DEF EnterResumed, removeBackpressureWaiter, StopsWaiting,
     WaitersSee
<1>6. ASSUME NEW t \in Tasks, BeginCall(t) PROVE WaitersSee
  BY <1>6, NoWaiterMoves, EnteringSides DEF BeginCall
<1>7. ASSUME NEW t \in Tasks, SetBackpressure(t) PROVE WaitersSee
  BY <1>7, <1>0 DEF SetBackpressure
<1>8. ASSUME NEW t \in Tasks, Trap(t) PROVE WaitersSee
  BY <1>8, FailingWaits, EnteringSides DEF Trap
<1>9. ASSUME NEW t \in Tasks, MarkCompleted(t) PROVE WaitersSee
  BY <1>9, <1>0 DEF MarkCompleted
<1>10. ASSUME NEW t \in Tasks, HostEvent(t) PROVE WaitersSee
  BY <1>10, <1>0 DEF HostEvent
<1>11. ASSUME NEW t \in Tasks, ReturnCode(t) PROVE WaitersSee
  <2>1. PICK q \in {"retExit", "retYield", "retWait", "lost"} :
           pc' = [pc EXCEPT ![t] = q]
    BY <1>11 DEF ReturnCode, AfterReturn
  <2> QED
    BY <1>11, <2>1, NoWaiterMoves, EnteringSides DEF ReturnCode
<1>12. ASSUME NEW t \in Tasks, AsyncStartCall(t) PROVE WaitersSee
  <2>1. PICK q \in {"queued", "preSuspended", "failedStart"} :
           pc' = [pc EXCEPT ![t] = q]
    BY <1>12 DEF AsyncStartCall, EnterQueue
  <2> QED
    BY <1>12, <2>1, NoWaiterMoves, EnteringSides DEF AsyncStartCall
<1>13. ASSUME NEW t \in Tasks, TakeSlot(t) PROVE WaitersSee
  <2>1. CASE UNCHANGED backpressureWaiters /\ pc' = [pc EXCEPT ![t] = "entered"]
    BY <1>13, <2>1, NoWaiterMoves, EnteringSides DEF TakeSlot
  <2>2. CASE /\ pc' = [pc EXCEPT ![t] = "enterSuspended"]
             /\ backpressureWaiters' = backpressureWaiters + 1
    <3>1. \A u \in Tasks : pc[u] \notin Entering
      BY <1>13, SlotFree, EnteringSides DEF TakeSlot
    <3> QED
      BY <2>2, <3>1 DEF StartsWaiting, WaitersSee
  <2>3. suspendedTasks[t] = NoTask
    BY <1>13, EnterMayPark DEF TakeSlot
  <2> QED
    BY <1>13, <2>1, <2>2, <2>3 DEF TakeSlot
<1>14. ASSUME NEW t \in Tasks, Unpark(t) PROVE WaitersSee
  <2>1. pc[t] \notin Entering
    BY <1>14, EnteringSides DEF Unpark
  <2>2. CASE CallFails(t)
    BY <2>1, <2>2, FailingWaits
  <2>3. CASE pc' = [pc EXCEPT ![t] = "running"] /\ UNCHANGED lockVars
    BY <2>1, <2>3, NoWaiterMoves, EnteringSides
  <2> QED
    BY <1>14, <2>2, <2>3 DEF Unpark
<1>15. ASSUME NEW t \in Tasks, DriverExit(t) PROVE WaitersSee
  <2>1. PICK q \in {"exited", "lost"} : pc' = [pc EXCEPT ![t] = q]
    BY <1>15 DEF DriverExit, Exit, DriverFails
  <2> QED
    BY <1>15, <2>1, NoWaiterMoves, EnteringSides DEF DriverExit
<1>16. ASSUME NEW t \in Tasks, DriverBlock(t) PROVE WaitersSee
  <2>1. PICK q \in {"drvYield", "drvWait", "drvResumed", "drvWoken", "lost"} :
           pc' = [pc EXCEPT ![t] = q]
    BY <1>16 DEF DriverBlock, DriverFails
  <2> QED
    BY <1>16, <2>1, NoWaiterMoves, EnteringSides DEF DriverBlock
<1>17. ASSUME NEW t \in Tasks, DriverResume(t) PROVE WaitersSee
  <2>1. PICK q \in {"running", "lost"} : pc' = [pc EXCEPT ![t] = q]
    BY <1>17 DEF DriverResume, DriverFails
  <2> QED
    BY <1>17, <2>1, NoWaiterMoves, EnteringSides DEF DriverResume
<1>18. ASSUME NEW t \in Tasks, TaskReturn(t) PROVE WaitersSee
  <2>1. CASE CallFails(t)
    BY <1>18, <2>1, FailingWaits, EnteringSides DEF TaskReturn
  <2>2. CASE UNCHANGED <<pc, lockVars>>
    BY <2>2, <1>0
  <2> QED
    BY <1>18, <2>1, <2>2 DEF TaskReturn
<1>19. ASSUME NEW t \in Tasks, Yield(t) \/ WaitableSetWait(t) PROVE WaitersSee
  <2>1. pc[t] \notin Entering
    BY <1>19, EnteringSides DEF Yield, WaitableSetWait
  <2>2. CASE CallFails(t)
    BY <2>1, <2>2, FailingWaits
  <2>3. CASE UNCHANGED lockVars /\ \E q \in {"parkedYield", "parkedWait", "unparked",
                "unparkedWait"} : pc' = [pc EXCEPT ![t] = q]
    BY <2>1, <2>3, NoWaiterMoves, EnteringSides
  <2> QED
    BY <1>19, <2>2, <2>3 DEF Yield, WaitableSetWait, Block
<1>20. ASSUME NEW t \in Tasks, ReturnValue(t) PROVE WaitersSee
  <2>1. PICK q \in {"exited", "lost", "failedReturn"} : pc' = [pc EXCEPT ![t] = q]
    BY <1>20 DEF ReturnValue, Exit, ExitThrows, ReturnFails
  <2> QED
    BY <1>20, <2>1, NoWaiterMoves, EnteringSides DEF ReturnValue
<1>21. ASSUME Tick PROVE WaitersSee
  <2>1. \A p \in PCs : \A k \in BOOLEAN : Resumed(p, k) \in Entering <=> p \in Entering
    BY DEF Resumed, Entering
  <2>2. \A t \in Tasks : pc'[t] \in Entering <=> pc[t] \in Entering
    BY <1>21, <2>1 DEF Tick, TypeOK
  <2> QED
    BY <1>21, <2>2 DEF Tick, SameWaiters, WaitersSee
<1>22. ASSUME CallSyncExport PROVE WaitersSee
  BY <1>22, <1>0 DEF CallSyncExport
<1>23. CASE UNCHANGED vars
  BY <1>23, <1>0 DEF vars
<1> QED
  BY <1>1, <1>2, <1>3, <1>4, <1>5, <1>6, <1>7, <1>8, <1>9, <1>10, <1>11, <1>12,
     <1>13, <1>14, <1>15, <1>16, <1>17, <1>18, <1>19, <1>20, <1>21, <1>22, <1>23
     DEF Next, Job, GuestStep, AllExited

(* The count stays the number of waiting tasks, of which there is at most one. *)
LEMMA WaitersStep ==
    ASSUME TypeOK, SlotInv, SleepInv, WaitersCounted, [Next]_vars
    PROVE  WaitersCounted'
<1> DEFINE S == {t \in Tasks : pc[t] \in Entering}
<1>0. pc \in [Tasks -> PCs] /\ OneTaskInSlot
  BY SlotExclusive DEF TypeOK
<1>1. CASE SameWaiters
  <2>1. S' = S
    BY <1>1 DEF SameWaiters
  <2> QED
    BY <1>1, <2>1 DEF SameWaiters, WaitersCounted
<1>2. ASSUME NEW t \in Tasks, StartsWaiting(t) PROVE WaitersCounted'
  <2>1. S = {} /\ S' = {t}
    BY <1>0, <1>2, EnteringSides DEF StartsWaiting
  <2>2. Cardinality(S) = 0 /\ Cardinality(S') = 1
    BY <2>1, FS_EmptySet, FS_Singleton
  <2> QED
    BY <1>2, <2>2 DEF StartsWaiting, WaitersCounted
<1>3. ASSUME NEW t \in Tasks, StopsWaiting(t) PROVE WaitersCounted'
  <2>0. \A u \in Tasks : pc[u] \in Entering => u = t
    BY <1>0, <1>3, EnteringSides DEF StopsWaiting, OneTaskInSlot
  <2>1. S = {t} /\ S' = {}
    BY <1>0, <1>3, <2>0, EnteringSides DEF StopsWaiting
  <2>2. Cardinality(S) = 1 /\ Cardinality(S') = 0
    BY <2>1, FS_EmptySet, FS_Singleton
  <2> QED
    BY <1>3, <2>2 DEF StopsWaiting, WaitersCounted
<1> QED
  BY <1>1, <1>2, <1>3, WaitersView DEF WaitersSee

(* addBackpressureWaiter() and removeBackpressureWaiter() stay balanced: the   *)
(* counter is the number of tasks that wait in enter(), so removing a waiter   *)
(* never underflows, although suspendTask() may throw in between.              *)
THEOREM WaitersBalanced == Spec => []WaitersCounted
<1>1. Init => WaitersCounted
  <2> SUFFICES ASSUME Init PROVE WaitersCounted
    OBVIOUS
  <2>1. {t \in Tasks : pc[t] \in Entering} = {}
    BY EnteringSides DEF Init
  <2> QED
    BY <2>1, FS_EmptySet DEF Init, WaitersCounted
<1>2. TypeOK /\ SlotInv /\ SleepInv /\ WaitersCounted /\ [Next]_vars => WaitersCounted'
  BY WaitersStep
<1> QED
  BY <1>1, <1>2, TypeCorrect, SlotInvariant, SleepInvariant, PTL DEF Spec

-----------------------------------------------------------------------------
(* The task metas.  Seen from their list, a step creates a task, clears one at *)
(* its exit, or leaves the list alone.                                         *)

Ended == {"idle", "exited"}

MetasKept ==
    /\ UNCHANGED taskMetas
    /\ \A u \in Tasks : pc[u] \in Ended => pc'[u] = pc[u]

CreatesTask(t) ==
    /\ taskMetas' = Append(taskMetas, t)
    /\ \A u \in Tasks : u # t => pc'[u] = pc[u]
    /\ HostCalled(t) => nextTaskQueue' = Append(nextTaskQueue, t)

ClearsTask(t) ==
    /\ pc' = [pc EXCEPT ![t] = "exited"]
    /\ taskMetas' = ClearCurrentTask(t)

MetasSee == MetasKept \/ \E t \in Tasks : CreatesTask(t) \/ ClearsTask(t)

(* A task that is between creation and exit moves on. *)
LEMMA LiveMoves ==
    ASSUME TypeOK, NEW t \in Tasks, pc[t] \notin Ended, NEW q,
           pc' = [pc EXCEPT ![t] = q], UNCHANGED taskMetas
    PROVE  MetasSee
BY DEF TypeOK, MetasKept, MetasSee

(* An error that leaves wasm ends in exit(), or loses the task. *)
LEMMA FailingMetas ==
    ASSUME TypeOK, NEW t \in Tasks, pc[t] \notin Ended, CallFails(t)
    PROVE  MetasSee
<1>1. CASE Exit(t)
  BY <1>1 DEF Exit, ClearsTask, MetasSee
<1>2. CASE ExitThrows(t)
  BY <1>2, LiveMoves DEF ExitThrows
<1> QED
  BY <1>1, <1>2 DEF CallFails

(* Every step is one of the three kinds. *)
LEMMA MetasView ==
    ASSUME TypeOK, [Next]_vars
    PROVE  MetasSee
<1> USE DEF metaVars, Ended
<1>0. ASSUME UNCHANGED <<pc, taskMetas>> PROVE MetasSee
  BY <1>0 DEF MetasKept, MetasSee
<1>1. ASSUME NEW t \in Tasks, CallExport(t) PROVE MetasSee
  BY <1>1 DEF CallExport, EnterQueue, CreatesTask, MetasSee, TypeOK
<1>2. ASSUME NEW t \in Tasks, PrepareCall(t) PROVE MetasSee
  BY <1>2 DEF PrepareCall, CreatesTask, MetasSee, TypeOK
<1>3. ASSUME NEW t \in Tasks, StartResumed(t) PROVE MetasSee
  BY <1>3, LiveMoves DEF StartResumed, EnterQueue
<1>4. ASSUME NEW t \in Tasks, AwaitAgain(t) PROVE MetasSee
  BY <1>4, <1>0 DEF AwaitAgain
<1>5. ASSUME NEW t \in Tasks, EnterResumed(t) PROVE MetasSee
  BY <1>5, LiveMoves DEF EnterResumed
<1>6. ASSUME NEW t \in Tasks, BeginCall(t) PROVE MetasSee
  BY <1>6, LiveMoves DEF BeginCall
<1>7. ASSUME NEW t \in Tasks, SetBackpressure(t) PROVE MetasSee
  BY <1>7, <1>0 DEF SetBackpressure
<1>8. ASSUME NEW t \in Tasks, Trap(t) PROVE MetasSee
  BY <1>8, FailingMetas DEF Trap
<1>9. ASSUME NEW t \in Tasks, MarkCompleted(t) PROVE MetasSee
  BY <1>9, <1>0 DEF MarkCompleted
<1>10. ASSUME NEW t \in Tasks, HostEvent(t) PROVE MetasSee
  BY <1>10, <1>0 DEF HostEvent
<1>11. ASSUME NEW t \in Tasks, ReturnCode(t) PROVE MetasSee
  <2>1. PICK q \in {"retExit", "retYield", "retWait", "lost"} :
           pc' = [pc EXCEPT ![t] = q]
    BY <1>11 DEF ReturnCode, AfterReturn
  <2> QED
    BY <1>11, <2>1, LiveMoves DEF ReturnCode
<1>12. ASSUME NEW t \in Tasks, AsyncStartCall(t) PROVE MetasSee
  <2>1. PICK q \in {"queued", "preSuspended", "failedStart"} :
           pc' = [pc EXCEPT ![t] = q]
    BY <1>12 DEF AsyncStartCall, EnterQueue
  <2> QED
    BY <1>12, <2>1, LiveMoves DEF AsyncStartCall
<1>13. ASSUME NEW t \in Tasks, TakeSlot(t) PROVE MetasSee
  <2>1. PICK q \in {"entered", "enterSuspended", "lost"} : pc' = [pc EXCEPT ![t] = q]
    BY <1>13 DEF TakeSlot
  <2> QED
    BY <1>13, <2>1, LiveMoves DEF TakeSlot
<1>14. ASSUME NEW t \in Tasks, Unpark(t) PROVE MetasSee
  <2>1. CASE CallFails(t)
    BY <1>14, <2>1, FailingMetas DEF Unpark
  <2>2. CASE pc' = [pc EXCEPT ![t] = "running"] /\ UNCHANGED metaVars
    BY <1>14, <2>2, LiveMoves DEF Unpark
  <2> QED
    BY <1>14, <2>1, <2>2 DEF Unpark
<1>15. ASSUME NEW t \in Tasks, DriverExit(t) PROVE MetasSee
  <2>1. CASE Exit(t)
    BY <2>1 DEF Exit, ClearsTask, MetasSee
  <2>2. CASE DriverFails(t) /\ UNCHANGED taskMetas
    BY <1>15, <2>2, LiveMoves DEF DriverExit, DriverFails
  <2> QED
    BY <1>15, <2>1, <2>2 DEF DriverExit
<1>16. ASSUME NEW t \in Tasks, DriverBlock(t) PROVE MetasSee
  <2>1. PICK q \in {"drvYield", "drvWait", "drvResumed", "drvWoken", "lost"} :
           pc' = [pc EXCEPT ![t] = q]
    BY <1>16 DEF DriverBlock, DriverFails
  <2> QED
    BY <1>16, <2>1, LiveMoves DEF DriverBlock
<1>17. ASSUME NEW t \in Tasks, DriverResume(t) PROVE MetasSee
  <2>1. PICK q \in {"running", "lost"} : pc' = [pc EXCEPT ![t] = q]
    BY <1>17 DEF DriverResume, DriverFails
  <2> QED
    BY <1>17, <2>1, LiveMoves DEF DriverResume
<1>18. ASSUME NEW t \in Tasks, TaskReturn(t) PROVE MetasSee
  <2>1. CASE CallFails(t)
    BY <1>18, <2>1, FailingMetas DEF TaskReturn
  <2>2. CASE UNCHANGED <<pc, metaVars>>
    BY <2>2, <1>0
  <2> QED
    BY <1>18, <2>1, <2>2 DEF TaskReturn
<1>19. ASSUME NEW t \in Tasks, Yield(t) \/ WaitableSetWait(t) PROVE MetasSee
  <2>1. pc[t] \notin Ended
    BY <1>19 DEF Yield, WaitableSetWait
  <2>2. CASE CallFails(t)
    BY <2>1, <2>2, FailingMetas
  <2>3. CASE UNCHANGED metaVars /\ \E q : pc' = [pc EXCEPT ![t] = q]
    BY <2>1, <2>3, LiveMoves
  <2> QED
    BY <1>19, <2>2, <2>3 DEF Yield, WaitableSetWait, Block
<1>20. ASSUME NEW t \in Tasks, ReturnValue(t) PROVE MetasSee
  <2>1. CASE Exit(t)
    BY <2>1 DEF Exit, ClearsTask, MetasSee
  <2>2. CASE ExitThrows(t)
    BY <1>20, <2>2, LiveMoves DEF ReturnValue, ExitThrows
  <2>3. CASE ReturnFails(t)
    BY <1>20, <2>3, LiveMoves DEF ReturnValue, ReturnFails
  <2> QED
    BY <1>20, <2>1, <2>2, <2>3 DEF ReturnValue
<1>21. ASSUME Tick PROVE MetasSee
  <2>1. \A p \in Ended : \A k \in BOOLEAN : Resumed(p, k) = p
    BY DEF Resumed
  <2>2. \A t \in Tasks : pc[t] \in Ended => pc'[t] = pc[t]
    BY <1>21, <2>1 DEF Tick, TypeOK
  <2> QED
    BY <1>21, <2>2 DEF Tick, MetasKept, MetasSee
<1>22. ASSUME CallSyncExport PROVE MetasSee
  BY <1>22, <1>0 DEF CallSyncExport
<1>23. CASE UNCHANGED vars
  BY <1>23, <1>0 DEF vars
<1> QED
  BY <1>1, <1>2, <1>3, <1>4, <1>5, <1>6, <1>7, <1>8, <1>9, <1>10, <1>11, <1>12,
     <1>13, <1>14, <1>15, <1>16, <1>17, <1>18, <1>19, <1>20, <1>21, <1>22, <1>23
     DEF Next, Job, GuestStep, AllExited

(* What clearing a task leaves of the list: all but, perhaps, its last entry,  *)
(* which is then the entry of the task itself.                                 *)
LEMMA ClearedMetas ==
    ASSUME TypeOK, NEW t \in Tasks
    PROVE  LET s == ClearCurrentTask(t) IN
           /\ s \in Seq(Tasks)
           /\ \A i \in DOMAIN s : i \in DOMAIN taskMetas /\ s[i] = taskMetas[i]
           /\ \A i \in DOMAIN taskMetas : i \in DOMAIN s \/ taskMetas[i] = t
<1>1. taskMetas \in Seq(Tasks) /\ DOMAIN taskMetas = 1 .. Len(taskMetas)
      /\ Len(taskMetas) \in Nat
  BY DEF TypeOK
<1>2. CASE GetCurrentTask = t
  <2>1. taskMetas # <<>> /\ taskMetas[Len(taskMetas)] = t
    BY <1>2 DEF GetCurrentTask
  <2>2. Len(taskMetas) >= 1
    BY <1>1, <2>1, EmptySeq
  <2> DEFINE s == SubSeq(taskMetas, 1, Len(taskMetas) - 1)
  <2>3. ClearCurrentTask(t) = s
    BY <1>2 DEF ClearCurrentTask
  <2>4. /\ s \in Seq(Tasks) /\ Len(s) = Len(taskMetas) - 1
        /\ \A i \in 1 .. Len(taskMetas) - 1 : s[i] = taskMetas[i]
    BY <1>1, <2>2, SubSeqProperties
  <2>5. DOMAIN s = 1 .. Len(taskMetas) - 1
    BY <2>4
  <2> HIDE DEF s
  <2>6. \A i \in DOMAIN s : i \in DOMAIN taskMetas /\ s[i] = taskMetas[i]
    BY <1>1, <2>4, <2>5
  <2>7. \A i \in DOMAIN taskMetas : i \in DOMAIN s \/ taskMetas[i] = t
    BY <1>1, <2>1, <2>5
  <2> QED
    BY <2>3, <2>4, <2>6, <2>7
<1>3. CASE GetCurrentTask # t
  BY <1>1, <1>3 DEF ClearCurrentTask
<1> QED
  BY <1>2, <1>3

(* Each kind of step keeps the live tasks in the list. *)
LEMMA MetasStep ==
    ASSUME TypeOK, LiveTasksTracked, [Next]_vars
    PROVE  LiveTasksTracked'
<1>0. pc \in [Tasks -> PCs] /\ taskMetas \in Seq(Tasks)
  BY DEF TypeOK
<1>1. CASE MetasKept
  BY <1>0, <1>1 DEF MetasKept, Ended, LiveTasksTracked
<1>2. ASSUME NEW t \in Tasks, CreatesTask(t) PROVE LiveTasksTracked'
  <2>1. /\ Len(taskMetas) + 1 \in DOMAIN taskMetas'
        /\ taskMetas'[Len(taskMetas) + 1] = t
        /\ \A i \in DOMAIN taskMetas : i \in DOMAIN taskMetas' /\ taskMetas'[i] = taskMetas[i]
    BY <1>0, <1>2 DEF CreatesTask
  <2> QED
    BY <1>2, <2>1 DEF CreatesTask, LiveTasksTracked
<1>3. ASSUME NEW t \in Tasks, ClearsTask(t) PROVE LiveTasksTracked'
  <2>1. \A i \in DOMAIN taskMetas :
           (i \in DOMAIN taskMetas' /\ taskMetas'[i] = taskMetas[i]) \/ taskMetas[i] = t
    BY <1>3, ClearedMetas DEF ClearsTask
  <2>2. pc'[t] = "exited" /\ \A u \in Tasks : u # t => pc'[u] = pc[u]
    BY <1>0, <1>3 DEF ClearsTask
  <2> QED
    BY <2>1, <2>2 DEF LiveTasksTracked
<1> QED
  BY <1>1, <1>2, <1>3, MetasView DEF MetasSee

(* getCurrentTask() can find every task between its creation and its exit,     *)
(* although exit() of a task that is not the latest leaves its entry behind    *)
(* and a later exit() looks at the last entry only.                            *)
THEOREM TasksStayTracked == Spec => []LiveTasksTracked
<1>1. Init => LiveTasksTracked
  BY DEF Init, LiveTasksTracked
<1>2. TypeOK /\ LiveTasksTracked /\ [Next]_vars => LiveTasksTracked'
  BY MetasStep
<1> QED
  BY <1>1, <1>2, TypeCorrect, PTL DEF Spec

-----------------------------------------------------------------------------
(* Instances that only the host calls.  A guest-to-guest call makes its task   *)
(* the current one while another runs (the run TasksCurrent), and so does a    *)
(* synchronous export (CallSyncExport clears it): without both, the task meta  *)
(* the wrapper sets stays right until its wasm function returns.               *)

HostOnly == SyncExports = FALSE /\ \A t \in Tasks : HostCalled(t)

(* Which program counters are in wasm. *)
LEMMA WasmSides ==
    /\ InWasm \subseteq InSlot
    /\ "running" \in InWasm /\ "unparked" \in InWasm /\ "unparkedWait" \in InWasm
    /\ "parkedYield" \in InWasm /\ "parkedWait" \in InWasm
    /\ \A q \in {"idle", "prepared", "preSuspended", "preResumed", "queued", "exited",
                 "failedStart", "enterSuspended", "enterResumed", "entered", "lost",
                 "failedReturn",
                 "retExit", "retYield", "retWait", "drvYield", "drvWait",
                 "drvResumed", "drvWoken"} : q \notin InWasm
BY DEF InWasm, InSlot, Parked

(* A step that sets no meta and brings no task into wasm. *)
LEMMA MetaKept ==
    ASSUME TypeOK, CurrentTaskIsRunning, NEW t \in Tasks, NEW q,
           q \in InWasm => pc[t] \in InWasm,
           pc' = [pc EXCEPT ![t] = q], UNCHANGED currentTaskMeta
    PROVE  CurrentTaskIsRunning'
BY DEF TypeOK, CurrentTaskIsRunning

(* A step of the holder of the slot that leaves wasm, or sets its own meta. *)
LEMMA HolderSetsMeta ==
    ASSUME TypeOK, OneTaskInSlot, NEW t \in Tasks, pc[t] \in InSlot, NEW q,
           pc' = [pc EXCEPT ![t] = q], q \in InWasm => currentTaskMeta' = t
    PROVE  CurrentTaskIsRunning'
<1>1. \A u \in Tasks : u # t => pc[u] \notin InWasm
  BY WasmSides DEF OneTaskInSlot
<1> QED
  BY <1>1 DEF TypeOK, CurrentTaskIsRunning

(* An error that leaves wasm. *)
LEMMA FailingMeta ==
    ASSUME TypeOK, OneTaskInSlot, NEW t \in Tasks, pc[t] \in InSlot, CallFails(t)
    PROVE  CurrentTaskIsRunning'
<1>1. PICK q \in {"exited", "lost"} : pc' = [pc EXCEPT ![t] = q]
  BY DEF CallFails, Exit, ExitThrows
<1> QED
  BY <1>1, HolderSetsMeta, WasmSides

(* Each action keeps the current task right. *)
LEMMA CurrentStep ==
    ASSUME HostOnly, TypeOK, OneTaskInSlot, CurrentTaskIsRunning, [Next]_vars
    PROVE  CurrentTaskIsRunning'
<1> USE DEF metaVars
<1>0. ASSUME UNCHANGED <<pc, currentTaskMeta>> PROVE CurrentTaskIsRunning'
  BY <1>0 DEF CurrentTaskIsRunning
<1>1. ASSUME NEW t \in Tasks, CallExport(t) PROVE CurrentTaskIsRunning'
  BY <1>1, MetaKept, WasmSides DEF CallExport, EnterQueue
<1>2. ASSUME NEW t \in Tasks, PrepareCall(t) PROVE CurrentTaskIsRunning'
  BY <1>2 DEF PrepareCall, HostOnly
<1>3. ASSUME NEW t \in Tasks, StartResumed(t) PROVE CurrentTaskIsRunning'
  BY <1>3, MetaKept, WasmSides DEF StartResumed, EnterQueue
<1>4. ASSUME NEW t \in Tasks, AwaitAgain(t) PROVE CurrentTaskIsRunning'
  BY <1>4, <1>0 DEF AwaitAgain
<1>5. ASSUME NEW t \in Tasks, EnterResumed(t) PROVE CurrentTaskIsRunning'
  BY <1>5, MetaKept, WasmSides DEF EnterResumed
<1>6. ASSUME NEW t \in Tasks, BeginCall(t) PROVE CurrentTaskIsRunning'
  BY <1>6, HolderSetsMeta, Sides DEF BeginCall, SetCurrentTaskMeta
<1>7. ASSUME NEW t \in Tasks, SetBackpressure(t) PROVE CurrentTaskIsRunning'
  BY <1>7, <1>0 DEF SetBackpressure
<1>8. ASSUME NEW t \in Tasks, Trap(t) PROVE CurrentTaskIsRunning'
  BY <1>8, FailingMeta, Sides DEF Trap
<1>9. ASSUME NEW t \in Tasks, MarkCompleted(t) PROVE CurrentTaskIsRunning'
  BY <1>9, <1>0 DEF MarkCompleted
<1>10. ASSUME NEW t \in Tasks, HostEvent(t) PROVE CurrentTaskIsRunning'
  BY <1>10, <1>0 DEF HostEvent
<1>11. ASSUME NEW t \in Tasks, ReturnCode(t) PROVE CurrentTaskIsRunning'
  <2>1. PICK q \in {"retExit", "retYield", "retWait", "lost"} :
           pc' = [pc EXCEPT ![t] = q]
    BY <1>11 DEF ReturnCode, AfterReturn
  <2> QED
    BY <1>11, <2>1, HolderSetsMeta, WasmSides, Sides DEF ReturnCode
<1>12. ASSUME NEW t \in Tasks, AsyncStartCall(t) PROVE CurrentTaskIsRunning'
  <2>1. PICK q \in {"queued", "preSuspended", "failedStart"} :
           pc' = [pc EXCEPT ![t] = q]
    BY <1>12 DEF AsyncStartCall, EnterQueue
  <2> QED
    BY <1>12, <2>1, MetaKept, WasmSides DEF AsyncStartCall
<1>13. ASSUME NEW t \in Tasks, TakeSlot(t) PROVE CurrentTaskIsRunning'
  <2>1. PICK q \in {"entered", "enterSuspended", "lost"} : pc' = [pc EXCEPT ![t] = q]
    BY <1>13 DEF TakeSlot
  <2> QED
    BY <1>13, <2>1, MetaKept, WasmSides DEF TakeSlot
<1>14. ASSUME NEW t \in Tasks, Unpark(t) PROVE CurrentTaskIsRunning'
  <2>1. pc[t] \in InSlot /\ pc[t] \in InWasm
    BY <1>14, Sides, WasmSides DEF Unpark
  <2>2. CASE CallFails(t)
    BY <2>1, <2>2, FailingMeta
  <2>3. CASE pc' = [pc EXCEPT ![t] = "running"] /\ UNCHANGED metaVars
    BY <2>1, <2>3, MetaKept
  <2> QED
    BY <1>14, <2>2, <2>3 DEF Unpark
<1>15. ASSUME NEW t \in Tasks, DriverExit(t) PROVE CurrentTaskIsRunning'
  <2>1. PICK q \in {"exited", "lost"} : pc' = [pc EXCEPT ![t] = q]
    BY <1>15 DEF DriverExit, Exit, DriverFails
  <2> QED
    BY <1>15, <2>1, MetaKept, WasmSides DEF DriverExit
<1>16. ASSUME NEW t \in Tasks, DriverBlock(t) PROVE CurrentTaskIsRunning'
  <2>1. PICK q \in {"drvYield", "drvWait", "drvResumed", "drvWoken", "lost"} :
           pc' = [pc EXCEPT ![t] = q]
    BY <1>16 DEF DriverBlock, DriverFails
  <2> QED
    BY <1>16, <2>1, MetaKept, WasmSides DEF DriverBlock
<1>17. ASSUME NEW t \in Tasks, DriverResume(t) PROVE CurrentTaskIsRunning'
  <2>0. pc[t] \in InSlot
    BY <1>17, Sides DEF DriverResume
  <2>1. CASE pc' = [pc EXCEPT ![t] = "running"] /\ SetCurrentTaskMeta(t)
    BY <2>0, <2>1, HolderSetsMeta DEF SetCurrentTaskMeta
  <2>2. CASE pc' = [pc EXCEPT ![t] = "lost"]
    BY <2>0, <2>2, HolderSetsMeta, WasmSides
  <2> QED
    BY <1>17, <2>1, <2>2 DEF DriverResume, DriverFails
<1>18. ASSUME NEW t \in Tasks, TaskReturn(t) PROVE CurrentTaskIsRunning'
  <2>1. CASE CallFails(t)
    BY <1>18, <2>1, FailingMeta, Sides DEF TaskReturn
  <2>2. CASE UNCHANGED <<pc, metaVars>>
    BY <2>2, <1>0
  <2> QED
    BY <1>18, <2>1, <2>2 DEF TaskReturn
<1>19. ASSUME NEW t \in Tasks, Yield(t) \/ WaitableSetWait(t) PROVE CurrentTaskIsRunning'
  <2>1. pc[t] \in InSlot /\ pc[t] \in InWasm
    BY <1>19, Sides, WasmSides DEF Yield, WaitableSetWait
  <2>2. CASE CallFails(t)
    BY <2>1, <2>2, FailingMeta
  <2>3. CASE UNCHANGED metaVars /\ \E q : pc' = [pc EXCEPT ![t] = q]
    BY <2>1, <2>3, MetaKept
  <2> QED
    BY <1>19, <2>2, <2>3 DEF Yield, WaitableSetWait, Block
<1>20. ASSUME NEW t \in Tasks, ReturnValue(t) PROVE CurrentTaskIsRunning'
  <2>1. PICK q \in {"exited", "lost", "failedReturn"} : pc' = [pc EXCEPT ![t] = q]
    BY <1>20 DEF ReturnValue, Exit, ExitThrows, ReturnFails
  <2> QED
    BY <1>20, <2>1, HolderSetsMeta, WasmSides, Sides DEF ReturnValue
<1>21. ASSUME Tick PROVE CurrentTaskIsRunning'
  <2>1. \A p \in PCs : \A k \in BOOLEAN : Resumed(p, k) \in InWasm => p \in InWasm
    BY DEF Resumed, InWasm, Parked
  <2>2. \A t \in Tasks : pc'[t] \in InWasm => pc[t] \in InWasm
    BY <1>21, <2>1 DEF Tick, TypeOK
  <2> QED
    BY <1>21, <2>2 DEF Tick, CurrentTaskIsRunning
<1>22. CASE UNCHANGED vars
  BY <1>22, <1>0 DEF vars
<1> QED
  BY <1>1, <1>2, <1>3, <1>4, <1>5, <1>6, <1>7, <1>8, <1>9, <1>10, <1>11, <1>12,
     <1>13, <1>14, <1>15, <1>16, <1>17, <1>18, <1>19, <1>20, <1>21, <1>22
     DEF Next, Job, GuestStep, AllExited, CallSyncExport, HostOnly

(* In an instance that only the host calls, the current task is the one whose  *)
(* callee or callback is on the stack, also after it was parked while others   *)
(* were called.                                                                *)
THEOREM CurrentTaskRight == HostOnly => (Spec => []CurrentTaskIsRunning)
<1> SUFFICES ASSUME HostOnly PROVE Spec => []CurrentTaskIsRunning
  OBVIOUS
<1>1. Init => CurrentTaskIsRunning
  BY WasmSides DEF Init, CurrentTaskIsRunning
<1>2. TypeOK /\ OneTaskInSlot /\ CurrentTaskIsRunning /\ [Next]_vars
         => CurrentTaskIsRunning'
  BY CurrentStep
<1> QED
  BY <1>1, <1>2, TypeCorrect, MutualExclusion, PTL DEF Spec

(* Each action keeps the results with the tasks whose code returned them. *)
LEMMA ResolvedStep ==
    ASSUME TypeOK, CurrentTaskIsRunning, ResolvedBySelf, [Next]_vars
    PROVE  ResolvedBySelf'
<1> USE DEF resVars
<1>0. ASSUME UNCHANGED resolvedBy PROVE ResolvedBySelf'
  BY <1>0 DEF ResolvedBySelf
<1>1. ASSUME NEW t \in Tasks, CallFails(t) PROVE UNCHANGED resolvedBy
  BY <1>1 DEF CallFails, Reject
<1>2. ASSUME NEW t \in Tasks, TaskReturn(t) PROVE ResolvedBySelf'
  <2>1. CASE CallFails(t)
    BY <2>1, <1>0, <1>1
  <2>2. CASE /\ TaskReturnTarget # NoTask
             /\ resolvedBy' = [resolvedBy EXCEPT ![TaskReturnTarget] = t]
    <3>1. TaskReturnTarget = t
      BY <1>2, WasmSides DEF TaskReturn, TaskReturnTarget, CurrentTaskIsRunning
    <3> QED
      BY <2>2, <3>1 DEF TypeOK, ResolvedBySelf
  <2> QED
    BY <1>2, <2>1, <2>2 DEF TaskReturn
<1>3. ASSUME NEW t \in Tasks, ReturnValue(t) PROVE ResolvedBySelf'
  BY <1>3 DEF ReturnValue, ResolvedBySelf, TypeOK
<1>4. ASSUME NEW t \in Tasks,
             \/ CallExport(t) \/ PrepareCall(t) \/ AsyncStartCall(t) \/ StartResumed(t)
             \/ AwaitAgain(t) \/ TakeSlot(t) \/ EnterResumed(t) \/ BeginCall(t)
             \/ SetBackpressure(t) \/ ReturnCode(t) \/ MarkCompleted(t) \/ HostEvent(t)
      PROVE  ResolvedBySelf'
  BY <1>4, <1>0 DEF CallExport, PrepareCall, AsyncStartCall, StartResumed, AwaitAgain,
     TakeSlot, EnterResumed, BeginCall, SetBackpressure, ReturnCode, MarkCompleted,
     HostEvent
<1>5. ASSUME NEW t \in Tasks, DriverExit(t) \/ DriverBlock(t) \/ DriverResume(t)
      PROVE  ResolvedBySelf'
  BY <1>5, <1>0 DEF DriverExit, DriverBlock, DriverResume, DriverFails, Reject
<1>6. ASSUME NEW t \in Tasks, Yield(t) \/ WaitableSetWait(t) \/ Unpark(t) \/ Trap(t)
      PROVE  ResolvedBySelf'
  BY <1>6, <1>0, <1>1 DEF Yield, WaitableSetWait, Unpark, Trap, Block
<1>7. CASE Tick \/ CallSyncExport \/ UNCHANGED vars
  BY <1>7, <1>0 DEF Tick, CallSyncExport, vars
<1> QED
  BY <1>2, <1>3, <1>4, <1>5, <1>6, <1>7 DEF Next, Job, GuestStep, AllExited

(* No caller of the host gets the result of another call: task.return, which   *)
(* resolves whatever task is the current one, resolves the task that called it. *)
THEOREM ResultsStayHome == HostOnly => (Spec => []ResolvedBySelf)
<1> SUFFICES ASSUME HostOnly PROVE Spec => []ResolvedBySelf
  OBVIOUS
<1>1. Init => ResolvedBySelf
  BY DEF Init, ResolvedBySelf
<1>2. TypeOK /\ CurrentTaskIsRunning /\ ResolvedBySelf /\ [Next]_vars => ResolvedBySelf'
  BY ResolvedStep
<1> QED
  BY <1>1, <1>2, TypeCorrect, CurrentTaskRight, PTL DEF Spec

(* Exports wrapped as async.  They never have a callback, are resolved only    *)
(* when they return, and leave by exit() unless their return failed.           *)
Left == {"exited", "failedReturn"}

ManualInv ==
    \A t \in Tasks : Kind[t] = "manual" =>
        /\ phase[t] = "callee"
        /\ pc[t] \notin {"retExit", "retYield", "retWait", "drvYield", "drvWait",
                         "drvResumed", "drvWoken", "lost"}
        /\ resolved[t] => pc[t] \in Left

(* A step of a task that resolves nothing. *)
LEMMA ManualMoves ==
    ASSUME TypeOK, ManualInv, NEW t \in Tasks, pc[t] \notin Left, NEW q,
           Kind[t] = "manual" =>
              q \notin {"retExit", "retYield", "retWait", "drvYield", "drvWait",
                        "drvResumed", "drvWoken", "lost"},
           pc' = [pc EXCEPT ![t] = q], UNCHANGED <<phase, resolved>>
    PROVE  ManualInv'
BY DEF TypeOK, ManualInv, Left

(* A step that resolves or rejects its own task and moves it. *)
LEMMA ManualEnds ==
    ASSUME TypeOK, ManualInv, NEW t \in Tasks, NEW q,
           Kind[t] = "manual" => q \in Left,
           pc' = [pc EXCEPT ![t] = q], UNCHANGED phase,
           \A u \in Tasks : u # t => resolved'[u] = resolved[u]
    PROVE  ManualInv'
BY DEF TypeOK, ManualInv, Left

(* An error that leaves wasm: exit() finds the lock held. *)
LEMMA ManualFails ==
    ASSUME HostOnly, TypeOK, LockHeldInWasm, ManualInv, NEW t \in Tasks,
           pc[t] \in InWasm, CallFails(t), UNCHANGED phase
    PROVE  ManualInv'
<1>1. \A u \in Tasks : u # t => resolved'[u] = resolved[u]
  BY DEF CallFails, Reject, resVars, TypeOK
<1>2. CASE Kind[t] = "manual"
  <2>1. phase[t] = "callee" /\ locked
    BY <1>2 DEF ManualInv, LockHeldInWasm, needsExclusiveLock
  <2>2. pc' = [pc EXCEPT ![t] = "exited"]
    BY <1>2, <2>1 DEF CallFails, Exit, HostOnly
  <2> QED
    BY <1>1, <1>2, <2>2, ManualEnds DEF Left
<1>3. CASE Kind[t] # "manual"
  <2>1. PICK q \in {"exited", "lost"} : pc' = [pc EXCEPT ![t] = q]
    BY DEF CallFails, Exit, ExitThrows
  <2> QED
    BY <1>1, <1>3, <2>1, ManualEnds
<1> QED
  BY <1>2, <1>3

(* Each action keeps the invariant of the exports wrapped as async. *)
LEMMA ManualStep ==
    ASSUME HostOnly, TypeOK, LockHeldInWasm, CurrentTaskIsRunning, ManualInv, [Next]_vars
    PROVE  ManualInv'
<1> USE DEF resVars, Left
<1>0. ASSUME UNCHANGED <<pc, phase, resolved>> PROVE ManualInv'
  BY <1>0 DEF ManualInv
<1>1. ASSUME NEW t \in Tasks, CallExport(t) PROVE ManualInv'
  BY <1>1, ManualMoves DEF CallExport, EnterQueue
<1>2. ASSUME NEW t \in Tasks, PrepareCall(t) PROVE ManualInv'
  BY <1>2, ManualMoves DEF PrepareCall
<1>3. ASSUME NEW t \in Tasks, StartResumed(t) PROVE ManualInv'
  BY <1>3, ManualMoves DEF StartResumed, EnterQueue
<1>4. ASSUME NEW t \in Tasks, AwaitAgain(t) \/ SetBackpressure(t) \/ MarkCompleted(t)
                              \/ HostEvent(t)
      PROVE  ManualInv'
  BY <1>4, <1>0 DEF AwaitAgain, SetBackpressure, MarkCompleted, HostEvent
<1>5. ASSUME NEW t \in Tasks, EnterResumed(t) PROVE ManualInv'
  BY <1>5, ManualMoves DEF EnterResumed
<1>6. ASSUME NEW t \in Tasks, BeginCall(t) PROVE ManualInv'
  BY <1>6 DEF BeginCall, TypeOK, ManualInv
<1>8. ASSUME NEW t \in Tasks, Trap(t) PROVE ManualInv'
  BY <1>8, ManualFails, WasmSides DEF Trap
<1>11. ASSUME NEW t \in Tasks, ReturnCode(t) PROVE ManualInv'
  <2>1. PICK q : pc' = [pc EXCEPT ![t] = q]
    BY <1>11 DEF ReturnCode
  <2>2. Kind[t] # "manual" /\ pc[t] \notin Left
    BY <1>11 DEF ReturnCode, hasCallback
  <2>3. UNCHANGED <<phase, resolved>>
    BY <1>11 DEF ReturnCode
  <2> QED
    BY <2>1, <2>2, <2>3, ManualMoves
<1>12. ASSUME NEW t \in Tasks, AsyncStartCall(t) PROVE ManualInv'
  <2>1. PICK q \in {"queued", "preSuspended", "failedStart"} :
           pc' = [pc EXCEPT ![t] = q]
    BY <1>12 DEF AsyncStartCall, EnterQueue
  <2> QED
    BY <1>12, <2>1, ManualMoves DEF AsyncStartCall
<1>13. ASSUME NEW t \in Tasks, TakeSlot(t) PROVE ManualInv'
  <2>1. PICK q : /\ pc' = [pc EXCEPT ![t] = q]
                 /\ Kind[t] = "manual" => q = "entered"
    BY <1>13 DEF TakeSlot
  <2> QED
    BY <1>13, <2>1, ManualMoves DEF TakeSlot
<1>14. ASSUME NEW t \in Tasks, Unpark(t) PROVE ManualInv'
  <2>1. CASE CallFails(t)
    BY <1>14, <2>1, ManualFails, WasmSides DEF Unpark
  <2>2. CASE pc' = [pc EXCEPT ![t] = "running"] /\ UNCHANGED resVars
    BY <1>14, <2>2, ManualMoves DEF Unpark
  <2> QED
    BY <1>14, <2>1, <2>2 DEF Unpark
<1>15. ASSUME NEW t \in Tasks, DriverExit(t) \/ DriverBlock(t) PROVE ManualInv'
  <2>1. Kind[t] # "manual"
    BY <1>15 DEF DriverExit, DriverBlock, ManualInv
  <2>2. \A u \in Tasks : u # t => resolved'[u] = resolved[u]
    BY <1>15 DEF DriverExit, DriverBlock, DriverFails, Reject, TypeOK
  <2>3. PICK q : pc' = [pc EXCEPT ![t] = q]
    BY <1>15 DEF DriverExit, DriverBlock, DriverFails, Exit
  <2>4. UNCHANGED phase
    BY <1>15 DEF DriverExit, DriverBlock
  <2> QED
    BY <2>1, <2>2, <2>3, <2>4, ManualEnds
<1>17. ASSUME NEW t \in Tasks, DriverResume(t) PROVE ManualInv'
  <2>1. Kind[t] # "manual"
    BY <1>17 DEF DriverResume, ManualInv
  <2>2. \A u \in Tasks : u # t => resolved'[u] = resolved[u] /\ phase'[u] = phase[u]
    BY <1>17 DEF DriverResume, DriverFails, Reject, TypeOK
  <2>3. PICK q : pc' = [pc EXCEPT ![t] = q]
    BY <1>17 DEF DriverResume, DriverFails
  <2> QED
    BY <2>1, <2>2, <2>3 DEF TypeOK, ManualInv
<1>18. ASSUME NEW t \in Tasks, TaskReturn(t) PROVE ManualInv'
  <2>1. CASE CallFails(t)
    BY <1>18, <2>1, ManualFails, WasmSides DEF TaskReturn
  <2>2. CASE /\ TaskReturnTarget # NoTask
             /\ resolved' = [resolved EXCEPT ![TaskReturnTarget] = TRUE]
             /\ UNCHANGED pc
    <3>1. TaskReturnTarget = t /\ Kind[t] # "manual" /\ UNCHANGED phase
      BY <1>18, WasmSides DEF TaskReturn, TaskReturnTarget, CurrentTaskIsRunning,
         hasCallback
    <3> QED
      BY <2>2, <3>1 DEF TypeOK, ManualInv
  <2> QED
    BY <1>18, <2>1, <2>2 DEF TaskReturn
<1>19. ASSUME NEW t \in Tasks, Yield(t) \/ WaitableSetWait(t) PROVE ManualInv'
  <2>1. pc[t] \in InWasm /\ pc[t] \notin Left /\ UNCHANGED phase
    BY <1>19, WasmSides DEF Yield, WaitableSetWait
  <2>2. CASE CallFails(t)
    BY <2>1, <2>2, ManualFails
  <2>3. CASE UNCHANGED resVars /\ \E q \in {"parkedYield", "parkedWait", "unparked",
                "unparkedWait"} : pc' = [pc EXCEPT ![t] = q]
    BY <2>1, <2>3, ManualMoves
  <2> QED
    BY <1>19, <2>2, <2>3 DEF Yield, WaitableSetWait, Block
<1>20. ASSUME NEW t \in Tasks, ReturnValue(t) PROVE ManualInv'
  <2>0. /\ \A u \in Tasks : u # t => resolved'[u] = resolved[u]
        /\ UNCHANGED phase
    BY <1>20 DEF ReturnValue, TypeOK
  <2>1. CASE Kind[t] = "manual"
    <3>1. ~resolved[t] /\ locked
      BY <1>20, <2>1, WasmSides DEF ReturnValue, ManualInv, LockHeldInWasm,
         needsExclusiveLock
    <3>2. PICK q \in Left : pc' = [pc EXCEPT ![t] = q]
      BY <1>20, <2>1, <3>1 DEF ReturnValue, Exit, ReturnFails
    <3> QED
      BY <2>0, <2>1, <3>2, ManualEnds
  <2>2. CASE Kind[t] # "manual"
    <3>1. PICK q : pc' = [pc EXCEPT ![t] = q]
      BY <1>20 DEF ReturnValue, Exit, ExitThrows, ReturnFails
    <3> QED
      BY <2>0, <2>2, <3>1, ManualEnds
  <2> QED
    BY <2>1, <2>2
<1>21. ASSUME Tick PROVE ManualInv'
  <2>1. \A p \in PCs : \A k \in BOOLEAN :
           /\ p \in Left => Resumed(p, k) = p
           /\ p \notin {"retExit", "retYield", "retWait", "drvYield", "drvWait",
                        "drvResumed", "drvWoken", "lost"} =>
              Resumed(p, k) \notin {"retExit", "retYield", "retWait", "drvYield",
                        "drvWait", "drvResumed", "drvWoken", "lost"}
    BY DEF Resumed
  <2>2. \A t \in Tasks : \/ pc'[t] = pc[t]
                         \/ \E k \in BOOLEAN : pc'[t] = Resumed(pc[t], k)
    BY <1>21 DEF Tick, TypeOK
  <2>3. UNCHANGED <<phase, resolved>>
    BY <1>21 DEF Tick
  <2> QED
    BY <2>1, <2>2, <2>3 DEF ManualInv, TypeOK
<1>22. CASE UNCHANGED vars
  BY <1>22, <1>0 DEF vars
<1> QED
  BY <1>1, <1>2, <1>3, <1>4, <1>5, <1>6, <1>8, <1>11, <1>12,
     <1>13, <1>14, <1>15, <1>17, <1>18, <1>19, <1>20, <1>21, <1>22
     DEF Next, Job, GuestStep, AllExited, CallSyncExport, HostOnly

(* In an instance that only the host calls, asynchronously, exit() of an export *)
(* wrapped as async never throws: whenever it is called, after the return or   *)
(* after a trap, it finds the exclusive lock held and the task resolved only by *)
(* its own wrapper.                                                            *)
THEOREM ManualExitsSucceed == HostOnly => (Spec => []ManualExitSucceeds)
<1> SUFFICES ASSUME HostOnly PROVE Spec => []ManualExitSucceeds
  OBVIOUS
<1>1. Init => ManualInv
  BY DEF Init, ManualInv
<1>2. TypeOK /\ LockHeldInWasm /\ CurrentTaskIsRunning /\ ManualInv /\ [Next]_vars
         => ManualInv'
  BY ManualStep
<1>3. ManualInv => ManualExitSucceeds
  BY DEF ManualInv, ManualExitSucceeds
<1>4. SyncExports = FALSE
  BY DEF HostOnly
<1> QED
  BY <1>1, <1>2, <1>3, <1>4, TypeCorrect, LockHeld, CurrentTaskRight, PTL DEF Spec

-----------------------------------------------------------------------------
(* Rejected tasks.  A task is rejected by its own step, which ends it.         *)

Gone == {"exited", "lost", "failedReturn"}

RejectedGone == \A t \in Tasks : rejected[t] => pc[t] \in Gone

NobodyRejected ==
    /\ UNCHANGED rejected
    /\ \A u \in Tasks : pc[u] \in Gone => pc'[u] = pc[u]

RejectsSelf(t) ==
    /\ pc[t] \in InSlot /\ pc[t] \notin Suspended
    /\ UNCHANGED suspVars
    /\ \E q \in Gone : pc' = [pc EXCEPT ![t] = q]
    /\ \A u \in Tasks : u # t => rejected'[u] = rejected[u]

RejectionSees == NobodyRejected \/ \E t \in Tasks : RejectsSelf(t)

(* A task that is not gone moves on. *)
LEMMA UnrejectedMoves ==
    ASSUME TypeOK, NEW t \in Tasks, pc[t] \notin Gone, NEW q,
           pc' = [pc EXCEPT ![t] = q], UNCHANGED rejected
    PROVE  RejectionSees
BY DEF TypeOK, NobodyRejected, RejectionSees

(* A step that ends its own task. *)
LEMMA EndsRejected ==
    ASSUME TypeOK, NEW t \in Tasks, pc[t] \in InSlot, pc[t] \notin Suspended,
           UNCHANGED suspVars, NEW q \in Gone, pc' = [pc EXCEPT ![t] = q],
           Reject(t) \/ UNCHANGED rejected
    PROVE  RejectionSees
<1>1. \A u \in Tasks : u # t => rejected'[u] = rejected[u]
  BY DEF Reject, TypeOK
<1> QED
  BY <1>1 DEF RejectsSelf, RejectionSees

(* An error that leaves wasm. *)
LEMMA FailingRejects ==
    ASSUME TypeOK, NEW t \in Tasks, pc[t] \in InSlot, pc[t] \notin Suspended,
           CallFails(t), UNCHANGED suspVars
    PROVE  RejectionSees
<1>1. PICK q \in Gone : pc' = [pc EXCEPT ![t] = q]
  BY DEF CallFails, Exit, ExitThrows, Gone
<1>2. Reject(t) \/ UNCHANGED rejected
  BY DEF CallFails, resVars
<1> QED
  BY <1>1, <1>2, EndsRejected

(* Every step rejects nobody, or its own task. *)
LEMMA RejectionView ==
    ASSUME TypeOK, [Next]_vars
    PROVE  RejectionSees
<1> USE DEF resVars
<1>0. ASSUME UNCHANGED <<pc, rejected>> PROVE RejectionSees
  BY <1>0 DEF NobodyRejected, RejectionSees
<1>1. ASSUME NEW t \in Tasks, CallExport(t) PROVE RejectionSees
  BY <1>1, UnrejectedMoves DEF CallExport, EnterQueue, Gone
<1>2. ASSUME NEW t \in Tasks, PrepareCall(t) PROVE RejectionSees
  BY <1>2, UnrejectedMoves DEF PrepareCall, Gone
<1>3. ASSUME NEW t \in Tasks, StartResumed(t) PROVE RejectionSees
  BY <1>3, UnrejectedMoves DEF StartResumed, EnterQueue, Gone
<1>4. ASSUME NEW t \in Tasks, AwaitAgain(t) \/ SetBackpressure(t) \/ MarkCompleted(t)
                              \/ HostEvent(t)
      PROVE  RejectionSees
  BY <1>4, <1>0 DEF AwaitAgain, SetBackpressure, MarkCompleted, HostEvent
<1>5. ASSUME NEW t \in Tasks, EnterResumed(t) PROVE RejectionSees
  BY <1>5, UnrejectedMoves DEF EnterResumed, Gone
<1>6. ASSUME NEW t \in Tasks, BeginCall(t) PROVE RejectionSees
  BY <1>6, UnrejectedMoves DEF BeginCall, Gone
<1>7. ASSUME NEW t \in Tasks, Trap(t) PROVE RejectionSees
  BY <1>7, FailingRejects, Sides, Sleeping DEF Trap
<1>8. ASSUME NEW t \in Tasks, ReturnCode(t) PROVE RejectionSees
  <2>1. PICK q : pc' = [pc EXCEPT ![t] = q]
    BY <1>8 DEF ReturnCode
  <2> QED
    BY <1>8, <2>1, UnrejectedMoves DEF ReturnCode, Gone
<1>9. ASSUME NEW t \in Tasks, AsyncStartCall(t) PROVE RejectionSees
  <2>1. PICK q : pc' = [pc EXCEPT ![t] = q]
    BY <1>9 DEF AsyncStartCall, EnterQueue
  <2> QED
    BY <1>9, <2>1, UnrejectedMoves DEF AsyncStartCall, Gone
<1>10. ASSUME NEW t \in Tasks, TakeSlot(t) PROVE RejectionSees
  <2>1. PICK q : pc' = [pc EXCEPT ![t] = q]
    BY <1>10 DEF TakeSlot
  <2> QED
    BY <1>10, <2>1, UnrejectedMoves DEF TakeSlot, Gone
<1>11. ASSUME NEW t \in Tasks, Unpark(t) PROVE RejectionSees
  <2>1. CASE CallFails(t)
    BY <1>11, <2>1, FailingRejects, Sides, Sleeping DEF Unpark
  <2>2. CASE pc' = [pc EXCEPT ![t] = "running"] /\ UNCHANGED resVars
    BY <1>11, <2>2, UnrejectedMoves DEF Unpark, Gone
  <2> QED
    BY <1>11, <2>1, <2>2 DEF Unpark
<1>12. ASSUME NEW t \in Tasks, DriverExit(t) PROVE RejectionSees
  <2>1. PICK q \in Gone : pc' = [pc EXCEPT ![t] = q]
    BY <1>12 DEF DriverExit, Exit, DriverFails, Gone
  <2> QED
    BY <1>12, <2>1, EndsRejected, Sides, Sleeping DEF DriverExit, DriverFails
<1>13. ASSUME NEW t \in Tasks, DriverBlock(t) PROVE RejectionSees
  <2>1. pc[t] \in InSlot /\ pc[t] \notin Suspended /\ pc[t] \notin Gone
    BY <1>13, Sides, Sleeping DEF DriverBlock, Gone
  <2>2. CASE DriverFails(t) /\ UNCHANGED suspVars
    BY <2>1, <2>2, EndsRejected DEF DriverFails, Gone
  <2>3. CASE UNCHANGED resVars /\ \E q : pc' = [pc EXCEPT ![t] = q]
    BY <2>1, <2>3, UnrejectedMoves
  <2> QED
    BY <1>13, <2>2, <2>3 DEF DriverBlock
<1>14. ASSUME NEW t \in Tasks, DriverResume(t) PROVE RejectionSees
  <2>1. pc[t] \in InSlot /\ pc[t] \notin Suspended /\ pc[t] \notin Gone
        /\ UNCHANGED suspVars
    BY <1>14, Sides, Sleeping DEF DriverResume, Gone
  <2>2. CASE DriverFails(t)
    BY <2>1, <2>2, EndsRejected DEF DriverFails, Gone
  <2>3. CASE UNCHANGED resVars /\ \E q : pc' = [pc EXCEPT ![t] = q]
    BY <2>1, <2>3, UnrejectedMoves
  <2> QED
    BY <1>14, <2>2, <2>3 DEF DriverResume
<1>15. ASSUME NEW t \in Tasks, TaskReturn(t) PROVE RejectionSees
  <2>1. CASE CallFails(t)
    BY <1>15, <2>1, FailingRejects, Sides, Sleeping DEF TaskReturn
  <2>2. CASE UNCHANGED <<pc, rejected>>
    BY <2>2, <1>0
  <2> QED
    BY <1>15, <2>1, <2>2 DEF TaskReturn
<1>16. ASSUME NEW t \in Tasks, Yield(t) \/ WaitableSetWait(t) PROVE RejectionSees
  <2>1. pc[t] \in InSlot /\ pc[t] \notin Suspended /\ pc[t] \notin Gone
    BY <1>16, Sides, Sleeping DEF Yield, WaitableSetWait, Gone
  <2>2. CASE CallFails(t) /\ UNCHANGED suspVars
    BY <2>1, <2>2, FailingRejects
  <2>3. CASE UNCHANGED resVars /\ \E q : pc' = [pc EXCEPT ![t] = q]
    BY <2>1, <2>3, UnrejectedMoves
  <2> QED
    BY <1>16, <2>2, <2>3 DEF Yield, WaitableSetWait, Block
<1>17. ASSUME NEW t \in Tasks, ReturnValue(t) PROVE RejectionSees
  <2>1. PICK q \in Gone : pc' = [pc EXCEPT ![t] = q]
    BY <1>17 DEF ReturnValue, Exit, ExitThrows, ReturnFails, Gone
  <2> QED
    BY <1>17, <2>1, EndsRejected, Sides, Sleeping DEF ReturnValue
<1>18. ASSUME Tick PROVE RejectionSees
  <2>1. \A p \in Gone : \A k \in BOOLEAN : Resumed(p, k) = p
    BY DEF Resumed, Gone
  <2>2. \A t \in Tasks : pc[t] \in Gone => pc'[t] = pc[t]
    BY <1>18, <2>1 DEF Tick, TypeOK
  <2> QED
    BY <1>18, <2>2 DEF Tick, NobodyRejected, RejectionSees
<1>19. CASE CallSyncExport \/ UNCHANGED vars
  BY <1>19, <1>0 DEF CallSyncExport, vars
<1> QED
  BY <1>1, <1>2, <1>3, <1>4, <1>5, <1>6, <1>7, <1>8, <1>9, <1>10, <1>11, <1>12,
     <1>13, <1>14, <1>15, <1>16, <1>17, <1>18, <1>19
     DEF Next, Job, GuestStep, AllExited

(* A rejected task is in no wait, not queued and not running: it exited or is  *)
(* lost.                                                                       *)
LEMMA RejectedEnds == Spec => []RejectedGone
<1>1. Init => RejectedGone
  BY DEF Init, RejectedGone
<1>2. ASSUME TypeOK, RejectedGone, [Next]_vars PROVE RejectedGone'
  <2>1. CASE NobodyRejected
    BY <1>2, <2>1 DEF NobodyRejected, RejectedGone
  <2>2. ASSUME NEW t \in Tasks, RejectsSelf(t) PROVE RejectedGone'
    BY <1>2, <2>2 DEF RejectsSelf, RejectedGone, TypeOK
  <2> QED
    BY <1>2, <2>1, <2>2, RejectionView DEF RejectionSees
<1> QED
  BY <1>1, <1>2, TypeCorrect, PTL DEF Spec

(* Among tasks the host calls, the metas are in the order of the placeholders. *)
MetaOrder ==
    /\ \A i \in DOMAIN taskMetas :
          \E k \in DOMAIN nextTaskQueue : nextTaskQueue[k] = taskMetas[i]
    /\ \A i, j \in DOMAIN taskMetas : i < j =>
          \E k, l \in DOMAIN nextTaskQueue :
              k < l /\ nextTaskQueue[k] = taskMetas[i] /\ nextTaskQueue[l] = taskMetas[j]

(* The placeholders stay where they are. *)
LEMMA QueueGrows ==
    ASSUME TypeOK, [Next]_vars
    PROVE  \A k \in DOMAIN nextTaskQueue :
              k \in DOMAIN nextTaskQueue' /\ nextTaskQueue'[k] = nextTaskQueue[k]
<1>1. nextTaskQueue \in Seq(Tasks)
  BY DEF TypeOK
<1>2. nextTaskQueue' = nextTaskQueue \/ \E t \in Tasks : nextTaskQueue' = Append(nextTaskQueue, t)
  BY SlotView DEF SlotSees, Enqueues, Takes, Leaves, Marks, StaysPut, SlotUnchanged
<1> QED
  BY <1>1, <1>2

(* Each kind of step keeps the order. *)
LEMMA MetaOrderStep ==
    ASSUME HostOnly, TypeOK, MetaOrder, [Next]_vars
    PROVE  MetaOrder'
<1>0. taskMetas \in Seq(Tasks) /\ nextTaskQueue \in Seq(Tasks)
  BY DEF TypeOK
<1>1. CASE MetasKept
  BY <1>1, QueueGrows DEF MetasKept, MetaOrder
<1>2. ASSUME NEW t \in Tasks, CreatesTask(t) PROVE MetaOrder'
  <2> DEFINE m == Len(taskMetas)
             n == Len(nextTaskQueue)
  <2>1. /\ m \in Nat /\ DOMAIN taskMetas = 1 .. m /\ DOMAIN taskMetas' = 1 .. m + 1
        /\ taskMetas'[m + 1] = t /\ \A i \in 1 .. m : taskMetas'[i] = taskMetas[i]
    BY <1>0, <1>2 DEF CreatesTask
  <2>2. nextTaskQueue' = Append(nextTaskQueue, t)
    BY <1>2 DEF CreatesTask, HostOnly
  <2>3. /\ n \in Nat /\ DOMAIN nextTaskQueue = 1 .. n /\ DOMAIN nextTaskQueue' = 1 .. n + 1
        /\ nextTaskQueue'[n + 1] = t
        /\ \A k \in 1 .. n : nextTaskQueue'[k] = nextTaskQueue[k]
    BY <1>0, <2>2
  <2> HIDE DEF m, n
  <2>4. n + 1 \in DOMAIN nextTaskQueue' /\ \A k \in 1 .. n : k \in DOMAIN nextTaskQueue' /\ k < n + 1
    BY <2>3
  <2>5. \A i \in 1 .. m + 1 : i \in 1 .. m \/ i = m + 1
    BY <2>1
  <2>6. \A i \in DOMAIN taskMetas' :
           \E k \in DOMAIN nextTaskQueue' : nextTaskQueue'[k] = taskMetas'[i]
    BY <2>1, <2>3, <2>4, <2>5 DEF MetaOrder
  <2>7. ASSUME NEW i \in DOMAIN taskMetas', NEW j \in DOMAIN taskMetas', i < j
        PROVE  \E k, l \in DOMAIN nextTaskQueue' :
                  k < l /\ nextTaskQueue'[k] = taskMetas'[i] /\ nextTaskQueue'[l] = taskMetas'[j]
    <3>1. i \in 1 .. m
      BY <2>1, <2>7
    <3>2. CASE j \in 1 .. m
      <4>1. PICK k, l \in 1 .. n :
               k < l /\ nextTaskQueue[k] = taskMetas[i] /\ nextTaskQueue[l] = taskMetas[j]
        BY <2>1, <2>3, <2>7, <3>1, <3>2 DEF MetaOrder
      <4>2. /\ k \in DOMAIN nextTaskQueue' /\ l \in DOMAIN nextTaskQueue'
            /\ nextTaskQueue'[k] = taskMetas'[i] /\ nextTaskQueue'[l] = taskMetas'[j]
        BY <2>1, <2>3, <2>4, <3>1, <3>2, <4>1
      <4> QED
        BY <4>1, <4>2
    <3>3. CASE j = m + 1
      <4>1. PICK k \in 1 .. n : nextTaskQueue[k] = taskMetas[i]
        BY <2>1, <2>3, <3>1 DEF MetaOrder
      <4>2. /\ k \in DOMAIN nextTaskQueue' /\ k < n + 1
            /\ nextTaskQueue'[k] = taskMetas'[i] /\ nextTaskQueue'[n + 1] = taskMetas'[j]
        BY <2>1, <2>3, <2>4, <3>1, <3>3, <4>1
      <4> QED
        BY <2>4, <4>2
    <3> QED
      BY <2>1, <2>5, <3>2, <3>3
  <2> QED
    BY <2>6, <2>7 DEF MetaOrder
<1>3. ASSUME NEW t \in Tasks, ClearsTask(t) PROVE MetaOrder'
  <2>1. \A i \in DOMAIN taskMetas' : i \in DOMAIN taskMetas /\ taskMetas'[i] = taskMetas[i]
    BY <1>3, ClearedMetas DEF ClearsTask
  <2> QED
    BY <2>1, QueueGrows DEF MetaOrder
<1> QED
  BY <1>1, <1>2, <1>3, MetasView DEF MetasSee

(* While a task the host called holds the slot, getCurrentTask() without an ID *)
(* finds that task, or one that is still queued.                               *)
LEMMA LatestIsFresh ==
    ASSUME TypeOK, SlotInv, MetaOrder, LiveTasksTracked, NEW t \in Tasks, pc[t] \in InSlot
    PROVE  GetCurrentTask = t \/ (GetCurrentTask \in Tasks /\ pc[GetCurrentTask] = "queued")
<1>0. taskMetas \in Seq(Tasks) /\ DOMAIN taskMetas = 1 .. Len(taskMetas)
      /\ Len(taskMetas) \in Nat
  BY DEF TypeOK
<1>1. pc[t] \notin {"idle", "exited"}
  BY DEF InSlot, Entering, InWasm, Parked, Returned, InDriver
<1>2. PICK i \in DOMAIN taskMetas : taskMetas[i] = t
  BY <1>1 DEF LiveTasksTracked
<1> DEFINE n == Len(taskMetas)
<1>3. n \in DOMAIN taskMetas /\ GetCurrentTask = taskMetas[n] /\ taskMetas[n] \in Tasks
  BY <1>0, <1>2 DEF GetCurrentTask
<1>4. CASE i = n
  BY <1>2, <1>3, <1>4
<1>5. CASE i # n
  <2>1. i < n
    BY <1>0, <1>5
  <2>2. PICK k, l \in DOMAIN nextTaskQueue :
           k < l /\ nextTaskQueue[k] = t /\ nextTaskQueue[l] = taskMetas[n]
    BY <1>2, <1>3, <2>1 DEF MetaOrder
  <2>3. ~completed[t]
    BY <1>1 DEF SlotInv
  <2> QED
    BY <1>3, <2>2, <2>3 DEF SlotInv, SlotsInOrder
<1> QED
  BY <1>4, <1>5

(* Each action keeps rejected tasks out of the sleepers' IDs. *)
LEMMA RejectedSleepStep ==
    ASSUME HostOnly, TypeOK, SlotInv, SleepInv, LiveTasksTracked, CurrentTaskIsRunning,
           RejectedGone, RejectedGone', MetaOrder, NoRejectedTaskSuspended, [Next]_vars
    PROVE  NoRejectedTaskSuspended'
<1>0. /\ pc \in [Tasks -> PCs] /\ suspendedTasks \in [Tasks -> Tasks \cup {NoTask}]
      /\ NoTask \notin Tasks /\ OneTaskInSlot
  BY SlotExclusive DEF TypeOK, TasksOrNone
<1>1. \A t \in Tasks : pc[t] # "preSuspended"
  <2> SUFFICES ASSUME NEW t \in Tasks, pc[t] = "preSuspended" PROVE FALSE
    OBVIOUS
  <2>1. PICK i \in DOMAIN taskMetas : taskMetas[i] = t
    BY DEF LiveTasksTracked
  <2>2. \E k \in DOMAIN nextTaskQueue : nextTaskQueue[k] = t
    BY <2>1 DEF MetaOrder
  <2> QED
    BY <2>2, Sides DEF SlotInv
<1>2. CASE Tick
  BY <1>0, <1>2 DEF Tick, NoRejectedTaskSuspended, resVars
<1>3. CASE LetsSleep
  <2>1. CASE NobodyRejected
    BY <1>3, <2>1 DEF LetsSleep, suspVars, NobodyRejected, NoRejectedTaskSuspended
  <2>2. ASSUME NEW t \in Tasks, RejectsSelf(t) PROVE NoRejectedTaskSuspended'
    <3>1. suspendedTasks[t] = NoTask
      <4> SUFFICES ASSUME suspendedTasks[t] # NoTask PROVE FALSE
        OBVIOUS
      <4>1. suspendedTasks[t] \in Tasks /\ pc[suspendedTasks[t]] \in Suspended
        BY <1>0 DEF SleepInv, NoSleeperForgotten
      <4>2. pc[suspendedTasks[t]] \in InSlot
        BY <1>1, <4>1, Sides DEF Suspended
      <4>3. suspendedTasks[t] = t
        BY <1>0, <2>2, <4>1, <4>2 DEF OneTaskInSlot, RejectsSelf
      <4> QED
        BY <2>2, <4>1, <4>3 DEF RejectsSelf
    <3> QED
      BY <1>3, <2>2, <3>1 DEF LetsSleep, suspVars, RejectsSelf, NoRejectedTaskSuspended
  <2> QED
    BY <2>1, <2>2, RejectionView DEF RejectionSees
<1>4. ASSUME NEW id \in Tasks, NEW t \in Tasks, ParksUnder(id, t)
      PROVE  NoRejectedTaskSuspended'
  <2>1. pc'[t] \in Suspended /\ \A u \in Tasks : u # t => pc'[u] = pc[u]
    BY <1>0, <1>4 DEF ParksUnder
  <2>2. UNCHANGED rejected
    <3>1. ASSUME NEW u \in Tasks, RejectsSelf(u) PROVE FALSE
      <4>1. UNCHANGED suspendedTasks
        BY <3>1 DEF RejectsSelf, suspVars
      <4>2. suspendedTasks'[id] = t /\ suspendedTasks[id] = NoTask
        BY <1>0, <1>4 DEF ParksUnder, SuspendUnder
      <4> QED
        BY <1>0, <4>1, <4>2
    <3> QED
      BY <3>1, RejectionView DEF RejectionSees, NobodyRejected
  <2>3. ~rejected'[id]
    <3>1. CASE id = t
      BY <2>1, <3>1, Sleeping DEF RejectedGone, Gone
    <3>2. CASE id # t
      <4>1. pc[t] = "running" /\ id \in {currentTaskMeta, GetCurrentTask}
        BY <1>4, <3>2 DEF ParksUnder
      <4>2. currentTaskMeta = t
        BY <4>1, WasmSides DEF CurrentTaskIsRunning
      <4>3. pc[id] = "queued"
        BY <3>2, <4>1, <4>2, LatestIsFresh, Sides
      <4> QED
        BY <2>2, <4>3 DEF RejectedGone, Gone
    <3> QED
      BY <3>1, <3>2
  <2> QED
    BY <1>0, <1>4, <2>2, <2>3 DEF ParksUnder, SuspendUnder, NoRejectedTaskSuspended
<1> QED
  BY <1>2, <1>3, <1>4, SleepView DEF SleepSees

(* Among host calls, no wait is ever parked under the ID of a rejected task,   *)
(* although waitable-set.wait parks under the latest task, not its caller:     *)
(* tick() never ends the wait of a healthy task as cancelled.                  *)
THEOREM HealthyWaitsKept == HostOnly => (Spec => []NoRejectedTaskSuspended)
<1> SUFFICES ASSUME HostOnly PROVE Spec => []NoRejectedTaskSuspended
  OBVIOUS
<1>1. Init => MetaOrder /\ NoRejectedTaskSuspended
  BY DEF Init, MetaOrder, NoRejectedTaskSuspended
<1>2. TypeOK /\ MetaOrder /\ [Next]_vars => MetaOrder'
  BY MetaOrderStep
<1>3. Spec => []MetaOrder
  BY <1>1, <1>2, TypeCorrect, PTL DEF Spec
<1>4. TypeOK /\ SlotInv /\ SleepInv /\ LiveTasksTracked /\ CurrentTaskIsRunning
         /\ RejectedGone /\ RejectedGone' /\ MetaOrder /\ NoRejectedTaskSuspended
         /\ [Next]_vars
      => NoRejectedTaskSuspended'
  BY RejectedSleepStep
<1> QED
  BY <1>1, <1>3, <1>4, TypeCorrect, SlotInvariant, SleepInvariant, TasksStayTracked,
     CurrentTaskRight, RejectedEnds, PTL DEF Spec

-----------------------------------------------------------------------------
(* The slot implements the FIFO lock of TaskSlots. *)

HolderOf(f) ==
    IF \E t \in Tasks : f[t] \in InSlot
    THEN CHOOSE t \in Tasks : f[t] \in InSlot
    ELSE NoTask

(* The holder is a function of the program counters: the one task in the slot. *)
LEMMA HolderIsUnique ==
    ASSUME NEW f, NEW t \in Tasks, f[t] \in InSlot,
           \A u \in Tasks : f[u] \in InSlot => u = t
    PROVE  HolderOf(f) = t
BY DEF HolderOf

(* Two states with the same tasks in the slot have the same holder. *)
LEMMA SameHolder ==
    ASSUME NEW f, NEW g, \A u \in Tasks : f[u] \in InSlot <=> g[u] \in InSlot
    PROVE  HolderOf(f) = HolderOf(g)
<1>1. CASE \E t \in Tasks : f[t] \in InSlot
  <2>1. (CHOOSE t \in Tasks : f[t] \in InSlot) = (CHOOSE t \in Tasks : g[t] \in InSlot)
    OBVIOUS
  <2> QED
    BY <1>1, <2>1 DEF HolderOf
<1>2. CASE ~ \E t \in Tasks : f[t] \in InSlot
  BY <1>2 DEF HolderOf
<1> QED
  BY <1>1, <1>2

(* Every step is a step of the FIFO lock or none. *)
LEMMA RefinementStep ==
    ASSUME TypeOK, SlotInv, OneTaskInSlot, OneTaskInSlot', [Next]_vars
    PROVE  [Slots!Next]_(Slots!slots)
<1> DEFINE exitedNow == {t \in Tasks : pc[t] = "exited"}
<1>0. /\ SlotHolder = HolderOf(pc) /\ SlotHolder' = HolderOf(pc')
      /\ pc \in [Tasks -> PCs]
  BY DEF SlotHolder, HolderOf, TypeOK
<1>1. ASSUME NEW t \in Tasks, Enqueues(t) PROVE Slots!Arrive(t)
  <2>1. \A u \in Tasks : /\ pc[u] \in InSlot <=> pc'[u] \in InSlot
                         /\ pc[u] = "exited" <=> pc'[u] = "exited"
    BY <1>0, <1>1, Sides DEF Enqueues, Outside, Unqueued, InSlot, Entering, InWasm,
       Parked, Returned, InDriver
  <2>2. SlotHolder' = SlotHolder
    BY <1>0, <2>1, SameHolder
  <2>3. exitedNow' = exitedNow
    BY <2>1
  <2>4. \A i \in DOMAIN nextTaskQueue : nextTaskQueue[i] # t
    BY <1>1 DEF Enqueues, SlotInv
  <2> QED
    BY <1>1, <2>2, <2>3, <2>4 DEF Enqueues, Slots!Arrive
<1>2. ASSUME NEW t \in Tasks, Takes(t) PROVE Slots!Acquire(t)
  <2>1. PICK i \in DOMAIN nextTaskQueue :
           nextTaskQueue[i] = t /\ \A j \in 1 .. i - 1 : completed[nextTaskQueue[j]]
    BY <1>2 DEF Takes, IsNext
  <2>2. \A j \in 1 .. i - 1 : nextTaskQueue[j] \in exitedNow
    BY <2>1 DEF SlotInv, TypeOK
  <2>3. PICK q \in InSlot : pc' = [pc EXCEPT ![t] = q]
    BY <1>2 DEF Takes
  <2>4. pc[t] = "queued" /\ pc'[t] \in InSlot /\ q # "exited"
    BY <1>0, <1>2, <2>3, Sides DEF Takes
  <2>5. ASSUME NEW u \in Tasks, pc[u] \in InSlot PROVE FALSE
    <3>1. pc[u] \notin Outside /\ pc[u] # "queued" /\ pc[u] # "exited"
      BY <2>5 DEF Outside, Unqueued, InSlot, Entering, InWasm, Parked, Returned, InDriver
    <3>2. PICK j \in DOMAIN nextTaskQueue : nextTaskQueue[j] = u
      BY <3>1 DEF SlotInv
    <3>3. ~completed[u] /\ ~completed[t]
      BY <2>4, <3>1 DEF SlotInv
    <3>4. ~(i < j)
      BY <2>1, <3>1, <3>2, <3>3 DEF SlotInv, SlotsInOrder
    <3>5. ~(j < i)
      BY <2>1, <3>2, <3>3 DEF TypeOK
    <3>6. i = j
      BY <3>4, <3>5 DEF TypeOK
    <3> QED
      BY <2>1, <2>4, <3>1, <3>2, <3>6
  <2>6. SlotHolder = NoTask
    BY <1>0, <2>5 DEF HolderOf
  <2>7. SlotHolder' = t
    BY <1>0, <2>4, HolderIsUnique DEF OneTaskInSlot
  <2>8. exitedNow' = exitedNow /\ t \notin exitedNow
    BY <1>0, <2>3, <2>4
  <2> QED
    BY <1>2, <2>1, <2>2, <2>6, <2>7, <2>8 DEF Takes, SlotUnchanged, Slots!Acquire
<1>3. ASSUME NEW t \in Tasks, Leaves(t) PROVE Slots!Release(t)
  <2>1. SlotHolder = t
    BY <1>0, <1>3, HolderIsUnique DEF Leaves, OneTaskInSlot
  <2>2. \A u \in Tasks : pc'[u] \notin InSlot
    BY <1>0, <1>3, Sides DEF Leaves, OneTaskInSlot
  <2>3. SlotHolder' = NoTask
    BY <1>0, <2>2 DEF HolderOf
  <2>4. exitedNow' = exitedNow \cup {t}
    BY <1>0, <1>3 DEF Leaves
  <2> QED
    BY <1>3, <2>1, <2>3, <2>4 DEF Leaves, SlotUnchanged, Slots!Release
<1>4. ASSUME NEW t \in Tasks, Marks(t) PROVE UNCHANGED Slots!slots
  BY <1>4 DEF Marks, Slots!slots, SlotHolder
<1>5. ASSUME StaysPut PROVE UNCHANGED Slots!slots
  <2>1. SlotHolder' = SlotHolder
    BY <1>0, <1>5, SameHolder DEF StaysPut, SameSide
  <2>2. exitedNow' = exitedNow
    BY <1>5 DEF StaysPut, SameSide
  <2> QED
    BY <1>5, <2>1, <2>2 DEF StaysPut, SlotUnchanged, Slots!slots
<1> QED
  BY <1>1, <1>2, <1>3, <1>4, <1>5, SlotView DEF SlotSees, Slots!Next

(* The execution slot of an instance is a FIFO lock: with the queue of        *)
(* placeholders as arrivals, the runtime implements TaskSlots.                *)
THEOREM SlotRefinement == Spec => SlotsAreFIFO
<1>1. Init => Slots!Init
  BY Sides DEF Init, Slots!Init, SlotHolder
<1>2. /\ TypeOK /\ SlotInv /\ OneTaskInSlot /\ OneTaskInSlot' /\ [Next]_vars
      => [Slots!Next]_(Slots!slots)
  BY RefinementStep
<1> QED
  BY <1>1, <1>2, TypeCorrect, SlotInvariant, MutualExclusion, PTL
     DEF Spec, SlotsAreFIFO, Slots!Spec
=============================================================================
