--------------------------- MODULE ComponentTasks ---------------------------
(***************************************************************************)
(* The async tasks of ONE component instance, as the emitted JavaScript    *)
(* runtime schedules them: ComponentAsyncState (execution slot, exclusive  *)
(* lock, backpressure, suspended tasks and the tick loop), AsyncTask       *)
(* (enter, suspend, resolve, reject, exit), the callback driver loop, the  *)
(* generated wrapper of an export (CallWasm, Return, AsyncTaskReturn) and  *)
(* the guest-to-guest path (PrepareCall, AsyncStartCall).                  *)
(*                                                                         *)
(* JavaScript runs one job at a time, so one action is the code between    *)
(* two points where a job can be parked: an await, a timer, or an import   *)
(* that suspends the WebAssembly stack (JSPI).  The order in which ready   *)
(* jobs run is left open.                                                  *)
(***************************************************************************)
EXTENDS Integers, Sequences, FiniteSets

CONSTANTS
    Tasks,             \* the tasks that may be created in this instance
    NoTask,            \* no task: a null meta, or an already resolved promise
    Kind,              \* how each task is created, see Kinds
    SyncExports,       \* TRUE: the host also calls synchronous exports
    GuestMayFail,      \* TRUE: guest code may trap or break its protocol
    InstantiationMode, \* TRUE: output with instantiate(), FALSE: an ES module
    BackpressureLimit, \* 2^16 in the code: incrementBackpressure throws there
    MaxBlocks          \* bound: how often a task may yield or wait

(* "callback"   export lifted async with a callback, called by the host    *)
(* "manual"     sync export the user asked to be wrapped as async (JSPI)   *)
(* "guest"      callback export called by another component                *)
(* "guestSync"  export without callback, called async by another component *)
Kinds == {"callback", "manual", "guest", "guestSync"}

ASSUME TasksAssumption == NoTask \notin Tasks
ASSUME KindAssumption == Kind \in [Tasks -> Kinds]
ASSUME FlagAssumption ==
    /\ SyncExports \in BOOLEAN /\ GuestMayFail \in BOOLEAN
    /\ InstantiationMode \in BOOLEAN
ASSUME BoundAssumption == BackpressureLimit \in Nat \ {0} /\ MaxBlocks \in Nat

VARIABLES
    pc,                  \* where each task's JavaScript job stands
    phase,               \* which wasm function the task runs: callee or callback
    nextTaskQueue,       \* placeholders, in the order tasks called enter()
    nextTaskPromise,     \* the task whose exit the next one awaits
    awaits,              \* the promise each queued task awaits
    completed,           \* placeholder.completed
    locked,              \* the exclusive lock of the instance
    backpressure,        \* the backpressure counter
    backpressureWaiters, \* how many tasks wait in enter()
    suspendedTaskIDs,    \* IDs something is parked under, oldest first, and nulls
    suspendedTasks,      \* task ID -> task whose continuation is parked there
    tickLoop,            \* the tick timer is armed
    taskMetas,           \* tasks created in this instance, latest last
    currentTaskMeta,     \* the "global current task" of this instance
    pendingEvent,        \* the waitable set a task waits on has an event
    resolved,            \* task state is RESOLVED
    resolvedBy,          \* history: the task whose code resolved it
    rejected,            \* task was rejected
    blocks               \* how often the task blocked, at most MaxBlocks

slotVars == <<nextTaskQueue, nextTaskPromise, awaits, completed>>
lockVars == <<locked, backpressure, backpressureWaiters>>
suspVars == <<suspendedTaskIDs, suspendedTasks, tickLoop>>
metaVars == <<taskMetas, currentTaskMeta>>
resVars  == <<resolved, resolvedBy, rejected>>
vars == <<pc, phase, slotVars, lockVars, suspVars, metaVars, pendingEvent,
          resVars, blocks>>

-----------------------------------------------------------------------------
(* Where a task can be. *)

Unqueued == {"idle", "prepared", "preSuspended", "preResumed"}
Entering == {"enterSuspended", "enterResumed"}
Parked   == {"parkedYield", "parkedWait", "unparked", "unparkedWait"}
InWasm   == {"running"} \cup Parked
Returned == {"retExit", "retYield", "retWait"}
InDriver == {"drvYield", "drvWait", "drvResumed", "drvWoken"}

(* The task holds the execution slot: past nextTaskExecutionSlot(), not out *)
(* of exit().  A "lost" task's exit() threw or its path has none; the        *)
(* wrapper of a "failedReturn" task threw between the call and exit().       *)
InSlot == Entering \cup {"entered", "lost", "failedReturn"} \cup InWasm
             \cup Returned \cup InDriver
PCs == Unqueued \cup {"queued", "exited"} \cup InSlot \cup {"failedStart"}

Suspended == {"preSuspended", "enterSuspended", "parkedYield", "parkedWait",
              "drvYield", "drvWait"}

(* needsExclusiveLock(): !isAsync || hasCallback().  A guestSync task is     *)
(* async (the caller lowered it async) and has no callback.                  *)
needsExclusiveLock(t) == Kind[t] # "guestSync"

hasCallback(t) == Kind[t] \in {"callback", "guest"}

HostCalled(t) == Kind[t] \in {"callback", "manual"}

Busy(t) == backpressure > 0 \/ (needsExclusiveLock(t) /\ locked)

(* Mutant: the oldest task instead of the latest. *)
OldestTask == IF taskMetas = <<>> THEN NoTask ELSE taskMetas[1]

(* getCurrentTask(componentIdx): without a task ID, the latest one. *)
GetCurrentTask == IF taskMetas = <<>> THEN NoTask ELSE taskMetas[Len(taskMetas)]

Init ==
    /\ pc = [t \in Tasks |-> "idle"]
    /\ phase = [t \in Tasks |-> "callee"]
    /\ nextTaskQueue = <<>>
    /\ nextTaskPromise = NoTask
    /\ awaits = [t \in Tasks |-> NoTask]
    /\ completed = [t \in Tasks |-> FALSE]
    /\ locked = FALSE
    /\ backpressure = 0
    /\ backpressureWaiters = 0
    /\ suspendedTaskIDs = <<>>
    /\ suspendedTasks = [t \in Tasks |-> NoTask]
    /\ tickLoop = FALSE
    /\ taskMetas = <<>>
    /\ currentTaskMeta = NoTask
    /\ pendingEvent = [t \in Tasks |-> FALSE]
    /\ resolved = [t \in Tasks |-> FALSE]
    /\ resolvedBy = [t \in Tasks |-> NoTask]
    /\ rejected = [t \in Tasks |-> FALSE]
    /\ blocks = [t \in Tasks |-> 0]

-----------------------------------------------------------------------------
(* Pieces the handlers share. *)

(* exclusiveLock() never looks at the lock.  Mutant: it has no effect. *)
LockUntouched == locked
exclusiveLock == TRUE

(* Mutant: suspendTask() without runTickLoop(). *)
SuspendWithoutTimer(id, t) ==
    /\ suspendedTaskIDs' = Append(suspendedTaskIDs, id)
    /\ suspendedTasks' = [suspendedTasks EXCEPT ![id] = t]
    /\ UNCHANGED tickLoop

(* suspendTask(): park t's continuation under the ID of task id.  The caller *)
(* has established that nothing is parked there (the code throws otherwise). *)
SuspendUnder(id, t) ==
    /\ suspendedTaskIDs' = Append(suspendedTaskIDs, id)
    /\ suspendedTasks' = [suspendedTasks EXCEPT ![id] = t]
    /\ tickLoop' = TRUE

(* reject(): nothing when already resolved, else cancelled and RESOLVED. *)
Reject(t) ==
    /\ rejected' = [rejected EXCEPT ![t] = @ \/ ~resolved[t]]
    /\ resolved' = [resolved EXCEPT ![t] = TRUE]
    /\ UNCHANGED resolvedBy

(* Mutant: pop whatever task is the latest. *)
PopLatest(t) == SubSeq(taskMetas, 1, Len(taskMetas) - 1)

(* clearCurrentTask(): silently nothing when t is not the latest task. *)
ClearCurrentTask(t) ==
    IF GetCurrentTask = t THEN SubSeq(taskMetas, 1, Len(taskMetas) - 1)
                          ELSE taskMetas

(* exit() past its checks: release the lock, settle the exit promise, clear. *)
Exit(t) ==
    /\ pc' = [pc EXCEPT ![t] = "exited"]
    /\ locked' = FALSE
    /\ taskMetas' = ClearCurrentTask(t)

(* exit() throws: the slot is never given back. *)
ExitThrows(t) ==
    /\ pc' = [pc EXCEPT ![t] = "lost"]
    /\ UNCHANGED <<locked, taskMetas>>

(* An error leaves the wasm function t runs; the wrapper of the current      *)
(* task meta clears it.  Host-called export: reject, then exit() with its    *)
(* lock check.  Guest-called export: only the caller's task is marked        *)
(* errored.  Callback: the driver loop rejects and ends.                     *)
CallFails(t) ==
    /\ currentTaskMeta' = NoTask
    /\ \/ /\ phase[t] = "callee" /\ HostCalled(t)
          /\ Reject(t)
          /\ IF locked THEN Exit(t) ELSE ExitThrows(t)
       \/ /\ phase[t] = "callee" /\ ~HostCalled(t)
          /\ ExitThrows(t)
          /\ UNCHANGED resVars
       \/ /\ phase[t] = "callback"
          /\ ExitThrows(t)
          /\ Reject(t)
    /\ UNCHANGED <<backpressure, backpressureWaiters>>

(* enter() up to its first await: push a placeholder, await the promise. *)
EnterQueue(t) ==
    /\ pc' = [pc EXCEPT ![t] = "queued"]
    /\ nextTaskQueue' = Append(nextTaskQueue, t)
    /\ awaits' = [awaits EXCEPT ![t] = nextTaskPromise]
    /\ UNCHANGED <<nextTaskPromise, completed>>

-----------------------------------------------------------------------------
(* Creation *)

(* The host calls an async export: createNewCurrentTask(), then enter(). *)
CallExport(t) ==
    /\ pc[t] = "idle" /\ HostCalled(t)
    /\ taskMetas' = Append(taskMetas, t)
    /\ EnterQueue(t)
    /\ UNCHANGED <<phase, lockVars, suspVars, currentTaskMeta, pendingEvent,
                   resVars, blocks>>

(* Another component calls into this one: prepareCall() creates the task and *)
(* makes it the current task of the callee, asyncStartCall() sets a timer.   *)
PrepareCall(t) ==
    /\ pc[t] = "idle" /\ ~HostCalled(t)
    /\ taskMetas' = Append(taskMetas, t)
    /\ currentTaskMeta' = t
    /\ pc' = [pc EXCEPT ![t] = "prepared"]
    /\ UNCHANGED <<phase, slotVars, lockVars, suspVars, pendingEvent, resVars,
                   blocks>>

(* The timer of asyncStartCall(): wait for a locked callee, then enter(). *)
AsyncStartCall(t) ==
    /\ pc[t] = "prepared"
    /\ \/ ~locked /\ EnterQueue(t) /\ UNCHANGED suspVars
       \/ /\ locked /\ suspendedTasks[t] = NoTask
          /\ SuspendUnder(t, t)
          /\ pc' = [pc EXCEPT ![t] = "preSuspended"]
          /\ UNCHANGED slotVars
       \/ /\ locked /\ suspendedTasks[t] # NoTask  \* "already suspended"
          /\ pc' = [pc EXCEPT ![t] = "failedStart"]
          /\ UNCHANGED <<slotVars, suspVars>>
    /\ UNCHANGED <<phase, lockVars, metaVars, pendingEvent, resVars, blocks>>

StartResumed(t) ==
    /\ pc[t] = "preResumed"
    /\ EnterQueue(t)
    /\ UNCHANGED <<phase, lockVars, suspVars, metaVars, pendingEvent, resVars,
                   blocks>>

-----------------------------------------------------------------------------
(* enter(): the execution slot, then backpressure and the exclusive lock. *)

PromiseResolved(p) == p # NoTask => completed[p]

(* Mutant: any queued placeholder may go. *)
IsQueued(t) == \E i \in DOMAIN nextTaskQueue : nextTaskQueue[i] = t

(* t's placeholder is the first one that is not completed. *)
IsNext(t) ==
    \E i \in DOMAIN nextTaskQueue :
        /\ nextTaskQueue[i] = t
        /\ \A j \in 1 .. i - 1 : completed[nextTaskQueue[j]]

(* The loop of nextTaskExecutionSlot() wakes, and it is not t's turn. *)
AwaitAgain(t) ==
    /\ pc[t] = "queued" /\ PromiseResolved(awaits[t]) /\ ~IsNext(t)
    /\ awaits' = [awaits EXCEPT ![t] = nextTaskPromise]
    /\ UNCHANGED <<pc, phase, nextTaskQueue, nextTaskPromise, completed,
                   lockVars, suspVars, metaVars, pendingEvent, resVars, blocks>>

(* It is t's turn: the rest of enter() up to the next await.  A manual task  *)
(* locks without looking; any other task waits while Busy.                   *)
TakeSlot(t) ==
    /\ pc[t] = "queued" /\ PromiseResolved(awaits[t]) /\ IsNext(t)
    /\ nextTaskPromise' = t
    /\ \/ /\ Kind[t] = "manual"
          /\ locked' = exclusiveLock
          /\ pc' = [pc EXCEPT ![t] = "entered"]
          /\ UNCHANGED <<backpressureWaiters, suspVars>>
       \/ /\ Kind[t] # "manual" /\ ~Busy(t)
          /\ locked' = IF needsExclusiveLock(t) THEN exclusiveLock ELSE locked
          /\ pc' = [pc EXCEPT ![t] = "entered"]
          /\ UNCHANGED <<backpressureWaiters, suspVars>>
       \/ /\ Kind[t] # "manual" /\ Busy(t)
          /\ backpressureWaiters' = backpressureWaiters + 1
          /\ IF suspendedTasks[t] = NoTask
             THEN /\ SuspendUnder(t, t)
                  /\ pc' = [pc EXCEPT ![t] = "enterSuspended"]
             ELSE /\ pc' = [pc EXCEPT ![t] = "lost"]
                  /\ UNCHANGED suspVars
          /\ UNCHANGED locked
    /\ UNCHANGED <<phase, nextTaskQueue, awaits, completed, backpressure,
                   metaVars, pendingEvent, resVars, blocks>>

(* Mutant: the waiter is not taken off the count. *)
WaiterKept == backpressureWaiters
removeBackpressureWaiter == backpressureWaiters - 1

(* enter() after its wait: the condition is not looked at again. *)
EnterResumed(t) ==
    /\ pc[t] = "enterResumed"
    /\ backpressureWaiters' = removeBackpressureWaiter
    /\ locked' = IF needsExclusiveLock(t) THEN exclusiveLock ELSE locked
    /\ pc' = [pc EXCEPT ![t] = "entered"]
    /\ UNCHANGED <<phase, slotVars, backpressure, suspVars, metaVars,
                   pendingEvent, resVars, blocks>>

(* withGlobalCurrentTaskMetaAsync() before it calls into wasm.  Mutant: it    *)
(* takes the latest task of the instance instead of the task it was given.    *)
MetaOfLatest(t) == currentTaskMeta' = GetCurrentTask
SetCurrentTaskMeta(t) == currentTaskMeta' = t

(* The wrapper calls the export under withGlobalCurrentTaskMetaAsync(). *)
BeginCall(t) ==
    /\ pc[t] = "entered"
    /\ pc' = [pc EXCEPT ![t] = "running"]
    /\ phase' = [phase EXCEPT ![t] = "callee"]
    /\ SetCurrentTaskMeta(t)
    /\ UNCHANGED <<slotVars, lockVars, suspVars, taskMetas, pendingEvent,
                   resVars, blocks>>

-----------------------------------------------------------------------------
(* What running guest code calls.  The code runs at any time pc is "running": *)
(* it may have been parked on an import in between.                           *)

(* The task task.return resolves: the global current task of the instance,    *)
(* whoever calls.  Mutant: the latest task.                                   *)
TaskReturnsLatest == GetCurrentTask
TaskReturnTarget == currentTaskMeta

(* task.return: resolve, or throw for a missing or already resolved task. *)
TaskReturn(t) ==
    /\ pc[t] = "running" /\ hasCallback(t)
    /\ ~GuestMayFail => \A u \in Tasks : resolvedBy[u] # t
    /\ \/ /\ TaskReturnTarget # NoTask
          /\ ~resolved[TaskReturnTarget]
          /\ resolved' = [resolved EXCEPT ![TaskReturnTarget] = TRUE]
          /\ resolvedBy' = [resolvedBy EXCEPT ![TaskReturnTarget] = t]
          /\ UNCHANGED <<pc, rejected, lockVars, metaVars>>
       \/ /\ TaskReturnTarget # NoTask => resolved[TaskReturnTarget]
          /\ CallFails(t)
    /\ UNCHANGED <<phase, slotVars, suspVars, pendingEvent, blocks>>

(* A blocking built-in parks t under task id until ready, or goes straight on *)
(* when ready and the coin flip says so; "already suspended" throws.          *)
Block(t, id, ready, parkedAt, direct) ==
    \/ /\ ready
       /\ pc' = [pc EXCEPT ![t] = direct]
       /\ UNCHANGED <<suspVars, lockVars, metaVars, resVars>>
    \/ /\ suspendedTasks[id] = NoTask
       /\ SuspendUnder(id, t)
       /\ pc' = [pc EXCEPT ![t] = parkedAt]
       /\ UNCHANGED <<lockVars, metaVars, resVars>>
    \/ /\ suspendedTasks[id] # NoTask
       /\ CallFails(t)
       /\ UNCHANGED suspVars

(* thread.yield: blocks the current task of the instance. *)
Yield(t) ==
    /\ pc[t] = "running" /\ blocks[t] < MaxBlocks
    /\ IF currentTaskMeta = NoTask
       THEN CallFails(t) /\ UNCHANGED suspVars
       ELSE Block(t, currentTaskMeta, TRUE, "parkedYield", "unparked")
    /\ blocks' = [blocks EXCEPT ![t] = @ + 1]
    /\ UNCHANGED <<phase, slotVars, pendingEvent>>

(* waitable-set.wait: blocks the task getCurrentTask() finds. *)
WaitableSetWait(t) ==
    /\ pc[t] = "running" /\ blocks[t] < MaxBlocks
    /\ IF GetCurrentTask = NoTask
       THEN CallFails(t) /\ UNCHANGED suspVars
       ELSE Block(t, GetCurrentTask, pendingEvent[t], "parkedWait", "unparkedWait")
    /\ blocks' = [blocks EXCEPT ![t] = @ + 1]
    /\ UNCHANGED <<phase, slotVars, pendingEvent>>

(* Both continue; waitable-set.wait takes its event. *)
Unpark(t) ==
    /\ \/ /\ pc[t] = "unparked"
          /\ pc' = [pc EXCEPT ![t] = "running"]
          /\ UNCHANGED <<pendingEvent, lockVars, metaVars, resVars>>
       \/ /\ pc[t] = "unparkedWait" /\ pendingEvent[t]
          /\ pc' = [pc EXCEPT ![t] = "running"]
          /\ pendingEvent' = [pendingEvent EXCEPT ![t] = FALSE]
          /\ UNCHANGED <<lockVars, metaVars, resVars>>
       \/ /\ pc[t] = "unparkedWait" /\ ~pendingEvent[t]
          /\ CallFails(t)
          /\ UNCHANGED pendingEvent
    /\ UNCHANGED <<phase, slotVars, suspVars, blocks>>

(* Math.max(0, current - 1).  Mutant: no maximum. *)
decrementUnclamped == backpressure - 1
decrementBackpressure == IF backpressure = 0 THEN 0 ELSE backpressure - 1

(* backpressure.inc / backpressure.dec; the overflow error is a Trap. *)
BackpressureSteps ==
    {decrementBackpressure}
    \cup ({backpressure + 1} \cap 0 .. BackpressureLimit - 1)

SetBackpressure(t) ==
    /\ pc[t] = "running"
    /\ backpressure' \in BackpressureSteps
    /\ UNCHANGED <<pc, phase, slotVars, locked, backpressureWaiters, suspVars,
                   metaVars, pendingEvent, resVars, blocks>>

(* The guest traps, or an import it calls throws. *)
Trap(t) ==
    /\ pc[t] = "running" /\ GuestMayFail
    /\ CallFails(t)
    /\ UNCHANGED <<phase, slotVars, suspVars, pendingEvent, blocks>>

-----------------------------------------------------------------------------
(* The wasm function returns. *)

(* asyncStartCall() passes the driver loop two names, resolve and reject,    *)
(* that only the body of instantiate() declares: in an ES module that is a   *)
(* ReferenceError, which is caught and only logged, and the loop never runs. *)
AfterReturn(t, code) ==
    IF Kind[t] = "guest" /\ phase[t] = "callee" /\ ~InstantiationMode
    THEN "lost" ELSE code

(* A callee with a callback, or the callback, returns EXIT, YIELD or WAIT.   *)
ReturnCode(t) ==
    /\ pc[t] = "running" /\ hasCallback(t)
    /\ \/ /\ ~GuestMayFail => \E u \in Tasks : resolvedBy[u] = t
          /\ pc' = [pc EXCEPT ![t] = AfterReturn(t, "retExit")]
          /\ UNCHANGED blocks
       \/ /\ blocks[t] < MaxBlocks
          /\ \/ pc' = [pc EXCEPT ![t] = AfterReturn(t, "retYield")]
             \/ pc' = [pc EXCEPT ![t] = AfterReturn(t, "retWait")]
          /\ blocks' = [blocks EXCEPT ![t] = @ + 1]
    /\ currentTaskMeta' = NoTask
    /\ UNCHANGED <<phase, slotVars, lockVars, suspVars, taskMetas,
                   pendingEvent, resVars>>

(* The wrapper of a manual export throws after the call, outside its try and *)
(* catch: lifting the result does, before resolve(), or the guest's own      *)
(* post-return does, between resolve() and exit().  exit() is never called.  *)
ReturnFails(t) ==
    /\ Kind[t] = "manual" /\ GuestMayFail
    /\ pc' = [pc EXCEPT ![t] = "failedReturn"]
    /\ UNCHANGED <<locked, taskMetas>>

(* A manual export returns: resolve, then exit() with its lock check.  A      *)
(* guestSync export returns: resolve, and no exit().                          *)
ReturnValue(t) ==
    /\ pc[t] = "running" /\ ~hasCallback(t)
    /\ currentTaskMeta' = NoTask
    /\ \/ ReturnFails(t) /\ UNCHANGED <<resolved, resolvedBy>>
       \/ /\ resolved' = [resolved EXCEPT ![t] = TRUE]
          /\ resolvedBy' = [resolvedBy EXCEPT ![t] = IF resolved[t] THEN @ ELSE t]
          /\ \/ ~resolved[t] /\ ReturnFails(t)
             \/ IF Kind[t] = "manual" /\ ~resolved[t] /\ locked
                THEN Exit(t)
                ELSE ExitThrows(t)
    /\ UNCHANGED <<phase, slotVars, backpressure, backpressureWaiters,
                   suspVars, pendingEvent, rejected, blocks>>

-----------------------------------------------------------------------------
(* The driver loop. *)

DriverFails(t) ==
    /\ pc' = [pc EXCEPT ![t] = "lost"]
    /\ Reject(t)

(* EXIT: exit() without the lock check; it throws for an unresolved task. *)
DriverExit(t) ==
    /\ pc[t] = "retExit"
    /\ IF resolved[t]
       THEN Exit(t) /\ UNCHANGED resVars
       ELSE DriverFails(t) /\ UNCHANGED <<locked, taskMetas>>
    /\ UNCHANGED <<phase, slotVars, backpressure, backpressureWaiters,
                   suspVars, currentTaskMeta, pendingEvent, blocks>>

(* YIELD and WAIT release the lock and park the task until it is free again  *)
(* (and, for WAIT, an event is pending).                                     *)
DriverBlock(t) ==
    /\ pc[t] \in {"retYield", "retWait"}
    /\ locked' = FALSE
    /\ \/ /\ pc[t] = "retWait" => pendingEvent[t]      \* ready and coin flip
          /\ pc' = [pc EXCEPT ![t] = IF @ = "retYield" THEN "drvResumed"
                                                       ELSE "drvWoken"]
          /\ UNCHANGED <<suspVars, resVars>>
       \/ IF suspendedTasks[t] = NoTask
          THEN /\ SuspendUnder(t, t)
               /\ pc' = [pc EXCEPT ![t] = IF @ = "retYield" THEN "drvYield"
                                                            ELSE "drvWait"]
               /\ UNCHANGED resVars
          ELSE /\ DriverFails(t)                       \* "already suspended"
               /\ UNCHANGED suspVars
    /\ UNCHANGED <<phase, slotVars, backpressure, backpressureWaiters,
                   metaVars, pendingEvent, blocks>>

(* Take the event, lock, and run the callback; a rejected task stops here.   *)
DriverResume(t) ==
    /\ pc[t] \in {"drvResumed", "drvWoken"}
    /\ IF pc[t] = "drvWoken" /\ ~pendingEvent[t]
       THEN /\ DriverFails(t)                 \* "no waitables had a pending event"
            /\ UNCHANGED <<phase, locked, pendingEvent, currentTaskMeta>>
       ELSE /\ locked' = exclusiveLock
            /\ pendingEvent' = [pendingEvent EXCEPT ![t] = @ /\ pc[t] # "drvWoken"]
            /\ UNCHANGED resVars
            /\ IF rejected[t]
               THEN /\ pc' = [pc EXCEPT ![t] = "lost"]
                    /\ UNCHANGED <<phase, currentTaskMeta>>
               ELSE /\ pc' = [pc EXCEPT ![t] = "running"]
                    /\ phase' = [phase EXCEPT ![t] = "callback"]
                    /\ SetCurrentTaskMeta(t)
    /\ UNCHANGED <<slotVars, backpressure, backpressureWaiters, suspVars,
                   taskMetas, blocks>>

-----------------------------------------------------------------------------
(* The event loop, the host and synchronous exports. *)

(* The readyFn a parked task left with suspendTask(). *)
ReadyFn(t) ==
    CASE pc[t] = "preSuspended"   -> ~locked
      [] pc[t] = "enterSuspended" -> ~Busy(t)
      [] pc[t] = "parkedYield"    -> TRUE
      [] pc[t] = "parkedWait"     -> pendingEvent[t]
      [] pc[t] = "drvYield"       -> ~locked
      [] pc[t] = "drvWait"        -> ~locked /\ pendingEvent[t]

(* Where its continuation goes on.  A cancelled wait takes no event. *)
Resumed(p, keepGoing) ==
    CASE p = "preSuspended"   -> "preResumed"
      [] p = "enterSuspended" -> "enterResumed"
      [] p = "parkedYield"    -> "unparked"
      [] p = "parkedWait"     -> IF keepGoing THEN "unparkedWait" ELSE "unparked"
      [] p = "drvYield"       -> "drvResumed"
      [] p = "drvWait"        -> IF keepGoing THEN "drvWoken" ELSE "drvResumed"
      [] OTHER                -> p

ParkedAt == {i \in DOMAIN suspendedTaskIDs : suspendedTaskIDs[i] # NoTask}

(* The position at which a tick leaves early: the first rejected task. *)
RejectedAt ==
    {i \in ParkedAt :
        /\ rejected[suspendedTaskIDs[i]]
        /\ \A j \in ParkedAt : j < i => ~rejected[suspendedTaskIDs[j]]}

(* The positions a tick resumes: the ready ones up to there, and the          *)
(* rejected one.                                                              *)
SweptAt ==
    {i \in ParkedAt :
        /\ \A r \in RejectedAt : i <= r
        /\ i \in RejectedAt \/ ReadyFn(suspendedTasks[suspendedTaskIDs[i]])}

(* tick(): resume what was swept, with keepGoing = !task.isCancelled() of     *)
(* the task the continuation is parked under; the timer stops when a full     *)
(* sweep leaves nothing parked.  (The code keeps nulls a little longer.)      *)
Tick ==
    /\ tickLoop
    /\ LET swept == {suspendedTaskIDs[i] : i \in SweptAt}
           woken == {suspendedTasks[id] : id \in swept}
           kept(t) == \E id \in swept : suspendedTasks[id] = t /\ ~rejected[id]
       IN  /\ pc' = [t \in Tasks |-> IF t \in woken THEN Resumed(pc[t], kept(t))
                                     ELSE pc[t]]
           /\ suspendedTasks' = [id \in Tasks |-> IF id \in swept THEN NoTask
                                                  ELSE suspendedTasks[id]]
    /\ suspendedTaskIDs' =
          IF SweptAt = ParkedAt THEN <<>>
          ELSE [i \in DOMAIN suspendedTaskIDs |->
                   IF i \in SweptAt THEN NoTask ELSE suspendedTaskIDs[i]]
    /\ tickLoop' = (RejectedAt # {} \/ SweptAt # ParkedAt)
    /\ UNCHANGED <<phase, slotVars, lockVars, metaVars, pendingEvent, resVars,
                   blocks>>

(* The reaction on the exit promise: placeholder.completed = true. *)
MarkCompleted(t) ==
    /\ pc[t] = "exited" /\ ~completed[t]
    /\ completed' = [completed EXCEPT ![t] = TRUE]
    /\ UNCHANGED <<pc, phase, nextTaskQueue, nextTaskPromise, awaits, lockVars,
                   suspVars, metaVars, pendingEvent, resVars, blocks>>

(* A subtask, stream or future of the set t waits on makes progress. *)
HostEvent(t) ==
    /\ pc[t] \in InWasm \cup Returned \cup InDriver
    /\ ~pendingEvent[t]
    /\ pendingEvent' = [pendingEvent EXCEPT ![t] = TRUE]
    /\ UNCHANGED <<pc, phase, slotVars, lockVars, suspVars, metaVars, resVars,
                   blocks>>

(* The host calls a synchronous export: enterSync(), the call under           *)
(* withGlobalCurrentTaskMeta(), exit().  No await: one step.  The export may  *)
(* change backpressure and may poll an event of a waitable set.               *)
CallSyncExport ==
    /\ SyncExports
    /\ locked' = FALSE
    /\ currentTaskMeta' = NoTask
    /\ backpressure' \in BackpressureSteps \cup {backpressure}
    /\ pendingEvent' \in {pendingEvent} \cup
                         {[pendingEvent EXCEPT ![t] = FALSE] : t \in Tasks}
    /\ UNCHANGED <<pc, phase, slotVars, backpressureWaiters, suspVars,
                   taskMetas, resVars, blocks>>

-----------------------------------------------------------------------------
(* Nothing left to do. *)
AllExited == (\A t \in Tasks : completed[t]) /\ UNCHANGED vars

Job(t) ==
    \/ AsyncStartCall(t) \/ StartResumed(t)
    \/ AwaitAgain(t) \/ TakeSlot(t) \/ EnterResumed(t) \/ BeginCall(t)
    \/ Unpark(t)
    \/ DriverExit(t) \/ DriverBlock(t) \/ DriverResume(t)
    \/ MarkCompleted(t)

GuestStep(t) ==
    \/ TaskReturn(t) \/ Yield(t) \/ WaitableSetWait(t) \/ SetBackpressure(t)
    \/ Trap(t) \/ ReturnCode(t) \/ ReturnValue(t)

Next ==
    \/ \E t \in Tasks :
          CallExport(t) \/ PrepareCall(t) \/ Job(t) \/ GuestStep(t) \/ HostEvent(t)
    \/ Tick
    \/ CallSyncExport
    \/ AllExited

Spec == Init /\ [][Next]_vars

(***************************************************************************)
(* Fairness.  The JavaScript event loop runs every queued job and every    *)
(* armed timer (Job, Tick).  The other conjuncts are assumptions on the    *)
(* environment: guest code that was started calls task.return and returns, *)
(* and what a task waits for happens.                                      *)
(***************************************************************************)
Fairness ==
    /\ WF_vars(Tick)
    /\ \A t \in Tasks :
          /\ WF_vars(Job(t))
          /\ WF_vars(TaskReturn(t))
          /\ WF_vars(ReturnCode(t) \/ ReturnValue(t))
          /\ WF_vars(HostEvent(t))

FairSpec == Spec /\ Fairness

-----------------------------------------------------------------------------
(* Properties *)

TasksOrNone == Tasks \cup {NoTask}

(* Type invariant. *)
TypeOK ==
    /\ pc \in [Tasks -> PCs]
    /\ phase \in [Tasks -> {"callee", "callback"}]
    /\ nextTaskQueue \in Seq(Tasks)
    /\ nextTaskPromise \in TasksOrNone
    /\ awaits \in [Tasks -> TasksOrNone]
    /\ completed \in [Tasks -> BOOLEAN]
    /\ locked \in BOOLEAN
    /\ backpressure \in 0 .. BackpressureLimit - 1
    /\ backpressureWaiters \in Int
    /\ suspendedTaskIDs \in Seq(TasksOrNone)
    /\ suspendedTasks \in [Tasks -> TasksOrNone]
    /\ tickLoop \in BOOLEAN
    /\ taskMetas \in Seq(Tasks)
    /\ currentTaskMeta \in TasksOrNone
    /\ pendingEvent \in [Tasks -> BOOLEAN]
    /\ resolved \in [Tasks -> BOOLEAN]
    /\ resolvedBy \in [Tasks -> TasksOrNone]
    /\ rejected \in [Tasks -> BOOLEAN]
    /\ blocks \in [Tasks -> 0 .. MaxBlocks]

(* nextTaskExecutionSlot() serialises the async tasks of an instance: two    *)
(* tasks are never both between taking the slot and leaving exit(), whatever *)
(* they await in between.                                                    *)
OneTaskInSlot ==
    \A t, u \in Tasks : pc[t] \in InSlot /\ pc[u] \in InSlot => t = u

(* Slots are handed out in the order enter() was called: a task gets in only *)
(* after the exit of every earlier one was noted in its placeholder.         *)
SlotsInOrder ==
    \A i, j \in DOMAIN nextTaskQueue :
        i < j /\ pc[nextTaskQueue[j]] # "queued" => completed[nextTaskQueue[i]]

(* What keeps both true: a task has one placeholder, pushed when it called   *)
(* enter(), and a placeholder is completed only after exit().                *)
Outside == Unqueued \cup {"failedStart"}

SlotInv ==
    /\ \A i, j \in DOMAIN nextTaskQueue :
          nextTaskQueue[i] = nextTaskQueue[j] => i = j
    /\ \A t \in Tasks :
          pc[t] \in Outside <=> \A i \in DOMAIN nextTaskQueue : nextTaskQueue[i] # t
    /\ \A t \in Tasks : completed[t] => pc[t] = "exited"
    /\ SlotsInOrder

(* No continuation is forgotten: a parked task is stored under exactly one   *)
(* task ID, the ID is in the list tick() sweeps, and the timer is armed.     *)
NoSleeperForgotten ==
    /\ \A t \in Tasks : pc[t] \in Suspended <=>
          \E id \in Tasks : suspendedTasks[id] = t
    /\ \A id, jd \in Tasks :
          suspendedTasks[id] # NoTask /\ suspendedTasks[id] = suspendedTasks[jd]
             => id = jd
    /\ \A id \in Tasks : suspendedTasks[id] # NoTask =>
          tickLoop /\ \E i \in DOMAIN suspendedTaskIDs : suspendedTaskIDs[i] = id

(* addBackpressureWaiter() and removeBackpressureWaiter() are balanced:      *)
(* the counter is the number of tasks waiting inside enter(), so its         *)
(* underflow error cannot occur.                                             *)
WaitersCounted ==
    backpressureWaiters = Cardinality({t \in Tasks : pc[t] \in Entering})

(* Without synchronous exports, a task that needs the exclusive lock has it  *)
(* from the end of enter() until its wasm function has returned.             *)
LockHeldInWasm ==
    \A t \in Tasks : needsExclusiveLock(t) /\
        pc[t] \in {"entered"} \cup InWasm \cup Returned => locked

(* exit() of an export wrapped as async never throws, neither after the       *)
(* export returned nor after it trapped: the check "should have been          *)
(* exclusively locked" finds the lock, and no other task has resolved this    *)
(* one.  (Whether exit() is reached at all is another matter: ReturnFails.)   *)
ManualExitSucceeds == \A t \in Tasks : Kind[t] = "manual" => pc[t] # "lost"

(* The right current task is set while callees and callbacks run, also after *)
(* they were parked.                                                         *)
CurrentTaskIsRunning ==
    \A t \in Tasks : pc[t] \in InWasm => currentTaskMeta = t

(* task.return resolves the task whose code called it: no caller gets the    *)
(* result of another call.                                                   *)
ResolvedBySelf == \A t \in Tasks : resolvedBy[t] \in {NoTask, t}

(* Among host calls, a wait is never parked under a task that was rejected:  *)
(* tick() would end the wait of a healthy task as cancelled.                 *)
NoRejectedTaskSuspended ==
    \A id \in Tasks : suspendedTasks[id] # NoTask => ~rejected[id]

(* A built-in that blocks parks the task that called it: the waitable set is *)
(* "relevant to the implicit current task".                                  *)
ParkedAsItself ==
    \A id \in Tasks : suspendedTasks[id] \in {NoTask, id}

(* Every task between creation and exit is found in taskMetas, although      *)
(* exit() of a task that is not the latest leaves its own entry behind.      *)
LiveTasksTracked ==
    \A t \in Tasks : pc[t] \notin {"idle", "exited"} =>
        \E i \in DOMAIN taskMetas : taskMetas[i] = t

(* A task with a callback whose callee returned is driven on: while guests    *)
(* keep the protocol, no task falls out of asyncStartCall() or the driver     *)
(* loop.                                                                      *)
CallbackTaskNotLost == \A t \in Tasks : hasCallback(t) => pc[t] # "lost"

(* A rejected task leaves: it "should immediately exit as well".  *)
RejectedTaskExits == \A t \in Tasks : rejected[t] ~> pc[t] = "exited"

(* The execution slot is a FIFO lock: every behaviour maps to one of          *)
(* TaskSlots, where tasks queue, the first unreleased one acquires, and the   *)
(* holder releases.                                                           *)
SlotHolder ==
    IF \E t \in Tasks : pc[t] \in InSlot
    THEN CHOOSE t \in Tasks : pc[t] \in InSlot
    ELSE NoTask

Slots == INSTANCE TaskSlots WITH
    arrived <- nextTaskQueue,
    holder <- SlotHolder,
    released <- {t \in Tasks : pc[t] = "exited"}

SlotsAreFIFO == Slots!Spec

(* When guests keep their side and backpressure is lifted for good, every    *)
(* task that called enter() gets its slot, its lock, and exits.              *)
EveryTaskExits ==
    <>[](backpressure = 0) =>
        \A t \in Tasks : pc[t] = "queued" ~> pc[t] = "exited"
=============================================================================
