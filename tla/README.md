# A TLA+ model of the jco runtime

jco turns a WebAssembly component into JavaScript. Its core is the crate
`js-component-bindgen`: it writes, next to glue code for each function, a runtime
of *intrinsics* (JavaScript in Rust string literals) that gives the component
model its semantics in a JavaScript engine: async tasks, locks, waitables,
streams, futures, and the handle tables of resources. That runtime is what these
modules model. It is concurrent in the way JavaScript is: one job runs at a time,
but every `await`, every timer and every import that suspends the WebAssembly
stack (JSPI) is a point at which another job may run, and much of its state is
global to a component instance.

## 1. Inventory

Paths are relative to `src/crates/js-component-bindgen/src` unless they start
with `src/`.

| Component | State | Operations | Hard parts | What makes it correct |
|---|---|---|---|---|
| Component async state (`intrinsics/component.rs`) | execution-slot queue and promise, exclusive lock, backpressure counter and waiter count, suspended tasks, tick timer | `nextTaskExecutionSlot`, `exclusiveLock`/`Release`, `suspendTask`, `tick`, `backpressureInc`/`Dec` | many jobs wake on one promise; a timer that stops itself; an early return in the sweep | one task in the slot, in order; no parked task forgotten; counters balanced |
| Async tasks (`intrinsics/p3/async_task.rs`) | task state, rejection, current-task list | `enter`, `enterSync`, `suspendUntil`, `resolve`, `reject`, `exit`, `task.return`, `yield`, driver loop | checks made before an `await` and used after it; errors on every path | the lock is held while wasm runs; a task is resolved by its own code; every task exits |
| Global current task (`intrinsics/mod.rs`) | one task ID per instance | set and cleared around calls into wasm | read again after the wasm stack was parked | the running task is the current one |
| Guest-to-guest calls (`intrinsics/p3/host.rs`) | prepared task, subtask | `prepareCall`, `asyncStartCall` | runs in a timer of its own; errors are logged only | same as for tasks |
| Export wrapper (`function_bindgen.rs`) | none of its own | `CallWasm`, `Return`, `AsyncTaskReturn`, `HandleLift`, `HandleLower` | error paths | clean-up on every path |
| Handle tables (`intrinsics/resource.rs`) | an array with a threaded free list per table, `_createdReps` | create own/borrow, remove, get, transfers | index reuse; numbers guests made up | a handle keeps its meaning; one owner |
| Resource trampolines, JS resource objects (`transpile_bindgen.rs`, `function_bindgen.rs`) | finalization registry, handle on the object | `resource.new`/`rep`/`drop`, dispose, finalizer | garbage collection at any time | the destructor runs once, for the right resource |
| Imported resources (same files) | `captureTable`, `curResourceBorrows` | lift, lower, clear borrows | a module-wide list shared by concurrent calls | borrows end with their own call |
| Waitable sets, waitables (`intrinsics/p3/waitable.rs`) | members, pending events, waiting count | new, join, wait, poll, drop | an event taken by somebody else between wake-up and use | every event delivered once; a set in use is not removed |
| Rep table (`intrinsics/mod.rs`) | slab of waitables, ends, contexts | insert, get, remove | unchecked removal | no two entries share an index |
| Subtasks, lowered imports (`intrinsics/p3/async_task.rs`) | subtask state, delivery flag, handle | start, resolve, deliver, drop | completion before or after the caller was answered | one resolution, told once; a suspended caller continues |
| Streams, futures (`intrinsics/p3/async_stream.rs`, `async_future.rs`) | ends, one pending buffer, the host's value queue and promise | read, write, cancel, drop, transfer, host reads and injections | rendezvous of two ends against cancel, drop and late values | no value lost or doubled; both ends agree; operations end |
| Tables of ends, error contexts (`intrinsics/component.rs`, `error_context.rs`) | a component-wide table, one per type, a global one; reference counts | create, transfer, lift, lower, drop | an end has two indices; drops in any order | an end is where it says; a context lives as long as it is counted |
| Value lifting and lowering (`intrinsics/lift.rs`, `lower.rs`, metas in `transpile_bindgen.rs`, `ManagedBuffer` in `intrinsics/mod.rs`) | a cursor into memory or into parameters | one lift and one lower per type | nested cursors, padding, joined parameters | what is read is what was written |
| preview2-shim (`src/packages/preview2-shim/src`) | worker thread, stream and poll tables | synchronous calls into a worker | two threads and an atomic wait | a reply per call |
| preview3-shim, CLI, `jco-transpile`, `jco-std`, bundler plugin, `xtask` | — | I/O adapters, argument parsing, builds | — | — |

How they interact: the host calls an export wrapper, which creates a task, enters
it (slot, backpressure, lock), runs wasm under the global current task, and hands
callback exports to the driver loop. Wasm calls intrinsics through trampolines;
those find "their" task through the global current task or the latest task of the
instance. Another component's call arrives through `prepareCall` and a timer.
Handles cross between components through the transfer trampolines and to the host
through `HandleLift` and `HandleLower`. A guest's own calls (imports, other
components) are subtasks: it learns of their end from the value of the call or from an
event of a waitable set. Ends of streams and futures are waitables too; their values
pass through the lifts and lowers and a `ManagedBuffer`.

The hazards, each at its line, are in `PROJECT.json`. A hazard without a property is
one that the code gets wrong, and its note names the configuration of section 3 that
shows it, or one whose note says why no property covers it.

## 2. Modules

| Module | Models |
|---|---|
| `ComponentTasks` | one component instance: async state, tasks, driver loop, export wrapper, the callee's side of guest-to-guest calls |
| `TaskSlots` | abstract: a lock that serves its holders in the order they arrived |
| `ComponentTasksProofs` | theorems about `ComponentTasks` |
| `HandleTable` | the array of a handle table as pure operators |
| `HandleTableUse` | one table under any sequence of calls |
| `HandleTableProofs` | lemmas about the operators of `HandleTable`, theorems about `HandleTableUse` |
| `ResourceTables` | one resource type, of a component or of the host, across components and host; composes tables |
| `ResourceTablesProofs` | theorems about `ResourceTables`; uses the lemmas of `HandleTableProofs` |
| `RepTable` | the slab `RepTable` as pure operators |
| `RepTableLemmas` | lemmas about its `insert` and `remove` |
| `Subtasks` | the calls a guest task makes, and its waitable sets; uses `RepTable` |
| `SubtasksProofs` | theorems about `Subtasks`; uses `RepTableLemmas` |
| `Streams` | the two ends of one stream, held by guests or by the host |
| `StreamsProofs` | theorems about `Streams` |
| `Futures` | the two ends of one future, held by guests or by the host |
| `FuturesProofs` | theorems about `Futures` |
| `EndTables` | where ends and error contexts are registered; composes `RepTable`s of two components and the global one |
| `EndTablesProofs` | theorems about `EndTables`; uses `RepTableLemmas` |
| `Values` | the flat lifts and lowers, their metadata, and the buffers of streams and futures |
| `CanonicalABI` | reference: layout in memory and flattening, as the component model defines it |
| `MCComponentTasks`, `MCHandleTable`, `MCResourceTables`, `MCSubtasks`, `MCStreams`, `MCFutures`, `MCEndTables`, `MCValues` | instances for TLC |

### ComponentTasks

A task has a `pc`: where its JavaScript job stands. One action is the code between
two points at which the job can be parked, so an action that touches the slot, the
lock and the suspended tasks does all of it in one step, as the code does.

- `CallExport`, `PrepareCall`: `createNewCurrentTask` by the host's call or by
  another component. Four kinds of task: callback export called by the host,
  synchronous export wrapped as async ("manual", JSPI), callback export called by
  a guest, export without callback called async by a guest.
- `AwaitAgain`, `TakeSlot`, `EnterResumed`: `enter()`. `awaits[t]` is the promise a
  queued task awaits (the exit of the task that was current at the time),
  `completed` the flag the promise's reaction sets in the placeholder
  (`MarkCompleted`, a job of its own).
- `BeginCall`, `TaskReturn`, `Yield`, `WaitableSetWait`, `Unpark`,
  `SetBackpressure`, `Trap`: wasm runs. `Block` is `suspendUntil`, with the coin
  flip of the random determinism profile as a choice.
- `ReturnCode`, `ReturnValue`, `DriverExit`, `DriverBlock`, `DriverResume`: wasm
  returns, and the driver loop.
- `Tick`: one sweep over the suspended tasks, the early return included. A
  continuation is stored under a task ID (`suspendedTasks[id] = t`) because the two
  differ when a built-in parks its caller under another task.
- `CallSyncExport`: a synchronous export from `enterSync()` to `exit()`; no `await`
  in between.

A task that threw in `exit()` or returned on a path without it is `"lost"`: it still
holds the execution slot. A manual task is `"failedReturn"` if its wrapper threw before
`exit()` (`ReturnFails`): lifting the result does so before `resolve()`, the guest's
post-return after it, and nothing catches either. Slot and lock then stay taken, which
is why `EveryTaskExits` needs guests that do not fail (`TasksReturn.cfg`). Such a
post-return also leaves `mayLeave` false for the instance; that its other tasks then
throw in the next built-in is `Trap`. `InstantiationMode` tells the two kinds of output apart (see
`TasksModule.cfg` below).

Abstracted: values and memory; a task's waitable set is one flag `pendingEvent`;
component-wide errors; nulls in the list of suspended IDs are dropped when the
sweep empties the list (the code filters them at a threshold), and completed
placeholders are never filtered (the code filters past 1000).

### HandleTable, HandleTableUse

The array is a record of functions over the pairs: free flag, number, own bit, rep.
`Create` and `Remove` are the two creating functions and `rscTableRemove`.
`HandleTableUse` calls them with any number at any time, because no caller checks
what a guest passes: freed handles throw, but a handle that was never issued reads as
`undefined` and is accepted, and the model has that too.

### ResourceTables

A table per component, `createdReps` for `_createdReps`, and JavaScript objects. The
type is implemented by a component (`definer`), and objects are proxies with a handle
and a registration in the finalization registry; or by the host, and objects are its
instances, kept in `captureTable` under a rep that `captureCnt` gives. Guests keep the
component model's rules (`MayDrop`, `MayGive`, `MayLend`: they drop, give and lend
what they hold, and do not give away what is lent); the host does what it likes with
its instances. `held`, `alive`, `objRep`, `lent` and `lowered` record what the parties
believe; the properties compare that with the tables. `LendOnBorrows` and
`LendToFormerOwner` switch on two uses that the code gets wrong, so that everything
else can be checked without them. A borrow that a guest passes to the host changes
nothing for a captured object: the end of the call clears a handle it does not have.

### Subtasks

One guest task and its calls: imports lowered async or sync, by type or declared async
by hand, fused calls of another component, symmetric synchronous calls. A call is
driven by a microtask, a timer and the host function or callee (`sub[s].driver`); the
resolution may come before or after the timer that answers the call. The table is the
component's real `RepTable`, so that a handle that is dropped too early is issued
again. While the task is suspended, a synchronous export may poll and drop its sets.
`told` counts how often the guest learned that a call returned.

### Streams, Futures

The state of one stream: which end's buffer is pending, each end's copy state, buffer
and event, and what has arrived. `guest`: both ends in components. `hostReader`: the
host reads with `read()`, whose calls are chained. `hostWriter`: every read of the
guest starts an injection that takes values from the host's iterator, parks on it, and
writes just in time. Elements are numbered, so that loss and repetition show.

The iterator may give any chunk, an empty one or `undefined` among them, end with or
without a last value, or throw (`SourceYields`, `SourceThrows`). After an empty chunk
the injection wants one value less (`WantAfter`); with nothing left to want and nothing
in hand it ends in a write of nothing, and the read it serves waits on. When the
iterator throws, the values the injection held are gone (`InjectFails`): a suspended
reader waits on, and an asynchronous one waits on too but gets an error event instead of
its read's (`TakeError`).

A guest takes the event of an end before it drops the end, and drops none with an
operation under way: this guard of `StreamDrop` and `FutureDrop` is the component
model's rule for guests, the code only checks part of it.

`Futures` has the same settings for one value, with several consumers of a lifted
future, and rejection of a lowered promise.

`hostWriterCancel` restricts cancelled reads to length 1 (`CancelCounts`) and the
iterator to at most one value at a time and no failure, because beyond that the code is wrong: `hostCancelFn` looks
for a write event that `copy()` has already consumed, puts the values back although
they were written, and the guest gets them twice; and an injection that was started for
a longer, cancelled read writes too much into a later, shorter one.

### EndTables

Two components with their component-wide and typed tables, one stream, one future, and
error contexts with their global entry. Creation by guests and by the host (a lowered
stream or future has both ends in the component), transfer, lifting, drop, and the
counts of error contexts. `host` are ends only the host uses: they stay in the tables.

### Values, CanonicalABI

`Values` has one operator per lift and lower, with the cursor (`storagePtr`, remaining
length, remaining parameters) as the code threads it, the metadata that the generator
computes for each type, and `ManagedBuffer`. `CanonicalABI` is written from the
component model, not from the repository, and is what a guest does with its memory. A context
carries the component it belongs to, and the metadata of an own handle the component
whose table it names: the lifts and lowers of own handles throw if the two differ. A
resource stands for its handle here; the tables are in `ResourceTables`. One
behaviour: values of one type are written into a guest's buffer by the host, read back,
copied to another guest, or returned through `task.return`. Padding holds stale bytes.

## 3. Runs

| Run | Bounds | Shows |
|---|---|---|
| `TasksHost` | 3 tasks (2 callback, 1 manual), 1 block each, backpressure limit 3, guests may fail | parked tasks are never forgotten; the lock is held while wasm may run; the current task is the running one; `task.return` resolves the caller; `exit()` of a manual task does not throw; no wait is parked under a rejected task |
| `TasksGuest` | 3 tasks (host callback, guest callback, guest sync), sync exports, guests may fail | the slot is a FIFO lock (`SlotsAreFIFO`, a refinement) even when locks, metas and errors go wrong; waiter count balanced |
| `TasksLive` | as `TasksHost`, guests keep their side and do not fail | every task that entered exits |
| `Handles` | 4 handles, 2 reps | free list sound and complete, meaning kept |
| `Resources` | 2 components, type of a component or of the host, 2 reps, 2 objects, 3 handles | one owner and one destructor call; handles and objects never reach another resource; borrows resolve; captured objects are found |
| `Subtasks` | 2 subtasks, 2 sets, 3 table entries, all kinds of calls but sync-lowered async functions, early drops | handles find their objects and are freed; a call is told once that it returned; sets agree with their members and are not removed in use; an import resolves its own subtask; a suspended caller gets control back |
| `Streams` | 4 elements, lengths 0 to 3, 4 host reads, 3 injections, 2 timers | values in order, none lost or repeated; both ends agree on the counts; nobody waits unseen; every value of the host is in exactly one place until its iterator throws; cancellations end, and reads do unless the iterator threw or left their injection without a value |
| `Futures` | 3 consumers | the value crosses once; two operations never wait for each other; operations end |
| `Ends` | 2 components, tables of 4, 5 creations, transfers and lifts, 1 error context with 3 local handles | an end is found under its indices, alone; a context's entry exists exactly while it is counted |
| `Values` | 81 shapes (65 of them returned), 1 or 2 values each, extreme and asymmetric patterns | host to guest, guest to host, guest to guest and `task.return` keep the value |

Three tasks are enough for one to hold the slot, one to be next and one to arrive in
between; one block lets each task be parked once in wasm or in the driver loop, and
the driver loop's second entry is the same code as the first. The backpressure limit
stands for 2^16: 2 or 3 lets the counter be raised, raised again and refused. Two
reps and two objects are what a mix-up needs; three handles let one be freed and
issued again while another is in use. Two subtasks let one be dropped, its place issued
again, and the first resolve afterwards. Four elements and lengths up to three let a
write be served by two reads, a read by two writes, and zero-length operations meet
both. Three injections let one give up, one hold a value and one be new. Five moves
bring an error context to the other component and back, and a stream there and to the
host. Two values in a buffer show whether the first leaves the cursor where the second
is. The shapes are every scalar and both ends of the kinds with a boundary (flags of 1,
2 and 4 bytes, enums of 1 and 2, fixed lists around the 16 flat values), fields with and
without padding, lists and fixed lists of most of these, and variants whose payload
is absent, narrower than the variant, or joined to an `i32`, `i64` or `f64`.

`Values` leaves out what the code does not support. Each group below has a name in
`MCValues` and a configuration in the table of refuted ones, and TLC refutes each of its
shapes on its own:

- `task.return` (`NotReturned`): a variant with a 64-bit case payload, because the first
  parameter of a case is made a number and the lift of a bigint refuses it (at another
  place in the payload it passes); a float payload that is not joined to an integer; a
  negative `s32` joined to an `i64`, and what follows the first parameter of a case
  joined to an `i64`; fixed lists of elements that need lifting (their parameters are
  returned as they are); 16 or more flat values; enums of more than 255 cases.
  What is joined to an `i32` is passed zero-extended, as the Canonical ABI's lower does.
- a copy from guest to guest (`NotCopied`): options and results without an error
  payload, whose lifted form has a tag and no `val`; own handles, because the stream's
  metadata names the first guest's component.
- a buffer of variants whose cases end at different places (`ValuesConsecutive`).

Two things have no configuration: a `u32` or `u64` parameter with its highest bit set is
lifted as a negative number (the samples have none, inside variants and own handles
neither), and unit is not returned.

Two runs must be refuted (texts in `PROJECT.json`, "findings"):

| Run | What happens |
|---|---|
| `ImportsSyncLower` | an async function lowered synchronously is never called, and its caller never continues |
| `ValuesConsecutive` | the second `result<u8, string>` of a buffer is read from inside the first |

More disagreements of the code with its comments and docs have a configuration each,
which TLC refutes in seconds (`tlc -config X.cfg M`); the passing runs leave these uses
out, so that they say what holds for everybody else.

| Configuration | Refutes | What happens, against what the source says |
|---|---|---|
| `TasksReturn.cfg` (`MCComponentTasks`) | `EveryTaskExits` | the lift of a manual export's result or its post-return throws, and `exit()` is never called: slot and lock stay taken and the next call waits for ever for its exit promise (`function_bindgen.rs:2102`, where only `CallWasm` is in a `try`) |
| `TasksLock.cfg` | `ManualExitSucceeds` | a sync export called while a manual task is parked takes and releases the lock; the manual task's `exit()` throws ("should have been exclusively locked") and keeps the slot. The comment at `async_task.rs:1065` expects the lock call itself to fail |
| `TasksCurrent.cfg` | `CurrentTaskIsRunning` | `prepareCall` changes the callee's current task under a parked task; `mod.rs:961`: "ensuring that the right "current task" is set" |
| `TasksParked.cfg` | `ParkedAsItself` | `waitable-set.wait` parks its caller under the latest created task; `waitable.rs:38`: "relevant to the implicit current task" |
| `TasksRejected.cfg` | `RejectedTaskExits` | a trapping callback is rejected and never exits; `component.rs:482`: "the callback should immediately exit as well" |
| `TasksModule.cfg` | `CallbackTaskNotLost` | in ES module output `asyncStartCall` refers to `resolve` and `reject`, which only `instantiate()` declares; the error is swallowed and the driver loop never runs |
| `ResourcesRelend.cfg` (`MCResourceTables`) | `HandlesHeld` | lending on a borrow frees the pair numbered like the rep (`resource.rs:220`) |
| `ResourcesFormerOwner.cfg` | `BorrowsResolve` | a former owner is lent the bare rep (`resource.rs:229`) |
| `StreamsHostReads.cfg` (`MCStreams`) | `NoReadFails` | a read that ends clears the chain, so a later one finds the stream "undergoing a separate copy"; `async_stream.rs:1041`: "read #3 must wait on read #2, *not* read #1" |
| `StreamsEmptyChunk.cfg` | `ReadsAnswered` | an empty chunk of the host's iterator ends the injection with a write of nothing (`async_stream.rs:2200`, `2215`): the guest's read waits for ever, also if the iterator has more |
| `EndsGivenDrop.cfg` (`MCEndTables`) | `DropNeverThrows` | the destination of a transferred error context drops first, then the source's drop throws and the global entry stays; `error_context.rs:385`: "return functions ... may attempt to drop *after* the transfer" |
| `ValuesCopied.cfg` (`MCValues`) | `CopyFindsValues` | a lifted `none` is `{ tag: 'none' }` (expected so by `src/packages/jco-transpile/test/p3/stream-lifts.ts:406`), which the lower of an option takes for a payload: it arrives as `some`. The error of a `result<T>` likewise arrives as ok (`lift.rs:873`, `lower.rs:1004`), and an own handle throws (`lower.rs:1034`) |
| `ValuesReturned.cfg` | `CallerFindsValue` | the shapes of `NotReturned` throw or change in `task.return` (`lift.rs:881` for payloads, `570` and `611` for floats, `962` for fixed lists, `transpile_bindgen.rs:2670` against `async_task.rs:520` for 16 flat values) |

Found while reading, and not a run of its own: a lifted error context is looked up by
its waitable index in a table of another numbering (`lift.rs:1449`); lowering an error
context from the host throws for undeclared names (`lower.rs:1275`); `future.cancel-*`
and `FutureEnd.drop` with a pending buffer name undeclared variables
(`async_future.rs:567`, `1340`); a poll between `tick()` and the continuation of a wait
makes the wait throw and leaves the set undroppable (`waitable.rs:249`); a captured
object that was lent is never released (`function_bindgen.rs:2571`); lifted ends keep
their table entries; a char cannot be lowered (`lower.rs:522`).

Fairness: weak fairness of jobs, timers and intervals that are due, because an event
loop runs every queued job and every armed timer: each task's jobs and `Tick`
(`TasksLive`), the microtask and timer of each call (`Subtasks`), injections, host
polls and the cancellation timer (`Streams`, `Futures`). The rest is assumed of the
environment: a guest that was started calls `task.return` and returns, a guest that
waits for an event takes it, host functions and callees come to an end, the host's
iterator answers or throws and its promise settles. `EveryTaskExits` also assumes that backpressure
is lifted for good in the end: nothing in the runtime can lower it. Nothing is assumed
about when a guest reads, writes or cancels; it drops an end only after the event of its
last operation (section 2).

Deadlock is checked where the model should never stop: in `TasksLive` (the end state
has a self-loop only when all tasks have exited) and `Handles`. Elsewhere a bound
(elements, reps, subtasks) or a failing guest ends a behaviour.

The type invariants of `ResourceTables`, `Subtasks`, `Streams`, `Futures`, `EndTables`
and `HandleTableUse` hold in the same instances; they are not listed in the
configurations, which ask about behaviour.

## 4. Proofs

A proof holds for every value of the constants: any number of tasks, components,
objects, subtasks, sets, elements, any table size, any bound. Each proof has the same
plan: an inductive invariant, one lemma per action that keeps it, and the property as a
consequence. The invariants are stronger than the properties because each property
alone forgets what the next step relies on; what had to be added is said below.

### ComponentTasks (`ComponentTasksProofs`)

- `TypeCorrect`: `[]TypeOK`.
- `MutualExclusion` and `ServedInOrder`: from the inductive invariant `SlotInv`. Mutual
  exclusion alone is not inductive: that nobody else is in the slot when `IsNext`
  finds a task's placeholder needs the order (`SlotsInOrder`), that a task has one
  placeholder, that it has one exactly from `enter()` on, and that `completed` is set
  only after `exit()`. Every action is first reduced to what the slot sees of it
  (`SlotSees`: enqueues, takes, leaves, marks, stays put), and the invariant is proved
  for those five. The other groups of properties have a classification of their own
  (`SleepSees`, `WaitersSee`, `MetasSee`, `RejectionSees`).
- `SlotRefinement`: `Spec => Slots!Spec`, the refinement to `TaskSlots`, from the same
  classification.
- `SleepersRemembered` (`NoSleeperForgotten`) from `SleepInv`, which adds that a task
  parked before it has its slot is stored under its own ID.
- `WaitersBalanced` (`WaitersCounted`) needs both invariants: `enter()` adds a waiter
  before `suspendTask()`, which throws if something is parked under the task's ID. What
  could be parked there is a task in the slot, which is free, or one that waits for it,
  which by `SleepInv` is under its own ID.
- `TasksStayTracked` (`LiveTasksTracked`) is inductive with the types.
- `LockHeld`: without synchronous exports, `[]LockHeldInWasm`. It rests on mutual
  exclusion: only the holder of the slot releases the lock.
- Under `HostOnly` (no synchronous exports, every task called by the host):
  `CurrentTaskRight` (`CurrentTaskIsRunning`), again from mutual exclusion;
  `ResultsStayHome` (`ResolvedBySelf`) from it; `ManualExitsSucceed` (`ManualExitSucceeds`:
  once called, `exit()` does not throw; that it is called is not claimed)
  from both the lock and the current task, with `ManualInv` (a manual task never enters
  the driver loop, and is resolved only when it exits); and `HealthyWaitsKept`
  (`NoRejectedTaskSuspended`). The last one needs an argument: a wait is parked under
  the latest created task, which may be another one. `MetaOrder` says that the list of
  tasks has the order of the slot queue, so the latest has not been in the slot before
  the one that runs, and `RejectedGone` that a rejected task has left it.

The hypotheses are needed: `TasksLock.cfg` and `TasksCurrent.cfg` refute two of these
properties with synchronous exports and with calls from guests.

### Handle tables and resources (`HandleTableProofs`, `ResourceTablesProofs`)

`TableTypeCorrect`, `LinksStaySound` and `MeaningKept` about one table that is called
with anything. The invariant is `TableTypeOK /\ FreeLinksSound`: the links of the free
list are injective on flagged pairs and stay among them, so popping the head cannot hand
out a pair that another link still leads to. `FreedHandlesReused` (`NoHandleLost`) says
that the free list also misses no freed pair. That pairs are reached by following links
would be an induction; the property is stated with its witness instead, a sequence of
all freed handles, each once, in the order of the links and with the sentinel at its
end. `Create` takes the first handle off the sequence and `Remove` puts one in front.

`ResourceTablesProofs` uses the same lemmas for all tables at once. `ResInv` says of
every table that its links are sound, and relates the tables to each other and to what
the parties hold: two own handles anywhere have different reps and each resource that is
alive has one (`OwnersSound`); a handle is in use exactly if its component or an object
holds it (`HoldersSound`); an object's handle is an own handle of its resource, in its
registration too (`ObjectsSound`); what is lent is alive, and a borrow handle is
recorded as lent (`LentSound`); reps of captured objects are below the counter
(`HostSound`). Theorems: `OneOwnerHolds`, `HandlesStayHeld`, `ObjectsOwnTheirs`,
`CapturesFound`, if guests do not lend on what they borrowed (`~LendOnBorrows`), and
`BorrowsStayResolved` if no component is lent what it once owned either
(`~LendToFormerOwner`). `ResourcesRelend.cfg` and `ResourcesFormerOwner.cfg` show that
the code does not have the properties otherwise.

### Subtasks and the rep table (`RepTableLemmas`, `SubtasksProofs`)

Two layers. `CallsInv` is about the calls: where the microtask or timer of each call
stands, who has been told what. `ImportsResolveThemselves` needs that the guest cannot
make a second call while the microtask of the first is queued, so that its subtask is
still the last of the list; `ResolutionsToldOnce` that a resolution is either in an event
of a subtask the guest has the handle of, or the guest is still inside the call.

`HandlesInv` is about the table. `RepTableLemmas` proves that `insert` and `remove` keep
`Sound`: a link of the free list leads to a pair without a value and no two to the same,
and every pair without a value is reached. The completeness of the free list is stated
locally here, not with a sequence as for `HandleTable`: every free pair has a
predecessor. On top of it: the task's list holds the unresolved subtasks once each,
every object has at most one rep, a subtask under way is at its own, and a set and its
members agree. `HandlesStaySound`, `SetsStaySound` and `SubtaskTypes` (the waiting count
of a set does not go below zero) follow. Assumed of the constants: subtasks, sets and
reps are told apart, and a table has at least one rep.

### End tables (`EndTablesProofs`)

`EndInv` has three parts. `PlaceInv`: every `RepTable` of the components is `Sound` (the
lemmas of `RepTableLemmas`), each end and each local error context is in the tables
exactly where it records to be, and nothing else is there; it is stated for all tables
at once, as a function from objects to places, so that a creation, a transfer and a drop
are each one or two changes of one place. `LocalInv`: a local error context is in a
component unless it is free. `CtxInv`: the count of an error context is the number of its
local handles plus what the host keeps, and the global entry is there while either is
positive. `EndsStayFound` (`Found`) and `ContextsStayKept` (`ContextKept`) follow, for any
components, any table size and any number of error contexts. Assumed: the constants that
stand for ends, local contexts, contexts and reps are told apart, and the local contexts
are finitely many.

### Streams and futures (`StreamsProofs`, `FuturesProofs`)

`StreamInv`, for a stream that a component writes: each end is at rest, or copies with
its buffer pending, or has an event it was not told of (`Sound`), and what each was told
plus what its buffer holds is what arrived, which is 1, 2, ... (`Counted`). Every
operation is split at the rendezvous: `setupCopy` makes an end `Ready`, each case of
`writeTo` and `readFrom` makes it `Met`, and returning or blocking restores the
invariant.

`HostInv`, for a stream that the host writes, adds where the host's values are:

- `WriterRests`: between two jobs the host's end is idle, or holds one parked element,
  the one that answered a read of length 0.
- `Flow`: where the writable end stands, the values an injection holds and the queue
  follow each other (`Chain`), and end at the last value the iterator yielded. Only the
  oldest injection holds any.
- `Lone`, when reads are not cancelled: at most one injection is under way, and it serves
  the read that waits; what it holds plus what it still wants is the length of the read.
- `Singly`, when they are: injections wait with empty hands, and a value in the queue
  while a read waits means that one of them was woken and will take it. So when the
  timer of a cancellation runs, no injection is in the middle of a write.

If the iterator throws, `HostStopped` takes over: the injection is gone, the host's end
is at rest and the read waits, while the guest may still take the error event.

From both invariants follow `NobodyWaitsUnseen` (`BlockedIsPending`), `EndsAgree`
(`Accounting`), `ArrivesInOrder` (`InOrder`), `ValuesConserved` (`Conservation`: every
value the iterator yielded is in exactly one place, as long as it has not thrown) and `Typed` (`TypeOK`), for all four
settings and every number of elements, injections, timers and host reads, any chunks and
lengths. The hypothesis `SingleCancels`, which each of them has, is empty in three
settings; in `hostWriterCancel` it says that reads that may be cancelled have length 1.
It is needed: with `CancelCounts = {0, 1}` and three injections TLC finds a write that
throws because another is parked, and with longer reads elements are repeated (section
2, Streams).

`FutureInv` says the same of a future for all settings, and where its value is:
`ValueHandedOver` (`HandedOver`), `NeverBothWait` (`OneWaits`) and `TypeCorrect`, which
says that no operation of a future ever ends as cancelled or dropped.

### Only model-checked

- Liveness (`EveryTaskExits`, `CallsReturn`, `OperationsEnd`): it needs fairness and
  ENABLED, which this prover does not handle.
- `Values` (`GuestFindsValues`, `HostFindsValues`, `CopyFindsValues`,
  `CallerFindsValue`): the lifts and lowers are recursive over types (`RECURSIVE`), and
  that one undoes the other for every type is an induction over types.

## 5. Not modelled, and the plan

Every safety invariant of the passing runs but those of `Values` is proved. Refinements
worth stating: `Streams` and `Futures` to an abstract channel, whose
state would be what arrived and what each end was told.

Not modelled, and why:

- The conversions that `function_bindgen` writes instruction by instruction for
  synchronous functions (straight-line code per type, without a cursor), UTF-16
  strings, chars, borrows in flat lifts and lowers (they throw), and lowering into
  direct parameters (no caller).
- Hybrid and guest-side bindings of resources: objects that carry a rep or handle of
  another generated module. Only there do
  objects carry a handle that the end of another, parked call can clear
  (`curResourceBorrows`, `function_bindgen.rs:2055`).
- Deadlocks that guests make: tasks of an instance run one after the other, and one that
  waits for what only a queued one would do never ends.
- `subtask.cancel` and `task.cancel`: the first marks a task that was already rejected,
  the second throws a ReferenceError.
- The path of `LowerFlatStream` for a `HostStream` that is in the global map: nothing
  registers one.
- Composition of `ComponentTasks` with `Subtasks` and of `Subtasks` with `Streams`: a
  task's wait is one flag in the first, an end's event one field in the last. The
  product is beyond TLC at useful bounds.
- Text generation (`ts_bindgen`, `esm_bindgen`, `names`, most of `transpile_bindgen`),
  the rewriting of core modules, the command line, bundler plugins and build tasks:
  sequential transformations of text and files.
- The shims: file system, sockets, HTTP and Node stream adapters are I/O; the
  synchronous worker call is one wait and one message.
