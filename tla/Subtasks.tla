------------------------------ MODULE Subtasks ------------------------------
(***************************************************************************)
(* The calls a guest task makes: lowered imports of the host, fused calls  *)
(* of another component, and symmetric synchronous calls.  Each is an      *)
(* AsyncSubtask with a Waitable and a handle in the component's RepTable;  *)
(* the guest learns of its progress from the value the call returns or     *)
(* from an event it takes out of a waitable set.                           *)
(*                                                                         *)
(* One guest task runs at a time (ComponentTasks has the scheduling); a    *)
(* guest that traps leaves the state as the throw left it, and the host    *)
(* can call the component again.  While the task is suspended the host may *)
(* call a synchronous export of the same component, which can poll its     *)
(* sets.                                                                   *)
(*                                                                         *)
(*   tab      the component's handles                                      *)
(*   subs     AsyncTask.#subtasks, oldest first                            *)
(*   sub[s]   the subtask s: its call, its state, whether its resolution   *)
(*            was delivered (#lenders is null), its waitable's idx, pending *)
(*            event and set, the progress of the code that drives it, the  *)
(*            subtask that code resolves, and whether the guest knows rep  *)
(*   sets[w]  the waitable set w: whether it was created, #waitables,      *)
(*            #waiting                                                     *)
(*   guest    what the task does: runs, or is suspended on obj             *)
(*   told[s]  (history) how often the guest was told that s returned       *)
(***************************************************************************)
EXTENDS RepTable, FiniteSets, Sequences, SequencesExt

CONSTANTS
    Sub,        \* bound: the subtasks that are created
    WSet,       \* bound: the waitable sets that are created
    Calls,      \* the kinds of calls the guest makes, a subset of CallKinds
    EarlyDrop   \* whether a guest drops a subtask before it was told its end

(* What a trampoline is generated for: imports by whether they are lowered   *)
(* async, async by type or declared async by hand, and calls of a guest.     *)
CallKinds == {"async", "sync", "manual", "syncOfAsync", "fused", "symmetric"}

ASSUME CallsAssumption == Calls \subseteq CallKinds /\ EarlyDrop \in BOOLEAN

(* The objects of the table are told apart, and none is a rep. *)
Objects == Sub \cup WSet
ASSUME ObjectsAssumption == Sub \cap WSet = {} /\ Objects \cap 0 .. MaxRep = {}

VARIABLES tab, subs, sub, sets, guest, told

vars == <<tab, subs, sub, sets, guest, told>>

(* STARTING and STARTED are unresolved, RETURNED is resolved; the cancelled *)
(* states need #cancelRequested of the subtask, which nothing sets.         *)
States == {"none", "STARTING", "STARTED", "RETURNED"}

Free == [call |-> "none", state |-> "none", delivered |-> FALSE, idx |-> 0,
         event |-> FALSE, set |-> 0, driver |-> "none", target |-> 0,
         exposed |-> FALSE]

Running == [at |-> "run", obj |-> 0]

Init == /\ tab = EmptyTable
        /\ subs = <<>>
        /\ sub = [s \in Sub |-> Free]
        /\ sets = [w \in WSet |-> [made |-> FALSE, members |-> <<>>, waiting |-> 0]]
        /\ guest = Running
        /\ told = [s \in Sub |-> 0]

(* Calls whose subtask is resolved in line have isAsync false; only the     *)
(* others get an onProgressFn, the manual one although it is not async.     *)
isAsync(s) == sub[s].call \in {"async", "fused"}
HasProgressFn(s) == sub[s].call \in {"async", "fused", "manual"}

(* filter(x => x !== s) of a list that holds s at most once. *)
Without(s, list) ==
    IF \E i \in DOMAIN list : list[i] = s
    THEN RemoveAt(list, CHOOSE i \in DOMAIN list : list[i] = s) ELSE list

-----------------------------------------------------------------------------
(* createSubtask: a waitable, the task's list, a handle; a fused call gives  *)
(* the handle to the guest at once.                                          *)
Created(s, call, state, driver) ==
    /\ sub' = [sub EXCEPT ![s] = [Free EXCEPT !.call = call, !.state = state,
                                              !.idx = NextRep(tab),
                                              !.driver = driver,
                                              !.exposed = (call = "fused")]]
    /\ subs' = Append(subs, s)
    /\ tab' = Insert(tab, s)

(* Subtasks and sets are created in a fixed order: which is which does not   *)
(* matter.                                                                   *)
CanCreate(s) == /\ guest = Running /\ HasRoom(tab)
                /\ sub[s] = Free /\ s = CHOOSE x \in Sub : sub[x] = Free

(* LowerImport, up to the return of its promise: the guest is suspended.     *)
LowerImport(s, call) ==
    /\ call \in {"async", "syncOfAsync"}
    /\ CanCreate(s)
    /\ Created(s, call, "STARTED", "queued")
    /\ guest' = [at |-> "call", obj |-> s]
    /\ UNCHANGED <<sets, told>>

(* LowerImportBackwardsCompat, for imports that are not async by type.  A    *)
(* synchronous one is called at once and resolves its subtask before it      *)
(* returns or throws: created, delivered and removed.  A manually async one  *)
(* suspends the guest until its result is there.                             *)
LowerImportBackwardsCompat(s, call) ==
    /\ call \in {"sync", "manual"}
    /\ CanCreate(s)
    /\ IF call = "sync"
       THEN /\ sub' = [sub EXCEPT ![s] = [Free EXCEPT !.call = call,
                              !.state = "RETURNED", !.delivered = TRUE,
                              !.idx = NextRep(tab), !.driver = "done",
                              !.target = s]]
            /\ tab' = RemoveRep(Insert(tab, s), NextRep(tab))
            /\ told' = [told EXCEPT ![s] = @ + 1]
            /\ UNCHANGED <<subs, guest>>
       ELSE /\ Created(s, call, "STARTED", "queued")
            /\ guest' = [at |-> "call", obj |-> s]
            /\ UNCHANGED told
    /\ UNCHANGED sets

(* prepareCall, then asyncStartCall: the guest gets the handle at once, the  *)
(* callee starts in a timer.                                                 *)
StartCall(s) ==
    /\ CanCreate(s)
    /\ Created(s, "fused", "STARTING", "queued")
    /\ UNCHANGED <<sets, guest, told>>

(* enterSymmetricSyncGuestCall *)
EnterSymmetric(s) ==
    /\ CanCreate(s)
    /\ Created(s, "symmetric", "STARTED", "callee")
    /\ guest' = [at |-> "call", obj |-> s]
    /\ UNCHANGED <<sets, told>>

-----------------------------------------------------------------------------
(* Mutant: the import resolves the oldest subtask of the task. *)
OldestSubtask == Head(subs)

getLatestSubtask == Last(subs)

(* Mutant: only an import lowered as async is called. *)
OnlyAsyncIsCalled(call) == call = "async"

(* In the synchronously lowered call of an async function the microtask      *)
(* fails before it calls anything: a subtask has no isResolvedState().       *)
IsCalled(call) == call # "syncOfAsync"

(* The microtask of a lowered import calls importFn, whose CallInterface     *)
(* picks the subtask it will resolve.                                        *)
RunImport(s) ==
    /\ sub[s].driver = "queued" /\ sub[s].call \in {"async", "manual", "syncOfAsync"}
    /\ sub' = [sub EXCEPT ![s] =
                   IF IsCalled(sub[s].call)
                   THEN [@ EXCEPT !.driver = "callee", !.target = getLatestSubtask]
                   ELSE [@ EXCEPT !.driver = "failed"]]
    /\ UNCHANGED <<tab, subs, sets, guest, told>>

(* The timer of asyncStartCall: onStart() announces progress, then sets the  *)
(* state and lifts the parameters; then the callee is entered.               *)
StartTimer(s) ==
    /\ sub[s].driver = "queued" /\ sub[s].call = "fused"
    /\ sub' = [sub EXCEPT ![s] = [@ EXCEPT !.driver = "callee", !.target = s,
                                           !.event = TRUE, !.state = "STARTED"]]
    /\ UNCHANGED <<tab, subs, sets, guest, told>>

(* Mutant: a resolution is not announced. *)
NoProgress(s) == FALSE

Progress(s) == HasProgressFn(s)

(* Mutant: the handle of a subtask resolved in line stays in the table. *)
HandleKept(t) == tab

(* A subtask that is not async removes its own handle when it resolves. *)
HandleAfterResolve(t) == IF isAsync(t) THEN tab ELSE RemoveRep(tab, sub[t].idx)

(* AsyncSubtask.onResolve of t, which the driver of s calls: announce it,    *)
(* set state and result, leave the parent's list; a subtask that is not      *)
(* async also delivers its resolution and drops its handle (the drop of its  *)
(* waitable only fails, and is only logged, when an event is pending).       *)
(* A callee that throws resolves its task and its subtask with the error.    *)
Resolve(s) ==
    LET t == sub[s].target
    IN  /\ sub[t].state = "STARTED"
        /\ sub' = [sub EXCEPT ![t] = [@ EXCEPT !.state = "RETURNED", !.event = Progress(t),
                                               !.delivered = ~isAsync(t)],
                              ![s].driver = "done"]
        /\ subs' = Without(t, subs)
        /\ tab' = HandleAfterResolve(t)

(* The promise of a manually async import resolves with the result. *)
ManualResult(s) ==
    IF sub[s].call = "manual"
    THEN guest' = Running /\ told' = [told EXCEPT ![s] = @ + 1]
    ELSE UNCHANGED <<guest, told>>

(* The imported function returned or threw. *)
ImportDone(s) ==
    /\ sub[s].driver = "callee" /\ sub[s].call \in {"async", "manual"}
    /\ Resolve(s)
    /\ ManualResult(s)
    /\ UNCHANGED sets

(* The callee of a fused call returned its result (task.return). *)
CalleeReturns(s) ==
    /\ sub[s].driver = "callee" /\ sub[s].call = "fused"
    /\ Resolve(s)
    /\ UNCHANGED <<sets, guest, told>>

(* It trapped: asyncStartCall only marks the caller's task as errored. *)
CalleeTraps(s) ==
    /\ sub[s].driver = "callee" /\ sub[s].call = "fused"
    /\ sub' = [sub EXCEPT ![s].driver = "failed"]
    /\ UNCHANGED <<tab, subs, sets, guest, told>>

(* exitSymmetricSyncGuestCall: task.resolve([]) resolves the subtask. *)
ExitSymmetric(s) ==
    /\ guest = [at |-> "call", obj |-> s] /\ sub[s].call = "symmetric"
    /\ sub' = [sub EXCEPT ![s] = [@ EXCEPT !.state = "RETURNED", !.delivered = TRUE,
                                           !.driver = "done"]]
    /\ subs' = Without(s, subs)
    /\ tab' = RemoveRep(tab, sub[s].idx)
    /\ guest' = Running
    /\ told' = [told EXCEPT ![s] = @ + 1]
    /\ UNCHANGED sets

TimerRemovesHandle(s) == sub[s].state = "RETURNED"

(* The timer of an async lowered import, which runs after the microtasks: a  *)
(* call that already returned is reported as such, without a handle;         *)
(* otherwise the guest gets the handle.                                      *)
CallTimer(s) ==
    /\ guest = [at |-> "call", obj |-> s]
    /\ sub[s].call = "async" /\ sub[s].driver # "queued"
    /\ LET returned == sub[s].state = "RETURNED"
       IN  /\ sub' = [sub EXCEPT ![s] = [@ EXCEPT
                             !.delivered = sub[s].delivered \/ returned,
                             !.exposed = ~returned]]
           /\ told' = [told EXCEPT ![s] = IF returned THEN @ + 1 ELSE @]
    /\ tab' = IF TimerRemovesHandle(s) THEN RemoveRep(tab, sub[s].idx) ELSE tab
    /\ guest' = Running
    /\ UNCHANGED <<subs, sets>>

-----------------------------------------------------------------------------
(* Handles a guest passes: the sets it made and the subtasks it was given. *)
SetAt(h) == h # 0 /\ Get(tab, h) \in WSet
SubAt(h) == Get(tab, h) \in Sub /\ sub[Get(tab, h)].exposed

(* waitable-set.new *)
WaitableSetNew(w) ==
    /\ guest = Running /\ HasRoom(tab)
    /\ ~sets[w].made /\ w = CHOOSE v \in WSet : ~sets[v].made
    /\ sets' = [sets EXCEPT ![w].made = TRUE]
    /\ tab' = Insert(tab, w)
    /\ UNCHANGED <<subs, sub, guest, told>>

(* Waitable.join(): leave the old set, enter the new one (0 for null). *)
Join(s, w) ==
    [v \in WSet |-> CASE v = w -> [sets[v] EXCEPT !.members = Append(Without(s, @), s)]
                      [] v = sub[s].set /\ v # w -> [sets[v] EXCEPT !.members = Without(s, @)]
                      [] OTHER -> sets[v]]

(* waitable.join(h, hs) *)
WaitableJoin(h, hs) ==
    /\ guest = Running /\ SubAt(h) /\ (hs = 0 \/ SetAt(hs))
    /\ LET s == Get(tab, h)
           w == IF hs = 0 THEN 0 ELSE Get(tab, hs)
       IN  /\ sets' = Join(s, w)
           /\ sub' = [sub EXCEPT ![s].set = w]
    /\ UNCHANGED <<tab, subs, guest, told>>

hasPendingEvent(w) == \E i \in DOMAIN sets[w].members : sub[sets[w].members[i]].event

(* The first member that has an event. *)
FirstReady(w) ==
    LET members == sets[w].members
        i == CHOOSE i \in DOMAIN members : /\ sub[members[i]].event
                                           /\ \A j \in 1 .. i - 1 : ~sub[members[j]].event
    IN  members[i]

(* The event closure runs when the event is taken: it reports the state the  *)
(* subtask has by then, and delivers a resolution.                           *)
TakeEvent(w) ==
    LET s == FirstReady(w)
        returned == sub[s].state = "RETURNED"
    IN  /\ sub' = [sub EXCEPT ![s] = [@ EXCEPT
                          !.event = FALSE, !.delivered = sub[s].delivered \/ returned]]
        /\ told' = [told EXCEPT ![s] = IF returned THEN @ + 1 ELSE @]

(* waitable-set.poll with an event (without one, nothing changes), by the    *)
(* task or, while it is suspended, by a synchronous export.                  *)
WaitableSetPoll(h) ==
    /\ SetAt(h) /\ hasPendingEvent(Get(tab, h))
    /\ TakeEvent(Get(tab, h))
    /\ UNCHANGED <<tab, subs, sets, guest>>

incrementNumWaiting(n) == n + 1

(* waitable-set.wait: WaitableSet.waitUntil counts the task and suspends it. *)
WaitableSetWait(h) ==
    /\ guest = Running /\ SetAt(h)
    /\ sets' = [sets EXCEPT ![Get(tab, h)].waiting = incrementNumWaiting(@)]
    /\ guest' = [at |-> "wait", obj |-> Get(tab, h)]
    /\ UNCHANGED <<tab, subs, sub, told>>

(* tick(): the readyFn of the suspended task is true, its promise resolves. *)
Tick ==
    /\ guest.at = "wait" /\ hasPendingEvent(guest.obj)
    /\ guest' = [guest EXCEPT !.at = "woken"]
    /\ UNCHANGED <<tab, subs, sub, sets, told>>

(* The rest of waitUntil: take an event and stop counting.  If a poll took   *)
(* the event in between, getPendingEvent throws: the task traps and is still *)
(* counted.                                                                  *)
WaitReturns ==
    /\ guest.at = "woken"
    /\ IF hasPendingEvent(guest.obj)
       THEN /\ TakeEvent(guest.obj)
            /\ sets' = [sets EXCEPT ![guest.obj].waiting = @ - 1]
       ELSE UNCHANGED <<sub, sets, told>>
    /\ guest' = Running
    /\ UNCHANGED <<tab, subs>>

(* Mutant: only the members are checked. *)
EmptySet(w) == sets[w].members = <<>>

MayRemoveSet(w) == /\ ~hasPendingEvent(w)
                   /\ sets[w].members = <<>>
                   /\ sets[w].waiting = 0

(* waitable-set.drop, by the task or by a synchronous export while the task  *)
(* is suspended; a refused drop changes nothing.                             *)
WaitableSetDrop(h) ==
    /\ SetAt(h) /\ MayRemoveSet(Get(tab, h))
    /\ tab' = RemoveRep(tab, h)
    /\ UNCHANGED <<subs, sub, sets, guest, told>>

(* subtask.drop: the handle is removed first; then drop() throws unless the  *)
(* resolution was delivered and no event is pending, else the waitable       *)
(* leaves its set.                                                           *)
SubtaskDrop(h) ==
    /\ guest = Running /\ SubAt(h)
    /\ LET s == Get(tab, h)
           dropped == sub[s].delivered /\ ~sub[s].event
       IN  /\ EarlyDrop \/ sub[s].delivered
           /\ sets' = IF dropped THEN Join(s, 0) ELSE sets
           /\ sub' = IF dropped THEN [sub EXCEPT ![s].set = 0] ELSE sub
    /\ tab' = RemoveRep(tab, h)
    /\ UNCHANGED <<subs, guest, told>>

GuestStep ==
    \/ \E s \in Sub, c \in Calls : LowerImport(s, c) \/ LowerImportBackwardsCompat(s, c)
    \/ \E s \in Sub : "fused" \in Calls /\ StartCall(s)
    \/ \E s \in Sub : "symmetric" \in Calls /\ EnterSymmetric(s)
    \/ \E w \in WSet : WaitableSetNew(w)
    \/ \E h \in Reps, hs \in 0 .. MaxRep : WaitableJoin(h, hs)
    \/ \E h \in Reps : WaitableSetPoll(h)
    \/ \E h \in Reps : WaitableSetWait(h)
    \/ \E h \in Reps : WaitableSetDrop(h)
    \/ \E h \in Reps : SubtaskDrop(h)

LoopStep(s) ==
    \/ RunImport(s)
    \/ StartTimer(s)
    \/ ImportDone(s)
    \/ CalleeReturns(s)
    \/ ExitSymmetric(s)
    \/ CallTimer(s)

Next == \/ GuestStep
        \/ \E s \in Sub : LoopStep(s)
        \/ \E s \in Sub : CalleeTraps(s)
        \/ Tick
        \/ WaitReturns

(* The event loop runs every microtask and timer, and host functions and     *)
(* callees that run come to an end.                                          *)
Fairness == /\ \A s \in Sub : WF_vars(LoopStep(s))
            /\ WF_vars(Tick) /\ WF_vars(WaitReturns)

Spec == Init /\ [][Next]_vars /\ Fairness
-----------------------------------------------------------------------------
Drivers == {"none", "queued", "callee", "done", "failed"}

SubType ==
    [call : CallKinds \cup {"none"}, state : States, delivered : BOOLEAN,
     idx : 0 .. MaxRep, event : BOOLEAN, set : WSet \cup {0}, driver : Drivers,
     target : Sub \cup {0}, exposed : BOOLEAN]

SetType == [made : BOOLEAN, members : Seq(Sub), waiting : Nat]

CallTypes ==
    /\ subs \in Seq(Sub)
    /\ sub \in [Sub -> SubType]
    /\ sets \in [WSet -> SetType]
    /\ guest \in [at : {"run", "call", "wait", "woken"}, obj : Objects \cup {0}]
    /\ told \in [Sub -> Nat]

(* The variables keep their types: every pair of the table holds a subtask,  *)
(* a set or a link, and #waiting never goes below zero however often an      *)
(* event is taken under a waiting task.                                      *)
TypeOK == tab \in TableType(Objects) /\ CallTypes

(* The free list of the handles has no cycle and loses no rep: every pair    *)
(* that holds no object is the next of exactly one other, the head included. *)
FreeListSound ==
    \A r \in 1 .. tab.len - 1 :
        tab.slot[r] \notin Objects =>
            \E q \in 0 .. tab.len - 1 :
                /\ tab.slot[q] = r
                /\ \A p \in 0 .. tab.len - 1 : tab.slot[p] = r => p = q

(* A handle finds its object as long as someone needs it and no longer: a    *)
(* subtask that is under way or joined to a set is at its idx alone (unless  *)
(* the guest dropped it too early), and one that returned without its handle *)
(* being given to the guest is in the table no more, however the microtask,  *)
(* the timer and the resolution of its call interleave.                      *)
HandlesSound ==
    /\ FreeListSound
    /\ \A x \in Objects : \A q, r \in RepsOf(tab, x) : q = r
    /\ \A s \in Sub :
          /\ s \in Range(subs) \/ sub[s].set # 0 =>
                tab.slot[sub[s].idx] = s \/ (EarlyDrop /\ sub[s].exposed)
          /\ sub[s].state = "RETURNED" /\ ~sub[s].exposed
                /\ guest # [at |-> "call", obj |-> s] => RepsOf(tab, s) = {}

(* The guest is told exactly once that a call returned: by the value of the  *)
(* call when it returned before the timer, else by an event; until then an   *)
(* event is pending or the guest is still inside the call.  Delivery, which  *)
(* ends the loans of the call, happens with it.                              *)
ResolutionToldOnce ==
    \A s \in Sub :
        /\ told[s] <= 1
        /\ sub[s].state = "RETURNED" /\ told[s] = 0 =>
              sub[s].event \/ guest = [at |-> "call", obj |-> s]
        /\ told[s] = 1 => sub[s].delivered

(* A waitable and its set agree on the membership, and a set with members or *)
(* with a task that waits on it is still in the handle table.                *)
SetsSound ==
    \A w \in WSet :
        /\ \A s \in Sub : (sub[s].set = w) <=>
              (Cardinality({i \in DOMAIN sets[w].members : sets[w].members[i] = s}) = 1)
        /\ IsInjective(sets[w].members)
        /\ sets[w].members # <<>> \/ (guest.at \in {"wait", "woken"} /\ guest.obj = w)
              => RepsOf(tab, w) # {}

(* An imported function resolves the subtask of its own call, although       *)
(* CallInterface takes the latest subtask of the task in a later microtask   *)
(* and fused calls add subtasks to the same list.                            *)
ImportResolvesItself ==
    \A s \in Sub : sub[s].driver \in {"callee", "done"} /\ sub[s].call # "symmetric" =>
        sub[s].target = s

(* A guest suspended in a call gets control back once the host function or   *)
(* the callee is done.                                                       *)
CallsReturn == (guest.at = "call") ~> (guest.at = "run")
=============================================================================
