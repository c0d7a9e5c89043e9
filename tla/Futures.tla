------------------------------- MODULE Futures -------------------------------
(***************************************************************************)
(* A component-model future: a writable and a readable end that hand over  *)
(* one value through a shared pending buffer.  Three settings:             *)
(*   "guest"       both ends are held by components (future.read, ...)     *)
(*   "hostReader"  the readable end was lifted: the host holds a lazy      *)
(*                 thenable (FutureValue) that reads once, at its first    *)
(*                 then(), for all its consumers                           *)
(*   "hostWriter"  the future was lowered from a promise of the host: the  *)
(*                 read of the guest injects the write                     *)
(*                                                                         *)
(*   f       the end whose buffer is pending, and for each end its         *)
(*           CopyState, whether its operation is being called (the awaits  *)
(*           of guestRead() and guestWrite() before the state is set), its *)
(*           buffer (empty, or the value it holds), its pending event, the *)
(*           outcome its owner was told, whether it is still in its table  *)
(*           and whether drop() completed                                  *)
(*   inject  generateFutureHostInject: "none", "promise" while it awaits   *)
(*           the host's promise, "write" once hostWrite() polls, "done"    *)
(*   result  whether the payload is a result (a rejection is a value)      *)
(*   then    the consumers of the thenable: "new", "waiting", or what they *)
(*           were given                                                    *)
(* future.cancel-read and future.cancel-write name a variable that does    *)
(* not exist in their first statement and so always throw: no action.      *)
(***************************************************************************)
EXTENDS Naturals

CONSTANTS
    Modes,      \* the settings that are explored
    Consumers   \* those who call then() on a lifted future

ASSUME FuturesAssumption == Modes \subseteq {"guest", "hostReader", "hostWriter"}

VARIABLES mode, f, inject, result, then

vars == <<mode, f, inject, result, then>>

Ends == {"R", "W"}
Other(e) == IF e = "R" THEN "W" ELSE "R"
Values == {"value", "err"}

NewEnd == [copy |-> "IDLE", calling |-> FALSE, buf |-> "empty", ev |-> "none",
           told |-> "none", alive |-> TRUE, dropped |-> FALSE]

Init ==
    /\ mode \in Modes /\ result \in BOOLEAN
    /\ f = [pend |-> "none", end |-> [e \in Ends |-> NewEnd]]
    /\ inject = "none"
    /\ then = [i \in Consumers |-> "new"]

isCopying(e) == f.end[e].copy \in {"SYNC_COPYING", "ASYNC_COPYING"}

(* FutureEnd.resetAndNotifyPending and the onCopyDoneFn of each operation. *)
onCopyDone(s, e, res) == [s EXCEPT !.end[e].ev = res]

(* Mutant: the end whose buffer was pending is not told. *)
resetPending(s, res) == [s EXCEPT !.pend = "none"]

resetAndNotifyPending(s, res) ==
    IF s.pend = "none" THEN s ELSE onCopyDone([s EXCEPT !.pend = "none"], s.pend, res)

HandOver(s) == [s EXCEPT !.end["R"].buf = s.end["W"].buf, !.end["W"].buf = "empty"]

(* _read and _write: meet the pending buffer of the other end, or become     *)
(* pending.                                                                  *)
Meet(s, e) ==
    IF s.pend = "none" THEN [s EXCEPT !.pend = e]
    ELSE onCopyDone(resetAndNotifyPending(HandOver(s), "COMPLETED"), e, "COMPLETED")

(* guestRead and guestWrite up to their last await. *)
Begin(s, e, v) ==
    Meet([s EXCEPT !.end[e] = [@ EXCEPT !.calling = TRUE, !.buf = v]], e)

(* futureEvent: a copy that completed or was dropped is the last one.  The   *)
(* event of a failed injection throws and leaves the end as it is.           *)
getPendingEvent(s, e) ==
    [s EXCEPT !.end[e] = [@ EXCEPT !.told = s.end[e].ev, !.ev = "none", !.calling = FALSE,
                                   !.copy = IF s.end[e].ev = "ERROR" THEN s.end[e].copy ELSE "DONE"]]

(* A guest whose read threw has trapped and does nothing more. *)
HeldByGuest(e) == /\ f.end[e].alive /\ f.end[e].told # "ERROR"
                  /\ (e = "R" => mode # "hostReader") /\ (e = "W" => mode # "hostWriter")

Untouched == UNCHANGED <<mode, inject, result, then>>

-----------------------------------------------------------------------------
(* future.write: only an idle end. *)
FutureWrite ==
    /\ HeldByGuest("W") /\ f.end["W"].copy = "IDLE" /\ ~f.end["W"].calling
    /\ f' = Begin(f, "W", "value")
    /\ Untouched

(* future.read: of a future of the host, the injection starts first and runs *)
(* to its first await.                                                       *)
FutureRead ==
    /\ HeldByGuest("R") /\ f.end["R"].copy = "IDLE" /\ ~f.end["R"].calling
    /\ f' = Begin(f, "R", "empty")
    /\ inject' = IF mode = "hostWriter" THEN "promise" ELSE inject
    /\ UNCHANGED <<mode, result, then>>

Blocked(s, e, state) == [s EXCEPT !.end[e] = [@ EXCEPT !.calling = FALSE, !.copy = state]]

(* Past the awaits: the event is there, or the operation blocks. *)
OperationReturns(e, state) ==
    /\ HeldByGuest(e) /\ f.end[e].calling
    /\ f' = IF f.end[e].ev # "none" THEN getPendingEvent(f, e)
            ELSE Blocked(f, e, state)
    /\ Untouched

(* The event reaches a guest that waits for it. *)
TakeEvent(e) ==
    /\ HeldByGuest(e) /\ isCopying(e) /\ f.end[e].ev # "none"
    /\ f' = getPendingEvent(f, e)
    /\ Untouched

(* Mutant: a writable end may be dropped before its write completed. *)
MayAlwaysDrop(e) == f.pend = "none"

(* drop() of a writable end throws unless its copy is done, and any drop()   *)
(* throws while a buffer is pending (it names an undeclared variable).       *)
DropSucceeds(e) == (e = "W" => f.end[e].copy = "DONE") /\ f.pend = "none"

(* An end leaves its table, dropped if drop() completes. *)
Leave(s, e, dropped) == [s EXCEPT !.end[e] = [@ EXCEPT !.alive = FALSE, !.dropped = dropped]]

(* future.drop-readable and future.drop-writable: the end leaves its table   *)
(* before drop() is tried.  The other end is not told.  That no end is       *)
(* dropped which still copies, or has an event the guest did not take, is    *)
(* assumed of the guest: the code does not refuse the first.                 *)
FutureDrop(e) ==
    /\ HeldByGuest(e) /\ ~isCopying(e) /\ ~f.end[e].calling /\ f.end[e].ev = "none"
    /\ f' = Leave(f, e, DropSucceeds(e))
    /\ Untouched

-----------------------------------------------------------------------------
(* FutureValue: then() of the thenable the host got. *)

(* Mutant: every consumer starts a read of its own. *)
ReadAgain == mode = "hostReader"

(* #settled is not set yet. *)
MustStart == \A i \in Consumers : then[i] = "new"

Then(i) ==
    /\ mode = "hostReader" /\ then[i] = "new"
    /\ f' = IF MustStart THEN Begin(f, "R", "empty") ELSE f
    /\ then' = [then EXCEPT ![i] = "waiting"]
    /\ UNCHANGED <<mode, inject, result>>

(* hostRead: past its awaits it blocks, and an interval polls for the event. *)
HostReadBlocks ==
    /\ mode = "hostReader" /\ f.end["R"].calling /\ f.end["R"].ev = "none"
    /\ f' = Blocked(f, "R", "ASYNC_COPYING")
    /\ Untouched

(* The read settles: every consumer gets the value. *)
HostReadEnds ==
    /\ mode = "hostReader" /\ f.end["R"].ev # "none"
    /\ f' = getPendingEvent(f, "R")
    /\ UNCHANGED <<mode, inject, result, then>>

Deliver(i) ==
    /\ then[i] = "waiting" /\ f.end["R"].told = "COMPLETED"
    /\ then' = [then EXCEPT ![i] = f.end["R"].buf]
    /\ UNCHANGED <<mode, f, inject, result>>

-----------------------------------------------------------------------------
(* generateFutureHostInject. *)

(* The promise is settled with a value, or rejected where the payload is a   *)
(* result: hostWrite() offers it to the pending read.                        *)
PromiseSettles(v) ==
    /\ inject = "promise" /\ (v = "err" => result)
    /\ f' = Begin(f, "W", v)
    /\ inject' = "write"
    /\ UNCHANGED <<mode, result, then>>

(* The error becomes the event of the read. *)
ThrowInReader(s) == [s EXCEPT !.end["R"].ev = "ERROR"]

(* The promise is rejected and the payload has no error: the read throws. *)
PromiseFails ==
    /\ inject = "promise" /\ ~result
    /\ f' = ThrowInReader(f)
    /\ inject' = "done"
    /\ UNCHANGED <<mode, result, then>>

(* hostWrite() sees its event; the host's end is done and dropped. *)
HostWriteEnds ==
    /\ inject = "write" /\ f.end["W"].ev # "none"
    /\ f' = Leave(getPendingEvent(f, "W"), "W", TRUE)
    /\ inject' = "done"
    /\ UNCHANGED <<mode, result, then>>

-----------------------------------------------------------------------------
Blocking == {"SYNC_COPYING", "ASYNC_COPYING"}

Next ==
    \/ FutureWrite \/ FutureRead
    \/ \E e \in Ends : \/ TakeEvent(e) \/ FutureDrop(e)
                       \/ \E state \in Blocking : OperationReturns(e, state)
    \/ \E i \in Consumers : Then(i) \/ Deliver(i)
    \/ HostReadBlocks \/ HostReadEnds
    \/ \E v \in Values : PromiseSettles(v)
    \/ PromiseFails \/ HostWriteEnds

(* Promise jobs and intervals run, a waiting guest takes its event, and the  *)
(* promise of the host settles.                                              *)
Fairness ==
    /\ \A e \in Ends : /\ WF_vars(TakeEvent(e))
                       /\ WF_vars(\E state \in Blocking : OperationReturns(e, state))
    /\ \A i \in Consumers : WF_vars(Deliver(i))
    /\ WF_vars(HostReadBlocks) /\ WF_vars(HostReadEnds) /\ WF_vars(HostWriteEnds)
    /\ WF_vars(PromiseFails \/ \E v \in Values : PromiseSettles(v))

Spec == Init /\ [][Next]_vars /\ Fairness

-----------------------------------------------------------------------------
Started(e) == f.end[e].calling \/ f.end[e].copy # "IDLE"

EndType == [copy : {"IDLE", "SYNC_COPYING", "ASYNC_COPYING", "DONE"}, calling : BOOLEAN,
            buf : Values \cup {"empty"}, ev : {"none", "COMPLETED", "ERROR"},
            told : {"none", "COMPLETED", "ERROR"}, alive : BOOLEAN, dropped : BOOLEAN]
FutureType == [pend : Ends \cup {"none"}, end : [Ends -> EndType]]

(* Every variable has its type: no operation of a future is CANCELLED or     *)
(* DROPPED, and the only error is that of a rejected promise.                *)
TypeOK ==
    /\ mode \in Modes /\ result \in BOOLEAN
    /\ f \in FutureType
    /\ inject \in {"none", "promise", "write", "done"}
    /\ then \in [Consumers -> Values \cup {"new", "waiting"}]
    /\ f.end["W"].ev # "ERROR" /\ (f.end["R"].ev = "ERROR" => mode = "hostWriter")

(* One value crosses, once: the reader's buffer is filled exactly when the   *)
(* writer's is not any more, and then both were told or will be; a writable  *)
(* end that was dropped has handed over its value.  These are the checks of  *)
(* futureEvent ("invalid buffer state") and of drop() ("futures must not be  *)
(* dropped before being completed"), over both ends.                         *)
HandedOver ==
    LET over == f.end["R"].buf # "empty"
    IN  /\ \A e \in Ends : over <=> "COMPLETED" \in {f.end[e].ev, f.end[e].told}
        /\ over => f.end["W"].buf = "empty" /\ f.pend = "none"
        /\ f.end["W"].dropped => over
        /\ \A i \in Consumers : then[i] \in Values => then[i] = f.end["R"].buf

(* Two operations never wait for each other: one that is under way and has   *)
(* no event is the pending one, so the other end's operation met it.         *)
OneWaits ==
    \A e \in Ends : Started(e) /\ f.end[e].ev = "none" /\ f.end[e].told = "none" =>
        f.pend = e /\ ~(Started(Other(e)) /\ f.end[Other(e)].ev = "none"
                            /\ f.end[Other(e)].told = "none")

(* A read that met a write ends, the read of a future of the host ends, and  *)
(* every consumer of a lifted future whose writer wrote gets the value, the  *)
(* one that came after the read had settled too.                             *)
OperationsEnd ==
    /\ \A e \in Ends : Started("R") /\ Started("W") ~> f.end[e].told # "none"
    /\ mode = "hostWriter" /\ Started("R") ~> f.end["R"].told # "none"
    /\ \A i \in Consumers :
          then[i] = "waiting" /\ Started("W") ~> then[i] \in Values
=============================================================================
