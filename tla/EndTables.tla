------------------------------ MODULE EndTables ------------------------------
(***************************************************************************)
(* The tables in which components find the ends of streams and futures and *)
(* their error contexts.  Every component has one table of handles for all *)
(* of them, and a table per type besides; an end records its index in      *)
(* both.  An error context is one global entry, counted, with a local      *)
(* handle in every component that holds it.  Error contexts and readable   *)
(* stream ends move between components; future.transfer does nothing.  An  *)
(* end lifted to the host stays in the tables, and a stream or a future    *)
(* the host lowers has both of its ends in those of the component.         *)
(*                                                                         *)
(*   handles  the component-wide tables (cstate.handles)                   *)
(*   typed    the tables per component and type (stream, future, error)    *)
(*   pos      where an end is: its component, waitableIdx and handle       *)
(*   global   the global table of error contexts                           *)
(*   count    the refCount of each error context                           *)
(*   loc      the local error-context objects: whether the component owns  *)
(*            it, gave it away, or dropped it; the context, the component, *)
(*            its index in both tables and its own refCount                *)
(*   host     the ends that only the host uses                             *)
(*   kept     how often the host was given each error context              *)
(*   threw    a drop of an error context has thrown                        *)
(*   made     creations, transfers and lifts so far                        *)
(***************************************************************************)
EXTENDS RepTable, Integers, FiniteSets

CONSTANTS
    Comp,                           \* components
    StreamR, StreamW, FutureR, FutureW,  \* the ends of one stream and one future
    Ctx,                            \* error contexts
    Local,                          \* bound: local error-context objects
    MaxMade,                        \* bound: creations, transfers and lifts
    None

VARIABLES handles, typed, pos, global, count, loc, host, kept, threw, made

vars == <<handles, typed, pos, global, count, loc, host, kept, threw, made>>

Kinds == {"stream", "future", "error"}
Ends == {StreamR, StreamW, FutureR, FutureW}
Kind(e) == IF e \in {StreamR, StreamW} THEN "stream" ELSE "future"

(* JavaScript objects are none of them another, and none is a number. *)
ASSUME EndTablesAssumption ==
    /\ None \notin Comp \cup Local /\ MaxMade \in Nat /\ IsFiniteSet(Local)
    /\ StreamR # StreamW /\ FutureR # FutureW
    /\ {StreamR, StreamW} \cap {FutureR, FutureW} = {} /\ Ends \cap Local = {}
    /\ (Ends \cup Local \cup Ctx) \cap 0 .. MaxRep = {}

Nowhere == [comp |-> None, widx |-> 0, hidx |-> 0]
NoLocal == [st |-> "free", ctx |-> None, rep |-> 0, comp |-> None,
            widx |-> 0, lidx |-> 0, count |-> 0]

Init ==
    /\ handles = [c \in Comp |-> EmptyTable]
    /\ typed = [c \in Comp |-> [k \in Kinds |-> EmptyTable]]
    /\ pos = [e \in Ends |-> Nowhere]
    /\ global = EmptyTable
    /\ count = [x \in Ctx |-> 0]
    /\ loc = [l \in Local |-> NoLocal]
    /\ host = {}
    /\ kept = [x \in Ctx |-> 0]
    /\ threw = FALSE
    /\ made = 0

ErrorsUntouched == UNCHANGED <<global, count, loc, kept, threw>>

Make == made < MaxMade /\ made' = made + 1

-----------------------------------------------------------------------------
(* Streams and futures. *)

(* The writable end first, then the readable, each in both tables. *)
CreateEnds(c, k, w, r) ==
    LET hw == Insert(handles[c], w)
        tw == Insert(typed[c][k], w)
    IN  /\ Make
        /\ {pos[w].comp, pos[r].comp} = {None}
        /\ HasRoom(handles[c]) /\ HasRoom(hw) /\ HasRoom(typed[c][k]) /\ HasRoom(tw)
        /\ handles' = [handles EXCEPT ![c] = Insert(hw, r)]
        /\ typed' = [typed EXCEPT ![c][k] = Insert(tw, r)]
        /\ pos' = [pos EXCEPT
               ![w] = [comp |-> c, widx |-> NextRep(handles[c]), hidx |-> NextRep(typed[c][k])],
               ![r] = [comp |-> c, widx |-> NextRep(hw), hidx |-> NextRep(tw)]]
        /\ ErrorsUntouched

CreateStream(c) == CreateEnds(c, "stream", StreamW, StreamR)
CreateFuture(c) == CreateEnds(c, "future", FutureW, FutureR)

StreamNew(c) == CreateStream(c) /\ UNCHANGED host
FutureNew(c) == CreateFuture(c) /\ UNCHANGED host

(* An iterable or a ReadableStream, or a promise, given to a component: the  *)
(* host injects its writes at the writable end.                              *)
LowerFlatStream(c) == CreateStream(c) /\ host' = host \cup {StreamW}
LowerFlatFuture(c) == CreateFuture(c) /\ host' = host \cup {FutureW}

(* Whether the end stands at its waitableIdx, for a guest that may use it. *)
GuestHas(c, e) == pos[e].comp = c /\ e \notin host /\ Get(handles[c], pos[e].widx) = e

(* The host reads the end from now on.  That it is idle and in no set is     *)
(* Streams' and Futures' matter.                                             *)
LiftEnd(c, e) ==
    /\ Make /\ GuestHas(c, e)
    /\ host' = host \cup {e}
    /\ ErrorsUntouched /\ UNCHANGED <<handles, typed, pos>>

LiftFlatStream(c) == LiftEnd(c, StreamR)
LiftFlatFuture(c) == LiftEnd(c, FutureR)

(* A stream the host was given goes back to where its end still is.  Another *)
(* component would be told an index at which it finds nothing of it.         *)
LowerExternalStream(c) ==
    /\ Make /\ StreamR \in host /\ pos[StreamR].comp = c
    /\ host' = host \ {StreamR}
    /\ ErrorsUntouched /\ UNCHANGED <<handles, typed, pos>>

(* deleteStreamEnd, removeStreamEndFromTable, removeFutureEndFromTable. *)
RemoveEnd(c, k, p) ==
    [h |-> [handles EXCEPT ![c] = RemoveRep(@, p.widx)],
     t |-> [typed EXCEPT ![c][k] = RemoveRep(@, p.hidx)]]

(* stream.drop-*, future.drop-*: the end leaves both tables, whatever its    *)
(* drop() does afterwards.                                                   *)
DropEnd(e) ==
    LET p == pos[e]
        r == RemoveEnd(p.comp, Kind(e), p)
    IN  /\ p.comp # None /\ GuestHas(p.comp, e)
        /\ handles' = r.h /\ typed' = r.t
        /\ pos' = [pos EXCEPT ![e] = Nowhere]
        /\ ErrorsUntouched /\ UNCHANGED <<host, made>>

(* Mutant: the end keeps the indices of the table it left. *)
StaleIndices(p, d, h, t) == [p EXCEPT !.comp = d]

(* addStreamEndToTable gives the end its new indices. *)
NewIndices(p, d, h, t) == [comp |-> d, widx |-> NextRep(h), hidx |-> NextRep(t)]

StreamTransfer(d) ==
    LET p == pos[StreamR]
        r == RemoveEnd(p.comp, "stream", p)
    IN  /\ Make
        /\ p.comp \in Comp \ {d} /\ GuestHas(p.comp, StreamR)
        /\ HasRoom(r.h[d]) /\ HasRoom(r.t[d]["stream"])
        /\ handles' = [r.h EXCEPT ![d] = Insert(@, StreamR)]
        /\ typed' = [r.t EXCEPT ![d]["stream"] = Insert(@, StreamR)]
        /\ pos' = [pos EXCEPT ![StreamR] = NewIndices(p, d, r.h[d], r.t[d]["stream"])]
        /\ ErrorsUntouched /\ UNCHANGED host

-----------------------------------------------------------------------------
(* Error contexts. *)

GlobalRefCountAdd(x, n) == [count EXCEPT ![x] = @ + n]

(* createLocalHandle: a local object with a count of one in the handles, its *)
(* index there, for which the object stands, in the table of its type, and   *)
(* one more in the global count.                                             *)
CreateLocalHandle(c, l, x, rep, others) ==
    /\ loc[l].st = "free" /\ HasRoom(handles[c]) /\ HasRoom(typed[c]["error"])
    /\ handles' = [handles EXCEPT ![c] = Insert(@, l)]
    /\ typed' = [typed EXCEPT ![c]["error"] = Insert(@, l)]
    /\ loc' = [others EXCEPT ![l] =
           [st |-> "owned", ctx |-> x, rep |-> rep, comp |-> c,
            widx |-> NextRep(handles[c]), lidx |-> NextRep(typed[c]["error"]), count |-> 1]]
    /\ count' = GlobalRefCountAdd(x, 1)
    /\ UNCHANGED <<pos, host, kept, threw>>

ReserveGlobalRep(x) == HasRoom(global) /\ global' = Insert(global, x)

(* error-context.new: a global entry with a count of zero, then a handle. *)
ErrorContextNew(c, x, l) ==
    /\ RepsOf(global, x) = {} /\ \A m \in Local : loc[m].st # "free" => loc[m].ctx # x
    /\ Make /\ ReserveGlobalRep(x)
    /\ CreateLocalHandle(c, l, x, NextRep(global), [loc EXCEPT ![l] = NoLocal])

(* errCtx.refCount -= 1 *)
GivenCount(n) == n - 1

(* error-context.transfer: the source's own count goes down and its handle   *)
(* stays, for the drop that may follow.                                      *)
ErrorContextTransfer(m, d, l) ==
    /\ Make
    /\ loc[m].st = "owned" /\ loc[m].comp # d
    /\ CreateLocalHandle(d, l, loc[m].ctx, loc[m].rep,
           [loc EXCEPT ![m].count = GivenCount(@), ![m].st = "given"])
    /\ UNCHANGED global

(* Mutant: the context goes with the first local handle that is gone. *)
GoneWithLocal(localCount, globalCount) == localCount <= 0

(* globalRefCount === 0 *)
GoneGlobally(localCount, globalCount) == globalCount = 0

(* error-context.drop.  The last drop throws, after it has removed the local *)
(* handle, when the local count is not zero: it was given away before.       *)
ErrorContextDrop(l) ==
    LET o == loc[l]
        n == o.count - 1
        last == GoneGlobally(n, count[o.ctx] - 1)
        c == o.comp
    IN  /\ o.st \in {"owned", "given"}
        /\ handles' = [handles EXCEPT ![c] = RemoveRep(@, o.widx)]
        /\ typed' = [typed EXCEPT ![c]["error"] = RemoveRep(@, o.lidx)]
        /\ loc' = [loc EXCEPT ![l] = NoLocal]
        /\ count' = GlobalRefCountAdd(o.ctx, -1)
        /\ global' = IF last /\ n = 0 THEN RemoveRep(global, o.rep) ELSE global
        /\ threw' = (threw \/ (last /\ n # 0))
        /\ UNCHANGED <<pos, host, kept, made>>

(* The object a lift of handle h finds: it looks for h, an index of the      *)
(* component's handles, in the table of error contexts, and for what it      *)
(* finds there, be it a link of the free list, among the handles.            *)
LiftedObject(c, h) ==
    LET v == Get(typed[c]["error"], h)
        w == IF v \in Local THEN loc[v].widx ELSE v
    IN  IF w = 0 THEN None ELSE Get(handles[c], w)

(* A guest gives the host an error context, as a parameter of task.return or *)
(* of an import: the object that is found is one less in its component, and  *)
(* one more in the global count.  Nothing gives that up again.               *)
LiftFlatErrorContext(l) ==
    LET m == LiftedObject(loc[l].comp, loc[l].widx)
    IN  /\ Make /\ loc[l].st = "owned" /\ m \in Local
        /\ loc' = [loc EXCEPT ![m].count = @ - 1]
        /\ count' = GlobalRefCountAdd(loc[m].ctx, 1)
        /\ kept' = [kept EXCEPT ![loc[m].ctx] = @ + 1]
        /\ UNCHANGED <<handles, typed, pos, global, host, threw>>

-----------------------------------------------------------------------------
Next ==
    \/ \E c \in Comp :
          \/ StreamNew(c) \/ LowerFlatStream(c) \/ LiftFlatStream(c) \/ LowerExternalStream(c)
          \/ FutureNew(c) \/ LowerFlatFuture(c) \/ LiftFlatFuture(c)
          \/ StreamTransfer(c)
    \/ \E e \in Ends : DropEnd(e)
    \/ \E l \in Local :
          \/ \E c \in Comp : \/ \E x \in Ctx : ErrorContextNew(c, x, l)
                             \/ \E m \in Local : ErrorContextTransfer(m, c, l)
          \/ ErrorContextDrop(l) \/ LiftFlatErrorContext(l)

Spec == Init /\ [][Next]_vars

-----------------------------------------------------------------------------
(* Every variable has its type, and a table is only as long as its pairs. *)
TypeOK ==
    /\ \A c \in Comp : handles[c].len \in 1 .. MaxRep + 1
    /\ \A c \in Comp, k \in Kinds : typed[c][k].len \in 1 .. MaxRep + 1
    /\ pos \in [Ends -> [comp : Comp \cup {None}, widx : 0 .. MaxRep, hidx : 0 .. MaxRep]]
    /\ global.len \in 1 .. MaxRep + 1
    /\ count \in [Ctx -> 0 .. Cardinality(Local) + MaxMade]
    /\ loc \in [Local -> [st : {"free", "owned", "given"}, ctx : Ctx \cup {None},
                          rep : 0 .. MaxRep, comp : Comp \cup {None},
                          widx : 0 .. MaxRep, lidx : 0 .. MaxRep, count : -MaxMade .. 1]]
    /\ host \subseteq Ends /\ kept \in [Ctx -> 0 .. MaxMade]
    /\ threw \in BOOLEAN /\ made \in 0 .. MaxMade

(* What a component can name is what it was given: an end and a local error  *)
(* context are found at the index they record, in the table of handles and   *)
(* in the one of their type, nowhere else, in no other component, and not at *)
(* all once they are gone, through every reuse of a removed pair.            *)
Found ==
    /\ \A e \in Ends, c \in Comp :
          /\ RepsOf(handles[c], e) = IF pos[e].comp = c THEN {pos[e].widx} ELSE {}
          /\ RepsOf(typed[c][Kind(e)], e) = IF pos[e].comp = c THEN {pos[e].hidx} ELSE {}
    /\ \A l \in Local, c \in Comp :
          /\ RepsOf(handles[c], l) = IF loc[l].comp = c THEN {loc[l].widx} ELSE {}
          /\ RepsOf(typed[c]["error"], l) = IF loc[l].comp = c THEN {loc[l].lidx} ELSE {}

(* The global count is the number of local handles and of the host's, and    *)
(* the context stays in the global table as long as one of them is there:    *)
(* error-context.debug-message finds the message of every handle a component *)
(* still has.                                                                *)
ContextKept ==
    \A x \in Ctx :
        LET holders == {l \in Local : loc[l].st # "free" /\ loc[l].ctx = x}
        IN  /\ count[x] = Cardinality(holders) + kept[x]
            /\ kept[x] > 0 => RepsOf(global, x) # {}
            /\ \A l \in holders : RepsOf(global, x) = {loc[l].rep}

(* error-context.transfer: "we avoid automatic removal here because return   *)
(* functions (e.g. in composed components) may attempt to drop *after* the   *)
(* transfer": such a drop does not throw.                                    *)
DropNeverThrows == ~threw
=============================================================================
