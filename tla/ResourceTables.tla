--------------------------- MODULE ResourceTables ---------------------------
(***************************************************************************)
(* One resource type in a composition: the handle table each component has *)
(* for it, own and borrow handles that move between the components         *)
(* (resource.new, resource.drop, the transfer trampolines of fused         *)
(* adapters), and JavaScript objects.  A component implements the type,    *)
(* and objects are how the host owns its resources (dispose, finalizers);  *)
(* or the host implements it, and each of its objects that a component     *)
(* gets to see is kept in the type's capture table under a rep.            *)
(*                                                                         *)
(* Each operation runs to its end without an await: one action each.  An   *)
(* operation that throws before it changed anything is no step.            *)
(***************************************************************************)
EXTENDS HandleTable, FiniteSets

CONSTANTS
    Tables,            \* the components' handle tables for the resource type
    Host,              \* the implementation of an imported type
    Definers,          \* who may implement the type: components, Host
    Objects,           \* JavaScript objects: proxies, or the host's instances
    NoObject,          \* undefined
    LendOnBorrows,     \* TRUE: a component lends on what it has borrowed
    LendToFormerOwner, \* TRUE: a component is lent what it once owned
    ValidLifting       \* opts.valid_lifting_optimization

ASSUME DefinerAssumption ==
    Host \notin Tables /\ Definers \subseteq Tables \cup {Host} /\ Definers # {}
ASSUME ObjectsAssumption == NoObject \notin Objects
ASSUME OptionsAssumption ==
    {LendOnBorrows, LendToFormerOwner, ValidLifting} \subseteq BOOLEAN

VARIABLES
    definer,      \* the table of the component that implements the type, or Host
    table,        \* HANDLE_TABLES
    createdReps,  \* table._createdReps
    alive,        \* reps the implementation has constructed and not destroyed
    held,         \* handles each component was given and has not given up
    objHandle,    \* object[symbolRscHandle], 0 for undefined
    objRep,       \* history: the resource an object was made for
    registered,   \* the handle the finalization registry has for it, or 0
    lent,         \* borrows handed to a call: to whom, as what, of which rep
    captureTable, \* captureTable.get(rep)
    captureCnt,
    lowered       \* history: the object each captured rep was made for

objectVars == <<objHandle, objRep, registered>>
captureVars == <<captureTable, captureCnt, lowered>>
vars == <<definer, table, createdReps, alive, held, objectVars, lent, captureVars>>

Init ==
    /\ definer \in Definers
    /\ table = [t \in Tables |-> EmptyTable]
    /\ createdReps = [t \in Tables |-> {}]
    /\ alive = {}
    /\ held = [t \in Tables |-> {}]
    /\ objHandle = [o \in Objects |-> 0]
    /\ objRep = [o \in Objects |-> 0]
    /\ registered = [o \in Objects |-> 0]
    /\ lent = {}
    /\ captureTable = [r \in Reps |-> NoObject]
    /\ captureCnt = 0
    /\ lowered = [r \in Reps |-> NoObject]

-----------------------------------------------------------------------------
RepOf(t, h) == table[t].rep[h]

IsOwn(t, h) == table[t].own[h]

IsLent(r) == \E l \in lent : l.rep = r

(* What guests keep to, by the rules of the component model.  (What the      *)
(* tables do when they do not is in HandleTableUse.)                         *)
MayDrop(t, h) == h \in held[t] /\ (IsOwn(t, h) => ~IsLent(RepOf(t, h)))

MayGive(t, h) == h \in held[t] /\ IsOwn(t, h) /\ ~IsLent(RepOf(t, h))

MayLend(t, h) == h \in held[t]

-----------------------------------------------------------------------------
(* resource.new: the implementation picks a rep it does not use. *)
ResourceNew(r) ==
    /\ definer # Host /\ r \notin alive
    /\ HasRoom(table[definer])
    /\ table' = [table EXCEPT ![definer] = Create(@, r, TRUE)]
    /\ createdReps' = [createdReps EXCEPT ![definer] = @ \cup {r}]
    /\ alive' = alive \cup {r}
    /\ held' = [held EXCEPT ![definer] = @ \cup {NextHandle(table[definer])}]
    /\ UNCHANGED <<definer, objectVars, lent, captureVars>>

(* The host's object is forgotten when the own handle of its rep goes.       *)
(* Mutant: when any handle of it goes.                                       *)
ForgetAlways(t, h) == [captureTable EXCEPT ![RepOf(t, h)] = NoObject]
Forget(t, h) ==
    IF definer = Host /\ IsOwn(t, h)
    THEN [captureTable EXCEPT ![RepOf(t, h)] = NoObject]
    ELSE captureTable

(* resource.drop: for an own handle the destructor runs, or the host's       *)
(* object is disposed of.                                                    *)
ResourceDrop(t, h) ==
    /\ MayDrop(t, h)
    /\ Removable(table[t], h)
    /\ table' = [table EXCEPT ![t] = Remove(@, h)]
    /\ held' = [held EXCEPT ![t] = @ \ {h}]
    /\ alive' = IF IsOwn(t, h) THEN alive \ {RepOf(t, h)} ELSE alive
    /\ lent' = {l \in lent : ~(l.to = t /\ l.handle = h)}
    /\ captureTable' = Forget(t, h)
    /\ UNCHANGED <<definer, createdReps, objectVars, captureCnt, lowered>>

(* resourceTransferOwn: out of one table, into another. *)
TransferOwn(t, h, u) ==
    /\ MayGive(t, h)
    /\ Removable(table[t], h) /\ HasRoom(table[u])
    /\ table' = [table EXCEPT ![t] = Remove(@, h),
                              ![u] = Create(@, RepOf(t, h), TRUE)]
    /\ createdReps' = [createdReps EXCEPT ![u] = @ \cup {RepOf(t, h)}]
    /\ held' = [held EXCEPT ![t] = @ \ {h}, ![u] = @ \cup {NextHandle(table[u])}]
    /\ UNCHANGED <<definer, alive, objectVars, lent, captureVars>>

(* What resourceTransferBorrow removes from the lender's table when the      *)
(* handle is itself a borrow: the default version passes the rep on as if it *)
(* were the handle.                                                          *)
RemovedByLending(t, h) == IF ValidLifting THEN h ELSE RepOf(t, h)

(* Mutant: every table gets the rep. *)
AlwaysLocal(r, u) == TRUE

(* The receiver gets the rep itself when it has created an own handle for    *)
(* it: meant for the implementation, true of every former owner.             *)
LocalBorrow(r, u) == r \in createdReps[u]

(* resourceTransferBorrow.  The rep it goes on with is that of an own        *)
(* handle, or that of the pair it removed.                                   *)
TransferBorrow(t, h, u) ==
    LET gone == RemovedByLending(t, h)
        rep  == IF IsOwn(t, h) THEN RepOf(t, h) ELSE RepOf(t, gone)
        from == IF IsOwn(t, h) THEN table[t] ELSE Remove(table[t], gone)
        got  == IF LocalBorrow(rep, u) THEN rep ELSE NextHandle(table[u])
    IN  /\ MayLend(t, h)
        /\ ~IsOwn(t, h) => LendOnBorrows /\ gone \in Handles /\ Removable(table[t], gone)
        /\ u # definer /\ rep \in createdReps[u] => LendToFormerOwner
        /\ lent' = lent \cup {[to |-> u, handle |-> got, rep |-> RepOf(t, h)]}
        /\ \/ /\ LocalBorrow(rep, u)
              /\ table' = [table EXCEPT ![t] = from]
              /\ UNCHANGED held
           \/ /\ ~LocalBorrow(rep, u) /\ HasRoom(table[u])
              /\ table' = [table EXCEPT ![t] = from, ![u] = Create(@, rep, FALSE)]
              /\ held' = [held EXCEPT ![u] = @ \cup {got}]
        /\ UNCHANGED <<definer, createdReps, alive, objectVars, captureVars>>

(* A call returns in which a rep was lent to the implementation. *)
ReturnBorrow(l) ==
    /\ l.to = definer
    /\ lent' = lent \ {l}
    /\ UNCHANGED <<definer, table, createdReps, alive, held, objectVars, captureVars>>

-----------------------------------------------------------------------------
(* The host, for a type a component implements.  Calls are     *)
(* synchronous: while an object's resource is lent, the host does not        *)
(* dispose of the object nor is it collected.                                *)

(* finalizationRegistry.unregister(object).  Mutant: it is left out. *)
StillRegistered(o) == registered
Unregister(o) == [registered EXCEPT ![o] = 0]

(* The implementation returns an own handle: HandleLift makes an object for  *)
(* it and registers it.  The pair stays in the table.                        *)
LiftOwn(o, h) ==
    /\ definer # Host /\ MayGive(definer, h)
    /\ objHandle[o] = 0 /\ registered[o] = 0
    /\ objHandle' = [objHandle EXCEPT ![o] = h]
    /\ objRep' = [objRep EXCEPT ![o] = RepOf(definer, h)]
    /\ registered' = [registered EXCEPT ![o] = h]
    /\ held' = [held EXCEPT ![definer] = @ \ {h}]
    /\ UNCHANGED <<definer, table, createdReps, alive, lent, captureVars>>

(* The host passes the object for an own parameter: HandleLower. *)
LowerOwn(o) ==
    /\ objHandle[o] # 0 /\ ~IsLent(objRep[o])
    /\ objHandle' = [objHandle EXCEPT ![o] = 0]
    /\ registered' = Unregister(o)
    /\ held' = [held EXCEPT ![definer] = @ \cup {objHandle[o]}]
    /\ UNCHANGED <<definer, table, createdReps, alive, objRep, lent, captureVars>>

(* The host passes it for a borrow parameter: the implementation gets the    *)
(* rep ("Not a valid resource" is thrown for a pair without the own bit).    *)
LowerBorrow(o) ==
    /\ objHandle[o] # 0 /\ IsOwn(definer, objHandle[o])
    /\ lent' = lent \cup {[to |-> definer, handle |-> RepOf(definer, objHandle[o]),
                           rep |-> objRep[o]]}
    /\ UNCHANGED <<definer, table, createdReps, alive, held, objectVars, captureVars>>

(* object[Symbol.dispose](): unregister, remove, forget the handle, destroy. *)
(* When the removal throws, only the first has happened.                     *)
Dispose(o) ==
    /\ objHandle[o] # 0 /\ ~IsLent(objRep[o])
    /\ registered' = Unregister(o)
    /\ IF Removable(table[definer], objHandle[o])
       THEN /\ table' = [table EXCEPT ![definer] = Remove(@, objHandle[o])]
            /\ alive' = alive \ {RepOf(definer, objHandle[o])}
            /\ objHandle' = [objHandle EXCEPT ![o] = 0]
       ELSE UNCHANGED <<table, alive, objHandle>>
    /\ UNCHANGED <<definer, createdReps, held, objRep, lent, captureVars>>

(* The object is collected: the registry's callback removes and destroys.    *)
Finalize(o) ==
    /\ registered[o] # 0 /\ ~IsLent(objRep[o])
    /\ registered' = [registered EXCEPT ![o] = 0]
    /\ objHandle' = [objHandle EXCEPT ![o] = 0]
    /\ IF Removable(table[definer], registered[o])
       THEN /\ table' = [table EXCEPT ![definer] = Remove(@, registered[o])]
            /\ alive' = alive \ {RepOf(definer, registered[o])}
       ELSE UNCHANGED <<table, alive>>
    /\ UNCHANGED <<definer, createdReps, held, objRep, lent, captureVars>>

-----------------------------------------------------------------------------
(* The host, for a type it implements.  Its objects are captured ones: none  *)
(* has a handle or a rep of its own.                                         *)

(* captureTable.set(rep, object) under a new rep. *)
Capture(o) ==
    /\ definer = Host
    /\ captureCnt + 1 \in Reps
    /\ captureCnt' = captureCnt + 1
    /\ captureTable' = [captureTable EXCEPT ![captureCnt + 1] = o]
    /\ lowered' = [lowered EXCEPT ![captureCnt + 1] = o]

(* The host returns an object to a component: HandleLower, LowerFlatOwn. *)
LowerImportedOwn(o, t) ==
    /\ Capture(o)
    /\ HasRoom(table[t])
    /\ table' = [table EXCEPT ![t] = Create(@, captureCnt + 1, TRUE)]
    /\ createdReps' = [createdReps EXCEPT ![t] = @ \cup {captureCnt + 1}]
    /\ held' = [held EXCEPT ![t] = @ \cup {NextHandle(table[t])}]
    /\ alive' = alive \cup {captureCnt + 1}
    /\ UNCHANGED <<definer, objectVars, lent>>

(* The host lends an object to an export: the capture has no end. *)
LowerImportedBorrow(o, t) ==
    /\ Capture(o)
    /\ HasRoom(table[t])
    /\ table' = [table EXCEPT ![t] = Create(@, captureCnt + 1, FALSE)]
    /\ held' = [held EXCEPT ![t] = @ \cup {NextHandle(table[t])}]
    /\ lent' = lent \cup {[to |-> t, handle |-> NextHandle(table[t]),
                           rep |-> captureCnt + 1]}
    /\ UNCHANGED <<definer, createdReps, alive, objectVars>>

(* A component gives an object back: HandleLift, LiftFlatOwn.  (A borrow it  *)
(* passes to the host leaves everything as it is.)                           *)
LiftImportedOwn(t, h) ==
    /\ definer = Host /\ MayGive(t, h)
    /\ Removable(table[t], h)
    /\ captureTable' = Forget(t, h)
    /\ table' = [table EXCEPT ![t] = Remove(@, h)]
    /\ held' = [held EXCEPT ![t] = @ \ {h}]
    /\ alive' = alive \ {RepOf(t, h)}
    /\ UNCHANGED <<definer, createdReps, objectVars, lent, captureCnt, lowered>>

-----------------------------------------------------------------------------
Next ==
    \/ \E r \in Reps : ResourceNew(r)
    \/ \E t \in Tables, h \in Handles :
          \/ ResourceDrop(t, h) \/ LiftImportedOwn(t, h)
          \/ \E u \in Tables \ {t} :
                TransferOwn(t, h, u) \/ TransferBorrow(t, h, u)
    \/ \E l \in lent : ReturnBorrow(l)
    \/ \E o \in Objects :
          \/ \E h \in Handles : LiftOwn(o, h)
          \/ \E t \in Tables : LowerImportedOwn(o, t) \/ LowerImportedBorrow(o, t)
          \/ LowerOwn(o) \/ LowerBorrow(o) \/ Dispose(o) \/ Finalize(o)

Spec == Init /\ [][Next]_vars

-----------------------------------------------------------------------------
(* Properties *)

RepsOrNone == Reps \cup {0}

(* Type invariant. *)
TypeOK ==
    /\ definer \in Definers
    /\ table \in [Tables -> TableType]
    /\ createdReps \in [Tables -> SUBSET RepsOrNone]
    /\ alive \subseteq Reps
    /\ held \in [Tables -> SUBSET Handles]
    /\ objHandle \in [Objects -> 0 .. MaxHandle]
    /\ objRep \in [Objects -> RepsOrNone]
    /\ registered \in [Objects -> 0 .. MaxHandle]
    /\ lent \subseteq [to : Tables, handle : Nat, rep : RepsOrNone]
    /\ captureTable \in [Reps -> Objects \cup {NoObject}]
    /\ captureCnt \in RepsOrNone
    /\ lowered \in [Reps -> Objects \cup {NoObject}]

(* The own handles of a resource, in any table. *)
Owners(r) ==
    {p \in Tables \X Handles :
        Live(table[p[1]], p[2]) /\ IsOwn(p[1], p[2]) /\ RepOf(p[1], p[2]) = r}

(* A resource has one own handle, in one table, from resource.new until its  *)
(* destructor runs, and none before and after: the destructor runs once,     *)
(* whether a guest drops the handle, the host disposes of the object or the  *)
(* object is collected.                                                      *)
OneOwner ==
    \A r \in Reps : Cardinality(Owners(r)) = IF r \in alive THEN 1 ELSE 0

(* A handle a component was given stands for a resource until the component  *)
(* gives it up, and every pair in use belongs to a component or an object.   *)
HandlesHeld ==
    \A t \in Tables : \A h \in Handles :
        Live(table[t], h) <=>
            h \in held[t] \/ (t = definer /\ \E o \in Objects : objHandle[o] = h)

(* An object's handle is its own: handles are reused, but neither dispose    *)
(* nor a finalizer nor a borrow ever reaches another resource through it.    *)
ObjectsOwn ==
    \A o \in Objects :
        /\ objHandle[o] # 0 => /\ Live(table[definer], objHandle[o])
                               /\ IsOwn(definer, objHandle[o])
                               /\ RepOf(definer, objHandle[o]) = objRep[o]
                               /\ objHandle[o] \notin held[definer]
        /\ registered[o] = objHandle[o]
        /\ \A p \in Objects : objHandle[o] # 0 /\ objHandle[o] = objHandle[p] => o = p

(* A handle of the host's type, own or borrow, in whatever table it is by    *)
(* now, finds the object the host lowered, not another one and not a gap     *)
(* that would be filled with an empty object.                                *)
Captured ==
    definer = Host =>
        \A t \in Tables : \A h \in held[t] :
            /\ captureTable[RepOf(t, h)] # NoObject
            /\ captureTable[RepOf(t, h)] = lowered[RepOf(t, h)]

(* What a component is lent stands for the resource that was meant: for the  *)
(* implementation the rep, for any other a borrow handle of its table.       *)
BorrowsResolve ==
    \A l \in lent :
        /\ definer # Host => l.rep \in alive
        /\ IF l.to = definer
           THEN l.handle = l.rep
           ELSE /\ l.handle \in held[l.to]
                /\ Live(table[l.to], l.handle) /\ ~IsOwn(l.to, l.handle)
                /\ RepOf(l.to, l.handle) = l.rep
=============================================================================
