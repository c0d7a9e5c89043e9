------------------------ MODULE ResourceTablesProofs ------------------------
(***************************************************************************)
(* Theorems about ResourceTables, for any components, objects, reps and    *)
(* bound on the handles, where guests do not lend on what they borrowed.   *)
(***************************************************************************)
EXTENDS ResourceTables, HandleTableProofs, FiniteSetTheorems

USE DefinerAssumption, ObjectsAssumption

InUse(t, h) == Live(table[t], h)

TablesSound ==
    /\ table \in [Tables -> TableType]
    /\ \A t \in Tables : LinksSound(table[t])

(* Every handle in use has a rep, an own handle that of a resource that is    *)
(* alive; every such resource has an own handle, and no two.                  *)
OwnersSound ==
    /\ \A t \in Tables, h \in Handles : InUse(t, h) => RepOf(t, h) \in Reps
    /\ \A t \in Tables, h \in Handles : InUse(t, h) /\ IsOwn(t, h) => RepOf(t, h) \in alive
    /\ \A t, u \in Tables, h, g \in Handles :
          /\ InUse(t, h) /\ IsOwn(t, h) /\ InUse(u, g) /\ IsOwn(u, g)
          /\ RepOf(t, h) = RepOf(u, g)
          => t = u /\ h = g
    /\ \A r \in alive : \E t \in Tables, h \in Handles :
          InUse(t, h) /\ IsOwn(t, h) /\ RepOf(t, h) = r

(* A borrow handle a component holds was lent to it, and the implementation   *)
(* holds none; what is lent is alive.                                         *)
LentSound ==
    /\ \A t \in Tables : \A h \in held[t] : ~IsOwn(t, h) =>
          t # definer /\ [to |-> t, handle |-> h, rep |-> RepOf(t, h)] \in lent
    /\ definer # Host => \A l \in lent : l.rep \in alive
    /\ definer # Host => alive \subseteq createdReps[definer]

(* The reps of the host's objects are those it has captured so far.           *)
HostSound ==
    definer = Host =>
        /\ \A o \in Objects : objHandle[o] = 0
        /\ \A t \in Tables, h \in Handles : InUse(t, h) => RepOf(t, h) <= captureCnt

(* Every handle in use is held by the component or by an object, not both.    *)
ByObject(h) == \E o \in Objects : objHandle[o] = h

HoldersSound ==
    \A t \in Tables, h \in Handles :
        InUse(t, h) <=> h \in held[t] \/ (t = definer /\ ByObject(h))

ObjectsSound ==
    /\ \A o \in Objects, t \in Tables, h \in Handles : t = definer /\ objHandle[o] = h =>
          IsOwn(t, h) /\ RepOf(t, h) = objRep[o] /\ h \notin held[t]
    /\ \A o \in Objects : registered[o] = objHandle[o]
    /\ \A o, p \in Objects : objHandle[o] # 0 /\ objHandle[o] = objHandle[p] => o = p

ResInv ==
    /\ TypeOK /\ TablesSound /\ OwnersSound
    /\ HoldersSound /\ ObjectsSound
    /\ LentSound /\ HostSound /\ Captured

-----------------------------------------------------------------------------
(* What a step does to the pairs of all tables. *)

(* Every pair but the given one is as it was. *)
OthersKept(t, h) ==
    \A u \in Tables, g \in Handles : u # t \/ g # h =>
        /\ InUse(u, g)' <=> InUse(u, g)
        /\ IsOwn(u, g)' <=> IsOwn(u, g)
        /\ RepOf(u, g)' = RepOf(u, g)

(* One handle more, one handle less. *)
Added(t, n, r) ==
    /\ TablesSound'
    /\ n \in Handles /\ ~InUse(t, n) /\ InUse(t, n)' /\ RepOf(t, n)' = r
    /\ OthersKept(t, n)

Removed(t, h) ==
    /\ TablesSound'
    /\ ~InUse(t, h)'
    /\ OthersKept(t, h)

(* Creating a handle takes a pair that was not in use. *)
LEMMA AddedPair ==
    ASSUME TablesSound, NEW t \in Tables, HasRoom(table[t]), NEW r \in Reps, NEW o \in BOOLEAN,
           table' = [table EXCEPT ![t] = Create(@, r, o)],
           NEW n, n = NextHandle(table[t])
    PROVE  Added(t, n, r) /\ (IsOwn(t, n)' <=> o)
<1> DEFINE C == Create(table[t], r, o)
<1>1. table[t] \in TableType /\ LinksSound(table[t]) /\ table \in [Tables -> TableType]
  BY DEF TablesSound
<1>2. /\ C \in TableType /\ LinksSound(C)
      /\ n \in Handles /\ ~Live(table[t], n)
      /\ Live(C, n) /\ C.own[n] = o /\ C.rep[n] = r
      /\ \A g \in Handles : g # n =>
            /\ Live(C, g) <=> Live(table[t], g)
            /\ C.own[g] = table[t].own[g] /\ C.rep[g] = table[t].rep[g]
  BY <1>1, CreateView
<1>3. table' = [table EXCEPT ![t] = C]
  BY Zenon
<1> HIDE DEF C
<1>4. /\ table' \in [Tables -> TableType] /\ table'[t] = C
      /\ \A u \in Tables : u # t => table'[u] = table[u]
  BY <1>1, <1>2, <1>3
<1>5. TablesSound'
  BY <1>2, <1>4 DEF TablesSound
<1>6. OthersKept(t, n)
  BY <1>2, <1>4 DEF OthersKept, InUse, IsOwn, RepOf
<1> QED
  BY <1>2, <1>4, <1>5, <1>6 DEF Added, InUse, IsOwn, RepOf

(* ... of an own handle. *)
LEMMA AddedOwn ==
    ASSUME TablesSound, NEW t \in Tables, HasRoom(table[t]), NEW r \in Reps,
           table' = [table EXCEPT ![t] = Create(@, r, TRUE)],
           NEW n, n = NextHandle(table[t])
    PROVE  Added(t, n, r) /\ IsOwn(t, n)'
<1> DEFINE o == TRUE
<1>1. o \in BOOLEAN /\ table' = [table EXCEPT ![t] = Create(@, r, o)] /\ o
  OBVIOUS
<1> HIDE DEF o
<1> QED
  BY <1>1, AddedPair

(* ... of a borrow handle. *)
LEMMA AddedBorrow ==
    ASSUME TablesSound, NEW t \in Tables, HasRoom(table[t]), NEW r \in Reps,
           table' = [table EXCEPT ![t] = Create(@, r, FALSE)],
           NEW n, n = NextHandle(table[t])
    PROVE  Added(t, n, r) /\ ~IsOwn(t, n)'
<1> DEFINE o == FALSE
<1>1. o \in BOOLEAN /\ table' = [table EXCEPT ![t] = Create(@, r, o)] /\ ~o
  OBVIOUS
<1> HIDE DEF o
<1> QED
  BY <1>1, AddedPair

(* Removing a handle in use frees its pair and no other. *)
LEMMA RemovedPair ==
    ASSUME TablesSound, NEW t \in Tables, NEW h \in Handles, InUse(t, h),
           table' = [table EXCEPT ![t] = Remove(@, h)]
    PROVE  Removed(t, h) /\ Removable(table[t], h)
<1> DEFINE R == Remove(table[t], h)
<1>1. table[t] \in TableType /\ LinksSound(table[t]) /\ table \in [Tables -> TableType]
  BY DEF TablesSound
<1>2. /\ R \in TableType /\ LinksSound(R) /\ Removable(table[t], h)
      /\ ~Live(R, h)
      /\ \A g \in Handles : /\ g # h => (Live(R, g) <=> Live(table[t], g))
                            /\ R.own[g] = table[t].own[g] /\ R.rep[g] = table[t].rep[g]
  BY <1>1, RemoveView DEF InUse
<1> HIDE DEF R
<1>3. /\ table' \in [Tables -> TableType] /\ table'[t] = R
      /\ \A u \in Tables : u # t => table'[u] = table[u]
  BY <1>1, <1>2 DEF R
<1>4. TablesSound'
  BY <1>2, <1>3 DEF TablesSound
<1>5. OthersKept(t, h)
  BY <1>2, <1>3 DEF OthersKept, InUse, IsOwn, RepOf
<1> QED
  BY <1>2, <1>3, <1>4, <1>5 DEF Removed, InUse

(* resourceTransferOwn: one handle less here, one more there. *)
MoveStep(t, h, u, r, o) ==
    table' = [[table EXCEPT ![t] = Remove(table[t], h)] EXCEPT ![u] = Create(table[u], r, o)]

Moved(t, h, u, n, r) ==
    /\ TablesSound' /\ ~InUse(t, h)'
    /\ n \in Handles /\ ~InUse(u, n) /\ InUse(u, n)' /\ RepOf(u, n)' = r
    /\ \A w \in Tables, g \in Handles : (w # t \/ g # h) /\ (w # u \/ g # n) =>
          /\ InUse(w, g)' <=> InUse(w, g)
          /\ IsOwn(w, g)' <=> IsOwn(w, g)
          /\ RepOf(w, g)' = RepOf(w, g)

(* Removing a handle here and creating one there. *)
LEMMA MovedPair ==
    ASSUME TablesSound, NEW t \in Tables, NEW u \in Tables, t # u,
           NEW h \in Handles, InUse(t, h), HasRoom(table[u]), NEW r \in Reps, NEW o \in BOOLEAN,
           MoveStep(t, h, u, r, o), NEW n, n = NextHandle(table[u])
    PROVE  Moved(t, h, u, n, r) /\ (IsOwn(u, n)' <=> o)
<1> DEFINE R == Remove(table[t], h)
           C == Create(table[u], r, o)
           M == [table EXCEPT ![t] = R]
<1>1. /\ table[t] \in TableType /\ LinksSound(table[t]) /\ table \in [Tables -> TableType]
      /\ table[u] \in TableType /\ LinksSound(table[u])
  BY DEF TablesSound
<1>2. /\ R \in TableType /\ LinksSound(R)
      /\ ~Live(R, h)
      /\ \A g \in Handles : /\ g # h => (Live(R, g) <=> Live(table[t], g))
                            /\ R.own[g] = table[t].own[g] /\ R.rep[g] = table[t].rep[g]
  BY <1>1, RemoveView DEF InUse
<1>3. table' = [M EXCEPT ![u] = C]
  BY Zenon DEF MoveStep
<1> HIDE DEF R
<1>4. /\ C \in TableType /\ LinksSound(C)
      /\ n \in Handles /\ ~Live(table[u], n)
      /\ Live(C, n) /\ C.own[n] = o /\ C.rep[n] = r
      /\ \A g \in Handles : g # n =>
            /\ Live(C, g) <=> Live(table[u], g)
            /\ C.own[g] = table[u].own[g] /\ C.rep[g] = table[u].rep[g]
  BY <1>1, CreateView
<1> HIDE DEF C
<1>5. /\ M \in [Tables -> TableType] /\ M[t] = R
      /\ \A w \in Tables : w # t => M[w] = table[w]
  BY <1>1, <1>2
<1> HIDE DEF M
<1>6. /\ table' \in [Tables -> TableType] /\ table'[t] = R /\ table'[u] = C
      /\ \A w \in Tables : w # t /\ w # u => table'[w] = table[w]
  BY <1>3, <1>4, <1>5
<1>7. TablesSound'
  BY <1>2, <1>4, <1>6 DEF TablesSound
<1>8. ~InUse(t, h)' /\ ~InUse(u, n) /\ InUse(u, n)' /\ (IsOwn(u, n)' <=> o) /\ RepOf(u, n)' = r
  BY <1>2, <1>4, <1>6 DEF InUse, IsOwn, RepOf
<1>9. ASSUME NEW w \in Tables, NEW g \in Handles, w # t \/ g # h, w # u \/ g # n
      PROVE  /\ InUse(w, g)' <=> InUse(w, g)
             /\ IsOwn(w, g)' <=> IsOwn(w, g)
             /\ RepOf(w, g)' = RepOf(w, g)
  <2>1. CASE w = t
    BY <1>2, <1>6, <1>9, <2>1 DEF InUse, IsOwn, RepOf
  <2>2. CASE w = u
    BY <1>4, <1>6, <1>9, <2>2 DEF InUse, IsOwn, RepOf
  <2>3. CASE w # t /\ w # u
    BY <1>6, <2>3 DEF InUse, IsOwn, RepOf
  <2> QED
    BY <2>1, <2>2, <2>3
<1> QED
  BY <1>4, <1>7, <1>8, <1>9 DEF Moved

(* ... of an own handle. *)
LEMMA MovedOwn ==
    ASSUME TablesSound, NEW t \in Tables, NEW u \in Tables, t # u,
           NEW h \in Handles, InUse(t, h), HasRoom(table[u]), NEW r \in Reps,
           table' = [table EXCEPT ![t] = Remove(@, h), ![u] = Create(@, r, TRUE)],
           NEW n, n = NextHandle(table[u])
    PROVE  Moved(t, h, u, n, r) /\ IsOwn(u, n)'
<1> DEFINE o == TRUE
<1>1. MoveStep(t, h, u, r, o)
  BY Zenon DEF MoveStep
<1>2. o \in BOOLEAN /\ o
  OBVIOUS
<1> HIDE DEF o
<1> QED
  BY <1>1, <1>2, MovedPair

-----------------------------------------------------------------------------
(* The owners of all resources, through each kind of change. *)

(* A new own handle of a new resource keeps the owners sound. *)
LEMMA OwnersAddOwn ==
    ASSUME OwnersSound, NEW t \in Tables, NEW n, NEW r \in Reps, Added(t, n, r), IsOwn(t, n)',
           r \notin alive, alive' = alive \cup {r}
    PROVE  OwnersSound'
<1>1. \A v \in Tables, h \in Handles : InUse(v, h)' => RepOf(v, h)' \in Reps
  BY DEF OwnersSound, Added, OthersKept
<1>2. \A v \in Tables, h \in Handles : InUse(v, h)' /\ IsOwn(v, h)' => RepOf(v, h)' \in alive'
  BY DEF OwnersSound, Added, OthersKept
<1>3. ASSUME NEW v \in Tables, NEW w \in Tables, NEW h \in Handles, NEW g \in Handles,
             InUse(v, h)', IsOwn(v, h)', InUse(w, g)', IsOwn(w, g)', RepOf(v, h)' = RepOf(w, g)'
      PROVE  v = w /\ h = g
  BY <1>3 DEF OwnersSound, Added, OthersKept
<1>4. ASSUME NEW q \in alive'
      PROVE  \E v \in Tables, h \in Handles : InUse(v, h)' /\ IsOwn(v, h)' /\ RepOf(v, h)' = q
  <2>1. CASE q = r
    BY <2>1 DEF Added
  <2>2. CASE q # r
    <3>1. PICK v \in Tables, h \in Handles : InUse(v, h) /\ IsOwn(v, h) /\ RepOf(v, h) = q
      BY <1>4, <2>2 DEF OwnersSound
    <3> QED
      BY <3>1 DEF Added, OthersKept
  <2> QED
    BY <2>1, <2>2
<1> QED
  BY <1>1, <1>2, <1>3, <1>4 DEF OwnersSound

(* A new borrow handle keeps the owners sound. *)
LEMMA OwnersAddBorrow ==
    ASSUME OwnersSound, NEW t \in Tables, NEW n, NEW r \in Reps, Added(t, n, r), ~IsOwn(t, n)',
           alive' = alive
    PROVE  OwnersSound'
<1>1. \A v \in Tables, h \in Handles : InUse(v, h)' => RepOf(v, h)' \in Reps
  BY DEF OwnersSound, Added, OthersKept
<1>2. \A v \in Tables, h \in Handles : InUse(v, h)' /\ IsOwn(v, h)' => RepOf(v, h)' \in alive'
  BY DEF OwnersSound, Added, OthersKept
<1>3. ASSUME NEW v \in Tables, NEW w \in Tables, NEW h \in Handles, NEW g \in Handles,
             InUse(v, h)', IsOwn(v, h)', InUse(w, g)', IsOwn(w, g)', RepOf(v, h)' = RepOf(w, g)'
      PROVE  v = w /\ h = g
  BY <1>3 DEF OwnersSound, Added, OthersKept
<1>4. ASSUME NEW q \in alive
      PROVE  \E v \in Tables, h \in Handles : InUse(v, h)' /\ IsOwn(v, h)' /\ RepOf(v, h)' = q
  <2>1. PICK v \in Tables, h \in Handles : InUse(v, h) /\ IsOwn(v, h) /\ RepOf(v, h) = q
    BY <1>4 DEF OwnersSound
  <2> QED
    BY <2>1 DEF Added, OthersKept
<1> QED
  BY <1>1, <1>2, <1>3, <1>4 DEF OwnersSound

(* Removing a handle keeps the owners sound, if the resource goes with its own handle. *)
LEMMA OwnersRemove ==
    ASSUME OwnersSound, NEW t \in Tables, NEW h \in Handles, InUse(t, h), Removed(t, h),
           alive' = IF IsOwn(t, h) THEN alive \ {RepOf(t, h)} ELSE alive
    PROVE  OwnersSound'
<1>1. \A v \in Tables, g \in Handles : InUse(v, g)' => RepOf(v, g)' \in Reps
  BY DEF OwnersSound, Removed, OthersKept
<1>2. ASSUME NEW v \in Tables, NEW g \in Handles, InUse(v, g)', IsOwn(v, g)'
      PROVE  RepOf(v, g)' \in alive'
  <2>1. /\ v # t \/ g # h
        /\ InUse(v, g) /\ IsOwn(v, g) /\ RepOf(v, g)' = RepOf(v, g)
    BY <1>2 DEF Removed, OthersKept
  <2>2. RepOf(v, g) \in alive /\ (IsOwn(t, h) => RepOf(v, g) # RepOf(t, h))
    BY <2>1 DEF OwnersSound
  <2> QED
    BY <2>1, <2>2
<1>3. ASSUME NEW v \in Tables, NEW w \in Tables, NEW k \in Handles, NEW g \in Handles,
             InUse(v, k)', IsOwn(v, k)', InUse(w, g)', IsOwn(w, g)', RepOf(v, k)' = RepOf(w, g)'
      PROVE  v = w /\ k = g
  BY <1>3 DEF OwnersSound, Removed, OthersKept
<1>4. ASSUME NEW q \in alive'
      PROVE  \E v \in Tables, g \in Handles : InUse(v, g)' /\ IsOwn(v, g)' /\ RepOf(v, g)' = q
  <2>1. PICK v \in Tables, g \in Handles : InUse(v, g) /\ IsOwn(v, g) /\ RepOf(v, g) = q
    BY <1>4 DEF OwnersSound
  <2>2. v # t \/ g # h
    BY <1>4, <2>1
  <2> QED
    BY <2>1, <2>2 DEF Removed, OthersKept
<1> QED
  BY <1>1, <1>2, <1>3, <1>4 DEF OwnersSound

(* Moving an own handle to another table keeps the owners sound. *)
LEMMA OwnersMove ==
    ASSUME OwnersSound, NEW t \in Tables, NEW h \in Handles, NEW u \in Tables, NEW n, NEW r,
           InUse(t, h), IsOwn(t, h), r = RepOf(t, h), Moved(t, h, u, n, r), IsOwn(u, n)',
           alive' = alive
    PROVE  OwnersSound'
<1>0. r \in Reps /\ r \in alive
  BY DEF OwnersSound
<1>1. \A v \in Tables, g \in Handles : InUse(v, g)' => RepOf(v, g)' \in Reps
  BY <1>0 DEF OwnersSound, Moved
<1>2. \A v \in Tables, g \in Handles : InUse(v, g)' /\ IsOwn(v, g)' => RepOf(v, g)' \in alive'
  BY <1>0 DEF OwnersSound, Moved
<1>3. ASSUME NEW v \in Tables, NEW g \in Handles, v # u \/ g # n, InUse(v, g)', IsOwn(v, g)'
      PROVE  InUse(v, g) /\ IsOwn(v, g) /\ RepOf(v, g)' = RepOf(v, g) /\ RepOf(v, g) # r
  <2>1. v # t \/ g # h
    BY <1>3 DEF Moved
  <2>2. InUse(v, g) /\ IsOwn(v, g) /\ RepOf(v, g)' = RepOf(v, g)
    BY <1>3, <2>1 DEF Moved
  <2> QED
    BY <2>1, <2>2 DEF OwnersSound
<1>4. ASSUME NEW v \in Tables, NEW w \in Tables, NEW k \in Handles, NEW g \in Handles,
             InUse(v, k)', IsOwn(v, k)', InUse(w, g)', IsOwn(w, g)', RepOf(v, k)' = RepOf(w, g)'
      PROVE  v = w /\ k = g
  <2>0. RepOf(u, n)' = r
    BY DEF Moved
  <2>1. CASE v = u /\ k = n
    BY <1>3, <1>4, <2>0, <2>1
  <2>2. CASE w = u /\ g = n
    BY <1>3, <1>4, <2>0, <2>2
  <2>3. CASE (v # u \/ k # n) /\ (w # u \/ g # n)
    <3>1. /\ InUse(v, k) /\ IsOwn(v, k) /\ InUse(w, g) /\ IsOwn(w, g)
          /\ RepOf(v, k) = RepOf(w, g)
      BY <1>3, <1>4, <2>3
    <3> QED
      BY <3>1 DEF OwnersSound
  <2> QED
    BY <2>1, <2>2, <2>3
<1>5. ASSUME NEW q \in alive
      PROVE  \E v \in Tables, g \in Handles : InUse(v, g)' /\ IsOwn(v, g)' /\ RepOf(v, g)' = q
  <2>1. PICK v \in Tables, g \in Handles : InUse(v, g) /\ IsOwn(v, g) /\ RepOf(v, g) = q
    BY <1>5 DEF OwnersSound
  <2>2. CASE v = t /\ g = h
    BY <2>1, <2>2 DEF Moved
  <2>3. CASE v # t \/ g # h
    BY <2>1, <2>3 DEF Moved
  <2> QED
    BY <2>2, <2>3
<1> QED
  BY <1>1, <1>2, <1>4, <1>5 DEF OwnersSound

-----------------------------------------------------------------------------
(* Every action preserves the invariant. *)

(* A component that implements the type has a table for it. *)
LEMMA DefinerTable == ResInv => definer \in Tables \cup {Host}
BY DEF ResInv, TypeOK

(* resource.new keeps the invariant. *)
LEMMA NewInv == ASSUME ResInv, NEW r \in Reps, ResourceNew(r) PROVE ResInv'
<1>1. PICK t \in Tables : t = definer
  BY DefinerTable DEF ResourceNew
<1>2. PICK n : n = NextHandle(table[t])
  OBVIOUS
<1>3. Added(t, n, r) /\ IsOwn(t, n)'
  BY <1>1, <1>2, AddedOwn DEF ResInv, ResourceNew
<1>4. /\ held \in [Tables -> SUBSET Handles] /\ held' = [held EXCEPT ![t] = @ \cup {n}]
      /\ createdReps' = [createdReps EXCEPT ![t] = @ \cup {r}]
      /\ alive' = alive \cup {r} /\ r \notin alive /\ t # Host
      /\ UNCHANGED <<definer, objHandle, objRep, registered, lent, captureTable, captureCnt, lowered>>
  BY <1>1, <1>2 DEF ResourceNew, objectVars, captureVars, ResInv, TypeOK
<1>5. TypeOK' /\ TablesSound'
  BY <1>1, <1>3, <1>4 DEF ResInv, TypeOK, TablesSound, Added, RepsOrNone
<1>6. OwnersSound'
  BY <1>3, <1>4, OwnersAddOwn DEF ResInv
<1>7. HoldersSound'
  BY <1>1, <1>3, <1>4 DEF ResInv, HoldersSound, ByObject, Added, OthersKept
<1>8. ObjectsSound'
  BY <1>1, <1>3, <1>4 DEF ResInv, HoldersSound, ByObject, ObjectsSound, Added, OthersKept
<1>9. LentSound'
  BY <1>1, <1>3, <1>4 DEF ResInv, TypeOK, LentSound, Added, OthersKept
<1>10. HostSound' /\ Captured'
  BY <1>1, <1>4 DEF HostSound, Captured
<1> QED
  BY <1>5, <1>6, <1>7, <1>8, <1>9, <1>10 DEF ResInv

(* ResourceDrop and LiftImportedOwn: a component gives up a handle, and what   *)
(* else was lent stays lent.                                                  *)
LEMMA HandleGone ==
    ASSUME ResInv, NEW t \in Tables, NEW h \in Handles, h \in held[t],
           IsOwn(t, h) => ~IsLent(RepOf(t, h)),
           table' = [table EXCEPT ![t] = Remove(@, h)],
           held' = [held EXCEPT ![t] = @ \ {h}],
           alive' = IF IsOwn(t, h) THEN alive \ {RepOf(t, h)} ELSE alive,
           lent' \subseteq lent, \A l \in lent : ~(l.to = t /\ l.handle = h) => l \in lent',
           captureTable' = Forget(t, h),
           UNCHANGED <<definer, createdReps, objHandle, objRep, registered, captureCnt, lowered>>
    PROVE  ResInv'
<1>1. InUse(t, h)
  BY DEF ResInv, HoldersSound
<1>2. Removed(t, h)
  BY <1>1, RemovedPair DEF ResInv
<1>3. held \in [Tables -> SUBSET Handles]
  BY DEF ResInv, TypeOK
<1>4. captureTable' \in [Reps -> Objects \cup {NoObject}]
  BY <1>3 DEF Forget, ResInv, TypeOK
<1>5. TypeOK' /\ TablesSound'
  BY <1>2, <1>3, <1>4 DEF ResInv, TypeOK, TablesSound, Removed
<1>6. OwnersSound'
  BY <1>1, <1>2, <1>3, OwnersRemove DEF ResInv
<1>7. HoldersSound'
  <2>1. \A o \in Objects : t = definer => objHandle[o] # h
    BY <1>1 DEF ResInv, ObjectsSound
  <2> QED
    BY <1>1, <1>2, <1>3, <2>1 DEF ResInv, HoldersSound, ByObject, Removed, OthersKept
<1>8. ObjectsSound'
  <2>1. \A o \in Objects : t = definer => objHandle[o] # h
    BY <1>1 DEF ResInv, ObjectsSound
  <2> QED
    BY <1>1, <1>2, <1>3, <2>1 DEF ResInv, ObjectsSound, Removed, OthersKept
<1>9. LentSound'
  <2>1. ASSUME NEW v \in Tables, NEW g \in held'[v], ~IsOwn(v, g)'
        PROVE  v # definer' /\ [to |-> v, handle |-> g, rep |-> RepOf(v, g)'] \in lent'
    <3>1. g \in held[v] /\ g \in Handles /\ (v # t \/ g # h)
      BY <1>3, <2>1
    <3>2. ~IsOwn(v, g) /\ RepOf(v, g)' = RepOf(v, g)
      BY <1>2, <2>1, <3>1 DEF Removed, OthersKept
    <3>3. v # definer /\ [to |-> v, handle |-> g, rep |-> RepOf(v, g)] \in lent
      BY <3>1, <3>2 DEF ResInv, LentSound
    <3> QED
      BY <1>3, <3>1, <3>2, <3>3
  <2>2. ASSUME definer' # Host, NEW l \in lent' PROVE l.rep \in alive'
    BY <1>1, <1>3, <2>2 DEF ResInv, LentSound, IsLent
  <2>3. definer' # Host => alive' \subseteq createdReps'[definer']
    BY <1>3 DEF ResInv, LentSound
  <2> QED
    BY <2>1, <2>2, <2>3 DEF LentSound
<1>10. HostSound'
  BY <1>2, <1>3 DEF ResInv, HostSound, Removed, OthersKept
<1>11. Captured'
  <2> SUFFICES ASSUME definer = Host, NEW v \in Tables, NEW g \in held'[v]
               PROVE  /\ captureTable'[RepOf(v, g)'] # NoObject
                      /\ captureTable'[RepOf(v, g)'] = lowered[RepOf(v, g)']
    BY <1>3 DEF Captured
  <2>1. g \in held[v] /\ g \in Handles /\ (v # t \/ g # h)
    BY <1>3
  <2>2. RepOf(v, g)' = RepOf(v, g) /\ InUse(v, g)
    BY <1>2, <2>1 DEF Removed, OthersKept, ResInv, HoldersSound, ByObject
  <2>3. RepOf(v, g) \in Reps /\ RepOf(t, h) \in Reps
    BY <1>1, <2>1, <2>2 DEF ResInv, OwnersSound
  <2>4. /\ captureTable[RepOf(v, g)] # NoObject
        /\ captureTable[RepOf(v, g)] = lowered[RepOf(v, g)]
    BY <2>1 DEF ResInv, Captured
  <2>5. IsOwn(t, h) => RepOf(v, g) # RepOf(t, h)
    <3> SUFFICES ASSUME IsOwn(t, h), RepOf(v, g) = RepOf(t, h) PROVE FALSE
      OBVIOUS
    <3>1. ~IsOwn(v, g)
      BY <1>1, <2>1, <2>2 DEF ResInv, OwnersSound
    <3>2. [to |-> v, handle |-> g, rep |-> RepOf(v, g)] \in lent
      BY <2>1, <3>1 DEF ResInv, LentSound
    <3> QED
      BY <1>1, <3>2 DEF IsLent
  <2> QED
    BY <1>3, <2>2, <2>3, <2>4, <2>5 DEF Forget, ResInv, TypeOK
<1> QED
  BY <1>5, <1>6, <1>7, <1>8, <1>9, <1>10, <1>11 DEF ResInv

(* resource.drop keeps the invariant. *)
LEMMA DropInv ==
    ASSUME ResInv, NEW t \in Tables, NEW h \in Handles, ResourceDrop(t, h) PROVE ResInv'
<1>1. /\ h \in held[t] /\ (IsOwn(t, h) => ~IsLent(RepOf(t, h)))
      /\ table' = [table EXCEPT ![t] = Remove(@, h)]
      /\ held' = [held EXCEPT ![t] = @ \ {h}]
      /\ alive' = IF IsOwn(t, h) THEN alive \ {RepOf(t, h)} ELSE alive
      /\ captureTable' = Forget(t, h)
      /\ UNCHANGED <<definer, createdReps, objHandle, objRep, registered, captureCnt, lowered>>
  BY DEF ResourceDrop, MayDrop, objectVars
<1>2. lent' \subseteq lent /\ \A l \in lent : ~(l.to = t /\ l.handle = h) => l \in lent'
  BY DEF ResourceDrop
<1> QED
  BY <1>1, <1>2, HandleGone

(* Giving an own handle of a host type to the host keeps the invariant. *)
LEMMA LiftImportedInv ==
    ASSUME ResInv, NEW t \in Tables, NEW h \in Handles, LiftImportedOwn(t, h) PROVE ResInv'
<1>1. /\ h \in held[t] /\ IsOwn(t, h) /\ ~IsLent(RepOf(t, h))
      /\ table' = [table EXCEPT ![t] = Remove(@, h)]
      /\ held' = [held EXCEPT ![t] = @ \ {h}]
      /\ alive' = alive \ {RepOf(t, h)}
      /\ captureTable' = Forget(t, h)
      /\ UNCHANGED <<definer, createdReps, objHandle, objRep, registered, lent, captureCnt, lowered>>
  BY DEF LiftImportedOwn, MayGive, objectVars
<1> QED
  BY <1>1, HandleGone

(* resourceTransferOwn keeps the invariant. *)
LEMMA TransferOwnInv ==
    ASSUME ResInv, NEW t \in Tables, NEW h \in Handles, NEW u \in Tables \ {t}, TransferOwn(t, h, u)
    PROVE  ResInv'
<1>1. h \in held[t] /\ InUse(t, h) /\ IsOwn(t, h) /\ ~IsLent(RepOf(t, h)) /\ u \in Tables /\ u # t
  BY DEF TransferOwn, MayGive, ResInv, HoldersSound, ByObject
<1>2. PICK n : n = NextHandle(table[u])
  OBVIOUS
<1>3. PICK r \in Reps : r = RepOf(t, h)
  BY <1>1 DEF ResInv, OwnersSound
<1>4. Moved(t, h, u, n, r) /\ IsOwn(u, n)'
  BY <1>1, <1>2, <1>3, MovedOwn DEF ResInv, TransferOwn
<1>5. /\ held \in [Tables -> SUBSET Handles]
      /\ held' = [held EXCEPT ![t] = @ \ {h}, ![u] = @ \cup {n}]
      /\ createdReps' = [createdReps EXCEPT ![u] = @ \cup {r}]
      /\ UNCHANGED <<definer, alive, objHandle, objRep, registered, lent, captureTable, captureCnt, lowered>>
  BY <1>2, <1>3 DEF TransferOwn, objectVars, captureVars, ResInv, TypeOK
<1>6. /\ held' \in [Tables -> SUBSET Handles]
      /\ \A v \in Tables : \A g \in Handles : g \in held'[v] <=>
            ((g \in held[v] /\ (v # t \/ g # h)) \/ (v = u /\ g = n))
  BY <1>1, <1>4, <1>5 DEF Moved
<1>7. TypeOK' /\ TablesSound'
  BY <1>4, <1>5, <1>6 DEF ResInv, TypeOK, TablesSound, Moved, RepsOrNone
<1>8. OwnersSound'
  BY <1>1, <1>3, <1>4, <1>5, OwnersMove DEF ResInv
<1>9. \A o \in Objects : /\ t = definer => objHandle[o] # h
                         /\ u = definer => objHandle[o] # n
  BY <1>1, <1>4 DEF ResInv, ObjectsSound, HoldersSound, ByObject, Moved
<1>10. HoldersSound'
  BY <1>1, <1>4, <1>5, <1>6, <1>9 DEF ResInv, HoldersSound, ByObject, Moved
<1>11. ObjectsSound'
  BY <1>1, <1>4, <1>5, <1>6, <1>9 DEF ResInv, ObjectsSound, Moved
<1>12. ASSUME NEW v \in Tables, NEW g \in held'[v], v # u \/ g # n
       PROVE  /\ g \in held[v] /\ g \in Handles
              /\ IsOwn(v, g)' <=> IsOwn(v, g)
              /\ RepOf(v, g)' = RepOf(v, g)
  BY <1>4, <1>6, <1>12 DEF Moved
<1>13. LentSound'
  BY <1>1, <1>4, <1>5, <1>6, <1>12 DEF ResInv, LentSound, TypeOK
<1>14. HostSound'
  BY <1>1, <1>3, <1>4, <1>5 DEF ResInv, HostSound, Moved
<1>15. Captured'
  BY <1>1, <1>3, <1>4, <1>5, <1>12 DEF ResInv, Captured, Moved
<1> QED
  BY <1>7, <1>8, <1>10, <1>11, <1>13, <1>14, <1>15 DEF ResInv

(* The end of a loan keeps the invariant. *)
LEMMA ReturnInv == ASSUME ResInv, NEW l \in lent, ReturnBorrow(l) PROVE ResInv'
<1>1. /\ l.to = definer /\ lent' = lent \ {l}
      /\ UNCHANGED <<definer, table, createdReps, alive, held, objHandle, objRep, registered,
                     captureTable, captureCnt, lowered>>
  BY DEF ReturnBorrow, objectVars, captureVars
<1>2. LentSound'
  BY <1>1 DEF ResInv, LentSound, IsOwn, RepOf
<1> QED
  BY <1>1, <1>2
  DEF ResInv, TypeOK, TablesSound, OwnersSound, HoldersSound, ByObject, ObjectsSound, HostSound, Captured,
      InUse, IsOwn, RepOf

(* The actions that leave the tables alone leave every pair as it was. *)
LEMMA SamePairs ==
    ASSUME UNCHANGED table
    PROVE  /\ TablesSound => TablesSound'
           /\ \A t \in Tables, h \in Handles :
                 /\ InUse(t, h)' <=> InUse(t, h)
                 /\ IsOwn(t, h)' <=> IsOwn(t, h)
                 /\ RepOf(t, h)' = RepOf(t, h)
BY DEF TablesSound, InUse, IsOwn, RepOf

(* Giving an own handle to the host, as an object, keeps the invariant. *)
LEMMA LiftOwnInv ==
    ASSUME ResInv, NEW o \in Objects, NEW h \in Handles, LiftOwn(o, h) PROVE ResInv'
<1>1. PICK t \in Tables : t = definer
  BY DefinerTable DEF LiftOwn
<1>2. /\ h \in held[t] /\ InUse(t, h) /\ IsOwn(t, h) /\ objHandle[o] = 0 /\ registered[o] = 0
      /\ RepOf(t, h) \in Reps /\ t # Host
  BY <1>1 DEF LiftOwn, MayGive, ResInv, HoldersSound, ByObject, OwnersSound
<1>3. /\ objHandle' = [objHandle EXCEPT ![o] = h]
      /\ objRep' = [objRep EXCEPT ![o] = RepOf(t, h)]
      /\ registered' = [registered EXCEPT ![o] = h]
      /\ held' = [held EXCEPT ![t] = @ \ {h}]
      /\ UNCHANGED <<definer, table, createdReps, alive, lent, captureTable, captureCnt, lowered>>
  BY <1>1 DEF LiftOwn, captureVars
<1>4. /\ TablesSound'
      /\ \A v \in Tables, g \in Handles :
            /\ InUse(v, g)' <=> InUse(v, g)
            /\ IsOwn(v, g)' <=> IsOwn(v, g)
            /\ RepOf(v, g)' = RepOf(v, g)
  BY <1>3, SamePairs DEF ResInv
<1>5. /\ objHandle \in [Objects -> 0 .. MaxHandle] /\ objRep \in [Objects -> RepsOrNone]
      /\ registered \in [Objects -> 0 .. MaxHandle] /\ held \in [Tables -> SUBSET Handles]
      /\ h \in 0 .. MaxHandle /\ h # 0
  BY DEF ResInv, TypeOK, Handles
<1>6. TypeOK'
  BY <1>2, <1>3, <1>5 DEF ResInv, TypeOK, RepsOrNone
<1>7. OwnersSound'
  BY <1>3, <1>4 DEF ResInv, OwnersSound
<1>8. \A p \in Objects : objHandle[p] # h
  BY <1>1, <1>2 DEF ResInv, ObjectsSound
<1>9. HoldersSound'
  <2>1. \A g \in Handles : ByObject(g)' <=> ByObject(g) \/ g = h
    <3>1. /\ objHandle'[o] = h
          /\ \A p \in Objects : p # o => objHandle'[p] = objHandle[p]
      BY <1>3, <1>5
    <3>2. \A g \in Handles : g # objHandle[o]
      BY <1>2 DEF Handles
    <3> QED
      BY <3>1, <3>2 DEF ByObject
  <2> QED
    BY <1>1, <1>2, <1>3, <1>4, <1>5, <2>1 DEF ResInv, HoldersSound
<1>10. ObjectsSound'
  BY <1>1, <1>2, <1>3, <1>4, <1>5, <1>8 DEF ResInv, ObjectsSound
<1>11. LentSound'
  BY <1>1, <1>2, <1>3, <1>4, <1>5 DEF ResInv, LentSound
<1>12. HostSound' /\ Captured'
  BY <1>1, <1>2, <1>3 DEF HostSound, Captured
<1> QED
  BY <1>4, <1>6, <1>7, <1>9, <1>10, <1>11, <1>12 DEF ResInv

(* Passing an object to the implementation as own keeps the invariant. *)
LEMMA LowerOwnInv == ASSUME ResInv, NEW o \in Objects, LowerOwn(o) PROVE ResInv'
<1>1. PICK t \in Tables : t = definer
  BY DefinerTable DEF LowerOwn, ResInv, HostSound
<1>2. PICK h \in Handles : h = objHandle[o]
  BY DEF LowerOwn, ResInv, TypeOK, Handles
<1>3. InUse(t, h) /\ IsOwn(t, h) /\ RepOf(t, h) = objRep[o] /\ t # Host
  BY <1>1, <1>2 DEF ResInv, ObjectsSound, HoldersSound, ByObject
<1>4. /\ objHandle' = [objHandle EXCEPT ![o] = 0]
      /\ registered' = [registered EXCEPT ![o] = 0]
      /\ held' = [held EXCEPT ![t] = @ \cup {h}]
      /\ UNCHANGED <<definer, table, createdReps, alive, objRep, lent, captureTable, captureCnt, lowered>>
  BY <1>1, <1>2 DEF LowerOwn, Unregister, captureVars
<1>5. /\ TablesSound'
      /\ \A v \in Tables, g \in Handles :
            /\ InUse(v, g)' <=> InUse(v, g)
            /\ IsOwn(v, g)' <=> IsOwn(v, g)
            /\ RepOf(v, g)' = RepOf(v, g)
  BY <1>4, SamePairs DEF ResInv
<1>6. /\ objHandle \in [Objects -> 0 .. MaxHandle] /\ objRep \in [Objects -> RepsOrNone]
      /\ registered \in [Objects -> 0 .. MaxHandle] /\ held \in [Tables -> SUBSET Handles]
      /\ h # 0 /\ \A g \in Handles : g # 0
      /\ 0 \in 0 .. MaxHandle
  BY HandleAssumption DEF ResInv, TypeOK, Handles
<1>7. TypeOK'
  BY <1>4, <1>6 DEF ResInv, TypeOK
<1>8. OwnersSound'
  BY <1>4, <1>5 DEF ResInv, OwnersSound
<1>9. \A p \in Objects : objHandle[p] = h => p = o
  BY <1>2, <1>6 DEF ResInv, ObjectsSound
<1>10. HoldersSound'
  <2>1. \A g \in Handles : ByObject(g)' <=> ByObject(g) /\ g # h
    <3>1. /\ objHandle'[o] = 0
          /\ \A p \in Objects : p # o => objHandle'[p] = objHandle[p]
      BY <1>4, <1>6
    <3> QED
      BY <1>2, <1>6, <1>9, <3>1 DEF ByObject
  <2> QED
    BY <1>1, <1>3, <1>4, <1>5, <1>6, <2>1 DEF ResInv, HoldersSound
<1>11. ObjectsSound'
  BY <1>1, <1>2, <1>3, <1>4, <1>5, <1>6, <1>9 DEF ResInv, ObjectsSound
<1>12. LentSound'
  BY <1>1, <1>2, <1>3, <1>4, <1>5, <1>6 DEF ResInv, LentSound
<1>13. HostSound' /\ Captured'
  BY <1>1, <1>3, <1>4 DEF HostSound, Captured
<1> QED
  BY <1>5, <1>7, <1>8, <1>10, <1>11, <1>12, <1>13 DEF ResInv

(* Lending an object to the implementation keeps the invariant. *)
LEMMA LowerBorrowInv == ASSUME ResInv, NEW o \in Objects, LowerBorrow(o) PROVE ResInv'
<1>1. PICK t \in Tables : t = definer
  BY DefinerTable DEF LowerBorrow, ResInv, HostSound
<1>2. PICK h \in Handles : h = objHandle[o]
  BY DEF LowerBorrow, ResInv, TypeOK, Handles
<1>3. /\ InUse(t, h) /\ IsOwn(t, h) /\ RepOf(t, h) = objRep[o] /\ t # Host
      /\ objRep[o] \in alive /\ objRep[o] \in Reps
  BY <1>1, <1>2 DEF ResInv, ObjectsSound, HoldersSound, ByObject, OwnersSound
<1>4. /\ lent' = lent \cup {[to |-> t, handle |-> RepOf(t, h), rep |-> objRep[o]]}
      /\ UNCHANGED <<definer, table, createdReps, alive, held, objHandle, objRep, registered,
                     captureTable, captureCnt, lowered>>
  BY <1>1, <1>2 DEF LowerBorrow, captureVars, objectVars
<1>5. /\ TablesSound'
      /\ \A v \in Tables, g \in Handles :
            /\ InUse(v, g)' <=> InUse(v, g)
            /\ IsOwn(v, g)' <=> IsOwn(v, g)
            /\ RepOf(v, g)' = RepOf(v, g)
  BY <1>4, SamePairs DEF ResInv
<1>6. TypeOK'
  <2>1. [to |-> t, handle |-> RepOf(t, h), rep |-> objRep[o]]
           \in [to : Tables, handle : Nat, rep : RepsOrNone]
    BY <1>3, RepsAssumption DEF RepsOrNone
  <2>2. lent' \subseteq [to : Tables, handle : Nat, rep : RepsOrNone]
    BY <1>4, <2>1 DEF ResInv, TypeOK
  <2> QED
    BY <1>4, <2>2 DEF ResInv, TypeOK
<1>7. LentSound'
  BY <1>1, <1>3, <1>4, <1>5 DEF ResInv, TypeOK, LentSound
<1>8. OwnersSound' /\ HoldersSound' /\ ObjectsSound'
  BY <1>4, <1>5 DEF ResInv, OwnersSound, HoldersSound, ByObject, ObjectsSound
<1>9. HostSound' /\ Captured'
  BY <1>1, <1>3, <1>4 DEF HostSound, Captured
<1> QED
  BY <1>5, <1>6, <1>7, <1>8, <1>9 DEF ResInv

(* Dispose and Finalize: the object's pair is removed, the object forgets it. *)
LEMMA ObjectGone ==
    ASSUME ResInv, NEW o \in Objects, NEW t \in Tables, t = definer, NEW h \in Handles,
           objHandle[o] = h, ~IsLent(objRep[o]),
           table' = [table EXCEPT ![t] = Remove(@, h)],
           alive' = alive \ {RepOf(t, h)},
           objHandle' = [objHandle EXCEPT ![o] = 0],
           registered' = [registered EXCEPT ![o] = 0],
           UNCHANGED <<definer, createdReps, held, objRep, lent, captureTable, captureCnt, lowered>>
    PROVE  ResInv'
<1>1. /\ InUse(t, h) /\ IsOwn(t, h) /\ RepOf(t, h) = objRep[o] /\ t # Host
      /\ h \notin held[t]
  BY DEF ResInv, ObjectsSound, HoldersSound, ByObject
<1>2. Removed(t, h)
  BY <1>1, RemovedPair DEF ResInv
<1>3. /\ objHandle \in [Objects -> 0 .. MaxHandle] /\ held \in [Tables -> SUBSET Handles]
      /\ registered \in [Objects -> 0 .. MaxHandle]
      /\ h # 0 /\ \A g \in Handles : g # 0
      /\ 0 \in 0 .. MaxHandle
  BY HandleAssumption DEF ResInv, TypeOK, Handles
<1>4. TypeOK' /\ TablesSound'
  BY <1>2, <1>3 DEF ResInv, TypeOK, TablesSound, Removed
<1>5. OwnersSound'
  BY <1>1, <1>2, OwnersRemove DEF ResInv
<1>6. \A p \in Objects : objHandle[p] = h => p = o
  BY <1>3 DEF ResInv, ObjectsSound
<1>7. HoldersSound'
  <2>1. \A g \in Handles : ByObject(g)' <=> ByObject(g) /\ g # h
    <3>1. /\ objHandle'[o] = 0
          /\ \A p \in Objects : p # o => objHandle'[p] = objHandle[p]
      BY <1>3
    <3> QED
      BY <1>3, <1>6, <3>1 DEF ByObject
  <2> QED
    BY <1>1, <1>2, <2>1 DEF ResInv, HoldersSound, Removed, OthersKept
<1>8. ObjectsSound'
  BY <1>1, <1>2, <1>3, <1>6 DEF ResInv, ObjectsSound, Removed, OthersKept
<1>9. LentSound'
  <2>1. \A v \in Tables : \A g \in held[v] :
           /\ IsOwn(v, g)' <=> IsOwn(v, g)
           /\ RepOf(v, g)' = RepOf(v, g)
    BY <1>1, <1>2, <1>3 DEF Removed, OthersKept
  <2>2. \A l \in lent : l.rep # RepOf(t, h)
    BY <1>1 DEF IsLent
  <2> QED
    BY <1>1, <2>1, <2>2 DEF ResInv, LentSound
<1>10. HostSound' /\ Captured'
  BY <1>1 DEF HostSound, Captured
<1> QED
  BY <1>4, <1>5, <1>7, <1>8, <1>9, <1>10 DEF ResInv

(* Symbol.dispose keeps the invariant. *)
LEMMA DisposeInv == ASSUME ResInv, NEW o \in Objects, Dispose(o) PROVE ResInv'
<1>1. PICK t \in Tables : t = definer
  BY DefinerTable DEF Dispose, ResInv, HostSound
<1>2. PICK h \in Handles : h = objHandle[o]
  BY DEF Dispose, ResInv, TypeOK, Handles
<1>3. InUse(t, h)
  BY <1>1, <1>2 DEF ResInv, HoldersSound, ByObject
<1>4. Removable(table[t], h)
  BY <1>3 DEF InUse, Live, Removable
<1> QED
  BY <1>1, <1>2, <1>4, ObjectGone DEF Dispose, Unregister, captureVars

(* The finalization registry keeps the invariant. *)
LEMMA FinalizeInv == ASSUME ResInv, NEW o \in Objects, Finalize(o) PROVE ResInv'
<1>0. registered[o] = objHandle[o] /\ objHandle[o] # 0
  BY DEF Finalize, ResInv, ObjectsSound
<1>1. PICK t \in Tables : t = definer
  BY <1>0, DefinerTable DEF ResInv, HostSound
<1>2. PICK h \in Handles : h = objHandle[o]
  BY <1>0 DEF ResInv, TypeOK, Handles
<1>3. InUse(t, h)
  BY <1>1, <1>2 DEF ResInv, HoldersSound, ByObject
<1>4. Removable(table[t], h)
  BY <1>3 DEF InUse, Live, Removable
<1> QED
  BY <1>0, <1>1, <1>2, <1>4, ObjectGone DEF Finalize, captureVars

(* A capture is made under a rep no handle has. *)
LEMMA CaptureFresh ==
    ASSUME ResInv, NEW o \in Objects, Capture(o)
    PROVE  /\ definer = Host /\ captureCnt + 1 \in Reps /\ captureCnt \in Nat
           /\ captureCnt + 1 \notin alive
           /\ \A t \in Tables, h \in Handles : InUse(t, h) =>
                 RepOf(t, h) # captureCnt + 1 /\ RepOf(t, h) <= captureCnt + 1
           /\ captureTable' \in [Reps -> Objects \cup {NoObject}]
           /\ lowered' \in [Reps -> Objects \cup {NoObject}]
           /\ captureTable'[captureCnt + 1] = o /\ lowered'[captureCnt + 1] = o
           /\ \A r \in Reps : r # captureCnt + 1 =>
                 captureTable'[r] = captureTable[r] /\ lowered'[r] = lowered[r]
<1>1. definer = Host /\ captureCnt + 1 \in Reps /\ captureCnt \in Nat
  BY RepsAssumption DEF Capture, ResInv, TypeOK, RepsOrNone
<1>2. ASSUME NEW t \in Tables, NEW h \in Handles, InUse(t, h)
      PROVE  RepOf(t, h) # captureCnt + 1 /\ RepOf(t, h) <= captureCnt + 1
  <2>1. RepOf(t, h) \in Nat /\ RepOf(t, h) <= captureCnt
    BY <1>1, <1>2, RepsAssumption DEF ResInv, OwnersSound, HostSound
  <2> QED
    BY <1>1, <2>1
<1>3. captureCnt + 1 \notin alive
  BY <1>2 DEF ResInv, OwnersSound
<1> QED
  BY <1>1, <1>2, <1>3 DEF Capture, ResInv, TypeOK

(* Capturing an object of the host under an own handle keeps the invariant. *)
LEMMA ImportedOwnInv ==
    ASSUME ResInv, NEW o \in Objects, NEW t \in Tables, LowerImportedOwn(o, t) PROVE ResInv'
<1>1. PICK n : n = NextHandle(table[t])
  OBVIOUS
<1>2. PICK r \in Reps : r = captureCnt + 1
  BY CaptureFresh DEF LowerImportedOwn
<1>3. /\ definer = Host /\ r \notin alive /\ captureCnt \in Nat
      /\ \A v \in Tables, g \in Handles : InUse(v, g) => RepOf(v, g) # r /\ RepOf(v, g) <= r
      /\ captureTable' \in [Reps -> Objects \cup {NoObject}]
      /\ lowered' \in [Reps -> Objects \cup {NoObject}]
      /\ captureTable'[r] = o /\ lowered'[r] = o
      /\ \A q \in Reps : q # r => captureTable'[q] = captureTable[q] /\ lowered'[q] = lowered[q]
  BY <1>2, CaptureFresh DEF LowerImportedOwn
<1>4. Added(t, n, r) /\ IsOwn(t, n)'
  BY <1>1, <1>2, AddedOwn DEF ResInv, LowerImportedOwn
<1>5. /\ held \in [Tables -> SUBSET Handles] /\ held' = [held EXCEPT ![t] = @ \cup {n}]
      /\ createdReps' = [createdReps EXCEPT ![t] = @ \cup {r}]
      /\ alive' = alive \cup {r} /\ captureCnt' = r
      /\ UNCHANGED <<definer, objHandle, objRep, registered, lent>>
  BY <1>1, <1>2 DEF LowerImportedOwn, Capture, objectVars, ResInv, TypeOK
<1>6. TypeOK' /\ TablesSound'
  BY <1>3, <1>4, <1>5 DEF ResInv, TypeOK, TablesSound, Added, RepsOrNone
<1>7. OwnersSound'
  BY <1>3, <1>4, <1>5, OwnersAddOwn DEF ResInv
<1>8. HoldersSound' /\ ObjectsSound'
  BY <1>3, <1>4, <1>5 DEF ResInv, HoldersSound, ByObject, ObjectsSound, Added, OthersKept
<1>9. LentSound'
  BY <1>3, <1>4, <1>5 DEF ResInv, TypeOK, LentSound, Added, OthersKept
<1>10. HostSound'
  BY <1>2, <1>3, <1>4, <1>5 DEF ResInv, HostSound, Added, OthersKept
<1>11. Captured'
  <2> SUFFICES ASSUME NEW v \in Tables, NEW g \in held'[v]
               PROVE  /\ captureTable'[RepOf(v, g)'] # NoObject
                      /\ captureTable'[RepOf(v, g)'] = lowered'[RepOf(v, g)']
    BY DEF Captured
  <2>1. CASE v = t /\ g = n
    BY <1>3, <1>4, <2>1 DEF Added
  <2>2. CASE v # t \/ g # n
    <3>1. g \in held[v] /\ g \in Handles
      BY <1>5, <2>2
    <3>2. RepOf(v, g)' = RepOf(v, g) /\ InUse(v, g)
      BY <1>4, <2>2, <3>1 DEF Added, OthersKept, ResInv, HoldersSound
    <3>3. RepOf(v, g) \in Reps /\ RepOf(v, g) # r
      BY <1>3, <3>1, <3>2 DEF ResInv, OwnersSound
    <3> QED
      BY <1>3, <3>1, <3>2, <3>3 DEF ResInv, Captured
  <2> QED
    BY <2>1, <2>2
<1> QED
  BY <1>6, <1>7, <1>8, <1>9, <1>10, <1>11 DEF ResInv

(* Capturing an object of the host under a borrow handle keeps the invariant. *)
LEMMA ImportedBorrowInv ==
    ASSUME ResInv, NEW o \in Objects, NEW t \in Tables, LowerImportedBorrow(o, t) PROVE ResInv'
<1>1. PICK n : n = NextHandle(table[t])
  OBVIOUS
<1>2. PICK r \in Reps : r = captureCnt + 1
  BY CaptureFresh DEF LowerImportedBorrow
<1>3. /\ definer = Host /\ r \notin alive /\ captureCnt \in Nat
      /\ \A v \in Tables, g \in Handles : InUse(v, g) => RepOf(v, g) # r /\ RepOf(v, g) <= r
      /\ captureTable' \in [Reps -> Objects \cup {NoObject}]
      /\ lowered' \in [Reps -> Objects \cup {NoObject}]
      /\ captureTable'[r] = o /\ lowered'[r] = o
      /\ \A q \in Reps : q # r => captureTable'[q] = captureTable[q] /\ lowered'[q] = lowered[q]
  BY <1>2, CaptureFresh DEF LowerImportedBorrow
<1>4. Added(t, n, r) /\ ~IsOwn(t, n)'
  BY <1>1, <1>2, AddedBorrow DEF ResInv, LowerImportedBorrow
<1>5. /\ held \in [Tables -> SUBSET Handles] /\ held' = [held EXCEPT ![t] = @ \cup {n}]
      /\ lent' = lent \cup {[to |-> t, handle |-> n, rep |-> r]}
      /\ captureCnt' = r
      /\ UNCHANGED <<definer, createdReps, alive, objHandle, objRep, registered>>
  BY <1>1, <1>2 DEF LowerImportedBorrow, Capture, objectVars, ResInv, TypeOK
<1>6. n \in Nat
  BY <1>4 DEF Added, Handles
<1>7. TypeOK' /\ TablesSound'
  BY <1>3, <1>4, <1>5, <1>6 DEF ResInv, TypeOK, TablesSound, Added, RepsOrNone
<1>8. OwnersSound'
  BY <1>3, <1>4, <1>5, OwnersAddBorrow DEF ResInv
<1>9. HoldersSound' /\ ObjectsSound'
  BY <1>3, <1>4, <1>5 DEF ResInv, HoldersSound, ByObject, ObjectsSound, Added, OthersKept
<1>10. ASSUME NEW v \in Tables, NEW g \in held'[v], v # t \/ g # n
       PROVE  /\ g \in held[v] /\ g \in Handles /\ InUse(v, g)
              /\ IsOwn(v, g)' <=> IsOwn(v, g)
              /\ RepOf(v, g)' = RepOf(v, g)
  <2>1. g \in held[v] /\ g \in Handles
    BY <1>5, <1>10
  <2> QED
    BY <1>4, <1>10, <2>1 DEF Added, OthersKept, ResInv, HoldersSound
<1>11. LentSound'
  <2>1. ASSUME NEW v \in Tables, NEW g \in held'[v], ~IsOwn(v, g)'
        PROVE  v # definer' /\ [to |-> v, handle |-> g, rep |-> RepOf(v, g)'] \in lent'
    <3>1. CASE v = t /\ g = n
      BY <1>3, <1>4, <1>5, <3>1 DEF Added
    <3>2. CASE v # t \/ g # n
      BY <1>5, <1>10, <2>1, <3>2 DEF ResInv, LentSound
    <3> QED
      BY <3>1, <3>2
  <2> QED
    BY <1>3, <1>5, <2>1 DEF LentSound
<1>12. HostSound'
  BY <1>2, <1>3, <1>4, <1>5 DEF ResInv, HostSound, Added, OthersKept
<1>13. Captured'
  <2> SUFFICES ASSUME NEW v \in Tables, NEW g \in held'[v]
               PROVE  /\ captureTable'[RepOf(v, g)'] # NoObject
                      /\ captureTable'[RepOf(v, g)'] = lowered'[RepOf(v, g)']
    BY DEF Captured
  <2>1. CASE v = t /\ g = n
    BY <1>3, <1>4, <2>1 DEF Added
  <2>2. CASE v # t \/ g # n
    <3>1. RepOf(v, g)' = RepOf(v, g) /\ InUse(v, g) /\ g \in held[v] /\ g \in Handles
      BY <1>10, <2>2
    <3>2. RepOf(v, g) \in Reps /\ RepOf(v, g) # r
      BY <1>3, <3>1 DEF ResInv, OwnersSound
    <3> QED
      BY <1>3, <3>1, <3>2 DEF ResInv, Captured
  <2> QED
    BY <2>1, <2>2
<1> QED
  BY <1>7, <1>8, <1>9, <1>11, <1>12, <1>13 DEF ResInv

(* Only an own handle is lent: a pair is added to the table of the receiver,  *)
(* or nothing changes but what is lent.                                       *)
LEMMA TransferBorrowInv ==
    ASSUME ResInv, ~LendOnBorrows, NEW t \in Tables, NEW h \in Handles, NEW u \in Tables \ {t},
           TransferBorrow(t, h, u)
    PROVE  ResInv'
<1>1. /\ h \in held[t] /\ InUse(t, h) /\ IsOwn(t, h) /\ u \in Tables /\ u # t
  BY DEF TransferBorrow, MayLend, ResInv, HoldersSound
<1>2. PICK n : n = NextHandle(table[u])
  OBVIOUS
<1>3. PICK r \in Reps : r = RepOf(t, h) /\ r \in alive
  BY <1>1 DEF ResInv, OwnersSound
<1>4. /\ UNCHANGED <<definer, createdReps, alive, objHandle, objRep, registered,
                     captureTable, captureCnt, lowered>>
      /\ held \in [Tables -> SUBSET Handles] /\ table \in [Tables -> TableType]
  BY DEF TransferBorrow, objectVars, captureVars, ResInv, TypeOK
<1>5. CASE LocalBorrow(r, u)
  <2>1. /\ table' = table /\ held' = held
        /\ lent' = lent \cup {[to |-> u, handle |-> r, rep |-> r]}
    BY <1>1, <1>3, <1>4, <1>5 DEF TransferBorrow
  <2>2. /\ TablesSound'
        /\ \A v \in Tables, g \in Handles :
              /\ InUse(v, g)' <=> InUse(v, g)
              /\ IsOwn(v, g)' <=> IsOwn(v, g)
              /\ RepOf(v, g)' = RepOf(v, g)
    BY <2>1, SamePairs DEF ResInv
  <2>3. TypeOK'
    BY <1>1, <1>3, <1>4, <2>1, RepsAssumption DEF ResInv, TypeOK, RepsOrNone
  <2>4. LentSound'
    BY <1>3, <1>4, <2>1, <2>2 DEF ResInv, LentSound
  <2>5. OwnersSound' /\ HoldersSound' /\ ObjectsSound' /\ HostSound' /\ Captured'
    BY <1>4, <2>1, <2>2
    DEF ResInv, OwnersSound, HoldersSound, ByObject, ObjectsSound, HostSound, Captured
  <2> QED
    BY <2>2, <2>3, <2>4, <2>5 DEF ResInv
<1>6. CASE ~LocalBorrow(r, u)
  <2>1. /\ HasRoom(table[u]) /\ table' = [table EXCEPT ![u] = Create(@, r, FALSE)]
        /\ held' = [held EXCEPT ![u] = @ \cup {n}]
        /\ lent' = lent \cup {[to |-> u, handle |-> n, rep |-> r]}
    BY <1>1, <1>2, <1>3, <1>4, <1>6 DEF TransferBorrow
  <2>2. Added(u, n, r) /\ ~IsOwn(u, n)'
    BY <1>1, <1>2, <2>1, AddedBorrow DEF ResInv
  <2>3. u # definer
    BY <1>1, <1>3, <1>6 DEF ResInv, LentSound, LocalBorrow
  <2>4. TypeOK' /\ TablesSound'
    <3>1. [to |-> u, handle |-> n, rep |-> r] \in [to : Tables, handle : Nat, rep : RepsOrNone]
      BY <1>1, <2>2 DEF Added, Handles, RepsOrNone
    <3>2. lent' \subseteq [to : Tables, handle : Nat, rep : RepsOrNone]
      BY <2>1, <3>1 DEF ResInv, TypeOK
    <3>3. TablesSound' /\ held' \in [Tables -> SUBSET Handles]
      BY <1>1, <1>4, <2>1, <2>2 DEF Added
    <3> QED
      BY <1>4, <3>2, <3>3 DEF ResInv, TypeOK, TablesSound
  <2>5. OwnersSound'
    BY <1>1, <1>4, <2>2, OwnersAddBorrow DEF ResInv
  <2>6. HoldersSound' /\ ObjectsSound'
    BY <1>1, <1>4, <2>1, <2>2, <2>3
    DEF ResInv, HoldersSound, ByObject, ObjectsSound, Added, OthersKept
  <2>7. ASSUME NEW v \in Tables, NEW g \in held'[v], v # u \/ g # n
        PROVE  /\ g \in held[v] /\ g \in Handles
               /\ IsOwn(v, g)' <=> IsOwn(v, g)
               /\ RepOf(v, g)' = RepOf(v, g)
    <3>1. g \in held[v] /\ g \in Handles
      BY <1>1, <1>4, <2>1, <2>7
    <3> QED
      BY <2>2, <2>7, <3>1 DEF Added, OthersKept
  <2>8. LentSound'
    <3>1. ASSUME NEW v \in Tables, NEW g \in held'[v], ~IsOwn(v, g)'
          PROVE  v # definer' /\ [to |-> v, handle |-> g, rep |-> RepOf(v, g)'] \in lent'
      <4>1. CASE v = u /\ g = n
        BY <1>4, <2>1, <2>2, <2>3, <4>1 DEF Added
      <4>2. CASE v # u \/ g # n
        BY <1>4, <2>1, <2>7, <3>1, <4>2 DEF ResInv, LentSound
      <4> QED
        BY <4>1, <4>2
    <3> QED
      BY <1>3, <1>4, <2>1, <3>1 DEF ResInv, LentSound
  <2>9. HostSound'
    BY <1>1, <1>3, <1>4, <2>2 DEF ResInv, HostSound, Added, OthersKept
  <2>10. Captured'
    BY <1>1, <1>3, <1>4, <2>2, <2>7 DEF ResInv, Captured, Added
  <2> QED
    BY <2>4, <2>5, <2>6, <2>8, <2>9, <2>10 DEF ResInv
<1> QED
  BY <1>5, <1>6

(* New tables are sound. *)
LEMMA InitRes == Init => ResInv
<1> SUFFICES ASSUME Init PROVE ResInv
  OBVIOUS
<1>1. table \in [Tables -> TableType] /\ \A t \in Tables : table[t] = EmptyTable
  BY EmptySound DEF Init
<1>2. TablesSound
  BY <1>1, EmptySound DEF TablesSound
<1>3. \A t \in Tables, h \in Handles : ~InUse(t, h)
  <2>1. Handles \subseteq 0 .. MaxHandle
    BY DEF Handles
  <2> QED
    BY <1>1, <2>1, EmptySound DEF InUse
<1>4. TypeOK
  BY <1>1, HandleAssumption DEF Init, TypeOK, RepsOrNone
<1>5. \A h \in Handles : h # 0
  BY DEF Handles
<1>6. OwnersSound
  BY <1>3 DEF Init, OwnersSound
<1>7. HoldersSound /\ ObjectsSound
  BY <1>3, <1>5 DEF Init, HoldersSound, ByObject, ObjectsSound
<1>8. LentSound /\ HostSound /\ Captured
  BY <1>3 DEF Init, LentSound, HostSound, Captured
<1> QED
  BY <1>2, <1>4, <1>6, <1>7, <1>8 DEF ResInv

(* Every operation on a resource keeps the tables, the holders and the       *)
(* objects in agreement, when no guest lends on what it borrowed.            *)
THEOREM ResStep == ~LendOnBorrows /\ ResInv /\ [Next]_vars => ResInv'
<1> SUFFICES ASSUME ~LendOnBorrows, ResInv, [Next]_vars PROVE ResInv'
  OBVIOUS
<1>1. CASE UNCHANGED vars
  BY <1>1
  DEF vars, objectVars, captureVars, ResInv, TypeOK, TablesSound, OwnersSound, HoldersSound,
      ByObject, ObjectsSound, LentSound, HostSound, Captured, InUse, IsOwn, RepOf
<1> QED
  BY <1>1, NewInv, DropInv, LiftImportedInv, TransferOwnInv, TransferBorrowInv, ReturnInv,
     LiftOwnInv, LowerOwnInv, LowerBorrowInv, DisposeInv, FinalizeInv, ImportedOwnInv,
     ImportedBorrowInv
  DEF Next

(* The inductive invariant holds as long as no guest lends on a handle it     *)
(* has borrowed.                                                              *)
THEOREM ResInvariant == ~LendOnBorrows => (Spec => []ResInv)
<1> SUFFICES ASSUME ~LendOnBorrows PROVE Spec => []ResInv
  OBVIOUS
<1>1. ResInv /\ [Next]_vars => ResInv'
  BY ResStep
<1> QED
  BY <1>1, InitRes, PTL DEF Spec

-----------------------------------------------------------------------------
(* resource.new, resource.drop, transfers, dispose and finalizers keep the    *)
(* tables, the capture table and the bookkeeping in shape.                    *)
THEOREM ResourceTypes == ~LendOnBorrows => (Spec => []TypeOK)
<1> SUFFICES ASSUME ~LendOnBorrows PROVE Spec => []TypeOK
  OBVIOUS
<1>1. ResInv => TypeOK
  BY DEF ResInv
<1> QED
  BY <1>1, ResInvariant, PTL

(* A resource that is alive has exactly one own handle in all the tables, and *)
(* one that is not has none: its destructor runs once, whichever of           *)
(* resource.drop, Symbol.dispose and the finalization registry gets there,    *)
(* and after however many transfers between components.                       *)
THEOREM OneOwnerHolds == ~LendOnBorrows => (Spec => []OneOwner)
<1> SUFFICES ASSUME ~LendOnBorrows PROVE Spec => []OneOwner
  OBVIOUS
<1>1. ASSUME ResInv, NEW r \in Reps
      PROVE  Cardinality(Owners(r)) = IF r \in alive THEN 1 ELSE 0
  <2>1. ASSUME NEW p \in Owners(r)
        PROVE  /\ p[1] \in Tables /\ p[2] \in Handles /\ p = <<p[1], p[2]>>
               /\ InUse(p[1], p[2]) /\ IsOwn(p[1], p[2]) /\ RepOf(p[1], p[2]) = r
    BY <2>1 DEF Owners, InUse
  <2>2. CASE r \in alive
    <3>1. PICK t \in Tables, h \in Handles : InUse(t, h) /\ IsOwn(t, h) /\ RepOf(t, h) = r
      BY <1>1, <2>2 DEF ResInv, OwnersSound
    <3>2. <<t, h>> \in Owners(r)
      BY <3>1 DEF Owners, InUse
    <3>3. ASSUME NEW p \in Owners(r) PROVE p = <<t, h>>
      <4>1. p[1] = t /\ p[2] = h
        BY <1>1, <2>1, <3>1 DEF ResInv, OwnersSound
      <4> QED
        BY <2>1, <4>1
    <3>4. Owners(r) = {<<t, h>>}
      BY <3>2, <3>3
    <3> QED
      BY <2>2, <3>4, FS_Singleton
  <2>3. CASE r \notin alive
    <3>1. Owners(r) = {}
      BY <1>1, <2>1, <2>3 DEF ResInv, OwnersSound
    <3> QED
      BY <2>3, <3>1, FS_EmptySet
  <2> QED
    BY <2>2, <2>3
<1>2. ResInv => OneOwner
  BY <1>1 DEF OneOwner
<1> QED
  BY <1>2, ResInvariant, PTL

(* Every handle in use is held by one component or one object, and every      *)
(* handle a component holds is in use: no operation frees a handle under its  *)
(* holder, and none leaks a pair.                                             *)
THEOREM HandlesStayHeld == ~LendOnBorrows => (Spec => []HandlesHeld)
<1> SUFFICES ASSUME ~LendOnBorrows PROVE Spec => []HandlesHeld
  OBVIOUS
<1>1. ResInv => HandlesHeld
  BY DEF ResInv, HoldersSound, ByObject, HandlesHeld, InUse
<1> QED
  BY <1>1, ResInvariant, PTL

(* The handle of a proxy object is the own handle of the resource it was made *)
(* for, though handles are reused: Symbol.dispose, the finalizer and a borrow *)
(* through the object never reach another resource.                           *)
THEOREM ObjectsOwnTheirs == ~LendOnBorrows => (Spec => []ObjectsOwn)
<1> SUFFICES ASSUME ~LendOnBorrows PROVE Spec => []ObjectsOwn
  OBVIOUS
<1>1. ASSUME ResInv, NEW o \in Objects, objHandle[o] # 0
      PROVE  /\ Live(table[definer], objHandle[o])
             /\ IsOwn(definer, objHandle[o])
             /\ RepOf(definer, objHandle[o]) = objRep[o]
             /\ objHandle[o] \notin held[definer]
  <2>1. PICK t \in Tables : t = definer
    BY <1>1, DefinerTable DEF ResInv, HostSound
  <2>2. PICK h \in Handles : h = objHandle[o]
    BY <1>1 DEF ResInv, TypeOK, Handles
  <2>3. InUse(t, h) /\ IsOwn(t, h) /\ RepOf(t, h) = objRep[o] /\ h \notin held[t]
    BY <1>1, <2>1, <2>2 DEF ResInv, HoldersSound, ByObject, ObjectsSound
  <2> QED
    BY <2>1, <2>2, <2>3 DEF InUse
<1>2. ResInv => ObjectsOwn
  BY <1>1 DEF ObjectsOwn, ResInv, ObjectsSound
<1> QED
  BY <1>2, ResInvariant, PTL

(* Every handle of a type the host implements, own or borrow, wherever it has *)
(* been transferred, finds in the capture table the object it was made for.   *)
THEOREM CapturesFound == ~LendOnBorrows => (Spec => []Captured)
<1> SUFFICES ASSUME ~LendOnBorrows PROVE Spec => []Captured
  OBVIOUS
<1>1. ResInv => Captured
  BY DEF ResInv
<1> QED
  BY <1>1, ResInvariant, PTL

-----------------------------------------------------------------------------
(* What is lent, where no component is lent what it once owned. *)

(* The implementation was given the rep, any other component a borrow handle. *)
Resolves(l) ==
    IF l.to = definer THEN l.handle = l.rep
    ELSE /\ l.handle \in held[l.to] /\ ~IsOwn(l.to, l.handle)
         /\ RepOf(l.to, l.handle) = l.rep

LentResolves == \A l \in lent : Resolves(l)

(* A borrow a component was given stays what it is through every step that    *)
(* keeps the pair in its hands.                                               *)
LEMMA StillResolves ==
    ASSUME NEW l, Resolves(l), UNCHANGED definer,
           l.to # definer => /\ l.handle \in held'[l.to]
                             /\ IsOwn(l.to, l.handle)' <=> IsOwn(l.to, l.handle)
                             /\ RepOf(l.to, l.handle)' = RepOf(l.to, l.handle)
    PROVE  Resolves(l)'
BY DEF Resolves

(* The pair a component other than the implementation was lent. *)
LEMMA LentPair ==
    ASSUME ResInv, LentResolves, NEW l \in lent, l.to # definer
    PROVE  /\ l.to \in Tables /\ l.handle \in Handles /\ l.handle \in held[l.to]
           /\ InUse(l.to, l.handle) /\ ~IsOwn(l.to, l.handle)
<1>1. l.to \in Tables
  BY DEF ResInv, TypeOK
<1>2. l.handle \in held[l.to] /\ ~IsOwn(l.to, l.handle)
  BY DEF LentResolves, Resolves
<1>3. l.handle \in Handles
  BY <1>1, <1>2 DEF ResInv, TypeOK
<1> QED
  BY <1>1, <1>2, <1>3 DEF ResInv, HoldersSound

(* A step that adds a handle, and perhaps lends it. *)
LEMMA AddResolves ==
    ASSUME ResInv, LentResolves, NEW t \in Tables, NEW n, NEW r \in Reps, Added(t, n, r),
           held' = [held EXCEPT ![t] = @ \cup {n}], UNCHANGED definer,
           NEW l \in lent
    PROVE  Resolves(l)'
<1>0. held \in [Tables -> SUBSET Handles] /\ Resolves(l)
  BY DEF ResInv, TypeOK, LentResolves
<1>1. ASSUME l.to # definer
      PROVE  /\ l.handle \in held'[l.to]
             /\ IsOwn(l.to, l.handle)' <=> IsOwn(l.to, l.handle)
             /\ RepOf(l.to, l.handle)' = RepOf(l.to, l.handle)
  <2>1. /\ l.to \in Tables /\ l.handle \in Handles /\ l.handle \in held[l.to]
        /\ InUse(l.to, l.handle)
    BY <1>1, LentPair
  <2>2. l.to # t \/ l.handle # n
    BY <2>1 DEF Added
  <2> QED
    BY <1>0, <2>1, <2>2 DEF Added, OthersKept
<1> QED
  BY <1>0, <1>1, StillResolves

(* A step that removes a handle that is not lent. *)
LEMMA RemoveResolves ==
    ASSUME ResInv, LentResolves, NEW t \in Tables, NEW h \in Handles, Removed(t, h),
           held' = [held EXCEPT ![t] = @ \ {h}] \/ held' = held, UNCHANGED definer,
           NEW l \in lent, IsOwn(t, h) \/ l.to # t \/ l.handle # h
    PROVE  Resolves(l)'
<1>0. held \in [Tables -> SUBSET Handles] /\ Resolves(l)
  BY DEF ResInv, TypeOK, LentResolves
<1>1. ASSUME l.to # definer
      PROVE  /\ l.handle \in held'[l.to]
             /\ IsOwn(l.to, l.handle)' <=> IsOwn(l.to, l.handle)
             /\ RepOf(l.to, l.handle)' = RepOf(l.to, l.handle)
  <2>1. /\ l.to \in Tables /\ l.handle \in Handles /\ l.handle \in held[l.to]
        /\ InUse(l.to, l.handle) /\ ~IsOwn(l.to, l.handle)
    BY <1>1, LentPair
  <2>2. l.to # t \/ l.handle # h
    BY <2>1
  <2> QED
    BY <1>0, <2>1, <2>2 DEF Removed, OthersKept
<1> QED
  BY <1>0, <1>1, StillResolves

(* Every operation keeps what is lent pointing at its resource. *)
LEMMA ResolveStep ==
    ASSUME ~LendOnBorrows, ~LendToFormerOwner, ResInv, LentResolves, Next
    PROVE  LentResolves'
<1>0. held \in [Tables -> SUBSET Handles]
  BY DEF ResInv, TypeOK
<1>1. ASSUME NEW r \in Reps, ResourceNew(r) PROVE LentResolves'
  <2>1. PICK t \in Tables : t = definer
    BY <1>1, DefinerTable DEF ResourceNew
  <2>2. PICK n : n = NextHandle(table[t])
    OBVIOUS
  <2>3. Added(t, n, r)
    BY <1>1, <2>1, <2>2, AddedOwn DEF ResInv, ResourceNew
  <2>4. held' = [held EXCEPT ![t] = @ \cup {n}] /\ UNCHANGED <<definer, lent>>
    BY <1>1, <2>1, <2>2 DEF ResourceNew
  <2> QED
    BY <2>3, <2>4, AddResolves DEF LentResolves
<1>2. ASSUME NEW t \in Tables, NEW h \in Handles, ResourceDrop(t, h) PROVE LentResolves'
  <2>1. InUse(t, h)
    BY <1>2 DEF ResourceDrop, MayDrop, ResInv, HoldersSound
  <2>2. Removed(t, h)
    BY <1>2, <2>1, RemovedPair DEF ResInv, ResourceDrop
  <2>3. /\ held' = [held EXCEPT ![t] = @ \ {h}] /\ UNCHANGED definer
        /\ lent' = {l \in lent : ~(l.to = t /\ l.handle = h)}
    BY <1>2 DEF ResourceDrop
  <2>4. ASSUME NEW l \in lent' PROVE Resolves(l)'
    <3>1. l \in lent /\ (l.to # t \/ l.handle # h)
      BY <2>3, <2>4
    <3> QED
      BY <2>2, <2>3, <3>1, RemoveResolves
  <2> QED
    BY <2>4 DEF LentResolves
<1>3. ASSUME NEW t \in Tables, NEW h \in Handles, LiftImportedOwn(t, h) PROVE LentResolves'
  <2>1. InUse(t, h) /\ IsOwn(t, h)
    BY <1>3 DEF LiftImportedOwn, MayGive, ResInv, HoldersSound
  <2>2. Removed(t, h)
    BY <1>3, <2>1, RemovedPair DEF ResInv, LiftImportedOwn
  <2>3. held' = [held EXCEPT ![t] = @ \ {h}] /\ UNCHANGED <<definer, lent>>
    BY <1>3 DEF LiftImportedOwn
  <2> QED
    BY <2>1, <2>2, <2>3, RemoveResolves DEF LentResolves
<1>4. ASSUME NEW t \in Tables, NEW h \in Handles, NEW u \in Tables \ {t}, TransferOwn(t, h, u)
      PROVE  LentResolves'
  <2>1. InUse(t, h) /\ IsOwn(t, h) /\ u \in Tables /\ u # t /\ h \in held[t]
    BY <1>4 DEF TransferOwn, MayGive, ResInv, HoldersSound
  <2>2. PICK n : n = NextHandle(table[u])
    OBVIOUS
  <2>3. PICK r \in Reps : r = RepOf(t, h)
    BY <2>1 DEF ResInv, OwnersSound
  <2>4. Moved(t, h, u, n, r)
    BY <1>4, <2>1, <2>2, <2>3, MovedOwn DEF ResInv, TransferOwn
  <2>5. /\ held' = [held EXCEPT ![t] = @ \ {h}, ![u] = @ \cup {n}]
        /\ UNCHANGED <<definer, lent>>
    BY <1>4, <2>2 DEF TransferOwn
  <2>6. \A v \in Tables : \A g \in Handles :
           g \in held[v] /\ (v # t \/ g # h) => g \in held'[v]
    BY <1>0, <2>1, <2>5
  <2>7. ASSUME NEW l \in lent, l.to # definer
        PROVE  /\ l.handle \in held'[l.to]
               /\ IsOwn(l.to, l.handle)' <=> IsOwn(l.to, l.handle)
               /\ RepOf(l.to, l.handle)' = RepOf(l.to, l.handle)
    <3>1. /\ l.to \in Tables /\ l.handle \in Handles /\ l.handle \in held[l.to]
          /\ InUse(l.to, l.handle) /\ ~IsOwn(l.to, l.handle)
      BY <2>7, LentPair
    <3>2. (l.to # t \/ l.handle # h) /\ (l.to # u \/ l.handle # n)
      BY <2>1, <2>4, <3>1 DEF Moved
    <3> QED
      BY <2>4, <2>6, <3>1, <3>2 DEF Moved
  <2> QED
    BY <2>5, <2>7, StillResolves DEF LentResolves
<1>5. ASSUME NEW t \in Tables, NEW h \in Handles, NEW u \in Tables \ {t}, TransferBorrow(t, h, u)
      PROVE  LentResolves'
  <2>1. h \in held[t] /\ InUse(t, h) /\ IsOwn(t, h) /\ u \in Tables /\ u # t
    BY <1>5 DEF TransferBorrow, MayLend, ResInv, HoldersSound
  <2>2. PICK n : n = NextHandle(table[u])
    OBVIOUS
  <2>3. PICK r \in Reps : r = RepOf(t, h) /\ r \in alive
    BY <2>1 DEF ResInv, OwnersSound
  <2>4. UNCHANGED definer /\ table \in [Tables -> TableType]
    BY <1>5 DEF TransferBorrow, ResInv, TypeOK
  <2>5. LocalBorrow(r, u) <=> u = definer
    <3>1. u # definer => ~LocalBorrow(r, u)
      BY <1>5, <2>1, <2>3 DEF TransferBorrow, LocalBorrow
    <3>2. u = definer => LocalBorrow(r, u)
      BY <2>1, <2>3 DEF ResInv, LentSound, LocalBorrow
    <3> QED
      BY <3>1, <3>2
  <2>6. CASE u = definer
    <3>1. /\ table' = table /\ held' = held
          /\ lent' = lent \cup {[to |-> u, handle |-> r, rep |-> r]}
      BY <1>5, <2>1, <2>3, <2>4, <2>5, <2>6 DEF TransferBorrow
    <3>2. \A v, g : (IsOwn(v, g)' <=> IsOwn(v, g)) /\ RepOf(v, g)' = RepOf(v, g)
      BY <3>1 DEF IsOwn, RepOf
    <3> QED
      BY <2>4, <2>6, <3>1, <3>2 DEF LentResolves, Resolves
  <2>7. CASE u # definer
    <3>1. /\ HasRoom(table[u]) /\ table' = [table EXCEPT ![u] = Create(@, r, FALSE)]
          /\ held' = [held EXCEPT ![u] = @ \cup {n}]
          /\ lent' = lent \cup {[to |-> u, handle |-> n, rep |-> r]}
      BY <1>5, <2>1, <2>2, <2>3, <2>4, <2>5, <2>7 DEF TransferBorrow
    <3>2. Added(u, n, r) /\ ~IsOwn(u, n)'
      BY <2>1, <2>2, <3>1, AddedBorrow DEF ResInv
    <3>3. \A l \in lent : Resolves(l)'
      BY <2>1, <2>4, <3>1, <3>2, AddResolves
    <3>4. n \in held'[u] /\ RepOf(u, n)' = r
      BY <1>0, <2>1, <3>1, <3>2 DEF Added
    <3>5. \A l : l = [to |-> u, handle |-> n, rep |-> r] => Resolves(l)'
      BY <2>4, <2>7, <3>2, <3>4 DEF Resolves
    <3> QED
      BY <3>1, <3>3, <3>5 DEF LentResolves
  <2> QED
    BY <2>6, <2>7
<1>6. ASSUME NEW l \in lent, ReturnBorrow(l) PROVE LentResolves'
  BY <1>6 DEF ReturnBorrow, LentResolves, Resolves, IsOwn, RepOf
<1>7. ASSUME NEW o \in Objects, NEW h \in Handles, LiftOwn(o, h) PROVE LentResolves'
  <2>1. /\ held' = [held EXCEPT ![definer] = @ \ {h}]
        /\ UNCHANGED <<definer, table, lent>>
    BY <1>7 DEF LiftOwn
  <2>2. \A l \in lent : l.to # definer => l.to \in Tables /\ held'[l.to] = held[l.to]
    BY <1>0, <2>1, LentPair
  <2> QED
    BY <2>1, <2>2 DEF LentResolves, Resolves, IsOwn, RepOf
<1>8. ASSUME NEW o \in Objects, LowerOwn(o) PROVE LentResolves'
  <2>1. /\ held' = [held EXCEPT ![definer] = @ \cup {objHandle[o]}]
        /\ UNCHANGED <<definer, table, lent>>
    BY <1>8 DEF LowerOwn
  <2>2. \A l \in lent : l.to # definer => l.to \in Tables /\ held'[l.to] = held[l.to]
    BY <1>0, <2>1, LentPair
  <2> QED
    BY <2>1, <2>2 DEF LentResolves, Resolves, IsOwn, RepOf
<1>9. ASSUME NEW o \in Objects, LowerBorrow(o) PROVE LentResolves'
  <2>1. PICK t \in Tables : t = definer
    BY <1>9, DefinerTable DEF LowerBorrow, ResInv, HostSound
  <2>2. PICK h \in Handles : h = objHandle[o]
    BY <1>9 DEF LowerBorrow, ResInv, TypeOK, Handles
  <2>3. RepOf(t, h) = objRep[o]
    BY <2>1, <2>2 DEF ResInv, ObjectsSound
  <2>4. /\ lent' = lent \cup {[to |-> t, handle |-> objRep[o], rep |-> objRep[o]]}
        /\ UNCHANGED <<definer, table, held>>
    BY <1>9, <2>1, <2>2, <2>3 DEF LowerBorrow
  <2> QED
    BY <2>1, <2>4 DEF LentResolves, Resolves, IsOwn, RepOf
<1>10. ASSUME NEW o \in Objects, Dispose(o) \/ Finalize(o) PROVE LentResolves'
  <2>0. objHandle[o] # 0 /\ registered[o] = objHandle[o] /\ UNCHANGED <<definer, held, lent>>
    BY <1>10 DEF Dispose, Finalize, ResInv, ObjectsSound
  <2>1. PICK t \in Tables : t = definer
    BY <2>0, DefinerTable DEF ResInv, HostSound
  <2>2. PICK h \in Handles : h = objHandle[o]
    BY <2>0 DEF ResInv, TypeOK, Handles
  <2>3. InUse(t, h) /\ IsOwn(t, h)
    BY <2>1, <2>2 DEF ResInv, HoldersSound, ByObject, ObjectsSound
  <2>4. Removable(table[t], h)
    BY <2>3 DEF InUse, Live, Removable
  <2>5. table' = [table EXCEPT ![t] = Remove(@, h)]
    BY <1>10, <2>0, <2>1, <2>2, <2>4 DEF Dispose, Finalize
  <2>6. Removed(t, h)
    BY <2>3, <2>5, RemovedPair DEF ResInv
  <2> QED
    BY <2>0, <2>3, <2>6, RemoveResolves DEF LentResolves
<1>11. ASSUME NEW o \in Objects, NEW t \in Tables, LowerImportedOwn(o, t) PROVE LentResolves'
  <2>1. PICK n : n = NextHandle(table[t])
    OBVIOUS
  <2>2. PICK r \in Reps : r = captureCnt + 1
    BY <1>11, CaptureFresh DEF LowerImportedOwn
  <2>3. Added(t, n, r)
    BY <1>11, <2>1, <2>2, AddedOwn DEF ResInv, LowerImportedOwn
  <2>4. held' = [held EXCEPT ![t] = @ \cup {n}] /\ UNCHANGED <<definer, lent>>
    BY <1>11, <2>1 DEF LowerImportedOwn
  <2> QED
    BY <2>3, <2>4, AddResolves DEF LentResolves
<1>12. ASSUME NEW o \in Objects, NEW t \in Tables, LowerImportedBorrow(o, t) PROVE LentResolves'
  <2>1. PICK n : n = NextHandle(table[t])
    OBVIOUS
  <2>2. PICK r \in Reps : r = captureCnt + 1 /\ definer = Host
    BY <1>12, CaptureFresh DEF LowerImportedBorrow
  <2>3. Added(t, n, r) /\ ~IsOwn(t, n)'
    BY <1>12, <2>1, <2>2, AddedBorrow DEF ResInv, LowerImportedBorrow
  <2>4. /\ held' = [held EXCEPT ![t] = @ \cup {n}] /\ UNCHANGED definer
        /\ lent' = lent \cup {[to |-> t, handle |-> n, rep |-> r]}
    BY <1>12, <2>1, <2>2 DEF LowerImportedBorrow
  <2>5. \A l \in lent : Resolves(l)'
    BY <2>3, <2>4, AddResolves
  <2>6. n \in held'[t] /\ RepOf(t, n)' = r
    BY <1>0, <2>3, <2>4 DEF Added
  <2>7. \A l : l = [to |-> t, handle |-> n, rep |-> r] => Resolves(l)'
    BY <2>2, <2>3, <2>4, <2>6 DEF Resolves
  <2> QED
    BY <2>4, <2>5, <2>7 DEF LentResolves
<1> QED
  BY <1>1, <1>2, <1>3, <1>4, <1>5, <1>6, <1>7, <1>8, <1>9, <1>10, <1>11, <1>12 DEF Next

(* Whatever a component is lent stands for the resource that was meant, and   *)
(* for as long as the loan lasts: resourceTransferBorrow and HandleLower give *)
(* the implementation the rep and others a borrow handle, unless a component  *)
(* is lent what it once owned (where the code takes it for the implementation)*)
(* or lends on what it borrowed.                                              *)
THEOREM BorrowsStayResolved ==
    ~LendOnBorrows /\ ~LendToFormerOwner => (Spec => []BorrowsResolve)
<1> SUFFICES ASSUME ~LendOnBorrows, ~LendToFormerOwner PROVE Spec => []BorrowsResolve
  OBVIOUS
<1>1. Init => LentResolves
  BY DEF Init, LentResolves
<1>2. ResInv /\ LentResolves /\ [Next]_vars => LentResolves'
  <2>1. ASSUME LentResolves, UNCHANGED vars PROVE LentResolves'
    BY <2>1 DEF vars, LentResolves, Resolves, IsOwn, RepOf
  <2> QED
    BY <2>1, ResolveStep
<1>3. ResInv /\ LentResolves => BorrowsResolve
  <2> SUFFICES ASSUME ResInv, LentResolves, NEW l \in lent
               PROVE  /\ definer # Host => l.rep \in alive
                      /\ IF l.to = definer
                         THEN l.handle = l.rep
                         ELSE /\ l.handle \in held[l.to]
                              /\ Live(table[l.to], l.handle) /\ ~IsOwn(l.to, l.handle)
                              /\ RepOf(l.to, l.handle) = l.rep
    BY DEF BorrowsResolve
  <2>1. l.to # definer => Live(table[l.to], l.handle)
    BY LentPair DEF InUse
  <2> QED
    BY <2>1 DEF LentResolves, Resolves, ResInv, LentSound
<1> QED
  BY <1>1, <1>2, <1>3, ResInvariant, PTL DEF Spec
=============================================================================
