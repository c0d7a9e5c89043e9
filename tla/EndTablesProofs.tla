--------------------------- MODULE EndTablesProofs ---------------------------
(***************************************************************************)
(* Theorems about EndTables, for any components, error contexts and        *)
(* bounds.                                                                 *)
(***************************************************************************)
EXTENDS EndTables, RepTableLemmas, FiniteSetTheorems

USE EndTablesAssumption, MaxRepAssumption

-----------------------------------------------------------------------------
(* A family of tables and the places of the objects in it. *)

(* What the tables of a component hold. *)
Obj == Ends \cup Local

NoPlace == [comp |-> None, idx |-> 0]

Places == [Obj -> [comp : Comp \cup {None}, idx : 0 .. MaxRep]]

(* Every table is sound, an object has a rep when it is in one, and a table  *)
(* holds it at that rep and nowhere else.                                    *)
Placed(H, P) ==
    /\ H = [c \in Comp |-> H[c]] /\ P \in Places
    /\ \A c \in Comp : Sound(H[c], Obj)
    /\ \A o \in Obj : P[o].comp # None => P[o].idx \in Reps
    /\ \A c \in Comp, r \in Reps, o \in Obj :
          H[c].slot[r] = o <=> P[o].comp = c /\ P[o].idx = r

(* Objects are not reps. *)
LEMMA ObjApart == Apart(Obj) /\ Apart(Ctx)
BY DEF Apart, Obj

(* An object in no table is put into one. *)
LEMMA PlaceKeeps ==
    ASSUME NEW H, NEW P, Placed(H, P), NEW c \in Comp, NEW o \in Obj,
           P[o].comp = None, HasRoom(H[c])
    PROVE  Placed([H EXCEPT ![c] = Insert(H[c], o)],
                  [P EXCEPT ![o] = [comp |-> c, idx |-> NextRep(H[c])]])
<1> DEFINE n == NextRep(H[c])
           U == Insert(H[c], o)
           G == [H EXCEPT ![c] = U]
           p == [comp |-> c, idx |-> n]
           Q == [P EXCEPT ![o] = p]
<1>1. /\ Sound(U, Obj) /\ U.slot[n] = o
      /\ \A r \in Reps \ {n} : U.slot[r] = H[c].slot[r]
  BY ObjApart, InsertKeeps DEF Placed
<1>2. n \in Reps /\ H[c].slot[n] \notin Obj
  BY ObjApart, NextIsFree DEF Placed
<1>3. n \in 0 .. MaxRep
  BY <1>2 DEF Reps
<1>4. p \in [comp : Comp \cup {None}, idx : 0 .. MaxRep] /\ p.comp = c /\ p.idx = n
  BY <1>3
<1> HIDE DEF n, U, p
<1>5. /\ G = [d \in Comp |-> G[d]] /\ G[c] = U /\ \A d \in Comp \ {c} : G[d] = H[d]
  BY DEF Placed
<1>6. Q \in Places /\ Q[o] = p /\ \A x \in Obj \ {o} : Q[x] = P[x]
  BY <1>4 DEF Placed, Places
<1> HIDE DEF G, Q
<1>7. \A d \in Comp : Sound(G[d], Obj)
  BY <1>1, <1>5 DEF Placed
<1>8. \A x \in Obj : Q[x].comp # None => Q[x].idx \in Reps
  BY <1>2, <1>4, <1>6 DEF Placed
<1>9. ASSUME NEW d \in Comp, NEW r \in Reps, NEW x \in Obj
      PROVE  G[d].slot[r] = x <=> Q[x].comp = d /\ Q[x].idx = r
  <2>0. H[d].slot[r] = x <=> P[x].comp = d /\ P[x].idx = r
    BY DEF Placed
  <2>1. CASE x = o
    <3>1. H[d].slot[r] # x
      BY <2>0, <2>1
    <3>2. CASE d = c /\ r = n
      BY <2>1, <3>2, <1>1, <1>4, <1>5, <1>6
    <3>3. CASE ~(d = c /\ r = n)
      <4>1. G[d].slot[r] = H[d].slot[r]
        BY <3>3, <1>1, <1>5
      <4> QED BY <4>1, <3>1, <3>3, <2>1, <1>4, <1>6
    <3> QED BY <3>2, <3>3
  <2>2. CASE x # o
    <3>1. CASE d = c /\ r = n
      <4>1. G[d].slot[r] # x
        BY <3>1, <2>2, <1>1, <1>5
      <4>2. H[d].slot[r] # x
        BY <3>1, <1>2
      <4> QED BY <4>1, <4>2, <2>0, <2>2, <1>6
    <3>2. CASE ~(d = c /\ r = n)
      <4>1. G[d].slot[r] = H[d].slot[r]
        BY <3>2, <1>1, <1>5
      <4> QED BY <4>1, <2>0, <2>2, <1>6
    <3> QED BY <3>1, <3>2
  <2> QED BY <2>1, <2>2
<1>10. Placed(G, Q)
  BY <1>5, <1>6, <1>7, <1>8, <1>9 DEF Placed
<1> QED BY <1>10 DEF G, Q, U, p, n

(* An object is taken out of its table. *)
LEMMA TakeKeeps ==
    ASSUME NEW H, NEW P, Placed(H, P), NEW c \in Comp, NEW o \in Obj, P[o].comp = c
    PROVE  Placed([H EXCEPT ![c] = RemoveRep(H[c], P[o].idx)], [P EXCEPT ![o] = NoPlace])
<1> DEFINE n == P[o].idx
           U == RemoveRep(H[c], n)
           G == [H EXCEPT ![c] = U]
           Q == [P EXCEPT ![o] = NoPlace]
<1>1. n \in Reps /\ H[c].slot[n] = o
  BY DEF Placed
<1>2. /\ Sound(U, Obj) /\ U.slot[n] \notin Obj
      /\ \A r \in Reps \ {n} : U.slot[r] = H[c].slot[r]
  BY <1>1, ObjApart, RemoveKeeps DEF Placed
<1>3. NoPlace \in [comp : Comp \cup {None}, idx : 0 .. MaxRep] /\ NoPlace.comp = None
  BY DEF NoPlace
<1> HIDE DEF n, U
<1>4. /\ G = [d \in Comp |-> G[d]] /\ G[c] = U /\ \A d \in Comp \ {c} : G[d] = H[d]
  BY DEF Placed
<1>5. Q \in Places /\ Q[o] = NoPlace /\ \A x \in Obj \ {o} : Q[x] = P[x]
  BY <1>3 DEF Placed, Places
<1> HIDE DEF G, Q
<1>6. \A d \in Comp : Sound(G[d], Obj)
  BY <1>2, <1>4 DEF Placed
<1>7. \A x \in Obj : Q[x].comp # None => Q[x].idx \in Reps
  BY <1>3, <1>5 DEF Placed
<1>8. ASSUME NEW d \in Comp, NEW r \in Reps, NEW x \in Obj
      PROVE  G[d].slot[r] = x <=> Q[x].comp = d /\ Q[x].idx = r
  <2>0. /\ H[d].slot[r] = x <=> P[x].comp = d /\ P[x].idx = r
        /\ H[d].slot[r] = o <=> P[o].comp = d /\ P[o].idx = r
    BY DEF Placed
  <2>1. CASE d = c /\ r = n
    <3>1. G[d].slot[r] # x /\ H[d].slot[r] = o
      BY <2>1, <1>1, <1>2, <1>4
    <3> QED BY <3>1, <2>0, <1>3, <1>5
  <2>2. CASE ~(d = c /\ r = n)
    <3>1. G[d].slot[r] = H[d].slot[r]
      BY <2>2, <1>2, <1>4
    <3>2. H[d].slot[r] # o
      BY <2>0, <2>2 DEF n
    <3> QED BY <3>1, <3>2, <2>0, <1>3, <1>5
  <2> QED BY <2>1, <2>2
<1>9. Placed(G, Q)
  BY <1>4, <1>5, <1>6, <1>7, <1>8 DEF Placed
<1> QED BY <1>9 DEF G, Q, U, n

(* What an object can be reached by. *)
LEMMA PlaceFound ==
    ASSUME NEW H, NEW P, Placed(H, P), NEW c \in Comp, NEW o \in Obj
    PROVE  RepsOf(H[c], o) = IF P[o].comp = c THEN {P[o].idx} ELSE {}
<1>1. RepsOf(H[c], o) = {r \in Reps : H[c].slot[r] = o}
  BY ObjApart, RepsOfValue DEF Placed
<1>2. \A r \in Reps : H[c].slot[r] = o <=> P[o].comp = c /\ P[o].idx = r
  BY DEF Placed
<1>3. CASE P[o].comp = c
  <2>1. P[o].idx \in Reps
    BY <1>3 DEF Placed
  <2> QED BY <2>1, <1>1, <1>2, <1>3
<1>4. CASE P[o].comp # c
  BY <1>1, <1>2, <1>4
<1> QED BY <1>3, <1>4

-----------------------------------------------------------------------------
(* The tables of handles and the tables per type. *)

PosType == [comp : Comp \cup {None}, widx : 0 .. MaxRep, hidx : 0 .. MaxRep]

LocType == [st : {"free", "owned", "given"}, ctx : Ctx \cup {None}, rep : 0 .. MaxRep,
            comp : Comp \cup {None}, widx : 0 .. MaxRep, lidx : 0 .. MaxRep, count : Int]

KindOf(o) == IF o \in Ends THEN Kind(o) ELSE "error"

(* The component and the indices an object records. *)
Recorded(v) == [comp |-> v.comp, widx |-> v.widx, hidx |-> v.lidx]
Where(p, l) == [o \in Obj |-> IF o \in Ends THEN p[o] ELSE Recorded(l[o])]

InHandles(W) == [o \in Obj |-> [comp |-> W[o].comp, idx |-> W[o].widx]]
InTyped(W, k) ==
    [o \in Obj |-> IF KindOf(o) = k THEN [comp |-> W[o].comp, idx |-> W[o].hidx] ELSE NoPlace]

TypedOf(t, k) == [c \in Comp |-> t[c][k]]

(* One value, and one of a family, replaced. *)
Set(f, x, v) == [f EXCEPT ![x] = v]
SetIn(t, c, k, v) == [t EXCEPT ![c][k] = v]

IsTyped(t) == t = [c \in Comp |-> [k \in Kinds |-> t[c][k]]]

AllPlaced(h, t, W) ==
    /\ W \in [Obj -> PosType]
    /\ IsTyped(t)
    /\ Placed(h, InHandles(W))
    /\ \A k \in Kinds : Placed(TypedOf(t, k), InTyped(W, k))

(* Every object has a kind. *)
LEMMA KindType == \A o \in Obj : KindOf(o) \in Kinds
BY DEF KindOf, Kind, Kinds

(* The places after one object has changed what it records. *)
LEMMA PlacesChange ==
    ASSUME NEW W \in [Obj -> PosType], NEW o \in Obj, NEW v \in PosType
    PROVE  /\ Set(W, o, v) \in [Obj -> PosType]
           /\ InHandles(Set(W, o, v)) = Set(InHandles(W), o, [comp |-> v.comp, idx |-> v.widx])
           /\ InTyped(Set(W, o, v), KindOf(o)) =
                 Set(InTyped(W, KindOf(o)), o, [comp |-> v.comp, idx |-> v.hidx])
           /\ \A k \in Kinds : k # KindOf(o) => InTyped(Set(W, o, v), k) = InTyped(W, k)
<1> DEFINE V == Set(W, o, v)
<1>1. V \in [Obj -> PosType] /\ V[o] = v /\ \A x \in Obj \ {o} : V[x] = W[x]
  BY DEF Set
<1> HIDE DEF V
<1>2. InHandles(V) = Set(InHandles(W), o, [comp |-> v.comp, idx |-> v.widx])
  BY <1>1 DEF InHandles, Set
<1>3. InTyped(V, KindOf(o)) = Set(InTyped(W, KindOf(o)), o, [comp |-> v.comp, idx |-> v.hidx])
  BY <1>1 DEF InTyped, Set
<1>4. \A k \in Kinds : k # KindOf(o) => InTyped(V, k) = InTyped(W, k)
  BY <1>1 DEF InTyped
<1> QED BY <1>1, <1>2, <1>3, <1>4 DEF V

(* The tables per type after one of them has changed. *)
LEMMA TypedChange ==
    ASSUME NEW t, IsTyped(t), NEW c \in Comp, NEW k \in Kinds, NEW T
    PROVE  /\ IsTyped(SetIn(t, c, k, T))
           /\ TypedOf(SetIn(t, c, k, T), k) = Set(TypedOf(t, k), c, T)
           /\ \A j \in Kinds : j # k => TypedOf(SetIn(t, c, k, T), j) = TypedOf(t, j)
<1> DEFINE u == SetIn(t, c, k, T)
<1>1. u = [d \in Comp |-> [j \in Kinds |-> IF d = c /\ j = k THEN T ELSE t[d][j]]]
  BY DEF SetIn, IsTyped
<1>2. \A d \in Comp, j \in Kinds : u[d][j] = IF d = c /\ j = k THEN T ELSE t[d][j]
  BY <1>1
<1>3. IsTyped(u)
  BY <1>1 DEF IsTyped
<1> HIDE DEF u
<1>4. TypedOf(u, k) = Set(TypedOf(t, k), c, T)
  BY <1>2 DEF TypedOf, Set
<1>5. \A j \in Kinds : j # k => TypedOf(u, j) = TypedOf(t, j)
  BY <1>2 DEF TypedOf
<1> QED BY <1>3, <1>4, <1>5 DEF u

(* An object enters the handles and the table of its type. *)
LEMMA ObjectAdded ==
    ASSUME NEW h, NEW t, NEW W, AllPlaced(h, t, W), NEW c \in Comp, NEW o \in Obj,
           NEW k, k = KindOf(o), W[o].comp = None, HasRoom(h[c]), HasRoom(t[c][k])
    PROVE  AllPlaced(Set(h, c, Insert(h[c], o)),
                     SetIn(t, c, k, Insert(t[c][k], o)),
                     Set(W, o, [comp |-> c, widx |-> NextRep(h[c]),
                                hidx |-> NextRep(t[c][k])]))
<1> DEFINE v == [comp |-> c, widx |-> NextRep(h[c]), hidx |-> NextRep(t[c][k])]
           g == Set(h, c, Insert(h[c], o))
           u == SetIn(t, c, k, Insert(t[c][k], o))
           V == Set(W, o, v)
<1>0. k \in Kinds /\ W \in [Obj -> PosType] /\ TypedOf(t, k)[c] = t[c][k]
      /\ IsTyped(t)
      /\ Placed(h, InHandles(W)) /\ \A j \in Kinds : Placed(TypedOf(t, j), InTyped(W, j))
  BY KindType DEF AllPlaced, TypedOf
<1>1. v \in PosType /\ v.comp = c /\ v.widx = NextRep(h[c]) /\ v.hidx = NextRep(t[c][k])
  BY DEF PosType, HasRoom, Reps
<1>2. InHandles(W)[o].comp = None /\ InTyped(W, k)[o].comp = None
  BY DEF InHandles, InTyped
<1>3. Placed(g, Set(InHandles(W), o, [comp |-> c, idx |-> NextRep(h[c])]))
  BY <1>0, <1>2, PlaceKeeps DEF Set
<1>4. Placed(Set(TypedOf(t, k), c, Insert(t[c][k], o)),
             Set(InTyped(W, k), o, [comp |-> c, idx |-> NextRep(t[c][k])]))
  BY <1>0, <1>2, PlaceKeeps DEF Set
<1> HIDE DEF v, g
<1>5. /\ V \in [Obj -> PosType]
      /\ InHandles(V) = Set(InHandles(W), o, [comp |-> c, idx |-> NextRep(h[c])])
      /\ InTyped(V, k) = Set(InTyped(W, k), o, [comp |-> c, idx |-> NextRep(t[c][k])])
      /\ \A j \in Kinds : j # k => InTyped(V, j) = InTyped(W, j)
  BY <1>0, <1>1, PlacesChange
<1>6. /\ IsTyped(u)
      /\ TypedOf(u, k) = Set(TypedOf(t, k), c, Insert(t[c][k], o))
      /\ \A j \in Kinds : j # k => TypedOf(u, j) = TypedOf(t, j)
  BY <1>0, TypedChange
<1> HIDE DEF u, V
<1>7. \A j \in Kinds : Placed(TypedOf(u, j), InTyped(V, j))
  BY <1>0, <1>4, <1>5, <1>6
<1>8. AllPlaced(g, u, V)
  BY <1>3, <1>5, <1>6, <1>7 DEF AllPlaced
<1> QED BY <1>8 DEF g, u, V, v

(* An object leaves both. *)
LEMMA ObjectTaken ==
    ASSUME NEW h, NEW t, NEW W, AllPlaced(h, t, W), NEW c \in Comp, NEW o \in Obj,
           NEW k, k = KindOf(o), W[o].comp = c
    PROVE  AllPlaced(Set(h, c, RemoveRep(h[c], W[o].widx)),
                     SetIn(t, c, k, RemoveRep(t[c][k], W[o].hidx)),
                     Set(W, o, Nowhere))
<1> DEFINE g == Set(h, c, RemoveRep(h[c], W[o].widx))
           u == SetIn(t, c, k, RemoveRep(t[c][k], W[o].hidx))
           V == Set(W, o, Nowhere)
<1>0. k \in Kinds /\ W \in [Obj -> PosType] /\ TypedOf(t, k)[c] = t[c][k]
      /\ IsTyped(t)
      /\ Placed(h, InHandles(W)) /\ \A j \in Kinds : Placed(TypedOf(t, j), InTyped(W, j))
  BY KindType DEF AllPlaced, TypedOf
<1>1. Nowhere \in PosType /\ [comp |-> Nowhere.comp, idx |-> Nowhere.widx] = NoPlace
      /\ [comp |-> Nowhere.comp, idx |-> Nowhere.hidx] = NoPlace
  BY DEF PosType, Nowhere, NoPlace
<1>2. /\ InHandles(W)[o].comp = c /\ InTyped(W, k)[o].comp = c
      /\ InHandles(W)[o].idx = W[o].widx /\ InTyped(W, k)[o].idx = W[o].hidx
  BY DEF InHandles, InTyped
<1>3. Placed(g, Set(InHandles(W), o, NoPlace))
  BY <1>0, <1>2, TakeKeeps DEF Set
<1>4. Placed(Set(TypedOf(t, k), c, RemoveRep(t[c][k], W[o].hidx)),
             Set(InTyped(W, k), o, NoPlace))
  BY <1>0, <1>2, TakeKeeps DEF Set
<1> HIDE DEF g
<1>5. /\ V \in [Obj -> PosType]
      /\ InHandles(V) = Set(InHandles(W), o, NoPlace)
      /\ InTyped(V, k) = Set(InTyped(W, k), o, NoPlace)
      /\ \A j \in Kinds : j # k => InTyped(V, j) = InTyped(W, j)
  BY <1>0, <1>1, PlacesChange
<1>6. /\ IsTyped(u)
      /\ TypedOf(u, k) = Set(TypedOf(t, k), c, RemoveRep(t[c][k], W[o].hidx))
      /\ \A j \in Kinds : j # k => TypedOf(u, j) = TypedOf(t, j)
  BY <1>0, TypedChange
<1> HIDE DEF u, V
<1>7. \A j \in Kinds : Placed(TypedOf(u, j), InTyped(V, j))
  BY <1>0, <1>4, <1>5, <1>6
<1>8. AllPlaced(g, u, V)
  BY <1>3, <1>5, <1>6, <1>7 DEF AllPlaced
<1> QED BY <1>8 DEF g, u, V

(* What the objects record after an end has moved, *)
LEMMA WhereEnd ==
    ASSUME NEW p \in [Ends -> PosType], NEW l, NEW e \in Ends, NEW v \in PosType
    PROVE  Set(p, e, v) \in [Ends -> PosType] /\ Where(Set(p, e, v), l) = Set(Where(p, l), e, v)
BY DEF Where, Obj, Set

(* and after a local error context has. *)
LEMMA WhereLocal ==
    ASSUME NEW p, NEW l \in [Local -> LocType], NEW x \in Local, NEW v \in LocType
    PROVE  /\ Set(l, x, v) \in [Local -> LocType]
           /\ Where(p, Set(l, x, v)) = Set(Where(p, l), x, Recorded(v))
<1>1. \A o \in Obj : o \notin Ends => o \in Local
  BY DEF Obj
<1>2. x \notin Ends /\ x \in Obj
  BY DEF Obj
<1> QED BY <1>1, <1>2 DEF Where, Set

(* Counts do not matter for where a local error context is. *)
LEMMA WhereSame ==
    ASSUME NEW p, NEW l, NEW m, \A x \in Local : Recorded(m[x]) = Recorded(l[x])
    PROVE  Where(p, m) = Where(p, l)
<1>1. \A o \in Obj : o \notin Ends => o \in Local
  BY DEF Obj
<1> QED BY <1>1 DEF Where

(* The same place replaced twice. *)
LEMMA SetTwice ==
    ASSUME NEW f, f = [d \in Comp |-> f[d]], NEW c \in Comp, NEW a, NEW b
    PROVE  Set(f, c, a)[c] = a /\ Set(Set(f, c, a), c, b) = Set(f, c, b)
BY DEF Set

(* The same for a table of one type. *)
LEMMA SetInTwice ==
    ASSUME NEW t, IsTyped(t), NEW c \in Comp, NEW k \in Kinds, NEW a, NEW b
    PROVE  /\ SetIn(t, c, k, a)[c][k] = a
           /\ SetIn(SetIn(t, c, k, a), c, k, b) = SetIn(t, c, k, b)
<1>1. SetIn(t, c, k, a) = [d \in Comp |-> [j \in Kinds |-> IF d = c /\ j = k THEN a ELSE t[d][j]]]
  BY DEF SetIn, IsTyped
<1>2. SetIn(t, c, k, b) = [d \in Comp |-> [j \in Kinds |-> IF d = c /\ j = k THEN b ELSE t[d][j]]]
  BY DEF SetIn, IsTyped
<1>3. SetIn(SetIn(t, c, k, a), c, k, b) = [d \in Comp |-> [j \in Kinds |-> IF d = c /\ j = k THEN b ELSE t[d][j]]]
  BY <1>1 DEF SetIn
<1> QED BY <1>1, <1>2, <1>3

-----------------------------------------------------------------------------
(* The inductive invariant. *)

(* Objects are where they record to be. *)
PlaceInv ==
    /\ pos \in [Ends -> PosType] /\ loc \in [Local -> LocType]
    /\ AllPlaced(handles, typed, Where(pos, loc))

(* A local error context is in a component unless it is free, and then it    *)
(* is one of a context.                                                      *)
LocalInv ==
    \A l \in Local : /\ loc[l].st = "free" <=> loc[l].comp = None
                     /\ loc[l].st # "free" => loc[l].ctx \in Ctx

Holders(l, x) == {m \in Local : l[m].st # "free" /\ l[m].ctx = x}

(* ContextKept of one error context. *)
KeptFor(l, g, n, k, x) ==
    /\ n[x] = Cardinality(Holders(l, x)) + k[x]
    /\ k[x] > 0 => RepsOf(g, x) # {}
    /\ \A m \in Holders(l, x) : RepsOf(g, x) = {l[m].rep}

(* The global table is sound and holds what is counted. *)
CtxInv ==
    /\ Sound(global, Ctx) /\ count \in [Ctx -> Int] /\ kept \in [Ctx -> Nat]
    /\ \A x \in Ctx : KeptFor(loc, global, count, kept, x)

EndInv == PlaceInv /\ LocalInv /\ CtxInv

(* What an end records. *)
LEMMA WhereOfEnd ==
    ASSUME NEW p, NEW l, NEW e \in Ends
    PROVE  e \in Obj /\ Where(p, l)[e] = p[e] /\ KindOf(e) = Kind(e)
BY DEF Where, Obj, KindOf

(* What a local error context records. *)
LEMMA WhereOfLocal ==
    ASSUME NEW p, NEW l, NEW x \in Local
    PROVE  x \in Obj /\ Where(p, l)[x] = Recorded(l[x]) /\ KindOf(x) = "error"
<1>1. x \notin Ends
  OBVIOUS
<1> QED BY <1>1 DEF Where, Obj, KindOf

(* The ends of a stream or a future of component c, in both tables. *)
LEMMA CreatePlace ==
    ASSUME PlaceInv, NEW c \in Comp, NEW k \in Kinds, NEW w \in Ends, NEW r \in Ends,
           w # r, Kind(w) = k, Kind(r) = k, CreateEnds(c, k, w, r)
    PROVE  PlaceInv'
<1>1. PICK W : W = Where(pos, loc)
  OBVIOUS
<1>2. PICK vw, vr :
         /\ vw = [comp |-> c, widx |-> NextRep(handles[c]), hidx |-> NextRep(typed[c][k])]
         /\ vr = [comp |-> c, widx |-> NextRep(Insert(handles[c], w)),
                  hidx |-> NextRep(Insert(typed[c][k], w))]
  OBVIOUS
<1>3. PICK h1, t1, W1 : /\ h1 = Set(handles, c, Insert(handles[c], w))
                        /\ t1 = SetIn(typed, c, k, Insert(typed[c][k], w))
                        /\ W1 = Set(W, w, vw)
  OBVIOUS
<1>4. /\ pos[w].comp = None /\ pos[r].comp = None
      /\ HasRoom(handles[c]) /\ HasRoom(Insert(handles[c], w))
      /\ HasRoom(typed[c][k]) /\ HasRoom(Insert(typed[c][k], w))
      /\ handles' = Set(handles, c, Insert(Insert(handles[c], w), r))
      /\ typed' = SetIn(typed, c, k, Insert(Insert(typed[c][k], w), r))
      /\ pos' = Set(Set(pos, w, vw), r, vr) /\ loc' = loc
  BY <1>2 DEF CreateEnds, ErrorsUntouched, Set, SetIn
<1>5. pos \in [Ends -> PosType] /\ loc \in [Local -> LocType] /\ AllPlaced(handles, typed, W)
  BY <1>1 DEF PlaceInv
<1>6. /\ w \in Obj /\ r \in Obj /\ W[w].comp = None /\ W[r] = pos[r]
      /\ KindOf(w) = k /\ KindOf(r) = k
  BY <1>1, <1>4, WhereOfEnd
<1>7. AllPlaced(h1, t1, W1)
  BY <1>2, <1>3, <1>4, <1>5, <1>6, ObjectAdded
<1>8. handles = [d \in Comp |-> handles[d]] /\ IsTyped(typed) /\ W \in [Obj -> PosType]
  BY <1>5 DEF AllPlaced, Placed
<1>9. /\ h1[c] = Insert(handles[c], w) /\ t1[c][k] = Insert(typed[c][k], w)
      /\ handles' = Set(h1, c, Insert(h1[c], r))
      /\ typed' = SetIn(t1, c, k, Insert(t1[c][k], r))
  BY <1>3, <1>4, <1>8, SetTwice, SetInTwice
<1>10. W1[r] = pos[r]
  BY <1>3, <1>6, <1>8 DEF Set
<1>11. vr = [comp |-> c, widx |-> NextRep(h1[c]), hidx |-> NextRep(t1[c][k])]
  BY <1>2, <1>9
<1>12. AllPlaced(handles', typed', Set(W1, r, vr))
  BY <1>4, <1>6, <1>7, <1>9, <1>10, <1>11, ObjectAdded
<1>13. vw \in PosType /\ vr \in PosType
  BY <1>2, <1>4 DEF PosType, HasRoom, Reps
<1>14. PICK p1 : p1 = Set(pos, w, vw)
  OBVIOUS
<1>15. p1 \in [Ends -> PosType] /\ Where(p1, loc) = Set(W, w, vw)
  BY <1>1, <1>5, <1>13, <1>14, WhereEnd
<1>16. pos' = Set(p1, r, vr)
  BY <1>4, <1>14
<1>17. pos' \in [Ends -> PosType] /\ Where(pos', loc) = Set(Where(p1, loc), r, vr)
  BY <1>13, <1>15, <1>16, WhereEnd
<1>18. Where(pos', loc') = Set(W1, r, vr)
  BY <1>3, <1>4, <1>15, <1>17
<1> QED BY <1>4, <1>5, <1>12, <1>17, <1>18 DEF PlaceInv

(* A dropped end leaves both. *)
LEMMA DropPlace == ASSUME PlaceInv, NEW e \in Ends, DropEnd(e) PROVE PlaceInv'
<1>1. PICK W : W = Where(pos, loc)
  OBVIOUS
<1>2. PICK c, k : c = pos[e].comp /\ k = Kind(e)
  OBVIOUS
<1>3. /\ c # None
      /\ handles' = Set(handles, c, RemoveRep(handles[c], pos[e].widx))
      /\ typed' = SetIn(typed, c, k, RemoveRep(typed[c][k], pos[e].hidx))
      /\ pos' = Set(pos, e, Nowhere) /\ loc' = loc
  BY <1>2 DEF DropEnd, RemoveEnd, ErrorsUntouched, Set, SetIn
<1>4. pos \in [Ends -> PosType] /\ loc \in [Local -> LocType] /\ AllPlaced(handles, typed, W)
  BY <1>1 DEF PlaceInv
<1>5. c \in Comp
  BY <1>2, <1>3, <1>4 DEF PosType
<1>6. e \in Obj /\ W[e] = pos[e] /\ KindOf(e) = k
  BY <1>1, <1>2, WhereOfEnd
<1>7. AllPlaced(handles', typed', Set(W, e, Nowhere))
  BY <1>2, <1>3, <1>4, <1>5, <1>6, ObjectTaken
<1>8. Nowhere \in PosType
  BY DEF Nowhere, PosType
<1>9. pos' \in [Ends -> PosType] /\ Where(pos', loc') = Set(W, e, Nowhere)
  BY <1>1, <1>3, <1>4, <1>8, WhereEnd
<1> QED BY <1>3, <1>4, <1>7, <1>9 DEF PlaceInv

(* A readable end moves to another component. *)
LEMMA TransferPlace == ASSUME PlaceInv, NEW d \in Comp, StreamTransfer(d) PROVE PlaceInv'
<1> DEFINE e == StreamR
<1>1. PICK W : W = Where(pos, loc)
  OBVIOUS
<1>2. PICK c : c = pos[e].comp
  OBVIOUS
<1>3. PICK h1, t1, W1 : /\ h1 = Set(handles, c, RemoveRep(handles[c], pos[e].widx))
                        /\ t1 = SetIn(typed, c, "stream", RemoveRep(typed[c]["stream"], pos[e].hidx))
                        /\ W1 = Set(W, e, Nowhere)
  OBVIOUS
<1>4. PICK v : v = [comp |-> d, widx |-> NextRep(h1[d]), hidx |-> NextRep(t1[d]["stream"])]
  OBVIOUS
<1>5. RemoveEnd(c, "stream", pos[e]).h = h1 /\ RemoveEnd(c, "stream", pos[e]).t = t1
  BY <1>3 DEF RemoveEnd, Set, SetIn
<1>6. /\ c \in Comp /\ HasRoom(h1[d]) /\ HasRoom(t1[d]["stream"])
      /\ handles' = Set(h1, d, Insert(h1[d], e))
      /\ typed' = SetIn(t1, d, "stream", Insert(t1[d]["stream"], e))
      /\ pos' = Set(pos, e, v) /\ loc' = loc
  BY <1>2, <1>4, <1>5 DEF StreamTransfer, ErrorsUntouched, Set, SetIn, NewIndices
<1>7. pos \in [Ends -> PosType] /\ loc \in [Local -> LocType] /\ AllPlaced(handles, typed, W)
  BY <1>1 DEF PlaceInv
<1>8. e \in Ends /\ e \in Obj /\ W[e] = pos[e] /\ KindOf(e) = "stream"
  <2>1. e \in Ends /\ Kind(e) = "stream"
    BY DEF Ends, Kind
  <2> QED BY <2>1, <1>1, WhereOfEnd
<1>9. AllPlaced(h1, t1, W1)
  BY <1>2, <1>3, <1>6, <1>7, <1>8, ObjectTaken
<1>10. W \in [Obj -> PosType]
  BY <1>7 DEF AllPlaced
<1>11. W1[e].comp = None /\ Set(W1, e, v) = Set(W, e, v)
  BY <1>3, <1>8, <1>10 DEF Set, Nowhere
<1>12. AllPlaced(handles', typed', Set(W1, e, v))
  BY <1>4, <1>6, <1>8, <1>9, <1>11, ObjectAdded
<1>13. v \in PosType
  BY <1>4, <1>6 DEF PosType, HasRoom, Reps
<1>14. pos' \in [Ends -> PosType] /\ Where(pos', loc') = Set(W, e, v)
  BY <1>1, <1>6, <1>7, <1>8, <1>13, WhereEnd
<1> QED BY <1>6, <1>7, <1>11, <1>12, <1>14 DEF PlaceInv

(* A local handle enters both tables. *)
LEMMA LocalAdded ==
    ASSUME PlaceInv, LocalInv, NEW c \in Comp, NEW l \in Local, NEW v \in LocType,
           NEW o \in [Local -> LocType], \A m \in Local \ {l} : Recorded(o[m]) = Recorded(loc[m]),
           loc[l].st = "free", HasRoom(handles[c]), HasRoom(typed[c]["error"]),
           v.comp = c, v.widx = NextRep(handles[c]), v.lidx = NextRep(typed[c]["error"]),
           handles' = Set(handles, c, Insert(handles[c], l)),
           typed' = SetIn(typed, c, "error", Insert(typed[c]["error"], l)),
           loc' = Set(o, l, v), pos' = pos
    PROVE  PlaceInv'
<1>1. PICK W : W = Where(pos, loc)
  OBVIOUS
<1>2. pos \in [Ends -> PosType] /\ loc \in [Local -> LocType] /\ AllPlaced(handles, typed, W)
  BY <1>1 DEF PlaceInv
<1>3. l \in Obj /\ W[l] = Recorded(loc[l]) /\ KindOf(l) = "error"
  BY <1>1, WhereOfLocal
<1>4. W[l].comp = None
  BY <1>3 DEF LocalInv, Recorded
<1>5. Recorded(v) = [comp |-> c, widx |-> NextRep(handles[c]), hidx |-> NextRep(typed[c]["error"])]
  BY DEF Recorded
<1>6. AllPlaced(handles', typed', Set(W, l, Recorded(v)))
  BY <1>2, <1>3, <1>4, <1>5, ObjectAdded
<1>7. PICK q : q = Set(o, l, loc[l])
  OBVIOUS
<1>8. q \in [Local -> LocType] /\ Set(q, l, v) = Set(o, l, v)
  BY <1>2, <1>7 DEF Set
<1>9. \A m \in Local : Recorded(q[m]) = Recorded(loc[m])
  BY <1>7 DEF Set
<1>10. Where(pos, q) = W
  BY <1>1, <1>9, WhereSame
<1>11. loc' \in [Local -> LocType] /\ Where(pos, loc') = Set(W, l, Recorded(v))
  BY <1>8, <1>10, WhereLocal
<1> QED BY <1>2, <1>6, <1>11 DEF PlaceInv

(* A dropped error context leaves both. *)
LEMMA ContextDropPlace ==
    ASSUME PlaceInv, LocalInv, NEW l \in Local, ErrorContextDrop(l) PROVE PlaceInv'
<1>1. PICK W : W = Where(pos, loc)
  OBVIOUS
<1>2. PICK c : c = loc[l].comp
  OBVIOUS
<1>3. /\ loc[l].st # "free"
      /\ handles' = Set(handles, c, RemoveRep(handles[c], loc[l].widx))
      /\ typed' = SetIn(typed, c, "error", RemoveRep(typed[c]["error"], loc[l].lidx))
      /\ loc' = Set(loc, l, NoLocal) /\ pos' = pos
  BY <1>2 DEF ErrorContextDrop, Set, SetIn
<1>4. pos \in [Ends -> PosType] /\ loc \in [Local -> LocType] /\ AllPlaced(handles, typed, W)
  BY <1>1 DEF PlaceInv
<1>5. c \in Comp
  <2>1. c # None
    BY <1>2, <1>3 DEF LocalInv
  <2> QED BY <2>1, <1>2, <1>4 DEF LocType
<1>6. l \in Obj /\ W[l] = Recorded(loc[l]) /\ KindOf(l) = "error"
  BY <1>1, WhereOfLocal
<1>7. W[l].comp = c /\ W[l].widx = loc[l].widx /\ W[l].hidx = loc[l].lidx
  BY <1>2, <1>6 DEF Recorded
<1>8. AllPlaced(handles', typed', Set(W, l, Nowhere))
  BY <1>3, <1>4, <1>5, <1>6, <1>7, ObjectTaken
<1>9. NoLocal \in LocType /\ Recorded(NoLocal) = Nowhere
  BY DEF NoLocal, LocType, Recorded, Nowhere
<1>10. loc' \in [Local -> LocType] /\ Where(pos', loc') = Set(W, l, Nowhere)
  BY <1>1, <1>3, <1>4, <1>9, WhereLocal
<1> QED BY <1>3, <1>4, <1>8, <1>10 DEF PlaceInv

-----------------------------------------------------------------------------
(* The holders of an error context. *)

(* They are finitely many. *)
LEMMA HoldersFinite ==
    ASSUME NEW l, NEW x
    PROVE  IsFiniteSet(Holders(l, x)) /\ Cardinality(Holders(l, x)) \in Nat
<1>1. Holders(l, x) \in SUBSET Local
  BY DEF Holders
<1> QED BY <1>1, FS_Subset, FS_CardinalityType

(* They are the same when no handle changes hands. *)
LEMMA HoldersSame ==
    ASSUME NEW l, NEW o, NEW x,
           \A m \in Local : o[m].ctx = l[m].ctx /\ (o[m].st = "free" <=> l[m].st = "free")
    PROVE  Holders(o, x) = Holders(l, x)
BY DEF Holders

(* A free object becomes a handle. *)
LEMMA HoldersAdded ==
    ASSUME NEW l \in [Local -> LocType], NEW m \in Local, l[m].st = "free",
           NEW v \in LocType, v.st # "free", NEW x
    PROVE  /\ v.ctx = x => /\ Holders(Set(l, m, v), x) = Holders(l, x) \cup {m}
                           /\ Cardinality(Holders(Set(l, m, v), x)) = Cardinality(Holders(l, x)) + 1
           /\ v.ctx # x => Holders(Set(l, m, v), x) = Holders(l, x)
           /\ m \notin Holders(l, x)
<1>1. Set(l, m, v)[m] = v /\ \A y \in Local \ {m} : Set(l, m, v)[y] = l[y]
  BY DEF Set
<1>2. m \notin Holders(l, x)
  BY DEF Holders
<1>3. v.ctx # x => Holders(Set(l, m, v), x) = Holders(l, x)
  BY <1>1, <1>2 DEF Holders
<1>4. v.ctx = x => Holders(Set(l, m, v), x) = Holders(l, x) \cup {m}
  BY <1>1, <1>2 DEF Holders
<1>5. Cardinality(Holders(l, x) \cup {m}) = Cardinality(Holders(l, x)) + 1
  BY <1>2, HoldersFinite, FS_AddElement
<1> QED BY <1>2, <1>3, <1>4, <1>5

(* A handle is dropped. *)
LEMMA HoldersTaken ==
    ASSUME NEW l \in [Local -> LocType], NEW m \in Local, l[m].st # "free", NEW x
    PROVE  /\ l[m].ctx = x =>
                 /\ m \in Holders(l, x) /\ Holders(Set(l, m, NoLocal), x) = Holders(l, x) \ {m}
                 /\ Cardinality(Holders(Set(l, m, NoLocal), x)) = Cardinality(Holders(l, x)) - 1
           /\ l[m].ctx # x => Holders(Set(l, m, NoLocal), x) = Holders(l, x)
<1>1. /\ Set(l, m, NoLocal)[m] = NoLocal /\ NoLocal.st = "free"
      /\ \A y \in Local \ {m} : Set(l, m, NoLocal)[y] = l[y]
  BY DEF Set, NoLocal
<1>2. l[m].ctx # x => Holders(Set(l, m, NoLocal), x) = Holders(l, x)
  BY <1>1 DEF Holders
<1>3. l[m].ctx = x => m \in Holders(l, x) /\ Holders(Set(l, m, NoLocal), x) = Holders(l, x) \ {m}
  BY <1>1 DEF Holders
<1>4. m \in Holders(l, x) => Cardinality(Holders(l, x) \ {m}) = Cardinality(Holders(l, x)) - 1
  BY HoldersFinite, FS_RemoveElement
<1> QED BY <1>2, <1>3, <1>4

(* What the global table finds after an entry was made, *)
LEMMA GlobalAdded ==
    ASSUME NEW g, Sound(g, Ctx), HasRoom(g), NEW x \in Ctx, RepsOf(g, x) = {}
    PROVE  /\ Sound(Insert(g, x), Ctx) /\ NextRep(g) \in 0 .. MaxRep
           /\ RepsOf(Insert(g, x), x) = {NextRep(g)}
           /\ \A y \in Ctx : y # x => RepsOf(Insert(g, x), y) = RepsOf(g, y)
<1> DEFINE U == Insert(g, x)
           n == NextRep(g)
<1>1. Sound(U, Ctx) /\ U.slot[n] = x /\ \A r \in Reps \ {n} : U.slot[r] = g.slot[r]
  BY ObjApart, InsertKeeps
<1>2. n \in Reps /\ g.slot[n] \notin Ctx /\ n \in 0 .. MaxRep
  <2>1. n \in Reps /\ g.slot[n] \notin Ctx
    BY ObjApart, NextIsFree
  <2> QED BY <2>1 DEF Reps
<1> HIDE DEF U, n
<1>3. \A y \in Ctx : /\ RepsOf(U, y) = {r \in Reps : U.slot[r] = y}
                     /\ RepsOf(g, y) = {r \in Reps : g.slot[r] = y}
  BY <1>1, ObjApart, RepsOfValue
<1>4. RepsOf(U, x) = {n}
  <2>1. \A r \in Reps : g.slot[r] # x
    BY <1>3
  <2>2. \A r \in Reps : U.slot[r] = x <=> r = n
    BY <2>1, <1>1
  <2> QED BY <2>2, <1>2, <1>3
<1>5. ASSUME NEW y \in Ctx, y # x PROVE RepsOf(U, y) = RepsOf(g, y)
  <2>1. \A r \in Reps : U.slot[r] = y <=> g.slot[r] = y
    BY <1>1, <1>2, <1>5
  <2> QED BY <2>1, <1>3
<1> QED BY <1>1, <1>2, <1>4, <1>5 DEF U, n

(* and after one was removed. *)
LEMMA GlobalTaken ==
    ASSUME NEW g, Sound(g, Ctx), NEW x \in Ctx, NEW n, RepsOf(g, x) = {n}
    PROVE  /\ Sound(RemoveRep(g, n), Ctx)
           /\ \A y \in Ctx : y # x => RepsOf(RemoveRep(g, n), y) = RepsOf(g, y)
<1> DEFINE U == RemoveRep(g, n)
<1>1. n \in Reps /\ g.slot[n] = x
  BY DEF RepsOf
<1>2. Sound(U, Ctx) /\ U.slot[n] \notin Ctx /\ \A r \in Reps \ {n} : U.slot[r] = g.slot[r]
  BY <1>1, ObjApart, RemoveKeeps
<1> HIDE DEF U
<1>3. \A y \in Ctx : /\ RepsOf(U, y) = {r \in Reps : U.slot[r] = y}
                     /\ RepsOf(g, y) = {r \in Reps : g.slot[r] = y}
  BY <1>2, ObjApart, RepsOfValue
<1>4. ASSUME NEW y \in Ctx, y # x PROVE RepsOf(U, y) = RepsOf(g, y)
  <2>1. \A r \in Reps : U.slot[r] = y <=> g.slot[r] = y
    BY <1>1, <1>2, <1>4
  <2> QED BY <2>1, <1>3
<1> QED BY <1>2, <1>4 DEF U

-----------------------------------------------------------------------------
(* Every step keeps the invariant. *)

(* error-context.new *)
LEMMA NewEnds ==
    ASSUME EndInv, NEW c \in Comp, NEW x \in Ctx, NEW l \in Local, ErrorContextNew(c, x, l)
    PROVE  EndInv'
<1>1. PICK v : v = [st |-> "owned", ctx |-> x, rep |-> NextRep(global), comp |-> c,
                    widx |-> NextRep(handles[c]), lidx |-> NextRep(typed[c]["error"]), count |-> 1]
  OBVIOUS
<1>2. /\ loc[l].st = "free" /\ HasRoom(handles[c]) /\ HasRoom(typed[c]["error"])
      /\ handles' = Set(handles, c, Insert(handles[c], l))
      /\ typed' = SetIn(typed, c, "error", Insert(typed[c]["error"], l))
      /\ loc' = Set(Set(loc, l, NoLocal), l, v)
      /\ count' = Set(count, x, count[x] + 1)
      /\ UNCHANGED <<pos, kept>>
  BY <1>1 DEF ErrorContextNew, CreateLocalHandle, GlobalRefCountAdd, Set, SetIn
<1>3. /\ RepsOf(global, x) = {} /\ \A m \in Local : loc[m].st # "free" => loc[m].ctx # x
      /\ HasRoom(global) /\ global' = Insert(global, x)
  BY DEF ErrorContextNew, ReserveGlobalRep
<1>4. /\ Sound(global, Ctx) /\ count \in [Ctx -> Int] /\ kept \in [Ctx -> Nat]
      /\ \A y \in Ctx : KeptFor(loc, global, count, kept, y)
      /\ loc \in [Local -> LocType] /\ PlaceInv /\ LocalInv
  BY DEF EndInv, CtxInv, PlaceInv
<1>5. /\ Sound(global', Ctx) /\ NextRep(global) \in 0 .. MaxRep
      /\ RepsOf(global', x) = {NextRep(global)}
      /\ \A y \in Ctx : y # x => RepsOf(global', y) = RepsOf(global, y)
  BY <1>3, <1>4, GlobalAdded
<1>6. v \in LocType /\ v.st = "owned" /\ v.ctx = x /\ v.rep = NextRep(global) /\ v.comp = c
      /\ v.widx = NextRep(handles[c]) /\ v.lidx = NextRep(typed[c]["error"])
  BY <1>1, <1>2, <1>5 DEF LocType, HasRoom, Reps
<1>7. loc' = Set(loc, l, v) /\ loc'[l] = v /\ \A m \in Local \ {l} : loc'[m] = loc[m]
  BY <1>2, <1>4 DEF Set
<1>8. PlaceInv'
  BY <1>2, <1>4, <1>6, <1>7, LocalAdded
<1>9. LocalInv'
  BY <1>4, <1>6, <1>7 DEF LocalInv
<1>10. count' \in [Ctx -> Int] /\ count'[x] = count[x] + 1
       /\ \A y \in Ctx : y # x => count'[y] = count[y]
  BY <1>2, <1>4 DEF Set
<1>11. ASSUME NEW y \in Ctx PROVE KeptFor(loc', global', count', kept', y)
  <2>1. KeptFor(loc, global, count, kept, y)
    BY <1>4
  <2>2. CASE y = x
    <3>1. Holders(loc, x) = {} /\ Cardinality(Holders(loc, x)) = 0
      BY <1>3, FS_EmptySet DEF Holders
    <3>2. kept[x] = 0 /\ count[x] = 0
      <4>1. ~(kept[x] > 0) /\ count[x] = Cardinality(Holders(loc, x)) + kept[x]
        BY <2>1, <2>2, <1>3 DEF KeptFor
      <4>2. kept[x] \in Nat
        BY <1>4
      <4> QED BY <4>1, <4>2, <3>1
    <3>3. Holders(loc', x) = {l} /\ Cardinality(Holders(loc', x)) = 1
      <4>1. v.st # "free" /\ v.ctx = x /\ v \in LocType
        BY <1>6
      <4>0. loc[l].st = "free" /\ loc \in [Local -> LocType]
        BY <1>2, <1>4
      <4>2. v.ctx = x => /\ Holders(Set(loc, l, v), x) = Holders(loc, x) \cup {l}
                         /\ Cardinality(Holders(Set(loc, l, v), x)) = Cardinality(Holders(loc, x)) + 1
        BY <4>0, <4>1, HoldersAdded
      <4>3. loc' = Set(loc, l, v)
        BY <1>7
      <4>4. /\ Holders(loc', x) = Holders(loc, x) \cup {l}
            /\ Cardinality(Holders(loc', x)) = Cardinality(Holders(loc, x)) + 1
        BY <4>1, <4>2, <4>3
      <4>5. Holders(loc', x) = {l}
        BY <4>4, <3>1
      <4>6. Cardinality(Holders(loc', x)) = 1
        BY <4>4, <3>1
      <4> QED BY <4>5, <4>6
    <3>4. count'[x] = Cardinality(Holders(loc', x)) + kept'[x]
      BY <3>2, <3>3, <1>2, <1>10
    <3>5. \A m \in Holders(loc', x) : RepsOf(global', x) = {loc'[m].rep}
      BY <3>3, <1>5, <1>6, <1>7
    <3>6. kept'[x] > 0 => RepsOf(global', x) # {}
      BY <1>5
    <3> QED BY <3>4, <3>5, <3>6, <2>2 DEF KeptFor
  <2>3. CASE y # x
    <3>1. Holders(loc', y) = Holders(loc, y) /\ l \notin Holders(loc, y)
      BY <2>3, <1>2, <1>4, <1>6, <1>7, HoldersAdded
    <3>2. \A m \in Holders(loc, y) : loc'[m] = loc[m]
      BY <3>1, <1>7 DEF Holders
    <3> QED BY <3>1, <3>2, <2>1, <2>3, <1>2, <1>5, <1>10 DEF KeptFor
  <2> QED BY <2>2, <2>3
<1> QED BY <1>2, <1>4, <1>5, <1>8, <1>9, <1>10, <1>11 DEF EndInv, CtxInv

(* error-context.transfer *)
LEMMA ContextTransferEnds ==
    ASSUME EndInv, NEW m \in Local, NEW d \in Comp, NEW l \in Local, ErrorContextTransfer(m, d, l)
    PROVE  EndInv'
<1>1. PICK x : x = loc[m].ctx
  OBVIOUS
<1>2. PICK v : v = [st |-> "owned", ctx |-> x, rep |-> loc[m].rep, comp |-> d,
                    widx |-> NextRep(handles[d]), lidx |-> NextRep(typed[d]["error"]), count |-> 1]
  OBVIOUS
<1>3. PICK o : o = [loc EXCEPT ![m].count = GivenCount(@), ![m].st = "given"]
  OBVIOUS
<1>4. /\ loc[m].st = "owned"
      /\ loc[l].st = "free" /\ HasRoom(handles[d]) /\ HasRoom(typed[d]["error"])
      /\ handles' = Set(handles, d, Insert(handles[d], l))
      /\ typed' = SetIn(typed, d, "error", Insert(typed[d]["error"], l))
      /\ loc' = Set(o, l, v)
      /\ count' = Set(count, x, count[x] + 1)
      /\ UNCHANGED <<pos, kept, global>>
  BY <1>1, <1>2, <1>3 DEF ErrorContextTransfer, CreateLocalHandle, GlobalRefCountAdd, Set, SetIn
<1>5. /\ Sound(global, Ctx) /\ count \in [Ctx -> Int] /\ kept \in [Ctx -> Nat]
      /\ \A y \in Ctx : KeptFor(loc, global, count, kept, y)
      /\ loc \in [Local -> LocType] /\ PlaceInv /\ LocalInv
  BY DEF EndInv, CtxInv, PlaceInv
<1>6. x \in Ctx /\ loc[m] \in LocType /\ loc[m].comp # None
  BY <1>1, <1>4, <1>5 DEF LocalInv
<1>7. /\ o \in [Local -> LocType] /\ \A y \in Local : y # m => o[y] = loc[y]
      /\ o[m].st = "given" /\ o[m].ctx = loc[m].ctx /\ o[m].rep = loc[m].rep
      /\ o[m].comp = loc[m].comp /\ o[m].widx = loc[m].widx /\ o[m].lidx = loc[m].lidx
  <2>1. o = Set(loc, m, [loc[m] EXCEPT !.count = loc[m].count - 1, !.st = "given"])
    BY <1>3, <1>5 DEF Set, GivenCount
  <2>2. loc[m].count - 1 \in Int
    BY <1>6 DEF LocType
  <2>3. PICK n : n = loc[m].count - 1
    OBVIOUS
  <2>4. PICK q : q = [loc[m] EXCEPT !.count = n, !.st = "given"]
    OBVIOUS
  <2>5. /\ q \in LocType /\ q.st = "given" /\ q.ctx = loc[m].ctx /\ q.rep = loc[m].rep
        /\ q.comp = loc[m].comp /\ q.widx = loc[m].widx /\ q.lidx = loc[m].lidx
    BY <2>2, <2>3, <2>4, <1>6 DEF LocType
  <2>6. o = Set(loc, m, q)
    BY <2>1, <2>3, <2>4
  <2> QED BY <2>5, <2>6, <1>5 DEF Set
<1>8. l # m /\ o[l] = loc[l]
  BY <1>4, <1>7
<1>9. v \in LocType /\ v.st = "owned" /\ v.ctx = x /\ v.rep = loc[m].rep /\ v.comp = d
      /\ v.widx = NextRep(handles[d]) /\ v.lidx = NextRep(typed[d]["error"])
  BY <1>2, <1>4, <1>6 DEF LocType, HasRoom, Reps
<1>10. loc'[l] = v /\ \A y \in Local \ {l} : loc'[y] = o[y]
  BY <1>4, <1>7 DEF Set
<1>11. PlaceInv'
  <2>1. \A y \in Local \ {l} : Recorded(o[y]) = Recorded(loc[y])
    BY <1>7 DEF Recorded
  <2> QED BY <2>1, <1>4, <1>5, <1>7, <1>9, LocalAdded
<1>12. LocalInv'
  BY <1>5, <1>6, <1>7, <1>9, <1>10 DEF LocalInv
<1>13. count' \in [Ctx -> Int] /\ count'[x] = count[x] + 1
       /\ \A y \in Ctx : y # x => count'[y] = count[y]
  BY <1>4, <1>5, <1>6 DEF Set
<1>14. ASSUME NEW y \in Ctx PROVE KeptFor(loc', global', count', kept', y)
  <2>1. KeptFor(loc, global, count, kept, y)
    BY <1>5
  <2>2. Holders(o, y) = Holders(loc, y)
    BY <1>4, <1>7, HoldersSame
  <2>3. /\ x = y => /\ Holders(loc', y) = Holders(loc, y) \cup {l}
                    /\ Cardinality(Holders(loc', y)) = Cardinality(Holders(loc, y)) + 1
        /\ x # y => Holders(loc', y) = Holders(loc, y)
        /\ l \notin Holders(loc, y)
    <3>1. v.st # "free" /\ o[l].st = "free"
      BY <1>4, <1>8, <1>9
    <3>2. /\ v.ctx = y => /\ Holders(Set(o, l, v), y) = Holders(o, y) \cup {l}
                          /\ Cardinality(Holders(Set(o, l, v), y)) = Cardinality(Holders(o, y)) + 1
          /\ v.ctx # y => Holders(Set(o, l, v), y) = Holders(o, y)
          /\ l \notin Holders(o, y)
      BY <3>1, <1>7, <1>9, HoldersAdded
    <3> QED BY <3>2, <2>2, <1>4, <1>9
  <2>4. \A h \in Holders(loc, y) : loc'[h].rep = loc[h].rep
    BY <2>3, <1>7, <1>10 DEF Holders
  <2>5. CASE y = x
    <3>1. m \in Holders(loc, y)
      BY <2>5, <1>1, <1>4 DEF Holders
    <3>2. RepsOf(global, y) = {loc[m].rep}
      BY <3>1, <2>1 DEF KeptFor
    <3>3. count'[y] = Cardinality(Holders(loc', y)) + kept[y]
      BY <2>1, <2>3, <2>5, <1>5, <1>13, HoldersFinite DEF KeptFor
    <3>4. \A h \in Holders(loc', y) : RepsOf(global, y) = {loc'[h].rep}
      BY <3>2, <2>1, <2>3, <2>4, <2>5, <1>9, <1>10 DEF KeptFor
    <3> QED BY <3>3, <3>4, <2>1, <1>4 DEF KeptFor
  <2>6. CASE y # x
    BY <2>1, <2>3, <2>4, <2>6, <1>4, <1>13 DEF KeptFor
  <2> QED BY <2>5, <2>6
<1> QED BY <1>4, <1>5, <1>11, <1>12, <1>13, <1>14 DEF EndInv, CtxInv

(* error-context.drop *)
LEMMA ContextDropEnds ==
    ASSUME EndInv, NEW l \in Local, ErrorContextDrop(l)
    PROVE  EndInv'
<1>1. PICK x : x = loc[l].ctx
  OBVIOUS
<1>2. /\ loc[l].st # "free" /\ loc' = Set(loc, l, NoLocal)
      /\ count' = Set(count, x, count[x] - 1)
      /\ UNCHANGED kept
  BY <1>1 DEF ErrorContextDrop, GlobalRefCountAdd, Set
<1>3. \/ global' = global
      \/ count[x] - 1 = 0 /\ global' = RemoveRep(global, loc[l].rep)
  BY <1>1 DEF ErrorContextDrop, GoneGlobally
<1>4. /\ Sound(global, Ctx) /\ count \in [Ctx -> Int] /\ kept \in [Ctx -> Nat]
      /\ \A y \in Ctx : KeptFor(loc, global, count, kept, y)
      /\ loc \in [Local -> LocType] /\ PlaceInv /\ LocalInv
  BY DEF EndInv, CtxInv, PlaceInv
<1>5. x \in Ctx
  BY <1>1, <1>2, <1>4 DEF LocalInv
<1>6. PlaceInv'
  BY <1>4, ContextDropPlace
<1>7. loc'[l] = NoLocal /\ \A m \in Local \ {l} : loc'[m] = loc[m]
  BY <1>2, <1>4 DEF Set
<1>8. LocalInv'
  <2>1. NoLocal.st = "free" /\ NoLocal.comp = None
    BY DEF NoLocal
  <2> QED BY <2>1, <1>4, <1>7 DEF LocalInv
<1>9. count' \in [Ctx -> Int] /\ count'[x] = count[x] - 1
      /\ \A y \in Ctx : y # x => count'[y] = count[y]
  BY <1>2, <1>4, <1>5 DEF Set
<1>10. /\ l \in Holders(loc, x) /\ Holders(loc', x) = Holders(loc, x) \ {l}
       /\ Cardinality(Holders(loc', x)) = Cardinality(Holders(loc, x)) - 1
       /\ \A y \in Ctx : y # x => Holders(loc', y) = Holders(loc, y)
  <2>1. /\ l \in Holders(loc, x) /\ Holders(Set(loc, l, NoLocal), x) = Holders(loc, x) \ {l}
        /\ Cardinality(Holders(Set(loc, l, NoLocal), x)) = Cardinality(Holders(loc, x)) - 1
    BY <1>1, <1>2, <1>4, HoldersTaken
  <2>2. \A y \in Ctx : y # x => Holders(Set(loc, l, NoLocal), y) = Holders(loc, y)
    BY <1>1, <1>2, <1>4, HoldersTaken
  <2> QED BY <2>1, <2>2, <1>2
<1>11. \A y \in Ctx : \A m \in Holders(loc', y) : m \in Holders(loc, y) /\ loc'[m] = loc[m]
  <2>1. NoLocal.st = "free"
    BY DEF NoLocal
  <2> QED BY <2>1, <1>7 DEF Holders
<1>12. /\ count[x] = Cardinality(Holders(loc, x)) + kept[x]
       /\ kept[x] > 0 => RepsOf(global, x) # {}
       /\ RepsOf(global, x) = {loc[l].rep}
       /\ \A m \in Holders(loc, x) : RepsOf(global, x) = {loc[m].rep}
  <2>1. KeptFor(loc, global, count, kept, x)
    BY <1>4, <1>5
  <2> QED BY <2>1, <1>10 DEF KeptFor
<1>13. count'[x] = Cardinality(Holders(loc', x)) + kept'[x]
  BY <1>2, <1>4, <1>5, <1>9, <1>10, <1>12, HoldersFinite
<1>14. CASE global' = global
  <2>1. ASSUME NEW y \in Ctx PROVE KeptFor(loc', global', count', kept', y)
    <3>1. CASE y = x
      <4>1. \A m \in Holders(loc', x) : RepsOf(global', x) = {loc'[m].rep}
        BY <1>5, <1>11, <1>12, <1>14
      <4>2. kept'[x] > 0 => RepsOf(global', x) # {}
        BY <1>2, <1>12, <1>14
      <4> QED BY <4>1, <4>2, <3>1, <1>13 DEF KeptFor
    <3>2. CASE y # x
      <4>1. KeptFor(loc, global, count, kept, y)
        BY <1>4
      <4> QED BY <4>1, <3>2, <1>2, <1>9, <1>10, <1>11, <1>14 DEF KeptFor
    <3> QED BY <3>1, <3>2
  <2> QED BY <2>1, <1>2, <1>4, <1>6, <1>8, <1>9, <1>14 DEF EndInv, CtxInv
<1>15. CASE count[x] - 1 = 0 /\ global' = RemoveRep(global, loc[l].rep)
  <2>1. /\ Sound(global', Ctx)
        /\ \A y \in Ctx : y # x => RepsOf(global', y) = RepsOf(global, y)
    BY <1>4, <1>5, <1>12, <1>15, GlobalTaken
  <2>2. Cardinality(Holders(loc', x)) = 0 /\ kept[x] = 0
    <3>1. Cardinality(Holders(loc', x)) \in Nat /\ kept[x] \in Nat /\ kept'[x] = kept[x]
      BY <1>2, <1>4, <1>5, HoldersFinite
    <3>2. Cardinality(Holders(loc', x)) + kept[x] = 0
      BY <3>1, <1>9, <1>13, <1>15
    <3> QED BY <3>1, <3>2
  <2>3. Holders(loc', x) = {}
    BY <2>2, HoldersFinite, FS_EmptySet
  <2>4. ASSUME NEW y \in Ctx PROVE KeptFor(loc', global', count', kept', y)
    <3>1. CASE y = x
      <4>1. ~(kept'[x] > 0)
        BY <2>2, <1>2
      <4> QED BY <4>1, <3>1, <2>3, <1>13 DEF KeptFor
    <3>2. CASE y # x
      <4>1. KeptFor(loc, global, count, kept, y)
        BY <1>4
      <4> QED BY <4>1, <3>2, <2>1, <1>2, <1>9, <1>10, <1>11 DEF KeptFor
    <3> QED BY <3>1, <3>2
  <2> QED BY <2>1, <2>4, <1>2, <1>4, <1>6, <1>8, <1>9 DEF EndInv, CtxInv
<1> QED BY <1>3, <1>14, <1>15

(* The object a lift finds is one a component has. *)
LEMMA LiftedHeld ==
    ASSUME EndInv, NEW l \in Local, loc[l].st = "owned", NEW m \in Local,
           m = LiftedObject(loc[l].comp, loc[l].widx)
    PROVE  loc[m].st # "free"
<1>1. PICK W : W = Where(pos, loc)
  OBVIOUS
<1>2. PICK c, h, v : c = loc[l].comp /\ h = loc[l].widx /\ v = Get(typed[c]["error"], h)
  OBVIOUS
<1>3. /\ loc \in [Local -> LocType] /\ AllPlaced(handles, typed, W)
      /\ LocalInv /\ W \in [Obj -> PosType] /\ Placed(handles, InHandles(W))
      /\ Placed(TypedOf(typed, "error"), InTyped(W, "error"))
  BY <1>1 DEF EndInv, PlaceInv, AllPlaced, Kinds
<1>4. c \in Comp
  BY <1>2, <1>3 DEF LocalInv, LocType
<1>5. \A x \in Local : x \in Obj /\ W[x] = Recorded(loc[x]) /\ KindOf(x) = "error"
  BY <1>1, WhereOfLocal
<1>a. \A x \in Local : InHandles(W)[x].comp = loc[x].comp /\ InHandles(W)[x].idx = loc[x].widx
  <2> SUFFICES ASSUME NEW x \in Local
               PROVE  InHandles(W)[x].comp = loc[x].comp /\ InHandles(W)[x].idx = loc[x].widx
    OBVIOUS
  <2>0. W[x] = Recorded(loc[x]) /\ x \in Obj
    BY <1>5
  <2>1. W[x].comp = loc[x].comp /\ W[x].widx = loc[x].widx /\ x \in Obj
    BY <2>0 DEF Recorded
  <2> QED BY <2>1 DEF InHandles
<1>6. h \in Reps
  <2>1. InHandles(W)[l].comp = c /\ InHandles(W)[l].idx = h /\ c # None /\ l \in Obj
    BY <1>2, <1>4, <1>5, <1>a
  <2> QED BY <2>1, <1>3 DEF Placed
<1>7. v \in Obj \cup 0 .. MaxRep
  <2>1. Sound(typed[c]["error"], Obj)
    BY <1>3, <1>4 DEF Placed, TypedOf
  <2> QED BY <2>1, <1>2, <1>6, TableFields DEF Sound, Get
<1>8. v \notin Ends
  <2> SUFFICES ASSUME v \in Ends PROVE FALSE
    OBVIOUS
  <2>1. v \in Obj /\ KindOf(v) # "error"
    BY DEF Obj, KindOf, Kind
  <2>2. InTyped(W, "error")[v].comp = None
    BY <2>1 DEF InTyped, NoPlace
  <2>3. TypedOf(typed, "error")[c].slot[h] = v
    BY <1>2, <1>4 DEF TypedOf, Get
  <2>4. InTyped(W, "error")[v].comp = c
    BY <2>1, <2>3, <1>3, <1>4, <1>6 DEF Placed
  <2> QED BY <2>2, <2>4, <1>4
<1>9. PICK w : w = IF v \in Local THEN loc[v].widx ELSE v
  OBVIOUS
<1>10. w \in 0 .. MaxRep
  <2>1. CASE v \in Local
    BY <2>1, <1>3, <1>9 DEF LocType
  <2>2. CASE v \notin Local
    BY <2>2, <1>7, <1>8, <1>9 DEF Obj
  <2> QED BY <2>1, <2>2
<1>11. w # 0 /\ m = handles[c].slot[w]
  <2>1. m = IF w = 0 THEN None ELSE Get(handles[c], w)
    BY <1>2, <1>9 DEF LiftedObject
  <2> QED BY <2>1 DEF Get
<1>12. w \in Reps
  BY <1>10, <1>11 DEF Reps
<1>13. InHandles(W)[m].comp = c
  BY <1>3, <1>4, <1>5, <1>11, <1>12 DEF Placed
<1>14. loc[m].comp = c
  BY <1>13, <1>a
<1> QED BY <1>3, <1>4, <1>14 DEF LocalInv

(* An error context given to the host. *)
LEMMA ContextLiftEnds ==
    ASSUME EndInv, NEW l \in Local, LiftFlatErrorContext(l)
    PROVE  EndInv'
<1>1. PICK m : m = LiftedObject(loc[l].comp, loc[l].widx)
  OBVIOUS
<1>2. PICK x : x = loc[m].ctx
  OBVIOUS
<1>3. /\ loc[l].st = "owned" /\ m \in Local
      /\ loc' = [loc EXCEPT ![m].count = @ - 1]
      /\ count' = Set(count, x, count[x] + 1) /\ kept' = Set(kept, x, kept[x] + 1)
      /\ UNCHANGED <<handles, typed, pos, global>>
  BY <1>1, <1>2 DEF LiftFlatErrorContext, GlobalRefCountAdd, Set
<1>4. /\ Sound(global, Ctx) /\ count \in [Ctx -> Int] /\ kept \in [Ctx -> Nat]
      /\ \A y \in Ctx : KeptFor(loc, global, count, kept, y)
      /\ loc \in [Local -> LocType] /\ PlaceInv /\ LocalInv
  BY DEF EndInv, CtxInv, PlaceInv
<1>5. loc[m].st # "free"
  BY <1>1, <1>3, LiftedHeld
<1>6. x \in Ctx /\ loc[m] \in LocType
  BY <1>2, <1>3, <1>4, <1>5 DEF LocalInv
<1>7. /\ loc' \in [Local -> LocType] /\ \A y \in Local : y # m => loc'[y] = loc[y]
      /\ loc'[m].st = loc[m].st /\ loc'[m].ctx = loc[m].ctx /\ loc'[m].rep = loc[m].rep
      /\ loc'[m].comp = loc[m].comp /\ loc'[m].widx = loc[m].widx /\ loc'[m].lidx = loc[m].lidx
  <2>1. PICK n : n = loc[m].count - 1
    OBVIOUS
  <2>2. n \in Int
    BY <2>1, <1>6 DEF LocType
  <2>3. PICK q : q = [loc[m] EXCEPT !.count = n]
    OBVIOUS
  <2>4. /\ q \in LocType /\ q.st = loc[m].st /\ q.ctx = loc[m].ctx /\ q.rep = loc[m].rep
        /\ q.comp = loc[m].comp /\ q.widx = loc[m].widx /\ q.lidx = loc[m].lidx
    BY <2>2, <2>3, <1>6 DEF LocType
  <2>5. loc' = Set(loc, m, q)
    BY <2>1, <2>3, <1>3 DEF Set
  <2> QED BY <2>4, <2>5, <1>3, <1>4 DEF Set
<1>8. PlaceInv'
  <2>1. \A y \in Local : Recorded(loc'[y]) = Recorded(loc[y])
    BY <1>7 DEF Recorded
  <2>2. Where(pos, loc') = Where(pos, loc)
    BY <2>1, WhereSame
  <2> QED BY <2>2, <1>3, <1>4, <1>7 DEF PlaceInv
<1>9. LocalInv'
  BY <1>4, <1>7 DEF LocalInv
<1>10. /\ count' \in [Ctx -> Int] /\ count'[x] = count[x] + 1
       /\ \A y \in Ctx : y # x => count'[y] = count[y]
  BY <1>3, <1>4, <1>6 DEF Set
<1>11. /\ kept' \in [Ctx -> Nat] /\ kept'[x] = kept[x] + 1
       /\ \A y \in Ctx : y # x => kept'[y] = kept[y]
  <2>1. kept[x] + 1 \in Nat
    BY <1>4, <1>6
  <2> QED BY <2>1, <1>3, <1>4, <1>6 DEF Set
<1>12. ASSUME NEW y \in Ctx PROVE KeptFor(loc', global', count', kept', y)
  <2>1. KeptFor(loc, global, count, kept, y)
    BY <1>4
  <2>2. Holders(loc', y) = Holders(loc, y)
    BY <1>7, HoldersSame
  <2>3. \A h \in Holders(loc', y) : loc'[h].rep = loc[h].rep
    BY <1>7 DEF Holders
  <2>4. \A h \in Holders(loc', y) : RepsOf(global', y) = {loc'[h].rep}
    BY <2>1, <2>2, <2>3, <1>3 DEF KeptFor
  <2>5. CASE y = x
    <3>1. m \in Holders(loc, y)
      BY <2>5, <1>2, <1>3, <1>5 DEF Holders
    <3>2. RepsOf(global', y) # {}
      BY <3>1, <2>2, <2>4
    <3>3. count'[y] = Cardinality(Holders(loc', y)) + kept'[y]
      BY <2>1, <2>2, <2>5, <1>4, <1>10, <1>11, HoldersFinite DEF KeptFor
    <3> QED BY <3>2, <3>3, <2>4 DEF KeptFor
  <2>6. CASE y # x
    <3>1. count'[y] = count[y] /\ kept'[y] = kept[y]
      BY <2>6, <1>10, <1>11
    <3> QED BY <3>1, <2>1, <2>2, <2>4, <1>3 DEF KeptFor
  <2> QED BY <2>5, <2>6
<1> QED BY <1>3, <1>4, <1>8, <1>9, <1>10, <1>11, <1>12 DEF EndInv, CtxInv

(* What touches no error context. *)
LEMMA EndsOnly == ASSUME EndInv, ErrorsUntouched, PlaceInv' PROVE EndInv'
<1>1. global' = global /\ count' = count /\ loc' = loc /\ kept' = kept
  BY DEF ErrorsUntouched
<1>2. LocalInv'
  BY <1>1 DEF EndInv, LocalInv
<1>3. CtxInv'
  BY <1>1 DEF EndInv, CtxInv
<1> QED BY <1>2, <1>3 DEF EndInv

(* What moves no end. *)
LEMMA NothingMoves ==
    ASSUME EndInv, ErrorsUntouched, UNCHANGED <<handles, typed, pos>> PROVE EndInv'
<1>1. loc' = loc
  BY DEF ErrorsUntouched
<1>2. PlaceInv'
  BY <1>1 DEF EndInv, PlaceInv
<1> QED BY <1>2, EndsOnly

(* The ends are told apart. *)
LEMMA EndsApart ==
    /\ StreamW \in Ends /\ StreamR \in Ends /\ FutureW \in Ends /\ FutureR \in Ends
    /\ Kind(StreamW) = "stream" /\ Kind(StreamR) = "stream"
    /\ Kind(FutureW) = "future" /\ Kind(FutureR) = "future"
    /\ "stream" \in Kinds /\ "future" \in Kinds
BY DEF Ends, Kind, Kinds

(* In the beginning nothing is anywhere. *)
LEMMA InitEnds == Init => EndInv
<1> SUFFICES ASSUME Init PROVE EndInv
  OBVIOUS
<1>1. /\ handles = [c \in Comp |-> EmptyTable]
      /\ typed = [c \in Comp |-> [k \in Kinds |-> EmptyTable]]
      /\ pos = [e \in Ends |-> Nowhere] /\ loc = [l \in Local |-> NoLocal]
      /\ global = EmptyTable /\ count = [x \in Ctx |-> 0] /\ kept = [x \in Ctx |-> 0]
  BY DEF Init
<1>2. PICK W : W = Where(pos, loc)
  OBVIOUS
<1>3. /\ Nowhere \in PosType /\ NoLocal \in LocType /\ Recorded(NoLocal) = Nowhere
      /\ NoLocal.st = "free" /\ NoLocal.comp = None
      /\ NoPlace \in [comp : Comp \cup {None}, idx : 0 .. MaxRep] /\ NoPlace.comp = None
      /\ Nowhere.comp = None /\ Nowhere.widx = 0 /\ Nowhere.hidx = 0
  BY DEF Nowhere, NoLocal, PosType, LocType, Recorded, NoPlace
<1>4. pos \in [Ends -> PosType] /\ loc \in [Local -> LocType]
  BY <1>1, <1>3
<1>5. W = [o \in Obj |-> Nowhere]
  BY <1>1, <1>2, <1>3 DEF Where, Obj
<1>6. ASSUME NEW H, H = [c \in Comp |-> EmptyTable], NEW P, P = [o \in Obj |-> NoPlace]
      PROVE  Placed(H, P)
  <2>1. H = [c \in Comp |-> H[c]] /\ P \in Places /\ \A o \in Obj : P[o].comp = None
    BY <1>3, <1>6 DEF Places
  <2>2. \A c \in Comp : H[c] = EmptyTable /\ Sound(H[c], Obj)
    BY <1>6, ObjApart, EmptySound
  <2>3. \A r \in Reps : EmptyTable.slot[r] = 0
    BY DEF Reps, EmptyTable
  <2>4. 0 \notin Obj
    BY ObjApart DEF Apart
  <2>5. \A c \in Comp, r \in Reps, o \in Obj : H[c].slot[r] # o /\ P[o].comp # c
    BY <2>1, <2>2, <2>3, <2>4
  <2> QED BY <2>1, <2>2, <2>5 DEF Placed
<1>7. InHandles(W) = [o \in Obj |-> NoPlace] /\ \A k \in Kinds : InTyped(W, k) = [o \in Obj |-> NoPlace]
  BY <1>3, <1>5 DEF InHandles, InTyped, NoPlace
<1>8. \A k \in Kinds : TypedOf(typed, k) = [c \in Comp |-> EmptyTable]
  BY <1>1 DEF TypedOf
<1>9. Placed(handles, InHandles(W)) /\ \A k \in Kinds : Placed(TypedOf(typed, k), InTyped(W, k))
  BY <1>1, <1>6, <1>7, <1>8
<1>10. IsTyped(typed) /\ W \in [Obj -> PosType]
  BY <1>1, <1>3, <1>5 DEF IsTyped
<1>11. PlaceInv
  BY <1>2, <1>4, <1>9, <1>10 DEF PlaceInv, AllPlaced
<1>12. LocalInv
  BY <1>1, <1>3 DEF LocalInv
<1>13. ASSUME NEW x \in Ctx PROVE KeptFor(loc, global, count, kept, x)
  <2>1. Holders(loc, x) = {} /\ Cardinality({}) = 0
    BY <1>1, <1>3, FS_EmptySet DEF Holders
  <2>2. count[x] = 0 /\ kept[x] = 0
    BY <1>1
  <2> QED BY <2>1, <2>2 DEF KeptFor
<1>14. Sound(global, Ctx) /\ count \in [Ctx -> Int] /\ kept \in [Ctx -> Nat]
  BY <1>1, ObjApart, EmptySound
<1> QED BY <1>11, <1>12, <1>13, <1>14 DEF EndInv, CtxInv

(* Every step keeps the invariant. *)
LEMMA NextEnds == EndInv /\ [Next]_vars => EndInv'
<1> SUFFICES ASSUME EndInv, [Next]_vars PROVE EndInv'
  OBVIOUS
<1>0. PlaceInv
  BY DEF EndInv
<1>1. ASSUME NEW c \in Comp, CreateStream(c) PROVE EndInv'
  <2>1. PlaceInv'
    BY <1>0, <1>1, EndsApart, CreatePlace DEF CreateStream
  <2>2. ErrorsUntouched
    BY <1>1 DEF CreateStream, CreateEnds
  <2> QED BY <2>1, <2>2, EndsOnly
<1>2. ASSUME NEW c \in Comp, CreateFuture(c) PROVE EndInv'
  <2>1. PlaceInv'
    BY <1>0, <1>2, EndsApart, CreatePlace DEF CreateFuture
  <2>2. ErrorsUntouched
    BY <1>2 DEF CreateFuture, CreateEnds
  <2> QED BY <2>1, <2>2, EndsOnly
<1>3. ASSUME NEW c \in Comp, NEW e, LiftEnd(c, e) PROVE EndInv'
  BY <1>3, NothingMoves DEF LiftEnd
<1>4. ASSUME NEW c \in Comp, LowerExternalStream(c) PROVE EndInv'
  BY <1>4, NothingMoves DEF LowerExternalStream
<1>5. ASSUME NEW e \in Ends, DropEnd(e) PROVE EndInv'
  <2>1. PlaceInv'
    BY <1>0, <1>5, DropPlace
  <2>2. ErrorsUntouched
    BY <1>5 DEF DropEnd
  <2> QED BY <2>1, <2>2, EndsOnly
<1>6. ASSUME NEW d \in Comp, StreamTransfer(d) PROVE EndInv'
  <2>1. PlaceInv'
    BY <1>0, <1>6, TransferPlace
  <2>2. ErrorsUntouched
    BY <1>6 DEF StreamTransfer
  <2> QED BY <2>1, <2>2, EndsOnly
<1>7. CASE UNCHANGED vars
  <2>1. ErrorsUntouched /\ UNCHANGED <<handles, typed, pos>>
    BY <1>7 DEF vars, ErrorsUntouched
  <2> QED BY <2>1, NothingMoves
<1>8. ASSUME NEW c \in Comp,
             StreamNew(c) \/ LowerFlatStream(c) \/ LiftFlatStream(c) \/ LowerExternalStream(c)
             \/ FutureNew(c) \/ LowerFlatFuture(c) \/ LiftFlatFuture(c) \/ StreamTransfer(c)
      PROVE  EndInv'
  BY <1>1, <1>2, <1>3, <1>4, <1>6, <1>8
     DEF StreamNew, FutureNew, LowerFlatStream, LowerFlatFuture, LiftFlatStream, LiftFlatFuture
<1>9. ASSUME NEW l \in Local,
             \/ \E c \in Comp : \/ \E x \in Ctx : ErrorContextNew(c, x, l)
                                \/ \E m \in Local : ErrorContextTransfer(m, c, l)
             \/ ErrorContextDrop(l) \/ LiftFlatErrorContext(l)
      PROVE  EndInv'
  BY <1>9, NewEnds, ContextTransferEnds, ContextDropEnds, ContextLiftEnds
<1> QED BY <1>5, <1>7, <1>8, <1>9 DEF Next

-----------------------------------------------------------------------------
(* The invariant holds in every behaviour. *)
THEOREM EndTablesInvariant == Spec => []EndInv
BY InitEnds, NextEnds, PTL DEF Spec

(* Every end and every local error context is found where it records to be,  *)
(* in the component's handles and in the table of its type, and nowhere else, *)
(* however often addStreamEndToTable, deleteStreamEnd, createLocalHandle and *)
(* error-context.drop reuse the pairs of the tables.                         *)
THEOREM EndsStayFound == Spec => []Found
<1>1. EndInv => Found
  <2> SUFFICES ASSUME EndInv PROVE Found
    OBVIOUS
  <2>1. PICK W : W = Where(pos, loc)
    OBVIOUS
  <2>2. /\ Placed(handles, InHandles(W))
        /\ \A k \in Kinds : Placed(TypedOf(typed, k), InTyped(W, k))
    BY <2>1 DEF EndInv, PlaceInv, AllPlaced
  <2>3. \A c \in Comp, k \in Kinds : TypedOf(typed, k)[c] = typed[c][k]
    BY DEF TypedOf
  <2>4. ASSUME NEW o \in Obj, NEW c \in Comp, NEW v, v = W[o], NEW k, k = KindOf(o)
        PROVE  /\ RepsOf(handles[c], o) = IF v.comp = c THEN {v.widx} ELSE {}
               /\ RepsOf(typed[c][k], o) = IF v.comp = c THEN {v.hidx} ELSE {}
    <3>1. /\ InHandles(W)[o].comp = v.comp /\ InHandles(W)[o].idx = v.widx
          /\ InTyped(W, k)[o].comp = v.comp /\ InTyped(W, k)[o].idx = v.hidx
      BY <2>4 DEF InHandles, InTyped
    <3>2. k \in Kinds
      BY <2>4, KindType
    <3>3. RepsOf(handles[c], o) = IF v.comp = c THEN {v.widx} ELSE {}
      BY <3>1, <2>2, PlaceFound
    <3>4. RepsOf(TypedOf(typed, k)[c], o) = IF v.comp = c THEN {v.hidx} ELSE {}
      BY <3>1, <3>2, <2>2, PlaceFound
    <3> QED BY <3>2, <3>3, <3>4, <2>3
  <2>5. ASSUME NEW e \in Ends, NEW c \in Comp
        PROVE  /\ RepsOf(handles[c], e) = IF pos[e].comp = c THEN {pos[e].widx} ELSE {}
               /\ RepsOf(typed[c][Kind(e)], e) = IF pos[e].comp = c THEN {pos[e].hidx} ELSE {}
    <3>1. e \in Obj /\ W[e] = pos[e] /\ KindOf(e) = Kind(e)
      BY <2>1, WhereOfEnd
    <3> QED BY <3>1, <2>4
  <2>6. ASSUME NEW l \in Local, NEW c \in Comp
        PROVE  /\ RepsOf(handles[c], l) = IF loc[l].comp = c THEN {loc[l].widx} ELSE {}
               /\ RepsOf(typed[c]["error"], l) = IF loc[l].comp = c THEN {loc[l].lidx} ELSE {}
    <3>1. l \in Obj /\ W[l] = Recorded(loc[l]) /\ KindOf(l) = "error"
      BY <2>1, WhereOfLocal
    <3>2. W[l].comp = loc[l].comp /\ W[l].widx = loc[l].widx /\ W[l].hidx = loc[l].lidx
      BY <3>1 DEF Recorded
    <3> QED BY <3>1, <3>2, <2>4
  <2> QED BY <2>5, <2>6 DEF Found
<1> QED BY <1>1, EndTablesInvariant, PTL

(* The count of an error context is that of its handles, and it stays in the *)
(* global table for as long as somebody has one: error-context.drop removes  *)
(* it with the last, not earlier, whatever was transferred or lifted before. *)
THEOREM ContextsStayKept == Spec => []ContextKept
<1>1. EndInv => ContextKept
  BY DEF EndInv, CtxInv, KeptFor, Holders, ContextKept
<1> QED BY <1>1, EndTablesInvariant, PTL
=============================================================================
