--------------------------- MODULE RepTableLemmas ---------------------------
(***************************************************************************)
(* What insert() and remove() of a RepTable do, for a table of any size.   *)
(***************************************************************************)
EXTENDS RepTable, TLAPS

(* The free list of a table whose values are taken from Obj: a link leads to *)
(* a pair that holds no value and has no other link, every such pair has one, *)
(* and nothing lies past the end.                                            *)
LinksSound(T, Obj) ==
    /\ T.slot[0] \notin Obj
    /\ \A r \in Reps : r >= T.len => T.slot[r] = 0
    /\ \A p \in 0 .. MaxRep : T.slot[p] \in Reps =>
          T.slot[p] < T.len /\ T.slot[T.slot[p]] \notin Obj
    /\ \A p, q \in 0 .. MaxRep : T.slot[p] = T.slot[q] /\ T.slot[p] \in Reps => p = q
    /\ \A r \in Reps : r < T.len /\ T.slot[r] \notin Obj =>
          \E p \in 0 .. MaxRep : T.slot[p] = r

Sound(T, Obj) == T \in TableType(Obj) /\ LinksSound(T, Obj)

(* Nothing that is a value is a rep. *)
Apart(Obj) == Obj \cap 0 .. MaxRep = {}

(* The fields of a table have their types. *)
LEMMA TableFields ==
    ASSUME NEW Obj, NEW T \in TableType(Obj)
    PROVE  /\ T.slot \in [0 .. MaxRep -> Obj \cup 0 .. MaxRep] /\ T.len \in 1 .. MaxRep + 1
           /\ T.slot[0] \in Obj \cup 0 .. MaxRep
           /\ \A r \in Reps : T.slot[r] \in Obj \cup 0 .. MaxRep
<1>1. 0 \in 0 .. MaxRep /\ \A r \in Reps : r \in 0 .. MaxRep
  BY MaxRepAssumption DEF Reps
<1> QED BY <1>1 DEF TableType

(* A new table is sound. *)
LEMMA EmptySound ==
    ASSUME NEW Obj, Apart(Obj)
    PROVE  Sound(EmptyTable, Obj)
<1>1. /\ 0 \in 0 .. MaxRep /\ 0 \notin Reps /\ 1 \in 1 .. MaxRep + 1
      /\ \A r \in Reps : r \in 0 .. MaxRep /\ ~(r < 1)
  BY MaxRepAssumption DEF Reps
<1>2. EmptyTable \in TableType(Obj) /\ EmptyTable.len = 1
      /\ \A p \in 0 .. MaxRep : EmptyTable.slot[p] = 0
  BY <1>1 DEF EmptyTable, TableType
<1>3. 0 \notin Obj
  BY <1>1 DEF Apart
<1> QED
  BY <1>1, <1>2, <1>3 DEF Sound, LinksSound

(* The rep insert() takes holds no value. *)
LEMMA NextIsFree ==
    ASSUME NEW Obj, Apart(Obj), NEW T, Sound(T, Obj), HasRoom(T)
    PROVE  LET n == NextRep(T)
           IN  /\ n \in Reps /\ T.slot[n] \notin Obj
               /\ T.slot[0] \in 0 .. MaxRep
               /\ T.slot[0] = 0 => n = T.len /\ T.slot[n] = 0
               /\ T.slot[0] # 0 => n = T.slot[0] /\ n < T.len /\ T.slot[n] \in 0 .. MaxRep
<1>1. T.slot[0] \in 0 .. MaxRep /\ T.len \in 1 .. MaxRep + 1 /\ NextRep(T) \in Reps
  BY TableFields DEF Sound, LinksSound, HasRoom
<1>2. 0 \notin Obj /\ 0 \in 0 .. MaxRep
  BY MaxRepAssumption DEF Apart
<1>3. CASE T.slot[0] = 0
  <2>1. NextRep(T) = T.len
    BY <1>3 DEF NextRep
  <2>2. T.slot[T.len] = 0
    BY <2>1, <1>1 DEF Sound, LinksSound, Reps
  <2> QED BY <2>1, <2>2, <1>1, <1>2, <1>3
<1>4. CASE T.slot[0] # 0
  <2>1. NextRep(T) = T.slot[0]
    BY <1>4 DEF NextRep
  <2>2. T.slot[0] < T.len /\ T.slot[T.slot[0]] \notin Obj
    BY <2>1, <1>1, <1>2 DEF Sound, LinksSound
  <2>3. T.slot[T.slot[0]] \in 0 .. MaxRep
    BY <2>1, <2>2, <1>1, TableFields DEF Sound
  <2> QED BY <2>1, <2>2, <2>3, <1>1, <1>4
<1> QED BY <1>3, <1>4

(* insert(): the value is at the rep it returns, the other pairs are as they *)
(* were.                                                                     *)
LEMMA InsertKeeps ==
    ASSUME NEW Obj, Apart(Obj), NEW T, Sound(T, Obj), HasRoom(T), NEW val \in Obj
    PROVE  LET U == Insert(T, val)
           IN  /\ Sound(U, Obj)
               /\ U.slot[NextRep(T)] = val
               /\ \A r \in Reps \ {NextRep(T)} : U.slot[r] = T.slot[r]
               /\ T.len <= U.len
<1> DEFINE n == NextRep(T)
           f == T.slot[0]
           h == IF f = 0 THEN 0 ELSE T.slot[f]
           l == IF f = 0 THEN T.len + 1 ELSE T.len
           sl == [T.slot EXCEPT ![0] = h, ![n] = val]
           U == [slot |-> sl, len |-> l]
<1>1. Insert(T, val) = U
  BY DEF Insert
<1>2. /\ n \in Reps /\ T.slot[n] \notin Obj /\ f \in 0 .. MaxRep
      /\ f = 0 => n = T.len /\ T.slot[n] = 0
      /\ f # 0 => n = f /\ n < T.len /\ T.slot[n] \in 0 .. MaxRep
  BY NextIsFree
<1>3. /\ 0 \in 0 .. MaxRep /\ 0 \notin Reps /\ \A r \in Reps : r \in 0 .. MaxRep /\ r \in Nat
      /\ \A p \in 0 .. MaxRep : p = 0 \/ p \in Reps
  BY MaxRepAssumption DEF Reps
<1>4. T.slot \in [0 .. MaxRep -> Obj \cup 0 .. MaxRep] /\ T.len \in 1 .. MaxRep + 1
  BY TableFields DEF Sound
<1>5. h \in 0 .. MaxRep /\ (f = 0 => h = 0) /\ (f # 0 => h = T.slot[n])
  BY <1>2, <1>3
<1>6. l \in 1 .. MaxRep + 1 /\ T.len <= l /\ n < l /\ (f = 0 => l = T.len + 1) /\ (f # 0 => l = T.len)
  <2>1. n \in 1 .. MaxRep /\ T.len \in Nat
    BY <1>2, <1>4 DEF Reps
  <2> HIDE DEF n, f
  <2> QED BY <2>1, <1>2, <1>4, MaxRepAssumption
<1> HIDE DEF n, h, l
<1>7. /\ sl \in [0 .. MaxRep -> Obj \cup 0 .. MaxRep]
      /\ sl[0] = h /\ sl[n] = val
      /\ \A r \in Reps \ {n} : sl[r] = T.slot[r]
  BY <1>2, <1>3, <1>4, <1>5
<1>8. val \notin 0 .. MaxRep
  BY DEF Apart
<1>9. U \in TableType(Obj) /\ U.slot = sl /\ U.len = l
  BY <1>6, <1>7 DEF TableType
<1> HIDE DEF sl, U
<1>10. LinksSound(U, Obj)
  <2>0. /\ T.slot[0] \notin Obj
        /\ \A r \in Reps : r >= T.len => T.slot[r] = 0
        /\ \A p \in 0 .. MaxRep : T.slot[p] \in Reps =>
              T.slot[p] < T.len /\ T.slot[T.slot[p]] \notin Obj
        /\ \A p, q \in 0 .. MaxRep : T.slot[p] = T.slot[q] /\ T.slot[p] \in Reps => p = q
        /\ \A r \in Reps : r < T.len /\ T.slot[r] \notin Obj =>
              \E p \in 0 .. MaxRep : T.slot[p] = r
    BY DEF Sound, LinksSound
  <2>1. sl[0] \notin Obj
    BY <1>5, <1>7 DEF Apart
  <2>2. ASSUME NEW r \in Reps, r >= l PROVE sl[r] = 0
    <3>1. r >= T.len /\ r # n
      <4>1. r \in Nat /\ n \in Nat /\ T.len \in Nat /\ l \in Nat
        BY <1>2, <1>3, <1>4, <1>6
      <4> QED BY <4>1, <2>2, <1>6
    <3> QED BY <3>1, <2>0, <1>7
  <2>3. \A p \in 0 .. MaxRep : sl[p] \in Reps => sl[p] # n
    <3> SUFFICES ASSUME NEW p \in 0 .. MaxRep, sl[p] \in Reps, sl[p] = n PROVE FALSE
      OBVIOUS
    <3>1. p # n
      BY <1>3, <1>7, <1>8
    <3>2. CASE p = 0
      <4>1. f # 0 /\ T.slot[n] = n
        BY <3>2, <1>3, <1>5, <1>7
      <4>2. T.slot[0] = n /\ n \in Reps
        BY <4>1, <1>2
      <4> QED BY <4>1, <4>2, <2>0, <1>3
    <3>3. CASE p # 0
      <4>1. T.slot[p] = n /\ p \in Reps
        BY <3>1, <3>3, <1>3, <1>7
      <4>2. CASE f = 0
        <5>1. n < T.len
          BY <4>1, <2>0, <1>2
        <5>2. n = T.len /\ n \in Nat
          BY <4>2, <1>2, <1>3
        <5> QED BY <5>1, <5>2
      <4>3. CASE f # 0
        BY <3>3, <4>1, <4>3, <2>0, <1>2, <1>3
      <4> QED BY <4>2, <4>3
    <3> QED BY <3>2, <3>3
  <2>4. \A p \in 0 .. MaxRep : sl[p] \in Reps => \E q \in 0 .. MaxRep :
            T.slot[q] = sl[p] /\ (p = 0 => q = n) /\ (p # 0 => q = p)
    <3> SUFFICES ASSUME NEW p \in 0 .. MaxRep, sl[p] \in Reps
                 PROVE  \E q \in 0 .. MaxRep :
                            T.slot[q] = sl[p] /\ (p = 0 => q = n) /\ (p # 0 => q = p)
      OBVIOUS
    <3>1. CASE p = 0
      <4>1. f # 0 /\ T.slot[n] = sl[p]
        BY <3>1, <1>3, <1>5, <1>7
      <4> QED BY <4>1, <3>1, <1>2, <1>3
    <3>2. CASE p # 0
      <4>1. p # n
        BY <1>3, <1>7, <1>8
      <4> QED BY <4>1, <3>2, <1>3, <1>7
    <3> QED BY <3>1, <3>2
  <2>5. \A p \in 0 .. MaxRep : sl[p] \in Reps => sl[p] < l /\ sl[sl[p]] \notin Obj
    <3> SUFFICES ASSUME NEW p \in 0 .. MaxRep, sl[p] \in Reps
                 PROVE  sl[p] < l /\ sl[sl[p]] \notin Obj
      OBVIOUS
    <3>1. sl[p] < T.len /\ T.slot[sl[p]] \notin Obj
      BY <2>0, <2>4
    <3>2. sl[p] < l
      <4>1. sl[p] \in Nat /\ T.len \in Nat /\ l \in Nat
        BY <1>3, <1>4, <1>6
      <4> QED BY <4>1, <3>1, <1>6
    <3> QED BY <3>1, <3>2, <2>3, <1>7
  <2>6. \A p, q \in 0 .. MaxRep : sl[p] = sl[q] /\ sl[p] \in Reps => p = q
    <3> SUFFICES ASSUME NEW p \in 0 .. MaxRep, NEW q \in 0 .. MaxRep, sl[p] = sl[q], sl[p] \in Reps
                 PROVE  p = q
      OBVIOUS
    <3>1. PICK x \in 0 .. MaxRep : T.slot[x] = sl[p] /\ (p = 0 => x = n) /\ (p # 0 => x = p)
      BY <2>4
    <3>2. PICK y \in 0 .. MaxRep : T.slot[y] = sl[q] /\ (q = 0 => y = n) /\ (q # 0 => y = q)
      BY <2>4
    <3>3. x = y
      BY <3>1, <3>2, <2>0
    <3>4. p # n /\ q # n /\ n # 0
      BY <1>2, <1>3, <1>7, <1>8
    <3> QED BY <3>1, <3>2, <3>3, <3>4
  <2>7. ASSUME NEW r \in Reps, r < l, sl[r] \notin Obj
        PROVE  \E p \in 0 .. MaxRep : sl[p] = r
    <3>1. r # n /\ T.slot[r] = sl[r]
      BY <2>7, <1>7
    <3>2. r < T.len
      <4>1. r \in Nat /\ n \in Nat /\ T.len \in Nat
        BY <1>2, <1>3, <1>4
      <4>2. CASE f = 0
        BY <4>1, <4>2, <3>1, <2>7, <1>2, <1>6
      <4>3. CASE f # 0
        BY <4>3, <2>7, <1>6
      <4> QED BY <4>2, <4>3
    <3>3. PICK p \in 0 .. MaxRep : T.slot[p] = r
      BY <3>1, <3>2, <2>7, <2>0
    <3>4. CASE p = 0
      <4>1. f # 0
        BY <3>3, <3>4, <1>3
      <4> QED BY <4>1, <3>1, <3>3, <3>4, <1>2
    <3>5. CASE p = n
      <4>1. f # 0
        BY <3>3, <3>5, <1>2, <1>3
      <4>2. sl[0] = r
        BY <4>1, <3>3, <3>5, <1>5, <1>7
      <4> QED BY <4>2, <1>3
    <3>6. CASE p # 0 /\ p # n
      BY <3>3, <3>6, <1>3, <1>7
    <3> QED BY <3>4, <3>5, <3>6
  <2> QED BY <2>1, <2>2, <2>5, <2>6, <2>7, <1>9 DEF LinksSound
<1> QED
  BY <1>1, <1>6, <1>7, <1>9, <1>10 DEF Sound, n

(* remove() of a rep that is in use: its pair holds no value any more, the   *)
(* other pairs are as they were.                                             *)
LEMMA RemoveKeeps ==
    ASSUME NEW Obj, Apart(Obj), NEW T, Sound(T, Obj), NEW r \in Reps, T.slot[r] \in Obj
    PROVE  LET U == RemoveRep(T, r)
           IN  /\ Sound(U, Obj)
               /\ U.slot[r] \notin Obj
               /\ \A q \in Reps \ {r} : U.slot[q] = T.slot[q]
               /\ U.len = T.len
<1> DEFINE f == T.slot[0]
           sl == [T.slot EXCEPT ![r] = f, ![0] = r]
           U == RemoveRep(T, r)
<1>1. /\ 0 \in 0 .. MaxRep /\ 0 \notin Reps /\ \A x \in Reps : x \in 0 .. MaxRep /\ x \in Nat
      /\ \A p \in 0 .. MaxRep : p = 0 \/ p \in Reps
  BY MaxRepAssumption DEF Reps
<1>2. T.slot \in [0 .. MaxRep -> Obj \cup 0 .. MaxRep] /\ T.len \in 1 .. MaxRep + 1
  BY TableFields DEF Sound
<1>3. f \in 0 .. MaxRep /\ f \notin Obj
  BY TableFields DEF Sound, LinksSound
<1>4. /\ T.slot[0] \notin Obj
      /\ \A q \in Reps : q >= T.len => T.slot[q] = 0
      /\ \A p \in 0 .. MaxRep : T.slot[p] \in Reps =>
            T.slot[p] < T.len /\ T.slot[T.slot[p]] \notin Obj
      /\ \A p, q \in 0 .. MaxRep : T.slot[p] = T.slot[q] /\ T.slot[p] \in Reps => p = q
      /\ \A q \in Reps : q < T.len /\ T.slot[q] \notin Obj =>
            \E p \in 0 .. MaxRep : T.slot[p] = q
  BY DEF Sound, LinksSound
<1>5. r < T.len
  <2>1. T.slot[r] # 0
    BY <1>1 DEF Apart
  <2>2. r \in Nat /\ T.len \in Nat
    BY <1>1, <1>2
  <2> QED BY <2>1, <2>2, <1>4
<1>6. /\ sl \in [0 .. MaxRep -> Obj \cup 0 .. MaxRep]
      /\ sl[0] = r /\ sl[r] = f /\ \A q \in Reps \ {r} : sl[q] = T.slot[q]
  BY <1>1, <1>2, <1>3
<1>7. U \in TableType(Obj) /\ U.slot = sl /\ U.len = T.len
  <2>1. U = [T EXCEPT !.slot = sl]
    BY DEF RemoveRep
  <2>2. T \in TableType(Obj)
    BY DEF Sound
  <2> HIDE DEF sl
  <2> QED BY <2>1, <2>2, <1>6 DEF TableType
<1> HIDE DEF sl, U
<1>8. \A p \in 0 .. MaxRep : T.slot[p] # r
  BY <1>4
<1>9. \A p \in 0 .. MaxRep : sl[p] \in Reps /\ p # 0 => \E q \in 0 .. MaxRep :
          T.slot[q] = sl[p] /\ (p = r => q = 0) /\ (p # r => q = p)
  BY <1>1, <1>6
<1>10. LinksSound(U, Obj)
  <2>1. sl[0] \notin Obj
    BY <1>1, <1>6 DEF Apart
  <2>2. ASSUME NEW x \in Reps, x >= T.len PROVE sl[x] = 0
    <3>1. x # r
      <4>1. x \in Nat /\ r \in Nat /\ T.len \in Nat
        BY <1>1, <1>2
      <4> QED BY <4>1, <2>2, <1>5
    <3> QED BY <3>1, <2>2, <1>4, <1>6
  <2>3. ASSUME NEW p \in 0 .. MaxRep, sl[p] \in Reps
        PROVE  sl[p] < T.len /\ sl[sl[p]] \notin Obj
    <3>1. CASE p = 0
      BY <3>1, <1>3, <1>5, <1>6
    <3>2. CASE p # 0
      <4>1. PICK q \in 0 .. MaxRep : T.slot[q] = sl[p]
        BY <3>2, <2>3, <1>9
      <4>2. sl[p] < T.len /\ T.slot[sl[p]] \notin Obj
        BY <4>1, <2>3, <1>4
      <4>3. sl[p] # r
        BY <4>2
      <4> QED BY <4>2, <4>3, <2>3, <1>6
    <3> QED BY <3>1, <3>2
  <2>4. ASSUME NEW p \in 0 .. MaxRep, NEW q \in 0 .. MaxRep, sl[p] = sl[q], sl[p] \in Reps
        PROVE  p = q
    <3>1. CASE p = 0 \/ q = 0
      <4>1. \A x \in 0 .. MaxRep : x # 0 /\ sl[x] \in Reps => sl[x] # r
        BY <1>8, <1>9
      <4> QED BY <4>1, <3>1, <2>4, <1>6
    <3>2. CASE p # 0 /\ q # 0
      <4>1. PICK x \in 0 .. MaxRep : T.slot[x] = sl[p] /\ (p = r => x = 0) /\ (p # r => x = p)
        BY <3>2, <2>4, <1>9
      <4>2. PICK y \in 0 .. MaxRep : T.slot[y] = sl[q] /\ (q = r => y = 0) /\ (q # r => y = q)
        BY <3>2, <2>4, <1>9
      <4>3. x = y
        BY <4>1, <4>2, <2>4, <1>4
      <4> QED BY <4>1, <4>2, <4>3, <3>2
    <3> QED BY <3>1, <3>2
  <2>5. ASSUME NEW x \in Reps, x < T.len, sl[x] \notin Obj
        PROVE  \E p \in 0 .. MaxRep : sl[p] = x
    <3>1. CASE x = r
      BY <3>1, <1>1, <1>6
    <3>2. CASE x # r
      <4>1. PICK p \in 0 .. MaxRep : T.slot[p] = x
        BY <3>2, <2>5, <1>4, <1>6
      <4>2. CASE p = 0
        BY <4>1, <4>2, <1>1, <1>6
      <4>3. CASE p # 0
        <5>1. p # r
          BY <4>1 DEF Apart, Reps
        <5> QED BY <5>1, <4>1, <4>3, <1>1, <1>6
      <4> QED BY <4>2, <4>3
    <3> QED BY <3>1, <3>2
  <2> QED BY <2>1, <2>2, <2>3, <2>4, <2>5, <1>7 DEF LinksSound
<1>11. U.slot[r] \notin Obj
  BY <1>3, <1>6, <1>7
<1>12. Sound(U, Obj) /\ U.slot[r] \notin Obj /\ (\A q \in Reps \ {r} : U.slot[q] = T.slot[q]) /\ U.len = T.len
  BY <1>6, <1>7, <1>10, <1>11 DEF Sound
<1> QED BY <1>12 DEF U

(* What a value can be reached by, when nothing lies past the end. *)
LEMMA RepsOfValue ==
    ASSUME NEW Obj, Apart(Obj), NEW T, Sound(T, Obj), NEW x \in Obj
    PROVE  RepsOf(T, x) = {r \in Reps : T.slot[r] = x}
<1>1. x # 0
  BY MaxRepAssumption DEF Apart
<1>2. \A r \in Reps : T.slot[r] = x => r < T.len
  <2>1. \A r \in Reps : r \in Nat
    BY DEF Reps
  <2>2. T.len \in Nat
    BY TableFields DEF Sound
  <2> QED BY <2>1, <2>2, <1>1 DEF Sound, LinksSound
<1> QED BY <1>2 DEF RepsOf
=============================================================================
