-------------------------- MODULE HandleTableProofs -------------------------
(***************************************************************************)
(* What the operations on a handle table do to its pairs and to its free   *)
(* list, and theorems about HandleTableUse, for any bound on the handles   *)
(* and any reps.                                                           *)
(***************************************************************************)
EXTENDS HandleTableUse, FiniteSetTheorems, TLAPS

USE HandleAssumption, RepsAssumption

(* Two updates of a typed function. *)
LEMMA TwoUpdates ==
    ASSUME NEW D, NEW R, NEW f \in [D -> R], NEW a \in D, NEW b \in D,
           NEW x \in R, NEW y \in R
    PROVE  /\ [f EXCEPT ![a] = x, ![b] = y] \in [D -> R]
           /\ \A d \in D : [f EXCEPT ![a] = x, ![b] = y][d] =
                 IF d = b THEN y ELSE IF d = a THEN x ELSE f[d]
OBVIOUS

(* The fields of a table have their types. *)
LEMMA TableFields ==
    ASSUME NEW S \in TableType
    PROVE  /\ S.flag \in [0 .. MaxHandle -> BOOLEAN]
           /\ S.num \in [0 .. MaxHandle -> 0 .. MaxHandle]
           /\ S.own \in [0 .. MaxHandle -> BOOLEAN]
           /\ S.rep \in [0 .. MaxHandle -> Reps \cup {0}]
           /\ S.len \in 1 .. MaxHandle + 1
BY DEF TableType

(* A handle for which there is room is none that is in use, and its pair is   *)
(* the first free one or the end of the array.                                *)
LEMMA NextHandleFree ==
    ASSUME NEW S \in TableType, LinksSound(S), HasRoom(S)
    PROVE  /\ NextHandle(S) \in Handles
           /\ ~Live(S, NextHandle(S))
           /\ S.num[0] # 0 => S.flag[NextHandle(S)] /\ NextHandle(S) = S.num[0]
           /\ S.num[0] = 0 => NextHandle(S) = S.len
<1> DEFINE h == NextHandle(S)
<1>0. h \in Handles /\ h \in 0 .. MaxHandle /\ S.flag[0]
  BY DEF HasRoom, LinksSound, Handles
<1>1. CASE S.num[0] # 0
  <2>1. h = S.num[0]
    BY <1>1 DEF NextHandle
  <2>2. S.flag[h]
    BY <1>0, <2>1 DEF LinksSound
  <2> QED
    BY <1>0, <1>1, <2>1, <2>2 DEF Live
<1>2. CASE S.num[0] = 0
  <2>1. h = S.len
    BY <1>2 DEF NextHandle
  <2>2. ~Live(S, h)
    BY <1>0, <2>1, TableFields DEF LinksSound
  <2> QED
    BY <1>0, <1>2, <2>1, <2>2
<1> QED
  BY <1>1, <1>2

(* Creation keeps the types. *)
LEMMA CreateType ==
    ASSUME NEW S \in TableType, LinksSound(S), HasRoom(S),
           NEW r \in Reps \cup {0}, NEW o \in BOOLEAN
    PROVE  Create(S, r, o) \in TableType
<1> DEFINE h == NextHandle(S)
<1>1. h \in Handles /\ h \in 0 .. MaxHandle
  BY NextHandleFree DEF Handles
<1>2. HeadAfterCreate(S) \in 0 .. MaxHandle
  BY TableFields DEF HeadAfterCreate
<1>3. (IF S.num[0] = 0 THEN S.len + 1 ELSE S.len) \in 1 .. MaxHandle + 1
  <2>1. S.len \in 1 .. MaxHandle + 1 /\ MaxHandle \in Nat
    BY TableFields, HandleAssumption
  <2>2. S.num[0] = 0 => S.len \in 1 .. MaxHandle
    BY <1>1 DEF NextHandle, Handles
  <2>3. S.num[0] = 0 => S.len + 1 \in 1 .. MaxHandle + 1
    BY <2>1, <2>2
  <2> QED BY <2>1, <2>3
<1> HIDE DEF h
<1>4. /\ [S.flag EXCEPT ![h] = FALSE] \in [0 .. MaxHandle -> BOOLEAN]
      /\ [S.own EXCEPT ![h] = o] \in [0 .. MaxHandle -> BOOLEAN]
      /\ [S.rep EXCEPT ![h] = r] \in [0 .. MaxHandle -> Reps \cup {0}]
  BY <1>1, TableFields
<1>5. [S.num EXCEPT ![0] = HeadAfterCreate(S), ![h] = 0]
         \in [0 .. MaxHandle -> 0 .. MaxHandle]
  <2>1. 0 \in 0 .. MaxHandle /\ S.num \in [0 .. MaxHandle -> 0 .. MaxHandle]
    BY TableFields
  <2> QED
    BY <1>1, <1>2, <2>1, TwoUpdates, Zenon
<1> QED
  BY <1>3, <1>4, <1>5 DEF Create, TableType, h

(* Removal keeps the types. *)
LEMMA RemoveType ==
    ASSUME NEW S \in TableType, NEW h \in 0 .. MaxHandle
    PROVE  Remove(S, h) \in TableType
<1>1. (IF h < S.len THEN S.len ELSE h + 1) \in 1 .. MaxHandle + 1
  BY TableFields
<1>2. [S.flag EXCEPT ![h] = TRUE] \in [0 .. MaxHandle -> BOOLEAN]
  BY TableFields
<1>3. [S.num EXCEPT ![h] = S.num[0], ![0] = h] \in [0 .. MaxHandle -> 0 .. MaxHandle]
  <2>1. /\ 0 \in 0 .. MaxHandle /\ S.num \in [0 .. MaxHandle -> 0 .. MaxHandle]
        /\ S.num[0] \in 0 .. MaxHandle
    BY TableFields
  <2> QED
    BY <2>1, TwoUpdates, Zenon
<1> QED
  BY <1>1, <1>2, <1>3, TableFields
     DEF Remove, FlagsAfterRemove, LinkAfterRemove, TableType

(* What creation does to each pair. *)
LEMMA CreateFields ==
    ASSUME NEW S \in TableType, LinksSound(S), HasRoom(S), NEW r, NEW o,
           NEW g \in 0 .. MaxHandle
    PROVE  LET h == NextHandle(S)
               C == Create(S, r, o)
           IN  /\ g = h => /\ ~C.flag[g] /\ C.num[g] = 0
                           /\ C.own[g] = o /\ C.rep[g] = r
               /\ g # h => /\ C.flag[g] = S.flag[g] /\ C.own[g] = S.own[g]
                           /\ C.rep[g] = S.rep[g]
                           /\ g = 0 => C.num[g] = HeadAfterCreate(S)
                           /\ g # 0 => C.num[g] = S.num[g]
               /\ S.num[0] = 0 => C.len = S.len + 1
               /\ S.num[0] # 0 => C.len = S.len
<1> DEFINE h == NextHandle(S)
<1>1. h \in 0 .. MaxHandle
  BY NextHandleFree DEF Handles
<1> HIDE DEF h
<1>2. g = h => /\ ~[S.flag EXCEPT ![h] = FALSE][g]
               /\ [S.own EXCEPT ![h] = o][g] = o
               /\ [S.rep EXCEPT ![h] = r][g] = r
  BY <1>1, TableFields
<1>3. g # h => /\ [S.flag EXCEPT ![h] = FALSE][g] = S.flag[g]
               /\ [S.own EXCEPT ![h] = o][g] = S.own[g]
               /\ [S.rep EXCEPT ![h] = r][g] = S.rep[g]
  BY <1>1, TableFields
<1>4. LET n == [S.num EXCEPT ![0] = HeadAfterCreate(S), ![h] = 0]
      IN  /\ g = h => n[g] = 0
          /\ g # h /\ g = 0 => n[g] = HeadAfterCreate(S)
          /\ g # h /\ g # 0 => n[g] = S.num[g]
  BY <1>1, TableFields
<1> QED
  BY <1>2, <1>3, <1>4 DEF Create, h

(* What removal does to each pair. *)
LEMMA RemoveFields ==
    ASSUME NEW S \in TableType, NEW h \in 0 .. MaxHandle, NEW g \in 0 .. MaxHandle
    PROVE  LET R == Remove(S, h)
           IN  /\ g = h => R.flag[g]
               /\ g # h => R.flag[g] = S.flag[g]
               /\ g = 0 => R.num[g] = h
               /\ g # 0 /\ g = h => R.num[g] = S.num[0]
               /\ g # 0 /\ g # h => R.num[g] = S.num[g]
               /\ R.own[g] = S.own[g] /\ R.rep[g] = S.rep[g]
               /\ h < S.len => R.len = S.len
               /\ ~(h < S.len) => R.len = h + 1
<1>1. /\ g = h => [S.flag EXCEPT ![h] = TRUE][g]
      /\ g # h => [S.flag EXCEPT ![h] = TRUE][g] = S.flag[g]
  BY TableFields
<1>2. LET n == [S.num EXCEPT ![h] = S.num[0], ![0] = h]
      IN  /\ g = 0 => n[g] = h
          /\ g # 0 /\ g = h => n[g] = S.num[0]
          /\ g # 0 /\ g # h => n[g] = S.num[g]
  BY TableFields
<1> QED
  BY <1>1, <1>2 DEF Remove, FlagsAfterRemove, LinkAfterRemove

(* Where the links of a sound table lead. *)
LEMMA SoundLinks ==
    ASSUME NEW S \in TableType, LinksSound(S), NEW g \in 0 .. MaxHandle, S.flag[g]
    PROVE  /\ g < S.len /\ S.num[g] \in 0 .. MaxHandle
           /\ S.flag[S.num[g]]
<1>1. S.num[g] \in 0 .. MaxHandle
  BY TableFields
<1> QED
  BY <1>1 DEF LinksSound

(* No two of them lead to the same pair. *)
LEMMA SoundInjective ==
    ASSUME NEW S \in TableType, LinksSound(S),
           NEW g \in 0 .. MaxHandle, NEW k \in 0 .. MaxHandle,
           S.flag[g], S.flag[k], S.num[g] = S.num[k]
    PROVE  g = k
BY DEF LinksSound

(* Its head is flagged, and nothing is in use past its end. *)
LEMMA SoundEnds ==
    ASSUME NEW S \in TableType, LinksSound(S)
    PROVE  /\ 0 \in 0 .. MaxHandle /\ S.flag[0] /\ ~Live(S, 0)
           /\ \A g \in 0 .. MaxHandle : g >= S.len => ~Live(S, g)
BY DEF LinksSound

(* Creation pops the free list: it keeps the links sound. *)
LEMMA CreateSound ==
    ASSUME NEW S \in TableType, LinksSound(S), HasRoom(S), NEW r, NEW o
    PROVE  LinksSound(Create(S, r, o))
<1> DEFINE h == NextHandle(S)
           C == Create(S, r, o)
<1>1. /\ h \in 0 .. MaxHandle /\ h # 0 /\ 0 \in 0 .. MaxHandle
      /\ S.num[0] # 0 => S.flag[h] /\ h = S.num[0]
      /\ S.num[0] = 0 => h = S.len
  BY NextHandleFree DEF Handles
<1>2. ASSUME NEW g \in 0 .. MaxHandle
      PROVE  /\ g = h => ~C.flag[g]
             /\ g # h => /\ C.flag[g] = S.flag[g] /\ C.own[g] = S.own[g]
                         /\ C.rep[g] = S.rep[g]
                         /\ g = 0 => C.num[g] = HeadAfterCreate(S)
                         /\ g # 0 => C.num[g] = S.num[g]
             /\ S.num[0] = 0 => C.len = S.len + 1
             /\ S.num[0] # 0 => C.len = S.len
  BY CreateFields
<1> HIDE DEF h, C
<1>3. ASSUME NEW g \in 0 .. MaxHandle, g # h PROVE Live(C, g) <=> Live(S, g)
  BY <1>2, <1>3 DEF Live
<1>4. C.flag[0] /\ ~Live(C, 0)
  <2>1. C.flag[0]
    BY <1>1, <1>2, SoundEnds
  <2> QED
    BY <2>1 DEF Live
<1>5. ASSUME NEW g \in 0 .. MaxHandle, C.flag[g] PROVE g # h /\ S.flag[g]
  BY <1>2, <1>5
<1>6. S.len \in Nat /\ C.len \in Nat /\ C.len >= S.len
  <2>1. S.len \in Nat
    BY TableFields
  <2> QED
    BY <1>1, <1>2, <2>1
(* The link of a free pair, old or new. *)
<1>7. S.num[0] # 0 => C.num[0] = S.num[h]
  BY <1>1, <1>2 DEF HeadAfterCreate
<1>8. ASSUME NEW g \in 0 .. MaxHandle, g # h, g # 0 \/ S.num[0] = 0
      PROVE  C.num[g] = S.num[g]
  BY <1>2, <1>8 DEF HeadAfterCreate
<1>9. ASSUME NEW g \in 0 .. MaxHandle, C.flag[g] PROVE g < C.len /\ C.flag[C.num[g]]
  <2>0. g # h /\ S.flag[g]
    BY <1>5, <1>9
  <2>1. g < C.len
    <3>1. g < S.len
      BY <2>0, SoundLinks
    <3> QED
      BY <1>6, <3>1
  <2>2. CASE S.num[0] = 0
    <3>1. C.num[g] = S.num[g]
      BY <1>8, <2>0, <2>2
    <3>2. S.num[g] \in 0 .. MaxHandle /\ S.flag[S.num[g]]
      BY <2>0, SoundLinks
    <3>3. S.num[g] < S.len
      BY <3>2, SoundLinks
    <3>4. S.num[g] # h
      BY <1>1, <1>6, <2>2, <3>3
    <3> QED
      BY <1>2, <2>1, <3>1, <3>2, <3>4
  <2>3. CASE S.num[0] # 0 /\ g = 0
    <3>1. C.num[g] = S.num[h]
      BY <1>7, <2>3
    <3>2. S.num[h] \in 0 .. MaxHandle /\ S.flag[S.num[h]]
      BY <1>1, <2>3, SoundLinks
    <3>3. S.num[h] # h
      <4>1. SUFFICES ASSUME S.num[h] = h PROVE FALSE
        OBVIOUS
      <4>2. S.num[h] = S.num[0]
        BY <1>1, <2>3, <4>1
      <4> QED
        BY <1>1, <2>3, <4>2, SoundInjective, SoundEnds
    <3> QED
      BY <1>2, <2>1, <3>1, <3>2, <3>3
  <2>4. CASE S.num[0] # 0 /\ g # 0
    <3>1. C.num[g] = S.num[g]
      BY <1>8, <2>0, <2>4
    <3>2. S.num[g] \in 0 .. MaxHandle /\ S.flag[S.num[g]]
      BY <2>0, SoundLinks
    <3>3. S.num[g] # h
      <4>1. SUFFICES ASSUME S.num[g] = h PROVE FALSE
        OBVIOUS
      <4>2. S.num[g] = S.num[0]
        BY <1>1, <2>4, <4>1
      <4> QED
        BY <1>1, <2>0, <2>4, <4>2, SoundInjective, SoundEnds
    <3> QED
      BY <1>2, <2>1, <3>1, <3>2, <3>3
  <2> QED
    BY <2>2, <2>3, <2>4
<1>10. ASSUME NEW g \in 0 .. MaxHandle, NEW k \in 0 .. MaxHandle,
              C.flag[g], C.flag[k], C.num[g] = C.num[k]
       PROVE  g = k
  <2>1. g # h /\ k # h /\ S.flag[g] /\ S.flag[k]
    BY <1>5, <1>10
  <2>2. CASE S.num[0] = 0 \/ (g # 0 /\ k # 0)
    <3>1. S.num[g] = S.num[k]
      BY <1>8, <1>10, <2>1, <2>2
    <3> QED
      BY <2>1, <3>1, SoundInjective
  <2>3. CASE S.num[0] # 0 /\ g = 0 /\ k # 0
    <3>1. S.num[h] = S.num[k] /\ S.flag[h]
      BY <1>1, <1>7, <1>8, <1>10, <2>1, <2>3
    <3> QED
      BY <1>1, <2>1, <3>1, SoundInjective
  <2>4. CASE S.num[0] # 0 /\ k = 0 /\ g # 0
    <3>1. S.num[h] = S.num[g] /\ S.flag[h]
      BY <1>1, <1>7, <1>8, <1>10, <2>1, <2>4
    <3> QED
      BY <1>1, <2>1, <3>1, SoundInjective
  <2> QED
    BY <2>2, <2>3, <2>4
<1>11. ASSUME NEW g \in 0 .. MaxHandle, g >= C.len PROVE ~Live(C, g)
  <2>1. g >= S.len
    BY <1>6, <1>11
  <2>2. g # h
    <3>1. CASE S.num[0] = 0
      BY <1>1, <1>2, <1>6, <1>11, <3>1
    <3>2. CASE S.num[0] # 0
      <4>1. h < S.len
        BY <1>1, <3>2, SoundLinks
      <4> QED
        BY <1>6, <2>1, <4>1
    <3> QED
      BY <3>1, <3>2
  <2> QED
    BY <1>3, <2>1, <2>2, SoundEnds
<1> QED
  BY <1>4, <1>9, <1>10, <1>11 DEF LinksSound, C

(* Removal pushes a pair that was not free: it keeps the links sound. *)
LEMMA RemoveSound ==
    ASSUME NEW S \in TableType, LinksSound(S), NEW h \in 0 .. MaxHandle,
           Removable(S, h)
    PROVE  LinksSound(Remove(S, h))
<1> DEFINE R == Remove(S, h)
<1>1. h # 0 /\ ~S.flag[h] /\ 0 \in 0 .. MaxHandle
  BY SoundEnds DEF Removable
<1>2. ASSUME NEW g \in 0 .. MaxHandle
      PROVE  /\ g = h => R.flag[g]
             /\ g # h => R.flag[g] = S.flag[g]
             /\ g = 0 => R.num[g] = h
             /\ g # 0 /\ g = h => R.num[g] = S.num[0]
             /\ g # 0 /\ g # h => R.num[g] = S.num[g]
             /\ R.own[g] = S.own[g] /\ R.rep[g] = S.rep[g]
             /\ h < S.len => R.len = S.len
             /\ ~(h < S.len) => R.len = h + 1
  BY RemoveFields
<1> HIDE DEF R
<1>3. R.flag[0] /\ ~Live(R, 0)
  <2>1. R.flag[0]
    BY <1>1, <1>2, SoundEnds
  <2> QED
    BY <2>1 DEF Live
<1>4. S.len \in Nat /\ R.len \in Nat /\ R.len >= S.len /\ h < R.len
  <2>1. S.len \in Nat
    BY TableFields
  <2> QED
    BY <1>1, <1>2, <2>1
<1>5. ASSUME NEW g \in 0 .. MaxHandle, g # h PROVE Live(R, g) <=> Live(S, g)
  BY <1>2, <1>5 DEF Live
<1>6. ASSUME NEW g \in 0 .. MaxHandle, S.flag[g] PROVE R.flag[g]
  BY <1>2, <1>6
(* The link of each flagged pair. *)
<1>7. R.num[0] = h /\ R.num[h] = S.num[0]
  BY <1>1, <1>2
<1>8. ASSUME NEW g \in 0 .. MaxHandle, R.flag[g], g # 0, g # h
      PROVE  S.flag[g] /\ R.num[g] = S.num[g]
  BY <1>2, <1>8
<1>9. S.num[0] \in 0 .. MaxHandle /\ S.flag[0] /\ S.flag[S.num[0]]
  BY <1>1, SoundEnds, SoundLinks
<1>10. ASSUME NEW g \in 0 .. MaxHandle, R.flag[g] PROVE g < R.len /\ R.flag[R.num[g]]
  <2>1. CASE g = 0
    BY <1>2, <1>4, <1>7, <2>1
  <2>2. CASE g = h
    BY <1>4, <1>6, <1>7, <1>9, <2>2
  <2>3. CASE g # 0 /\ g # h
    <3>1. S.flag[g] /\ R.num[g] = S.num[g]
      BY <1>8, <1>10, <2>3
    <3>2. g < S.len /\ S.num[g] \in 0 .. MaxHandle /\ S.flag[S.num[g]]
      BY <3>1, SoundLinks
    <3>3. g < R.len
      BY <1>4, <3>2
    <3> QED
      BY <1>6, <3>1, <3>2, <3>3
  <2> QED
    BY <2>1, <2>2, <2>3
<1>11. ASSUME NEW g \in 0 .. MaxHandle, R.flag[g], g # 0 PROVE R.num[g] # h
  <2>1. CASE g = h
    BY <1>1, <1>7, <1>9, <2>1
  <2>2. CASE g # h
    <3>1. S.flag[S.num[g]] /\ R.num[g] = S.num[g]
      BY <1>8, <1>11, <2>2, SoundLinks
    <3> QED
      BY <1>1, <3>1
  <2> QED
    BY <2>1, <2>2
<1>12. ASSUME NEW g \in 0 .. MaxHandle, R.flag[g], g # 0, g # h
       PROVE  R.num[g] # R.num[h]
  <2>1. S.flag[g] /\ R.num[g] = S.num[g]
    BY <1>8, <1>12
  <2> QED
    BY <1>1, <1>7, <1>9, <1>12, <2>1, SoundInjective
<1>13. ASSUME NEW g \in 0 .. MaxHandle, NEW k \in 0 .. MaxHandle,
              R.flag[g], R.flag[k], R.num[g] = R.num[k]
       PROVE  g = k
  <2>1. CASE g = 0 \/ k = 0
    BY <1>7, <1>11, <1>13, <2>1
  <2>2. CASE g # 0 /\ k # 0 /\ (g = h \/ k = h)
    BY <1>12, <1>13, <2>2
  <2>3. CASE g # 0 /\ k # 0 /\ g # h /\ k # h
    <3>1. S.flag[g] /\ S.flag[k] /\ S.num[g] = S.num[k]
      BY <1>8, <1>13, <2>3
    <3> QED
      BY <3>1, SoundInjective
  <2> QED
    BY <2>1, <2>2, <2>3
<1>14. ASSUME NEW g \in 0 .. MaxHandle, g >= R.len PROVE ~Live(R, g)
  <2>1. g >= S.len /\ g # h
    BY <1>4, <1>14
  <2> QED
    BY <1>5, <2>1, SoundEnds
<1> QED
  BY <1>3, <1>10, <1>13, <1>14 DEF LinksSound, R

(* The empty table is typed, its free list sound, and nothing in use. *)
LEMMA EmptySound ==
    /\ EmptyTable \in TableType /\ LinksSound(EmptyTable)
    /\ \A h \in 0 .. MaxHandle : ~Live(EmptyTable, h)
<1>1. EmptyTable \in TableType
  BY DEF EmptyTable, TableType
<1>2. \A h \in 0 .. MaxHandle :
         /\ EmptyTable.flag[h] = (h = 0) /\ EmptyTable.num[h] = 0
         /\ EmptyTable.own[h] = FALSE /\ EmptyTable.rep[h] = 0
  BY DEF EmptyTable
<1>3. EmptyTable.len = 1 /\ 0 \in 0 .. MaxHandle
  BY DEF EmptyTable
<1>4. \A h \in 0 .. MaxHandle : ~Live(EmptyTable, h) /\ (EmptyTable.flag[h] <=> h = 0)
  BY <1>2 DEF Live
<1>5. \A h \in 0 .. MaxHandle :
         EmptyTable.flag[h] => h < EmptyTable.len /\ EmptyTable.flag[EmptyTable.num[h]]
  BY <1>2, <1>3, <1>4
<1>6. LinksSound(EmptyTable)
  BY <1>3, <1>4, <1>5 DEF LinksSound
<1> QED
  BY <1>1, <1>4, <1>6

(* What a caller sees of a creation: one more handle in use, the others as    *)
(* they were.                                                                 *)
LEMMA CreateView ==
    ASSUME NEW S \in TableType, LinksSound(S), HasRoom(S),
           NEW r \in Reps, NEW o \in BOOLEAN
    PROVE  LET n == NextHandle(S)
               C == Create(S, r, o)
           IN  /\ C \in TableType /\ LinksSound(C)
               /\ n \in Handles /\ ~Live(S, n)
               /\ Live(C, n) /\ C.own[n] = o /\ C.rep[n] = r
               /\ \A g \in Handles : g # n =>
                     /\ Live(C, g) <=> Live(S, g)
                     /\ C.own[g] = S.own[g] /\ C.rep[g] = S.rep[g]
<1> DEFINE n == NextHandle(S)
           C == Create(S, r, o)
<1>1. r \in Reps \cup {0} /\ r # 0 /\ Handles \subseteq 0 .. MaxHandle
  BY DEF Handles
<1>2. C \in TableType /\ LinksSound(C) /\ n \in Handles /\ ~Live(S, n)
  BY <1>1, CreateType, CreateSound, NextHandleFree
<1>3. ~C.flag[n] /\ C.own[n] = o /\ C.rep[n] = r
  BY <1>1, <1>2, CreateFields
<1>4. ASSUME NEW g \in Handles, g # n
      PROVE  C.flag[g] = S.flag[g] /\ C.own[g] = S.own[g] /\ C.rep[g] = S.rep[g]
  BY <1>1, <1>4, CreateFields
<1>5. ASSUME NEW g \in Handles, g # n PROVE Live(C, g) <=> Live(S, g)
  BY <1>4, <1>5 DEF Live
<1>6. Live(C, n)
  BY <1>1, <1>3 DEF Live
<1> QED
  BY <1>2, <1>3, <1>4, <1>5, <1>6

(* ... and of a removal: one handle less. *)
LEMMA RemoveView ==
    ASSUME NEW S \in TableType, LinksSound(S), NEW h \in Handles, Live(S, h)
    PROVE  LET R == Remove(S, h)
           IN  /\ R \in TableType /\ LinksSound(R) /\ Removable(S, h)
               /\ ~Live(R, h)
               /\ \A g \in Handles : /\ g # h => (Live(R, g) <=> Live(S, g))
                                     /\ R.own[g] = S.own[g] /\ R.rep[g] = S.rep[g]
<1> DEFINE R == Remove(S, h)
<1>1. Removable(S, h) /\ h \in 0 .. MaxHandle /\ Handles \subseteq 0 .. MaxHandle
  BY DEF Live, Removable, Handles
<1>2. R \in TableType /\ LinksSound(R)
  BY <1>1, RemoveType, RemoveSound
<1>3. ASSUME NEW g \in Handles
      PROVE  /\ g = h => R.flag[g]
             /\ g # h => R.flag[g] = S.flag[g]
             /\ R.own[g] = S.own[g] /\ R.rep[g] = S.rep[g]
  BY <1>1, RemoveFields
<1>4. ASSUME NEW g \in Handles
      PROVE  g = h => ~Live(R, g)
  BY <1>3 DEF Live
<1>5. ASSUME NEW g \in Handles, g # h PROVE Live(R, g) <=> Live(S, g)
  BY <1>3, <1>5 DEF Live
<1> QED
  BY <1>1, <1>2, <1>3, <1>4, <1>5

(* The free handles are finitely many. *)
LEMMA FreeFinite == ASSUME NEW S PROVE IsFiniteSet(FreeHandles(S)) /\ Cardinality(FreeHandles(S)) \in Nat
<1>1. IsFiniteSet(Handles)
  BY FS_Interval DEF Handles
<1>2. FreeHandles(S) \in SUBSET Handles
  BY DEF FreeHandles
<1> QED BY <1>1, <1>2, FS_Subset, FS_CardinalityType

(* A free list of a new table is empty. *)
LEMMA EmptyComplete == FreeListComplete(EmptyTable)
<1>0. 0 \in 0 .. MaxHandle /\ \A h \in Handles : h \in 0 .. MaxHandle /\ h # 0
  BY DEF Handles
<1>1. FreeHandles(EmptyTable) = {} /\ EmptyTable.num[0] = 0
  <2>1. EmptyTable.num[0] = 0
    BY <1>0 DEF EmptyTable
  <2>2. \A h \in Handles : ~EmptyTable.flag[h]
    BY <1>0 DEF EmptyTable
  <2> QED BY <2>1, <2>2 DEF FreeHandles
<1>2. Cardinality(FreeHandles(EmptyTable)) = 0
  BY <1>1, FS_EmptySet
<1>3. PICK f : f \in [1 .. 0 -> {}]
  <2>1. [i \in 1 .. 0 |-> 0] \in [1 .. 0 -> {}]
    OBVIOUS
  <2> QED BY <2>1
<1>4. IsFreeList(EmptyTable, f, 0)
  BY <1>1 DEF IsFreeList
<1> QED BY <1>1, <1>2, <1>3, <1>4 DEF FreeListComplete

(* Creation takes the first handle off the list and keeps the others. *)
LEMMA CreateComplete ==
    ASSUME NEW S \in TableType, LinksSound(S), HasRoom(S), FreeListComplete(S), NEW r, NEW o
    PROVE  FreeListComplete(Create(S, r, o))
<1> DEFINE C == Create(S, r, o)
           h == NextHandle(S)
           n == Cardinality(FreeHandles(S))
<1>0. h \in Handles /\ \A g \in Handles : g \in 0 .. MaxHandle /\ g # 0
  BY NextHandleFree DEF Handles
<1>1. \A g \in 0 .. MaxHandle :
         /\ g = h => ~C.flag[g] /\ C.num[g] = 0
         /\ g # h => /\ C.flag[g] = S.flag[g]
                     /\ g = 0 => C.num[g] = HeadAfterCreate(S)
                     /\ g # 0 => C.num[g] = S.num[g]
  BY CreateFields
<1>2. PICK f \in [1 .. n -> FreeHandles(S)] : IsFreeList(S, f, n)
  BY DEF FreeListComplete
<1>3. n \in Nat /\ IsFiniteSet(FreeHandles(S))
  BY FreeFinite
<1>4. FreeHandles(S) \subseteq Handles /\ \A i \in 1 .. n : f[i] \in FreeHandles(S) /\ f[i] \in Handles
  BY DEF FreeHandles
<1>5. FreeHandles(C) = FreeHandles(S) \ {h}
  <2>1. \A g \in Handles : g \in FreeHandles(C) <=> g \in FreeHandles(S) /\ g # h
    <3> SUFFICES ASSUME NEW g \in Handles
                 PROVE  g \in FreeHandles(C) <=> g \in FreeHandles(S) /\ g # h
      OBVIOUS
    <3>1. CASE g = h
      <4>1. ~C.flag[g]
        BY <3>1, <1>0, <1>1
      <4> QED BY <4>1, <3>1 DEF FreeHandles
    <3>2. CASE g # h
      <4>1. C.flag[g] = S.flag[g]
        BY <3>2, <1>0, <1>1
      <4> QED BY <4>1, <3>2 DEF FreeHandles
    <3> QED BY <3>1, <3>2
  <2>2. FreeHandles(C) \subseteq Handles
    BY DEF FreeHandles
  <2> QED BY <2>1, <2>2, <1>4
<1>6. C.num[0] = HeadAfterCreate(S) /\ 0 # h /\ 0 \in 0 .. MaxHandle
  BY <1>0, <1>1
<1>7. /\ S.num[0] = IF n = 0 THEN 0 ELSE f[1]
      /\ \A i \in 1 .. n : S.num[f[i]] = IF i = n THEN 0 ELSE f[i + 1]
      /\ \A i, j \in 1 .. n : f[i] = f[j] => i = j
      /\ \A g \in FreeHandles(S) : \E i \in 1 .. n : f[i] = g
  BY <1>2 DEF IsFreeList
<1> HIDE DEF C, h, n
<1>8. CASE n = 0
  <2>1. S.num[0] = 0 /\ FreeHandles(S) = {}
    BY <1>7, <1>8
  <2>2. FreeHandles(C) = {}
    BY <2>1, <1>5
  <2>3. Cardinality(FreeHandles(C)) = 0
    BY <2>2, FS_EmptySet
  <2>4. f \in [1 .. 0 -> FreeHandles(C)]
    BY <2>1, <2>2, <1>8
  <2>5. IsFreeList(C, f, 0)
    BY <2>1, <2>2, <1>6 DEF IsFreeList, HeadAfterCreate
  <2>6. FreeListComplete(C)
    BY <2>3, <2>4, <2>5 DEF FreeListComplete
  <2> QED BY <2>6 DEF C
<1>9. CASE n # 0
  <2>1. 1 \in 1 .. n /\ n \in 1 .. n /\ n - 1 \in Nat /\ \A i \in 1 .. n - 1 : i + 1 \in 1 .. n /\ i + 1 # 1
    BY <1>3, <1>9
  <2>2. S.num[0] = f[1] /\ f[1] # 0
    BY <2>1, <1>0, <1>4, <1>7, <1>9
  <2>3. h = f[1]
    BY <2>2 DEF h, NextHandle
  <2>4. HeadAfterCreate(S) = IF n = 1 THEN 0 ELSE f[2]
    BY <2>1, <2>2, <1>7 DEF HeadAfterCreate
  <2>5. Cardinality(FreeHandles(C)) = n - 1
    <3>1. h \in FreeHandles(S)
      BY <2>1, <2>3, <1>4
    <3> QED BY <3>1, <1>3, <1>5, FS_RemoveElement DEF n
  <2> DEFINE k == [i \in 1 .. n - 1 |-> f[i + 1]]
  <2>6. \A i \in 1 .. n - 1 : k[i] = f[i + 1] /\ k[i] \in FreeHandles(S) /\ k[i] \in Handles /\ k[i] # h
    BY <2>1, <2>3, <1>4, <1>7
  <2>7. k \in [1 .. n - 1 -> FreeHandles(C)]
    BY <2>6, <1>5
  <2> HIDE DEF k
  <2>8. C.num[0] = IF n - 1 = 0 THEN 0 ELSE k[1]
    <3>1. CASE n = 1
      BY <3>1, <2>4, <1>6
    <3>2. CASE n # 1
      <4>1. 1 \in 1 .. n - 1 /\ 1 + 1 = 2 /\ n - 1 # 0
        BY <3>2, <1>3, <1>9
      <4>2. k[1] = f[2]
        BY <4>1, <2>6
      <4> QED BY <4>1, <4>2, <3>2, <2>4, <1>6
    <3> QED BY <3>1, <3>2
  <2>9. ASSUME NEW i \in 1 .. n - 1 PROVE C.num[k[i]] = IF i = n - 1 THEN 0 ELSE k[i + 1]
    <3>1. C.num[k[i]] = S.num[f[i + 1]]
      BY <2>6, <1>0, <1>1
    <3>2. S.num[f[i + 1]] = IF i + 1 = n THEN 0 ELSE f[(i + 1) + 1]
      BY <2>1, <1>7
    <3>3. CASE i = n - 1
      BY <3>1, <3>2, <3>3, <1>3
    <3>4. CASE i # n - 1
      <4>1. i + 1 \in 1 .. n - 1 /\ i + 1 # n
        BY <3>4, <1>3
      <4> QED BY <4>1, <3>1, <3>2, <3>4, <2>6
    <3> QED BY <3>3, <3>4
  <2>10. ASSUME NEW i \in 1 .. n - 1, NEW j \in 1 .. n - 1, k[i] = k[j] PROVE i = j
    <3>1. i + 1 = j + 1
      BY <2>1, <2>6, <2>10, <1>7
    <3> QED BY <3>1, <1>3
  <2>11. ASSUME NEW g \in FreeHandles(C) PROVE \E i \in 1 .. n - 1 : k[i] = g
    <3>1. PICK i \in 1 .. n : f[i] = g
      BY <1>5, <1>7
    <3>2. i # 1
      BY <3>1, <2>3, <1>5
    <3>3. i - 1 \in 1 .. n - 1 /\ (i - 1) + 1 = i
      BY <3>2, <1>3
    <3> QED BY <3>1, <3>3, <2>6
  <2>12. IsFreeList(C, k, n - 1)
    BY <2>8, <2>9, <2>10, <2>11 DEF IsFreeList
  <2>13. FreeListComplete(C)
    BY <2>5, <2>7, <2>12 DEF FreeListComplete
  <2> QED BY <2>13 DEF C
<1> QED BY <1>8, <1>9

(* Removal puts the handle before the others. *)
LEMMA RemoveComplete ==
    ASSUME NEW S \in TableType, LinksSound(S), FreeListComplete(S),
           NEW h \in 0 .. MaxHandle, Removable(S, h)
    PROVE  FreeListComplete(Remove(S, h))
<1> DEFINE R == Remove(S, h)
           n == Cardinality(FreeHandles(S))
<1>0. h \in Handles /\ h # 0 /\ ~S.flag[h] /\ \A g \in Handles : g \in 0 .. MaxHandle /\ g # 0
  BY SoundEnds DEF Removable, Handles
<1>1. \A g \in 0 .. MaxHandle :
         /\ g = h => R.flag[g]
         /\ g # h => R.flag[g] = S.flag[g]
         /\ g = 0 => R.num[g] = h
         /\ g # 0 /\ g = h => R.num[g] = S.num[0]
         /\ g # 0 /\ g # h => R.num[g] = S.num[g]
  BY RemoveFields
<1>2. PICK f \in [1 .. n -> FreeHandles(S)] : IsFreeList(S, f, n)
  BY DEF FreeListComplete
<1>3. n \in Nat /\ IsFiniteSet(FreeHandles(S))
  BY FreeFinite
<1>4. h \notin FreeHandles(S) /\ FreeHandles(S) \subseteq Handles
  BY <1>0 DEF FreeHandles
<1>5. FreeHandles(R) = FreeHandles(S) \cup {h}
  <2>1. \A g \in Handles : g \in FreeHandles(R) <=> g \in FreeHandles(S) \/ g = h
    <3> SUFFICES ASSUME NEW g \in Handles
                 PROVE  g \in FreeHandles(R) <=> g \in FreeHandles(S) \/ g = h
      OBVIOUS
    <3>1. CASE g = h
      <4>1. R.flag[g]
        BY <3>1, <1>0, <1>1
      <4> QED BY <4>1, <3>1 DEF FreeHandles
    <3>2. CASE g # h
      <4>1. R.flag[g] = S.flag[g]
        BY <3>2, <1>0, <1>1
      <4> QED BY <4>1, <3>2 DEF FreeHandles
    <3> QED BY <3>1, <3>2
  <2>2. FreeHandles(R) \subseteq Handles
    BY DEF FreeHandles
  <2> QED BY <2>1, <2>2, <1>0, <1>4
<1>6. Cardinality(FreeHandles(R)) = n + 1
  BY <1>3, <1>4, <1>5, FS_AddElement
<1>7. R.num[0] = h /\ R.num[h] = S.num[0]
  BY <1>0, <1>1
<1>8. /\ S.num[0] = IF n = 0 THEN 0 ELSE f[1]
      /\ \A i \in 1 .. n : S.num[f[i]] = IF i = n THEN 0 ELSE f[i + 1]
      /\ \A i, j \in 1 .. n : f[i] = f[j] => i = j
      /\ \A g \in FreeHandles(S) : \E i \in 1 .. n : f[i] = g
  BY <1>2 DEF IsFreeList
<1> DEFINE k == [i \in 1 .. n + 1 |-> IF i = 1 THEN h ELSE f[i - 1]]
<1> HIDE DEF R, n
<1>9. /\ 1 \in 1 .. n + 1 /\ n + 1 # 0
      /\ \A i \in 1 .. n + 1 : i # 1 => i - 1 \in 1 .. n /\ (i - 1) + 1 = i
      /\ \A i \in 1 .. n : i + 1 \in 1 .. n + 1 /\ i + 1 # 1 /\ (i + 1) - 1 = i
  BY <1>3
<1>10. /\ k[1] = h
       /\ \A i \in 1 .. n : k[i + 1] = f[i]
       /\ \A i \in 1 .. n + 1 : i # 1 => k[i] = f[i - 1]
  BY <1>9
<1>11. k \in [1 .. n + 1 -> FreeHandles(R)]
  BY <1>5, <1>9
<1> HIDE DEF k
<1>12. \A i \in 1 .. n : f[i] \in FreeHandles(S) /\ f[i] \in Handles /\ f[i] # h
  BY <1>4
<1>13. ASSUME NEW i \in 1 .. n + 1 PROVE R.num[k[i]] = IF i = n + 1 THEN 0 ELSE k[i + 1]
  <2>1. CASE i = 1
    <3>1. R.num[k[i]] = IF n = 0 THEN 0 ELSE f[1]
      BY <2>1, <1>7, <1>8, <1>10
    <3>2. CASE n = 0
      BY <3>1, <3>2, <2>1
    <3>3. CASE n # 0
      <4>1. 1 \in 1 .. n /\ i # n + 1
        BY <3>3, <2>1, <1>3
      <4> QED BY <4>1, <3>1, <3>3, <2>1, <1>10
    <3> QED BY <3>2, <3>3
  <2>2. CASE i # 1
    <3> DEFINE j == i - 1
    <3>1. j \in 1 .. n /\ j + 1 = i
      BY <2>2, <1>9
    <3>2. R.num[k[i]] = S.num[f[j]]
      <4>1. k[i] = f[j]
        BY <2>2, <1>10
      <4>2. f[j] \in 0 .. MaxHandle /\ f[j] # 0 /\ f[j] # h
        BY <3>1, <1>0, <1>12
      <4> QED BY <4>1, <4>2, <1>1
    <3>3. S.num[f[j]] = IF j = n THEN 0 ELSE f[j + 1]
      BY <3>1, <1>8
    <3> HIDE DEF j
    <3>4. CASE j = n
      BY <3>1, <3>2, <3>3, <3>4
    <3>5. CASE j # n
      <4>1. j + 1 \in 1 .. n /\ i # n + 1
        BY <3>1, <3>5, <1>3
      <4>2. k[i + 1] = f[j + 1]
        BY <4>1, <3>1, <1>10
      <4> QED BY <4>1, <4>2, <3>2, <3>3, <3>5
    <3> QED BY <3>4, <3>5
  <2> QED BY <2>1, <2>2
<1>14. ASSUME NEW i \in 1 .. n + 1, NEW j \in 1 .. n + 1, k[i] = k[j] PROVE i = j
  <2>1. CASE i = 1 \/ j = 1
    BY <2>1, <1>9, <1>10, <1>12, <1>14
  <2>2. CASE i # 1 /\ j # 1
    <3>1. i - 1 = j - 1
      BY <2>2, <1>8, <1>9, <1>10, <1>14
    <3> QED BY <3>1, <2>2, <1>9
  <2> QED BY <2>1, <2>2
<1>15. ASSUME NEW g \in FreeHandles(R) PROVE \E i \in 1 .. n + 1 : k[i] = g
  <2>1. CASE g = h
    BY <2>1, <1>9, <1>10
  <2>2. CASE g # h
    <3>1. PICK i \in 1 .. n : f[i] = g
      BY <2>2, <1>5, <1>8
    <3> QED BY <3>1, <1>9, <1>10
  <2> QED BY <2>1, <2>2
<1>16. IsFreeList(R, k, n + 1)
  <2>1. R.num[0] = IF n + 1 = 0 THEN 0 ELSE k[1]
    BY <1>7, <1>9, <1>10
  <2> QED BY <2>1, <1>13, <1>14, <1>15 DEF IsFreeList
<1>17. FreeListComplete(R)
  BY <1>6, <1>11, <1>16 DEF FreeListComplete
<1> QED BY <1>17 DEF R

-----------------------------------------------------------------------------
(* The inductive invariant: typed, and the free list sound and complete. *)
TableInv == TableTypeOK /\ FreeLinksSound /\ NoHandleLost

(* The table starts with an empty free list. *)
LEMMA InitTable == TableInit => TableInv
BY EmptySound, EmptyComplete DEF TableInit, TableInv, TableTypeOK, FreeLinksSound, NoHandleLost

(* Every call keeps the invariant. *)
LEMMA NextTable == TableInv /\ [TableNext]_T => TableInv'
<1> SUFFICES ASSUME TableInv, [TableNext]_T PROVE TableInv'
  OBVIOUS
<1>0. T \in TableType /\ LinksSound(T) /\ FreeListComplete(T)
  BY DEF TableInv, TableTypeOK, FreeLinksSound, NoHandleLost
<1> SUFFICES T' \in TableType /\ LinksSound(T') /\ FreeListComplete(T')
  BY DEF TableInv, TableTypeOK, FreeLinksSound, NoHandleLost
<1>1. ASSUME NEW r \in Reps, CreateOwn(r)
      PROVE  T' \in TableType /\ LinksSound(T') /\ FreeListComplete(T')
  BY <1>0, <1>1, CreateType, CreateSound, CreateComplete DEF CreateOwn
<1>2. ASSUME NEW r \in Reps, CreateBorrow(r)
      PROVE  T' \in TableType /\ LinksSound(T') /\ FreeListComplete(T')
  BY <1>0, <1>2, CreateType, CreateSound, CreateComplete DEF CreateBorrow
<1>3. ASSUME NEW h \in 0 .. MaxHandle, RemoveHandle(h)
      PROVE  T' \in TableType /\ LinksSound(T') /\ FreeListComplete(T')
  BY <1>0, <1>3, RemoveType, RemoveSound, RemoveComplete DEF RemoveHandle
<1>4. CASE UNCHANGED T
  BY <1>0, <1>4
<1> QED
  BY <1>1, <1>2, <1>3, <1>4 DEF TableNext

(* No call changes what another handle in use stands for. *)
LEMMA NextKeepsMeaning ==
    ASSUME TableInv, TableNext, NEW h \in Handles, Live(T, h), Live(T', h)
    PROVE  T'.rep[h] = T.rep[h] /\ T'.own[h] = T.own[h]
<1>0. T \in TableType /\ LinksSound(T) /\ h \in 0 .. MaxHandle
  BY DEF TableInv, TableTypeOK, FreeLinksSound, Handles
<1>1. ASSUME NEW r \in Reps, NEW o, HasRoom(T), T' = Create(T, r, o)
      PROVE  T'.rep[h] = T.rep[h] /\ T'.own[h] = T.own[h]
  <2>1. h # NextHandle(T)
    BY <1>0, <1>1, NextHandleFree
  <2> QED
    BY <1>0, <1>1, <2>1, CreateFields
<1>2. ASSUME NEW g \in 0 .. MaxHandle, RemoveHandle(g)
      PROVE  T'.rep[h] = T.rep[h] /\ T'.own[h] = T.own[h]
  BY <1>0, <1>2, RemoveFields DEF RemoveHandle
<1> QED
  BY <1>1, <1>2 DEF TableNext, CreateOwn, CreateBorrow

(* Whatever guests pass to rscTableRemove, and in whatever order the creating *)
(* functions are called, the table keeps its shape.                           *)
THEOREM TableTypeCorrect == TableSpec => []TableTypeOK
<1>1. TableInv => TableTypeOK
  BY DEF TableInv
<1> QED
  BY InitTable, NextTable, <1>1, PTL DEF TableSpec

(* ... and its free list leads only to freed pairs, each reached once: no     *)
(* handle in use is ever issued again by rscTableCreateOwn or                 *)
(* rscTableCreateBorrow.                                                      *)
THEOREM LinksStaySound == TableSpec => []FreeLinksSound
<1>1. TableInv => FreeLinksSound
  BY DEF TableInv
<1> QED
  BY InitTable, NextTable, <1>1, PTL DEF TableSpec

(* ... and no freed handle is lost: following the links from pair 0 finds     *)
(* every one of them, whatever order handles were freed and issued again in.  *)
THEOREM FreedHandlesReused == TableSpec => []NoHandleLost
<1>1. TableInv => NoHandleLost
  BY DEF TableInv
<1> QED
  BY InitTable, NextTable, <1>1, PTL DEF TableSpec

(* ... and a handle in use keeps its resource and its kind through every call *)
(* about other handles.                                                       *)
THEOREM MeaningKept == TableSpec => HandlesKeepMeaning
<1>1. TableInv /\ [TableNext]_T =>
         [\A h \in Handles : Live(T, h) /\ Live(T', h) =>
             T'.rep[h] = T.rep[h] /\ T'.own[h] = T.own[h]]_T
  BY NextKeepsMeaning
<1> QED
  BY InitTable, NextTable, <1>1, PTL DEF TableSpec, HandlesKeepMeaning
=============================================================================
