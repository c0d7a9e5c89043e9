----------------------------- MODULE HandleTable ----------------------------
(***************************************************************************)
(* The handle table of a resource type in one component: a JavaScript      *)
(* array of number pairs with a free list threaded through it.  Handle n   *)
(* is the pair n; pair 0 is the head of the free list.                     *)
(*                                                                         *)
(* A table is a record of the pairs' fields:                               *)
(*   flag   the T_FLAG bit of the first number: the pair is on the free    *)
(*          list (always set in pair 0)                                    *)
(*   num    the rest of the first number: the next free handle, 0 for none *)
(*   own    the T_FLAG bit of the second number: an own handle             *)
(*   rep    the rest of the second number, 0 also for a missing one        *)
(*   len    the number of pairs                                            *)
(* The scope a borrow handle keeps in num is not told apart.  A pair past  *)
(* len, or one the array skipped (a hole), has no flag and rep 0.          *)
(***************************************************************************)
EXTENDS Naturals, FiniteSets

CONSTANTS
    MaxHandle,   \* bound: handles are 1 .. MaxHandle
    Reps         \* what a component calls its resources: any number but 0

ASSUME HandleAssumption == MaxHandle \in Nat \ {0}
ASSUME RepsAssumption == Reps \subseteq Nat \ {0}

Handles == 1 .. MaxHandle

(* [T_FLAG, 0] *)
EmptyTable ==
    [flag |-> [h \in 0 .. MaxHandle |-> h = 0],
     num  |-> [h \in 0 .. MaxHandle |-> 0],
     own  |-> [h \in 0 .. MaxHandle |-> FALSE],
     rep  |-> [h \in 0 .. MaxHandle |-> 0],
     len  |-> 1]

(* The handle the next creation returns: table[0] without its flag, or the  *)
(* end of the array.                                                        *)
NextHandle(T) == IF T.num[0] = 0 THEN T.len ELSE T.num[0]

HasRoom(T) == NextHandle(T) \in Handles

(* Mutant: the popped pair stays at the head of the free list. *)
HeadKept(T) == T.num[0]

(* table[0] = table[free << 1], or the head of an empty free list. *)
HeadAfterCreate(T) == IF T.num[0] = 0 THEN 0 ELSE T.num[T.num[0]]

(* rscTableCreateOwn and rscTableCreateBorrow: take the first free pair, or  *)
(* push a new one.  What is copied to pair 0 has its flag.                   *)
Create(T, r, isOwn) ==
    LET h == NextHandle(T)
    IN  [flag |-> [T.flag EXCEPT ![h] = FALSE],
         num  |-> [T.num EXCEPT ![0] = HeadAfterCreate(T), ![h] = 0],
         own  |-> [T.own EXCEPT ![h] = isOwn],
         rep  |-> [T.rep EXCEPT ![h] = r],
         len  |-> IF T.num[0] = 0 THEN T.len + 1 ELSE T.len]

(* rscTableRemove throws "Invalid handle" for a pair on the free list (and   *)
(* pair 0).  A pair that was never pushed reads as undefined, which is not   *)
(* === 0: it passes.                                                         *)
Removable(T, h) == ~T.flag[h]

(* Mutant: the freed pair does not get T_FLAG. *)
FlagsKept(T, h) == T.flag

FlagsAfterRemove(T, h) == [T.flag EXCEPT ![h] = TRUE]

(* Mutant: the rest of the free list is cut off. *)
LinkCut(T) == 0

LinkAfterRemove(T) == T.num[0]

(* Push the pair on the free list; its second number stays. *)
Remove(T, h) ==
    [flag |-> FlagsAfterRemove(T, h),
     num  |-> [T.num EXCEPT ![h] = LinkAfterRemove(T), ![0] = h],
     own  |-> T.own,
     rep  |-> T.rep,
     len  |-> IF h < T.len THEN T.len ELSE h + 1]

(* h stands for a resource. *)
Live(T, h) == ~T.flag[h] /\ (T.own[h] \/ T.rep[h] # 0)

-----------------------------------------------------------------------------
TableType ==
    [flag : [0 .. MaxHandle -> BOOLEAN],
     num  : [0 .. MaxHandle -> 0 .. MaxHandle],
     own  : [0 .. MaxHandle -> BOOLEAN],
     rep  : [0 .. MaxHandle -> Reps \cup {0}],
     len  : 1 .. MaxHandle + 1]

(* The links permute the free pairs and pair 0: a free pair leads to a free  *)
(* pair or ends the list, no two lead to the same, none is past the array.   *)
LinksSound(T) ==
    /\ T.flag[0] /\ ~Live(T, 0)
    /\ \A h \in 0 .. MaxHandle : T.flag[h] => h < T.len /\ T.flag[T.num[h]]
    /\ \A g, h \in 0 .. MaxHandle :
          T.flag[g] /\ T.flag[h] /\ T.num[g] = T.num[h] => g = h
    /\ \A h \in 0 .. MaxHandle : h >= T.len => ~Live(T, h)

(* The handles on the free list. *)
FreeHandles(T) == {h \in Handles : T.flag[h]}

(* f lists n free handles in the order in which the links lead to them. *)
IsFreeList(T, f, n) ==
    /\ T.num[0] = IF n = 0 THEN 0 ELSE f[1]
    /\ \A i \in 1 .. n : T.num[f[i]] = IF i = n THEN 0 ELSE f[i + 1]
    /\ \A i, j \in 1 .. n : f[i] = f[j] => i = j
    /\ \A h \in FreeHandles(T) : \E i \in 1 .. n : f[i] = h

(* Every free pair is found again: following the links from pair 0 passes    *)
(* each once and ends, and none is lost to a cycle off the list.             *)
FreeListComplete(T) ==
    LET n == Cardinality(FreeHandles(T))
    IN  \E f \in [1 .. n -> FreeHandles(T)] : IsFreeList(T, f, n)
=============================================================================
