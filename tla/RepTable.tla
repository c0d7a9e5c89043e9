------------------------------ MODULE RepTable ------------------------------
(***************************************************************************)
(* RepTable: the table that gives a component its handles for waitable     *)
(* sets, subtasks, stream ends, future ends and error contexts.  It is a   *)
(* JavaScript array of pairs with a free list threaded through the first   *)
(* element of each pair; the second is always null and left out.           *)
(*                                                                         *)
(*   slot[0]  the first free rep, 0 for none                               *)
(*   slot[r]  the value at rep r, or the next free rep once r was removed; *)
(*            0 stands also for the undefined element past the end         *)
(*   len      the number of pairs                                          *)
(***************************************************************************)
EXTENDS Naturals

CONSTANT MaxRep      \* bound: reps are 1 .. MaxRep

ASSUME MaxRepAssumption == MaxRep \in Nat \ {0}

Reps == 1 .. MaxRep

(* #data = [0, null] *)
EmptyTable == [slot |-> [r \in 0 .. MaxRep |-> 0], len |-> 1]

(* The rep the next insert() returns: the first free one, or a new pair. *)
NextRep(T) == IF T.slot[0] = 0 THEN T.len ELSE T.slot[0]

HasRoom(T) == NextRep(T) \in Reps

(* insert(val): take the first free pair, or push one. *)
Insert(T, val) ==
    LET free == T.slot[0]
    IN  [slot |-> [T.slot EXCEPT ![0] = IF free = 0 THEN 0 ELSE T.slot[free],
                                 ![NextRep(T)] = val],
         len  |-> IF free = 0 THEN T.len + 1 ELSE T.len]

(* get(rep): whatever the pair holds, a link of the free list included. *)
Get(T, r) == T.slot[r]

(* remove(rep): the pair goes to the head of the free list, in use or not. *)
RemoveRep(T, r) == [T EXCEPT !.slot = [@ EXCEPT ![r] = T.slot[0], ![0] = r]]

(* A table of values from a set that has no rep in it. *)
TableType(Obj) == [slot : [0 .. MaxRep -> Obj \cup 0 .. MaxRep], len : 1 .. MaxRep + 1]

(* What a value can be reached by. *)
RepsOf(T, val) == { r \in Reps : r < T.len /\ T.slot[r] = val }
=============================================================================
