--------------------------- MODULE HandleTableUse ---------------------------
(***************************************************************************)
(* One handle table under any sequence of calls.  Guests pass any number   *)
(* as a handle: freed handles, handles of other tables, numbers that were  *)
(* never issued.  No caller checks them, so the table has to stand it.     *)
(***************************************************************************)
EXTENDS HandleTable

VARIABLE T

TableInit == T = EmptyTable

(* resource.new, resourceTransferOwn, HandleLower: T' has handle NextHandle. *)
CreateOwn(r) == HasRoom(T) /\ T' = Create(T, r, TRUE)

(* resourceTransferBorrow, HandleLower *)
CreateBorrow(r) == HasRoom(T) /\ T' = Create(T, r, FALSE)

(* resource.drop, resourceTransferOwn, dispose, finalizers: the call that     *)
(* does not throw.                                                            *)
RemoveHandle(h) == Removable(T, h) /\ T' = Remove(T, h)

TableNext ==
    \/ \E r \in Reps : CreateOwn(r) \/ CreateBorrow(r)
    \/ \E h \in 0 .. MaxHandle : RemoveHandle(h)

TableSpec == TableInit /\ [][TableNext]_T

-----------------------------------------------------------------------------
(* Type invariant. *)
TableTypeOK == T \in TableType

(* The links of the free list stay sound: rscTableCreateOwn and               *)
(* rscTableCreateBorrow pop pairs that rscTableRemove pushed, each once.      *)
FreeLinksSound == LinksSound(T)

(* The free list stays complete: every freed handle can be issued again.      *)
NoHandleLost == FreeListComplete(T)

(* A handle in use keeps its meaning: no creation and no removal of another   *)
(* handle changes the resource it stands for or who owns it.                  *)
HandlesKeepMeaning ==
    [][\A h \in Handles : Live(T, h) /\ Live(T', h) =>
          T'.rep[h] = T.rep[h] /\ T'.own[h] = T.own[h]]_T
=============================================================================
