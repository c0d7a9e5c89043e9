----------------------------- MODULE TaskSlots ------------------------------
(***************************************************************************)
(* What the execution slot of a component instance promises: a lock whose  *)
(* holders are served in the order they arrived.                           *)
(***************************************************************************)
EXTENDS Naturals, Sequences

CONSTANTS Tasks, NoTask

VARIABLES
    arrived,   \* tasks that asked for the slot, in order
    holder,    \* the task that has it, or NoTask
    released   \* tasks that gave it back

slots == <<arrived, holder, released>>

Init == arrived = <<>> /\ holder = NoTask /\ released = {}

Arrive(t) ==
    /\ \A i \in DOMAIN arrived : arrived[i] # t
    /\ arrived' = Append(arrived, t)
    /\ UNCHANGED <<holder, released>>

Acquire(t) ==
    /\ holder = NoTask
    /\ \E i \in DOMAIN arrived :
          /\ arrived[i] = t
          /\ t \notin released
          /\ \A j \in 1 .. i - 1 : arrived[j] \in released
    /\ holder' = t
    /\ UNCHANGED <<arrived, released>>

Release(t) ==
    /\ holder = t
    /\ holder' = NoTask
    /\ released' = released \cup {t}
    /\ UNCHANGED arrived

Next == \E t \in Tasks : Arrive(t) \/ Acquire(t) \/ Release(t)

Spec == Init /\ [][Next]_slots
=============================================================================
