-------------------------- MODULE MCComponentTasks --------------------------
(* Instances of ComponentTasks for TLC. *)
EXTENDS ComponentTasks, TLC

CONSTANTS a, b, c

KindHost == (a :> "callback") @@ (b :> "callback") @@ (c :> "manual")
KindGuest == (a :> "callback") @@ (b :> "guest") @@ (c :> "guestSync")
KindTwo == (a :> "callback") @@ (b :> "manual")
KindPair == (a :> "callback") @@ (b :> "guest")
KindOne == (b :> "guest")
KindManual == (a :> "manual") @@ (b :> "manual")
=============================================================================
