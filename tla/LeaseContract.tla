--------------------------- MODULE LeaseContract ---------------------------
(* What a lease promises its users: at any time at most one of them believes *)
(* to hold it, and it never passes from one to another in one step.          *)
CONSTANTS Users, None

VARIABLE holder   \* the user that believes to hold the lease, or None

Init == holder = None

Obtain(u) == holder = None /\ holder' = u

Lose == holder # None /\ holder' = None

Next == Lose \/ \E u \in Users : Obtain(u)

Spec == Init /\ [][Next]_holder
=============================================================================
