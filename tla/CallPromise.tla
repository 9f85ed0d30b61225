---------------------------- MODULE CallPromise ----------------------------
(***************************************************************************)
(* What the jobs of the panel rely on when they call Proxmox: a call that  *)
(* returns has had its effect; a call that raises may have had it, or may  *)
(* still have it later. A call that only reads has its effect at once.     *)
(***************************************************************************)
VARIABLES
    outcome,   \* of the latest call; "pending" until it returns or raises
    effect     \* what it asked for has happened

vars == <<outcome, effect>>

Init == outcome = "idle" /\ effect = FALSE

Begin ==
    /\ outcome # "pending"
    /\ outcome' = "pending"
    /\ effect' \in BOOLEAN

TakeEffect == ~effect /\ effect' = TRUE /\ UNCHANGED outcome

Return ==
    /\ outcome = "pending" /\ outcome' = "done"
    /\ effect' = TRUE

Raise ==
    /\ outcome = "pending" /\ outcome' \in {"failed", "broken"}
    /\ effect => effect'

Next == Begin \/ TakeEffect \/ Return \/ Raise

Spec == Init /\ [][Next]_vars

=============================================================================
