----------------------------- MODULE MCThrottle -----------------------------
(* Throttle on small instances: calls are interchangeable.                 *)
EXTENDS Throttle, TLC

Symmetry == Permutations(Calls)

=============================================================================
