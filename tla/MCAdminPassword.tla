--------------------------- MODULE MCAdminPassword ---------------------------
(* AdminPassword on small instances: calls are interchangeable.            *)
EXTENDS AdminPassword, TLC

Symmetry == Permutations(Calls)

=============================================================================
