--------------------------- MODULE MCVMLifecycle ---------------------------
(* VMLifecycle on small instances.                                         *)
EXTENDS VMLifecycle, TLC

\* VMIDs, hostnames and requests are interchangeable: used in the safety runs.
Symmetry ==
    Permutations(Vmids) \cup Permutations(Hosts) \cup Permutations(Requests)

=============================================================================
