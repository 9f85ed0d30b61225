----------------------------- MODULE MCExposure -----------------------------
(* Symmetry for the runs of Exposure. *)
EXTENDS Exposure, TLC

Symmetry == Permutations(VMs) \cup Permutations(Addrs) \cup Permutations(Lookups)
=============================================================================
