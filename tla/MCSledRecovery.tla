---------------------------- MODULE MCSledRecovery ----------------------------
(***************************************************************************)
(* Model checking of SledRecovery, with the symmetry of MCSledStore.       *)
(***************************************************************************)
EXTENDS SledRecovery, TLC

Symmetry == Permutations(Client) \cup Permutations(Triple) \cup Permutations(Source)
=============================================================================
