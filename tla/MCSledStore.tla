----------------------------- MODULE MCSledStore -----------------------------
(***************************************************************************)
(* Model checking of SledStore: the clients, triples and sources are       *)
(* interchangeable, so their permutations are a symmetry of every run that *)
(* checks safety.                                                          *)
(***************************************************************************)
EXTENDS SledImplements, TLC

Symmetry == Permutations(Client) \cup Permutations(Triple) \cup Permutations(Source)
=============================================================================
