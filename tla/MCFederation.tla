---------------------------- MODULE MCFederation ----------------------------
(***************************************************************************)
(* Model checking of Federation with two engines.                          *)
(*                                                                         *)
(* fed_exchange: p2 runs cycles with p1 over a network that loses messages *)
(* while both change their stores.  `fact` is retracted by `gone`, and its *)
(* sharing is restricted by `mine`, which has its subject.                 *)
(*                                                                         *)
(* fed_converge: both run cycles and are only given triples, one of which  *)
(* p1 alone is given.                                                      *)
(***************************************************************************)
EXTENDS Federation

CONSTANTS p1, p2, fact, gone, mine, other

MCRetracts == [m \in Triple |-> IF m = gone THEN {fact} ELSE {}]
MCRestricts == [m \in Triple |-> IF m = mine THEN {fact, mine} ELSE {}]

MCShared == [p \in Peer |-> IF p = p1 THEN {} ELSE {"meet", "part", "trust", "lose"}]
MCGiven == [p \in Peer |-> IF p = p1 THEN {fact, mine} ELSE {fact, gone}]
MCTaken == [p \in Peer |-> IF p = p1 THEN {mine} ELSE {fact, gone}]

MCBoth == [p \in Peer |-> {"meet", "trust"}]
MCApart == [p \in Peer |-> IF p = p1 THEN {fact, other} ELSE {other}]
MCNone == [p \in Peer |-> {}]
=============================================================================
