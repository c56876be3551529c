---------------------------- MODULE MCStigmergy ----------------------------
(***************************************************************************)
(* Model checking of Stigmergy: three triples of which the first and the   *)
(* third share their subject, so that two pairs ask for the same nodes to  *)
(* be connected in opposite directions.                                    *)
(***************************************************************************)
EXTENDS Stigmergy, TLC

CONSTANTS x, y, z

MCNode == {x, y, z}
MCEnds == 1 :> <<x, z>> @@ 2 :> <<y, z>> @@ 3 :> <<x, z>>
=============================================================================
