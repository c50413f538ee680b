------------------------------ MODULE MCSkill ------------------------------
(***************************************************************************)
(* ActionClientWrapper for TLC: a client with two goals and a client whose *)
(* goal competes with them for the skill.                                  *)
(***************************************************************************)
EXTENDS ActionClientWrapper

CONSTANTS g1, g2, g3, c1, c2

MCSender == [g \in Goals |-> IF g = g3 THEN c2 ELSE c1]
=============================================================================
