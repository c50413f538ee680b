------------------------- MODULE MCTreeExecutorNode -------------------------
(***************************************************************************)
(* TreeExecutorNode for TLC.  Two goals of each action are enough for one  *)
(* of them to meet what another one left behind.                           *)
(***************************************************************************)
EXTENDS TreeExecutorNode

CONSTANTS g1, g2, c1, c2

MCHookValues == BOOLEAN
MCHookTrue == {TRUE}
MCTreeExit == {"TERMINATE", "RESTART"}
MCTerminateOnExit == {"TERMINATE"}
=============================================================================
