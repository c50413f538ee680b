----------------------------- MODULE MCTreeNodes -----------------------------
(***************************************************************************)
(* TreeNodes for TLC.  fixed knows its topic, read gets it from the        *)
(* blackboard, derived has a constructor that subscribes, and twice one    *)
(* that subscribes to another topic after its base did.  A run takes those *)
(* of them that matter to it as Names.                                     *)
(***************************************************************************)
EXTENDS TreeNodes

CONSTANTS fixed, read, derived, twice, t1, t2

MCStaticTopic ==
  [n \in Names |-> CASE n = fixed -> t1 [] n = twice -> t1 [] OTHER -> None]
MCDerivedTopic ==
  [n \in Names |-> CASE n = derived -> t1 [] n = twice -> t2 [] OTHER -> None]
=============================================================================
