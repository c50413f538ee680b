-------------------------- MODULE MCRosActionNode --------------------------
(* RosActionNode for TLC: the best environment and the worst one.             *)
EXTENDS RosActionNode

MCGood == [timely |-> TRUE, inOrder |-> TRUE, cancelHonoured |-> TRUE]
MCBad == [timely |-> FALSE, inOrder |-> FALSE, cancelHonoured |-> FALSE]
MCBoth == {MCGood, MCBad}
=============================================================================
