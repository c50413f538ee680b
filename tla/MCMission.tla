------------------------------ MODULE MCMission ------------------------------
(***************************************************************************)
(* Four conditions: one is only an emergency, one is in both groups, and   *)
(* the contingencies before and after it may preempt each other.           *)
(***************************************************************************)
EXTENDS Mission

CONSTANTS fire, battery, wind, rain

MCEmergencies == <<fire, battery>>
MCContingencies == <<wind, battery, rain>>
==============================================================================
