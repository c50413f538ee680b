-------------------------- MODULE MCParameterNodes --------------------------
(***************************************************************************)
(* ParameterNodes for TLC: one key, integers and strings.  "1" is read as  *)
(* both, so an entry may change its type and keep its text; "5000000000" is *)
(* none that int holds.  uint8 is the type of a port that no parameter     *)
(* has, such as state_id of LifecycleGetState; what is printed of bytes is *)
(* not read again.                                                         *)
(***************************************************************************)
EXTENDS ParameterNodes

CONSTANT k1

MCTexts == {"1", "2", "5000000000"}
MCReadable == [int |-> {"1", "2"}, string |-> MCTexts, bytes |-> {}]
MCPrintedText == [type \in DOMAIN MCReadable |-> [text \in MCTexts |-> text]]
MCDefaultText == [type \in DOMAIN MCReadable |-> "1"]
Typed(type, text) == [type |-> type, text |-> text]

\* A number that wraps.  As an override it may be left out, as one that is no number
\* always is.
MCEnums == {[type |-> "int", number |-> 5]}

MCParameterValues == {Typed("int", "1"), Typed("int", "5000000000")}
MCEntryValues == {Typed("int", "2"), Typed("string", "1"), Typed("bytes", "1")}
MCPortTypes == {"int"}

MCForeignValues == {Typed("uint8", "1")}
MCForeignTypes == {"uint8"}
=============================================================================
