------------------------ MODULE ParameterConversion ------------------------
(***************************************************************************)
(* How values travel between ROS 2 parameters and blackboard entries.  A   *)
(* value is its type and its text.  One type is converted to another by    *)
(* the text: what BehaviorTree.CPP reads of it and how it is printed.      *)
(***************************************************************************)
CONSTANTS
  Texts,        \* the texts of values
  Readable,     \* the texts convertFromString() reads, for each type of parameter
  PrintedText,  \* the text toStr() prints, for each type of parameter and each text
  Integral,     \* the types of entries that are integers but not int
  Numbers,      \* the types of entries that are numbers but neither integers nor double
  NoValue       \* the conversion failed; an entry without a value

ParameterTypes == DOMAIN Readable

ASSUME ConversionAssumption ==
  /\ \A type \in ParameterTypes : Readable[type] \subseteq Texts
  /\ Integral # {} => "int" \in ParameterTypes
  /\ "int" \in ParameterTypes => "int64" \in Integral
  /\ Numbers # {} => "double" \in ParameterTypes
  /\ (ParameterTypes \cup Integral) \cap {"any", "unset"} = {}
  /\ ParameterTypes \cap (Integral \cup Numbers) = {} /\ Integral \cap Numbers = {}

\* The type of parameter for an entry without one, or "unset".
InferredType(any) ==
  CASE any.type \in ParameterTypes -> any.type
    [] any.type \in Integral       -> "int"
    [] any.type \in Numbers        -> "double"
    [] OTHER                       -> "unset"

\* tryCast()
Cast(any, type) ==
  IF any.type = type \/ (type # "unset" /\ any.text \in Readable[type])
    THEN [type |-> type, text |-> any.text]
    ELSE NoValue

CreateParameterValueFromAny(any, type) ==
  Cast(any, IF type = "unset" THEN InferredType(any) ELSE type)

\* The value is printed and read again.
CreateAnyFromParameterValue(value) ==
  LET text == PrintedText[value.type][value.text]
  IN  IF text \in Readable[value.type] THEN [type |-> value.type, text |-> text] ELSE NoValue
\* What a typed version of GetParameter writes: an integer comes as int64, so
\* nothing stops one that int does not hold.
Received(value) ==
  IF value.type = "int" /\ value.text \notin Readable["int"]
    THEN [type |-> "int64", text |-> value.text]
    ELSE value
=============================================================================
