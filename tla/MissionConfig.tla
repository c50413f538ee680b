---------------------------- MODULE MissionConfig ----------------------------
(***************************************************************************)
(* The configuration of a mission: the YAML text of its five groups, what  *)
(* the struct MissionConfig makes of it, and the installed trees that it   *)
(* names.  A group is a list of trees, or a map from the tree that         *)
(* monitors an event to the tree that handles it.                          *)
(***************************************************************************)
EXTENDS Resources

CONSTANTS
  MissionCategory,  \* _AUTO_APMS_MISSION__DEFAULT_BEHAVIOR_CATEGORY__MISSION
  ConfigTexts,      \* the texts users write: [kind, groups]
  ConfigOf          \* the text of the file that a line of the index registers

(***************************************************************************)
(* A text is empty, a map or something else.  A map has a value for each   *)
(* key: [shape, items], where the shape is null, sequence, map or scalar,  *)
(* and an item is the tuple of the identities it is made of, which lacks   *)
(* the handler if that is no scalar.                                       *)
(***************************************************************************)
ASSUME ConfigAssumption ==
  /\ ConfigOf \in [Lines -> ConfigTexts]
  /\ \A text \in ConfigTexts :
       /\ text.kind \in {"empty", "map", "other"}
       /\ text.kind = "map" =>
            \A key \in DOMAIN text.groups :
              text.groups[key].shape \in {"null", "sequence", "map", "scalar"}

Lists == {"BRINGUP", "MISSION", "SHUTDOWN"}
Maps == {"CONTINGENCY", "EMERGENCY"}
Groups == Lists \union Maps

NoConfig == [key \in Groups |-> <<>>]

\* The identity of a tree in a configuration, which must be complete.
TreeIdentity(text) == WithCategory(Identity(text), TreeCategory)

\* MISSION is the one group that may not be null.
ValueFits(key, value) ==
  \/ value.shape = "null" /\ key # "MISSION"
  \/ /\ value.shape = IF key \in Lists THEN "sequence" ELSE "map"
     /\ \A i \in DOMAIN value.items :
          /\ Len(value.items[i]) = IF key \in Lists THEN 1 ELSE 2
          /\ \A j \in DOMAIN value.items[i] : IsTreeIdentity(TreeIdentity(value.items[i][j]))

Identities(value) ==
  [i \in DOMAIN value.items |-> [j \in DOMAIN value.items[i] |-> TreeIdentity(value.items[i][j])]]

IsGiven(text, key) == key \in DOMAIN text.groups /\ text.groups[key].shape # "null"

\* decode() and fromFile(): an empty text is the empty configuration.
DecodeConfig(text) ==
  IF text.kind = "empty"
  THEN [ok |-> TRUE, config |-> NoConfig]
  ELSE IF /\ text.kind = "map"
          /\ DOMAIN text.groups \subseteq Groups
          /\ \A key \in DOMAIN text.groups : ValueFits(key, text.groups[key])
  THEN [ok |-> TRUE,
        config |-> [key \in Groups |-> IF IsGiven(text, key) THEN Identities(text.groups[key]) ELSE <<>>]]
  ELSE [ok |-> FALSE, config |-> NoConfig]

\* fromResource()
ConfigOfResource(text) ==
  LET r == Behavior(WithCategory(Identity(text), MissionCategory))
  IN  IF r.found THEN DecodeConfig(ConfigOf[r.line]) ELSE [ok |-> FALSE, config |-> NoConfig]

\* The installed trees that a configuration names, where it names them.
TreesNamed(config) ==
  [key \in Groups |-> [i \in DOMAIN config[key] |-> [j \in DOMAIN config[key][i] |-> Tree(config[key][i][j])]]]

\* A mission can be built if it is not empty, all its trees are installed and no
\* list has more than one.  The trees of a list are inserted one after the other
\* below one BehaviorTree element, which verify() requires to have one child.
Buildable(config) ==
  /\ config["MISSION"] # <<>>
  /\ \A key \in Lists : Len(config[key]) <= 1
  /\ \A key \in Groups : \A i \in DOMAIN config[key] : \A j \in DOMAIN config[key][i] :
       Tree(config[key][i][j]).found
==============================================================================
