SPECIFICATION Spec
CONSTANTS
  Names <- MCNames
  Rank <- MCRank
  Under <- MCUnder
  NoClass = "none"
  NoValue = "none"
  Pointer = "pointer"
  ClassPorts <- MCClassPorts
  RosClasses = {"Ros", "Publisher"}
  Publishers = {"Publisher"}
  BuildPackage = "pkg"
  BuildClasses = {"Ros", "Plain"}
  InstalledClasses = {"Publisher"}
  Earlier <- MCEarlier
  NoParent = NoParent
  NodeInputs <- MCNodes
  ValueLength <- MCValueLength
  Stored = {"short", "same", ""}
  NoClient = NoClient
  OwnName = "self"
INVARIANTS
  ModelIsTrue
  ParentKeepsPortsHidden
PROPERTIES
  ClientIsWanted
CHECK_DEADLOCK FALSE
