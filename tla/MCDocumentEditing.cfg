SPECIFICATION EditSpec
CONSTANTS
  Names <- MCNames
  Rank <- MCRank
  Under <- MCUnder
  NoClass = "none"
  NoValue = "none"
  ClassPorts <- MCClassPorts
  RosClasses = {"Ros"}
  Native = {"Sequence", "SubTree"}
  Files <- MCFiles
  Content <- MCContent
  Port = "out"
  NoTree = "none"
  NoOptions = NoOptions
  Malformed = Malformed
  TreeName = {"T1", "T2", "T3"}
  StartFiles = {"main"}
  NewNodes = {"A", "Sequence"}
  ManifestFiles <- MCManifestFiles
  MaxSteps = 2
INVARIANTS
  FactoryMatchesManifest
  IncludeOrderIrrelevant
PROPERTIES
  RegistrationsKept
  FailureOnlyAdds
  NoNewDangling
CHECK_DEADLOCK FALSE
