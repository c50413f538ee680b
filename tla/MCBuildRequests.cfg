CONSTANTS
  Packages = {"p", "q"}
  NoName = ""
  TreeCategory = "tree"
  DefaultCategory = "default"
  Lines <- MCLines
  ManifestLines <- MCManifestLines
  Texts <- MCTexts
  MaxInstalled = 3
  NoHandler = NoHandler
  FromString = FromString
  FromFile = FromFile
  Unknown = Unknown
  MissionFromString = MissionFromString
  MissionFromFile = MissionFromFile
  Orchestrator = Orchestrator
  MissionCategory = "mission"
  ConfigTexts <- MCConfigTexts
  ConfigOf <- MCConfigOf
  Documents <- MCDocuments
  GoalTexts <- MCGoalTexts
  EntryPoints <- MCEntryPoints
  NoTree = NoTree
  Deployments <- MCDeployments
  MaxEvents = 2
SPECIFICATION Spec
INVARIANTS HandlerIsExplained PrintedIdentityFindsIt PythonFindsSame
PROPERTIES TreeOfRequest InstallNeverRedirects
CHECK_DEADLOCK FALSE
