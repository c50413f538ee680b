CONSTANTS
  k1 = k1
  Absent = Absent
  NoValue = NoValue
  NoPort = NoPort
  NoRequest = NoRequest
  Keys = {k1}
  NameOrder = {}
  Enums <- MCEnums
  IntLimit = 4
  Literals = {"1"}
  Texts <- MCTexts
  Readable <- MCReadable
  PrintedText <- MCPrintedText
  DefaultText <- MCDefaultText
  Integral = {"uint8", "int64"}
  Numbers = {}
  ParameterValues <- MCParameterValues
  EntryValues <- MCForeignValues
  PortTypes <- MCForeignTypes
  MayClear = FALSE
  MaxEvents = 2
SPECIFICATION Spec
INVARIANTS InferredParametersAccepted
CHECK_DEADLOCK FALSE
