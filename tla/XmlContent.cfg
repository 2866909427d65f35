CONSTANTS
  Setups <- MCSetups
  StartTags <- MCStartTags
  Defaults <- MCDefaults
  IdAttribute <- MCIdAttribute
  Contexts <- MCContexts
  NsPrefixes = {"", "p", "q", "xml", "xmlns"}
  Width <- MCWidth
  Spare = 4
  InitTagBuf = 8
  InitAttsVersion = 2
  MinPower = 1
  MaxDepth = 2
  Null = Null
SPECIFICATION Spec
INVARIANTS ScopesKept AttributesReported DuplicatesExact MemoryInv
PROPERTIES CallsOrdered
CHECK_DEADLOCK FALSE
