SPECIFICATION Spec
CONSTANTS
  Tokens <- MCTokens
  Options <- MCOptions
  Predefined = {"!"}
  Declared = {"a"}
  Inherited <- MCInherited
  BadPublicIds = {"!"}
  GroupSize = 2
  ScaffoldSize = 2
  Unset = Unset
  Null = Null
  Stray = {"PARAM_ENTITY_REF", "XML_DECL", "LITERAL", "PROLOG_S"}
  MaxDecl = 8
  MaxDecls = 2
  MaxOpen = 2
INVARIANTS DtdInv
PROPERTIES CallsSpellDeclarations ConnectorsAgree FirstDeclarationBinds UnreadStopsDeclarations
CHECK_DEADLOCK FALSE
