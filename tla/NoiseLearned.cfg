SPECIFICATION Spec
CONSTANTS
  Commands <- StatusAgain
  Typed <- StatusTyped
  TransparentPrefixes <- MCPrefixes
  Similarities <- MCSimilarities
  Reworded = {"git status"}
  Critical = {}
  Alike <- MCAlike
  NoiseKinds = {"a", "d", "{warn m}"}
  Global <- MCGlobal
  Patterns <- MCPatterns
  Unknown <- MCUnknown
  MaxBlocks = 1
  PromoteMinCount = 2
CHECK_DEADLOCK FALSE
INVARIANTS NoFalseSuccess
