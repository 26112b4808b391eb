SPECIFICATION Spec
CONSTANTS
  Commands <- MCCommands
  Typed <- MCTyped
  TransparentPrefixes <- MCPrefixes
  Similarities <- MCSimilarities
  Reworded = {}
  Critical <- MCCritical
  Alike <- MCAlike
  NoiseKinds = {"a", "d", "{warn m}"}
  Global <- MCGlobal
  Patterns <- MCPatterns
  Unknown <- MCUnknown
  MaxBlocks = 3
  PromoteMinCount = 2
CHECK_DEADLOCK FALSE
INVARIANTS FailuresAccounted NoFalseSuccess SummaryKept CriticalKept UserWordsStand CommandsStand
