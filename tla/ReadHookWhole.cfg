SPECIFICATION Spec
CONSTANTS
  Calls = {c1, c2, c3}
  Files = {f1, f2}
  Regions <- OneRegion
  Ranges <- Whole
  Values = {v1, v2}
  Huge = {}
  Similar <- MCSimilar
  MaxFiles = 1
  MaxEntries = 1
  MaxBusy = 2
  Torn = Torn
  Never = Never
  MaxTime = 2
INVARIANTS TypeOK BaseWasRead AgentKeepsUp
SYMMETRY Symmetric
CHECK_DEADLOCK FALSE
