SPECIFICATION FairSpec
CONSTANTS
  Blank = Blank
  Never = Never
  Commits = {1, 2}
  Builders = {b1, b2}
  Keep = 1
  MaxTime = 1
INVARIANTS TypeOK IndexComplete EvictBound
PROPERTY FirstIndex
