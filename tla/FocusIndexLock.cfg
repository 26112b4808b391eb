SPECIFICATION FairSpec
CONSTANTS
  Blank = Blank
  Never = Never
  Commits = {1, 2}
  Builders = {b1}
  Keep = 1
  MaxTime = 1

PROPERTY HeadIndexed
