SPECIFICATION FairSpec
CONSTANTS
  Starts = {s1, s2, s3}
  Stops = {k1}
  Statuses = {q1}
  Inodes = {1, 2, 3}
  Nil = Nil
  MaxFailures = 2
  TimelyLoad = FALSE
  IdleExit = TRUE
  LastStart = s3
INVARIANTS TypeOK SingleDaemon OwnerRecorded StopEndsItsTarget
PROPERTIES EventuallyServed CommandsReturn
CHECK_DEADLOCK FALSE
