SPECIFICATION BriefSpec
CONSTANTS
  a = a
  b = b
  x = x
  cmd1 = cmd1
  cmd2 = cmd2
  Global = Global
  Torn = Torn
  Never = Never
  Cmd <- MCCmd
  Similar <- MCSimilar
  Norm <- MCNorm
  Texts <- OneText
  Sessions = {s1}
  Calls = {c1, c2, c3, c4}
  Parallel = FALSE
  Killable = FALSE
  MaxTime = 3
  Ttl = 1
  GlobalTtl = 1
  RecentWindow = 0
  MaxEntries = 2
  MaxCached = 2
INVARIANTS SessionsAscend CachesIntact CachedAge PollHasReferent FrozenOutputs
SYMMETRY Symmetric
CHECK_DEADLOCK FALSE
