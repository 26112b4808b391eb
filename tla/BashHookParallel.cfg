SPECIFICATION Spec
CONSTANTS
  a = a
  b = b
  x = x
  cmd1 = cmd1
  cmd2 = cmd2
  Global = Global
  Torn = Torn
  Never = Never
  Cmd <- MCCmd
  Similar <- MCSimilar
  Norm <- MCNorm
  Texts <- TwoTexts
  Sessions = {s1, s2}
  Calls = {c1, c2}
  Parallel = TRUE
  Killable = TRUE
  MaxTime = 1
  Ttl = 0
  GlobalTtl = 1
  RecentWindow = 0
  MaxEntries = 2
  MaxCached = 1
INVARIANTS TypeOK HitsMatch RedirectHasReferent
SYMMETRY Symmetric
CHECK_DEADLOCK FALSE
