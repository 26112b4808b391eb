SPECIFICATION Spec
CONSTANTS
  status = status
  show = show
  branchA = branchA
  branchB = branchB
  clean = clean
  dirty = dirty
  l1 = l1
  l2 = l2
  l3 = l3
  Unknown = Unknown
  Torn = Torn
  Never = Never
  Worlds = {clean, dirty}
  Alike <- MCAlike
  Long <- MCLong
  Brief <- MCBrief
  Calls = {c1, c2, c3}
  Commands <- TwoCommands
  Slot <- MCSlot
  DeltaKey <- MCSlot
  StateCommands = {status}
  Fingerprint <- MCFingerprint
  Prints <- MCPrints
  Effect <- MCEffect
  Ttl <- MCTtl
  MaxTtl = 1
  MaxEntries = 2
  Crowd = 2
  MaxTime = 1
INVARIANTS TypeOK HitIsARun HitIsCurrent MarkersHonest
SYMMETRY Symmetric
CHECK_DEADLOCK FALSE
