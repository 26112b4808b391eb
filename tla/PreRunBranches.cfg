SPECIFICATION Spec
CONSTANTS
  status = status
  show = show
  branchA = branchA
  branchB = branchB
  clean = clean
  dirty = dirty
  l1 = l1
  l2 = l2
  l3 = l3
  Unknown = Unknown
  Torn = Torn
  Never = Never
  Worlds = {clean, dirty}
  Alike <- MCAlike
  Long <- MCLong
  Brief <- MCBrief
  Calls = {c1, c2}
  Commands <- TwoBranches
  Slot <- BranchSlot
  DeltaKey <- BranchSlot
  StateCommands <- TwoBranches
  Fingerprint <- BranchFingerprint
  Prints <- BranchPrints
  Effect <- BranchEffect
  Ttl <- BranchTtl
  MaxTtl = 1
  MaxEntries = 2
  Crowd = 1
  MaxTime = 1
INVARIANTS HitMaySkip
SYMMETRY Symmetric
CHECK_DEADLOCK FALSE
