\* Two leaderships: logs that diverge and are repaired.
SPECIFICATION Spec
CONSTANTS
  Server = {s1, s2, s3}
  Value = {v1}
  Nil = Nil
  Contenders = {s1, s2}
  Snapshots = FALSE
  MaxTerm = 3
  MaxLog = 2
  MaxRpcs = 1
  Slots = 1
  MaxCrashes = 0
SYMMETRY Symmetry
INVARIANTS TypeOK LogMatching
\* Elections stop at MaxTerm and commands at MaxLog, so behaviours end.
CHECK_DEADLOCK FALSE
