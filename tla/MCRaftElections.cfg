\* Two contenders, a voter, a leader's term that collides with a candidate's, a restart.
SPECIFICATION Spec
CONSTANTS
  Server = {s1, s2, s3}
  Value = {v1}
  Nil = Nil
  Contenders = {s1, s2}
  Snapshots = FALSE
  MaxTerm = 3
  MaxLog = 0
  MaxRpcs = 2
  Slots = 1
  MaxCrashes = 1
SYMMETRY Symmetry
INVARIANTS ElectionSafety
\* Elections stop at MaxTerm and commands at MaxLog, so behaviours end.
CHECK_DEADLOCK FALSE
