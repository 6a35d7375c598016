\* Two overlapping AppendEntries calls to one follower, delivered out of order.
SPECIFICATION Spec
CONSTANTS
  Server = {s1, s2}
  Value = {v1}
  Nil = Nil
  Contenders = {s1}
  Snapshots = FALSE
  MaxTerm = 2
  MaxLog = 1
  MaxRpcs = 2
  Slots = 2
  MaxCrashes = 0
SYMMETRY Symmetry
INVARIANTS NeverFatal
\* Elections stop at MaxTerm and commands at MaxLog, so behaviours end.
CHECK_DEADLOCK FALSE
