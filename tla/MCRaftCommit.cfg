\* The vote for term T+1 does not stop the leader of term T+1 from committing.
SPECIFICATION Spec
CONSTANTS
  Server = {s1, s2, s3}
  Value = {v1, v2}
  Nil = Nil
  Contenders = {s1, s2}
  Snapshots = FALSE
  MaxTerm = 3
  MaxLog = 1
  MaxRpcs = 1
  Slots = 1
  MaxCrashes = 0
SYMMETRY Symmetry
INVARIANTS StateMachineSafety
\* Elections stop at MaxTerm and commands at MaxLog, so behaviours end.
CHECK_DEADLOCK FALSE
