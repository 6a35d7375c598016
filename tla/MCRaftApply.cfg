\* A leader and a follower with overlapping, reordered calls, snapshots and a restart.
SPECIFICATION Spec
CONSTANTS
  Server = {s1, s2}
  Value = {v1, v2}
  Nil = Nil
  Contenders = {s1}
  Snapshots = TRUE
  MaxTerm = 2
  MaxLog = 2
  MaxRpcs = 2
  Slots = 2
  MaxCrashes = 1
SYMMETRY Symmetry
INVARIANTS Durable SnapshotCoversTrimmedLog ApplyInOrder StateMachineSafety FatalOnlyPastTheEnd
PROPERTIES TermsNeverRegress AcksLostToOlderCallsOnly
\* Elections stop at MaxTerm and commands at MaxLog, so behaviours end.
CHECK_DEADLOCK FALSE
