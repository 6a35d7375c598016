\* The shard is moved again while the groups are still busy with the first move.
CONSTANTS
    NShards = 1
    Gid = {1, 2}
    Replicas = 1
    Clerk = {alice}
    Nil = Nil
    maxraftstate = 1
    Settled = FALSE
    Plan <- ThereAndBack
    Calls <- Appends
    MaxRequests = 2
    MaxLog = 2
    MaxFetches = 1
    MaxCrashes = 0
    Crashing = {}
SPECIFICATION Spec
INVARIANT NoWriteLost
CHECK_DEADLOCK FALSE
