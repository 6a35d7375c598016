\* One shard goes to the other group and back; calls that fail, and a restart.
CONSTANTS
    NShards = 1
    Gid = {1, 2}
    Replicas = 1
    Clerk = {alice}
    Nil = Nil
    maxraftstate = 1
    Settled = TRUE
    Plan <- ThereAndBack
    Calls <- Appends
    MaxRequests = 2
    MaxLog = 2
    MaxFetches = 1
    MaxCrashes = 1
    Crashing = {1}
SPECIFICATION Spec
INVARIANTS TypeOK OneGroupServes NoWriteLost WrittenOnce
CHECK_DEADLOCK FALSE
