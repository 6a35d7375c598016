\* Retries of one clerk through two servers, with snapshots and a restart.
CONSTANTS
    N = 2
    Clerk = {alice}
    Nil = Nil
    Snapshots = TRUE
    Calls <- Appends
    MaxRequests = 2
    MaxLog = 3
    Slots = 1
    MaxCrashes = 1
SPECIFICATION Spec
INVARIANTS TypeOK StateIsReplay
CHECK_DEADLOCK FALSE
