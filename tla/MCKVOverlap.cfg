\* Two handlers and two uncommitted commands of a clerk at one server, snapshots, a restart.
CONSTANTS
    N = 1
    Clerk = {alice}
    Nil = Nil
    Snapshots = TRUE
    Calls <- Appends
    MaxRequests = 2
    MaxLog = 3
    Slots = 2
    MaxCrashes = 1
SPECIFICATION Spec
INVARIANTS StateIsReplay SendsHaveAReader
CHECK_DEADLOCK FALSE
