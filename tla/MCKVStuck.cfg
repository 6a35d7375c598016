\* One call at one server.
CONSTANTS
    N = 1
    Clerk = {alice}
    Nil = Nil
    Snapshots = FALSE
    Calls <- Appends
    MaxRequests = 1
    MaxLog = 1
    Slots = 1
    MaxCrashes = 0
SPECIFICATION FairSpec
PROPERTY HandlersReply
CHECK_DEADLOCK FALSE
