\* A reader and a writer, each at either server.
CONSTANTS
    N = 2
    Clerk = {alice, bob}
    Nil = Nil
    Snapshots = FALSE
    Calls <- ReaderAndWriters
    MaxRequests = 1
    MaxLog = 2
    Slots = 1
    MaxCrashes = 0
SPECIFICATION Spec
PROPERTY Linearizable
CHECK_DEADLOCK FALSE
