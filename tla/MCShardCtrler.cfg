\* Two controllers and a clerk with three requests, which may be tried at both.
CONSTANTS
    NShards = 4
    Gid = {1, 2, 3}
    Server = {a, b}
    Clerk = {alice}
    Nil = Nil
    Commands <- SomeCommands
    MaxLog = 3
    MaxPending = 2
    MaxCrashes = 1
SPECIFICATION Spec
INVARIANTS ConfigsFollowLog QueryIsCurrent
PROPERTIES RebalanceCorrect JoinIsMinimal
SYMMETRY Servers
CHECK_DEADLOCK FALSE
