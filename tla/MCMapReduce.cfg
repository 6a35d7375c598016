\* Three workers, two of which may crash or stop, two input files, two reduce tasks.
CONSTANTS
    Worker = {w1, w2, w3}
    Unreliable = {w2, w3}
    nMap = 2
    nReduce = 2
    Nil = Nil
SPECIFICATION FairSpec
INVARIANTS TypeOK NoMissingInput OutputComplete
PROPERTIES OutputFinal FinishedIsFinal JobFinishes
