CONSTANTS
    Loaders = {l1, l2}
    Files <- MCFiles
    BatchSize = 2
    MaxRuns = 1
SPECIFICATION Spec
INVARIANTS TypeOK TwiceOnlyIfOpenTogether DoneIsComplete OnlyUnnumberedEmbeddedAgain
PROPERTIES KeepsTable Termination
CHECK_DEADLOCK FALSE
