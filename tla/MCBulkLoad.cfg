\* Two attempts of every task, two runs, a failure or a kill anywhere.
SPECIFICATION FairSpec
CONSTANTS
    MaxRuns = 2
    TotalRows <- MCTotalRows
    BatchSize <- MCBatchSize
    MaxSkipped = 1
INVARIANTS
    BulkTypeOK
    NoOrderTwice
    LoadsUnindexed
    SuccessIsWhole
PROPERTIES
    RunsAreReported
\* The last run of the bound ends and no further one is triggered.
CHECK_DEADLOCK FALSE
