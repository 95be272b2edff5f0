\* The retention against a burst of errors that it cannot trim in one run.
SPECIFICATION FairSpec
CONSTANTS
    RETENTION = 2
    MAX_ROWS = 2
    TRIM_BATCH_SIZE = 2
    MaxLogs = 6
    MaxFailures = 3
INVARIANTS
    RetentionTypeOK
PROPERTIES
    RemovesByTheRules
    RowsLeave
