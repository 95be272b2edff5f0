\* Two workers, a partition of two messages and one of one, deliver with two
\* attempts, any two failures.  Workers that have read the topic wait:
\* CHECK_DEADLOCK FALSE.
SPECIFICATION FairSpec
CHECK_DEADLOCK FALSE
CONSTANTS
    None = None
    q1 = q1
    q2 = q2
    w1 = w1
    w2 = w2
    Partition   <- MCPartition
    Worker      <- MCWorkers
    MaxAttempts = 2
    MaxEnd      <- MCMaxEnd
    MaxFailures = 2
INVARIANTS
    WorkerTypeOK
    SettledBelowCommit
    RepeatsAreCaused
PROPERTIES
    CommitsMoveForward
    DeliversAtLeastOnce
    EventuallySettled
