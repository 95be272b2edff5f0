\* Both groups end to end.  When everything is read, both idle: CHECK_DEADLOCK
\* FALSE.
SPECIFICATION PipelineFairSpec
CHECK_DEADLOCK FALSE
CONSTANTS
    None = None
    o1 = o1
    k1 = k1
    a1 = a1
    profile = profile
    home = home
    items = items
    create1 = create1
    approve1 = approve1
    approve2 = approve2
    p1 = p1
    r1 = r1
    w1 = w1
    EventId     <- MCEventId
    OrderId     <- MCOrderId
    ClientId    <- MCClientId
    AddressId   <- MCAddressId
    PaymentId   = {}
    InvoiceId   = {}
    Profile     <- MCProfile
    Place       <- MCPlace
    Items       <- MCItems
    Charge      = {}
    Body        <- MCBody
    Partition   <- MCPartition
    Falsy       = {}
    ClientKey   <- MCClientKey
    PartitionOf <- MCPartitionOf
    Poison      = {}
    Consumer    <- MCConsumer
    Budget      <- MCBudget
    MaxLog      = 3
    BatchMax    = 2
    MaxAttempts = 2
    OrderApproved = order_approved
    Worker      <- MCWorker
    DeliverAttempts = 2
    MaxApprovals = 2
    MaxWorkerFailures = 1
INVARIANTS
    ApprovalsAccountedFor
PROPERTIES
    ApprovalsArrive
