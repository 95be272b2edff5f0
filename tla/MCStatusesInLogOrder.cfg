\* One replica, one partition, one order; the database fails three times in a row,
\* and there may be a crash.  The log is bounded, and a group that has read it
\* idles: CHECK_DEADLOCK FALSE.
SPECIFICATION Spec
CHECK_DEADLOCK FALSE
CONSTRAINT Bounded
CONSTANTS
    None = None
    o1 = o1
    o2 = o2
    k1 = k1
    a1 = a1
    profile = profile
    home = home
    moved = moved
    items = items
    create1 = create1
    create2 = create2
    approve1 = approve1
    approve2 = approve2
    ship1 = ship1
    badValue = badValue
    noField = noField
    poison = poison
    p1 = p1
    p2 = p2
    r1 = r1
    r2 = r2
    EventId     <- ShipEventId
    OrderId     <- MCOrderId
    ClientId    <- MCClientId
    AddressId   <- MCAddressId
    PaymentId   = {}
    InvoiceId   = {}
    Profile     <- MCProfile
    Place       <- MCPlace
    Items       <- MCItems
    Charge      = {}
    Body        <- MCBody
    Partition   <- OnePartition
    Falsy       <- MCFalsy
    ClientKey   <- MCClientKey
    PartitionOf <- MCPartitionOf
    Poison      = {}
    Consumer    <- OneConsumer
    Budget      <- MCBudget
    MaxLog      = 3
    BatchMax    = 3
    MaxAttempts = 3
    Crashes     = 1
    Rebalances  = 0
    DbFailures  = 3
    LostAcks    = 0
    LostRows    = 0
    FailedSends = 0
    MaxFailures = 4
    MaxMessages = 3
INVARIANTS
    StatusesInLogOrder
