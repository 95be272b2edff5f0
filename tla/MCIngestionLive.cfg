\* One partition that two replicas take from each other, any two of five good and
\* bad events and a poison message, all attempts of _run_in_txn used up, a crash
\* and a rebalance.  The group that has read the log idles: CHECK_DEADLOCK FALSE.
SPECIFICATION FairSpec
CHECK_DEADLOCK FALSE
CONSTANTS
    None = None
    o1 = o1
    o2 = o2
    k1 = k1
    a1 = a1
    profile = profile
    home = home
    moved = moved
    items = items
    create1 = create1
    create2 = create2
    approve1 = approve1
    approve2 = approve2
    ship1 = ship1
    badValue = badValue
    noField = noField
    poison = poison
    p1 = p1
    p2 = p2
    r1 = r1
    r2 = r2
    EventId     <- LiveEventId
    OrderId     <- MCOrderId
    ClientId    <- MCClientId
    AddressId   <- MCAddressId
    PaymentId   = {}
    InvoiceId   = {}
    Profile     <- MCProfile
    Place       <- MCPlace
    Items       <- MCItems
    Charge      = {}
    Body        <- MCBody
    Partition   <- OnePartition
    Falsy       <- MCFalsy
    ClientKey   <- MCClientKey
    PartitionOf <- MCPartitionOf
    Poison      <- MCPoison
    Consumer    <- MCConsumer
    Budget      <- MCBudget
    MaxLog      = 2
    BatchMax    = 2
    MaxAttempts = 3
    Crashes     = 1
    Rebalances  = 1
    DbFailures  = 3
    LostAcks    = 0
    LostRows    = 0
    FailedSends = 1
    MaxFailures = 3
    MaxMessages = 2
PROPERTIES
    EventuallyHandled
