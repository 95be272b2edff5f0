\* One rebalance while a replica has a batch in hand.  The log is bounded, and a
\* group that has read it idles: CHECK_DEADLOCK FALSE.
SPECIFICATION Spec
CHECK_DEADLOCK FALSE
SYMMETRY Symmetry
CONSTRAINT Bounded
CONSTANTS
    None = None
    o1 = o1
    o2 = o2
    k1 = k1
    a1 = a1
    profile = profile
    home = home
    moved = moved
    items = items
    create1 = create1
    create2 = create2
    approve1 = approve1
    approve2 = approve2
    ship1 = ship1
    badValue = badValue
    noField = noField
    poison = poison
    p1 = p1
    p2 = p2
    r1 = r1
    r2 = r2
    EventId     <- CoreEventId
    OrderId     <- MCOrderId
    ClientId    <- MCClientId
    AddressId   <- MCAddressId
    PaymentId   = {}
    InvoiceId   = {}
    Profile     <- MCProfile
    Place       <- MCPlace
    Items       <- MCItems
    Charge      = {}
    Body        <- MCBody
    Partition   <- MCPartition
    Falsy       <- MCFalsy
    ClientKey   <- MCClientKey
    PartitionOf <- MCPartitionOf
    Poison      = {}
    Consumer    <- MCConsumer
    Budget      <- MCBudget
    MaxLog      = 2
    BatchMax    = 2
    MaxAttempts = 2
    Crashes     = 0
    Rebalances  = 1
    DbFailures  = 0
    LostAcks    = 0
    LostRows    = 0
    FailedSends = 0
    MaxFailures = 1
    MaxMessages = 3
INVARIANTS
    OneReplicaPerOrder
