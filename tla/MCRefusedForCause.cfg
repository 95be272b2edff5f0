\* Two sessions, the first two orders of a new client, no failure from outside.
SPECIFICATION Spec
CONSTANTS
    None = None
    o1 = o1
    o2 = o2
    k1 = k1
    a1 = a1
    x1 = x1
    v1 = v1
    profile = profile
    home = home
    moved = moved
    items = items
    sum = sum
    c1 = c1
    c1again = c1again
    c2 = c2
    approve = approve
    ship = ship
    pay1 = pay1
    pay2 = pay2
    noField = noField
    c2null = c2null
    payNew = payNew
    noOrder = noOrder
    invoice = invoice
    badValue = badValue
    badStatus = badStatus
    s1 = s1
    s2 = s2
    EventId   <- RaceEventId
    OrderId   <- MCOrderId
    ClientId  <- MCClientId
    AddressId <- MCAddressId
    PaymentId <- MCPaymentId
    InvoiceId <- MCInvoiceId
    Profile   <- MCProfile
    Place     <- MCPlace
    Items     <- MCItems
    Charge    <- MCCharge
    Body      <- MCBody
    Session   <- MCSession
    MaxAttempts = 2
    MaxFailures = 0
    MaxProcessed = 2
INVARIANT
    RefusedForCause
