\* The tables alone, every order of arrival of fourteen events.  No event is left
\* to process at the end: CHECK_DEADLOCK FALSE.
SPECIFICATION StoreSpec
CHECK_DEADLOCK FALSE
CONSTANTS
    None = None
    o1 = o1
    o2 = o2
    o3 = o3
    k1 = k1
    a1 = a1
    x1 = x1
    v1 = v1
    profile = profile
    other = other
    home = home
    moved = moved
    items = items
    sum = sum
    c1 = c1
    c1again = c1again
    c2 = c2
    c3 = c3
    c3null = c3null
    ship = ship
    deliver = deliver
    bad = bad
    payBad = payBad
    payNew = payNew
    pay1 = pay1
    pay2 = pay2
    invoice = invoice
    unknown = unknown
    EventId   <- MCEventId
    OrderId   <- MCOrderId
    ClientId  <- MCClientId
    AddressId <- MCAddressId
    PaymentId <- MCPaymentId
    InvoiceId <- MCInvoiceId
    Profile   <- MCProfile
    Place     <- MCPlace
    Items     <- MCItems
    Charge    <- MCCharge
    Body      <- MCBody
INVARIANTS
    StoreTypeOK
    AppliedOnce
    TrailIsChain
    TerminalIsFinal
    CurrentIsNewest
    VersionsDiffer
    OrderPortrait
    ChargesAnchored
PROPERTIES
    RefusedUntilRowThere
