--------------------------- MODULE OrderStoreProofs ----------------------------
(*****************************************************************************)
(* What the tables of OrderStore keep true under every sequence of events,   *)
(* for every set of events, orders, clients and addresses.                   *)
(*****************************************************************************)
EXTENDS OrderStore, TLAPS

-------------------------------------------------------------------------------
(* The events.                                                               *)

\* The type of an event says which fields its body has.
LEMMA CreatedFields ==
    ASSUME NEW e \in EventId, Body[e].type = "ORDER_CREATED"
    PROVE  /\ Body[e].order \in OrderId
           /\ Body[e].client \in ClientId
           /\ Body[e].profile \in Profile
           /\ Body[e].address \in AddressId
           /\ Body[e].place \in Place
           /\ Body[e].items \in Items
BY BodyAssumption
   DEF CreatedBody, StatusBody, PaymentBody, InvoiceBody, OtherBody

\* The fields of a status change.
LEMMA StatusFields ==
    ASSUME NEW e \in EventId, Body[e].type = "ORDER_STATUS_CHANGED"
    PROVE  Body[e].order \in OrderId /\ Body[e].new_status \in Status
BY BodyAssumption
   DEF CreatedBody, StatusBody, PaymentBody, InvoiceBody, OtherBody

\* The fields of a payment.
LEMMA PaymentFields ==
    ASSUME NEW e \in EventId, Body[e].type = "PAYMENT_CONFIRMED"
    PROVE  /\ Body[e].order \in OrderId
           /\ Body[e].payment \in PaymentId
           /\ Body[e].charge \in Charge
BY BodyAssumption
   DEF CreatedBody, StatusBody, PaymentBody, InvoiceBody, OtherBody

\* The fields of an invoice.
LEMMA InvoiceFields ==
    ASSUME NEW e \in EventId, Body[e].type = "INVOICE_ISSUED"
    PROVE  /\ Body[e].order \in OrderId
           /\ Body[e].invoice \in InvoiceId
           /\ Body[e].charge \in Charge
BY BodyAssumption
   DEF CreatedBody, StatusBody, PaymentBody, InvoiceBody, OtherBody

\* Every action claims its event, and an event is claimed once.
LEMMA EveryEventIsClaimed ==
    ASSUME NEW e \in EventId, ProcessEvent(e)
    PROVE  e \notin processed /\ processed' = processed \cup {e}
BY DEF ProcessEvent, OrderCreated, StatusChanged, DroppedUnknownOrder,
       PaymentConfirmed, InvoiceIssued, DroppedUnknownType, Claim

-------------------------------------------------------------------------------
(* Type correctness.                                                         *)

\* Expiring versions touches nothing but is_current.
LEMMA ExpireKeepsRows ==
    ASSUME address \in Seq(AddressRow), NEW S
    PROVE  /\ Expire(S) \in Seq(AddressRow)
           /\ Len(Expire(S)) = Len(address)
           /\ \A i \in 1..Len(address) :
                 /\ Expire(S)[i].client = address[i].client
                 /\ Expire(S)[i].external = address[i].external
                 /\ Expire(S)[i].place = address[i].place
                 /\ Expire(S)[i].current = (address[i].current /\ i \notin S)
<1>1. Len(address) \in Nat /\ DOMAIN address = 1..Len(address)
  OBVIOUS
<1>2. \A i \in 1..Len(address) : address[i] \in AddressRow
  OBVIOUS
<1>3. \A i \in 1..Len(address) :
         LET r == [address[i] EXCEPT !.current = @ /\ i \notin S]
         IN  /\ r \in AddressRow
             /\ r.client = address[i].client
             /\ r.external = address[i].external
             /\ r.place = address[i].place
             /\ r.current = (address[i].current /\ i \notin S)
  BY <1>2 DEF AddressRow
<1>4. Expire(S) \in [1..Len(address) -> AddressRow]
  BY <1>1, <1>3 DEF Expire
<1>5. Expire(S) \in Seq(AddressRow) /\ Len(Expire(S)) = Len(address)
  BY <1>1, <1>4
<1>6. QED
  BY <1>1, <1>3, <1>5 DEF Expire

\* The address table after an upsert is a sequence of address rows, and the id
\* handed to insert_order is one of its indices.
LEMMA UpsertAddressType ==
    ASSUME address \in Seq(AddressRow),
           NEW k \in ClientId, NEW a \in AddressId, NEW place \in Place,
           NEW id \in 1..(Len(address) + 1),
           UpsertCurrentAddress(k, a, place, id)
    PROVE  address' \in Seq(AddressRow) /\ id \in DOMAIN address'
<1> DEFINE row == [client |-> k, external |-> a, place |-> place, current |-> TRUE]
           old == Expire(Current(k, a))
<1>1. CASE id \in Current(k, a) /\ UNCHANGED address
  BY <1>1 DEF Current
<1>2. CASE id = Len(address) + 1 /\ address' = Append(old, row)
  <2>1. row \in AddressRow
    BY DEF AddressRow
  <2>2. old \in Seq(AddressRow) /\ Len(old) = Len(address)
    BY ExpireKeepsRows
  <2>3. QED
    BY <1>2, <2>1, <2>2
<1>3. QED
  BY <1>1, <1>2 DEF UpsertCurrentAddress

\* A status leaves every other column of its order alone, and closed_at set.
LEMMA StatusKeepsRow ==
    ASSUME NEW row \in OrderRow, NEW new \in Status
    PROVE  /\ WithStatus(row, new) \in OrderRow
           /\ WithStatus(row, new).status = new
           /\ WithStatus(row, new).client = row.client
           /\ WithStatus(row, new).address = row.address
           /\ WithStatus(row, new).items = row.items
           /\ WithStatus(row, new).closed = (row.closed \/ new \in Terminal)
BY DEF WithStatus, OrderRow

\* Every event leaves well-typed tables.
LEMMA StoreTypeStep == StoreTypeOK /\ [StoreNext]_tables => StoreTypeOK'
<1> SUFFICES ASSUME StoreTypeOK, [StoreNext]_tables
             PROVE  StoreTypeOK'
  OBVIOUS
<1>1. ASSUME NEW e \in EventId, OrderCreated(e)
      PROVE  StoreTypeOK'
  <2> DEFINE b == Body[e]
  <2>1. PICK id \in 1..(Len(address) + 1) :
           /\ UpsertCurrentAddress(b.client, b.address, b.place, id)
           /\ InsertOrder(b, id)
    BY <1>1 DEF OrderCreated
  <2>2. address' \in Seq(AddressRow)
    BY <1>1, <2>1, CreatedFields, UpsertAddressType DEF OrderCreated, StoreTypeOK
  <2>3. orders' \in [OrderId -> OrderRow \cup {None}]
    BY <1>1, <2>1, CreatedFields
       DEF OrderCreated, StoreTypeOK, InsertOrder, OrderRow, Status
  <2>4. clients' \in [ClientId -> Profile \cup {None}]
    BY <1>1, CreatedFields DEF OrderCreated, StoreTypeOK, UpsertClient
  <2>5. history' \in Seq(HistoryRow)
    BY <1>1, CreatedFields
       DEF OrderCreated, StoreTypeOK, RecordStatusHistory, HistoryRow, Status
  <2>6. QED
    BY <1>1, <2>2, <2>3, <2>4, <2>5 DEF OrderCreated, StoreTypeOK, Claim
<1>2. ASSUME NEW e \in EventId, StatusChanged(e)
      PROVE  StoreTypeOK'
  <2> DEFINE o == Body[e].order
  <2>1. orders[o] \in OrderRow
    BY <1>2, StatusFields DEF StatusChanged, StoreTypeOK, Known
  <2>2. orders' \in [OrderId -> OrderRow \cup {None}]
    BY <1>2, <2>1, StatusFields, StatusKeepsRow
       DEF StatusChanged, StoreTypeOK, UpdateOrderStatus
  <2>3. history' \in Seq(HistoryRow)
    BY <1>2, <2>1, StatusFields
       DEF StatusChanged, StoreTypeOK, RecordStatusHistory, HistoryRow, OrderRow
  <2>4. QED
    BY <1>2, <2>2, <2>3 DEF StatusChanged, StoreTypeOK, Claim
<1>3. ASSUME NEW e \in EventId, DroppedUnknownOrder(e) \/ DroppedUnknownType(e)
      PROVE  StoreTypeOK'
  BY <1>3 DEF DroppedUnknownOrder, DroppedUnknownType, StoreTypeOK, Claim
<1>4. ASSUME NEW e \in EventId, PaymentConfirmed(e)
      PROVE  StoreTypeOK'
  <2>1. payment' \in [PaymentId -> ChargeRow \cup {None}]
    BY <1>4, PaymentFields DEF PaymentConfirmed, StoreTypeOK, Merge, ChargeRow
  <2>2. QED
    BY <1>4, <2>1 DEF PaymentConfirmed, StoreTypeOK, Claim
<1>5. ASSUME NEW e \in EventId, InvoiceIssued(e)
      PROVE  StoreTypeOK'
  <2>1. invoices' \in [InvoiceId -> ChargeRow \cup {None}]
    BY <1>5, InvoiceFields DEF InvoiceIssued, StoreTypeOK, Merge, ChargeRow
  <2>2. QED
    BY <1>5, <2>1 DEF InvoiceIssued, StoreTypeOK, Claim
<1>6. CASE UNCHANGED tables
  BY <1>6 DEF tables, StoreTypeOK
<1>7. QED
  BY <1>1, <1>2, <1>3, <1>4, <1>5, <1>6 DEF StoreNext, ProcessEvent

\* The tables hold values of their types (migration 0001).
THEOREM StoreTypeCorrect == StoreSpec => []StoreTypeOK
<1>1. StoreInit => StoreTypeOK
  BY DEF StoreInit, StoreTypeOK
<1>2. StoreTypeOK /\ [StoreNext]_tables => StoreTypeOK'
  BY StoreTypeStep
<1>3. QED
  BY <1>1, <1>2, PTL DEF StoreSpec

-------------------------------------------------------------------------------
(* The ledger.                                                               *)

\* The rows of the trail and the ledger change together, in one of two ways.
LEMMA TrailStep ==
    ASSUME StoreTypeOK, NEW e \in EventId, ProcessEvent(e)
    PROVE  \/ UNCHANGED <<history, orders>>
           \/ OrderCreated(e)
           \/ StatusChanged(e)
BY DEF ProcessEvent, DroppedUnknownOrder, PaymentConfirmed, InvoiceIssued,
       DroppedUnknownType

\* What record_status_history appends is a row of event e, and the rows before
\* it stay where they are.
LEMMA NewRow ==
    ASSUME StoreTypeOK, NEW e \in EventId,
           OrderCreated(e) \/ StatusChanged(e)
    PROVE  LET n == Len(history) + 1 IN
           /\ n \in Nat /\ DOMAIN history = 1..(n - 1) /\ DOMAIN history' = 1..n
           /\ \A i \in 1..(n - 1) : history'[i] = history[i]
           /\ history'[n].event = e
           /\ history'[n].order = Body[e].order
           /\ OrderCreated(e) => /\ history'[n].previous = None
                                 /\ history'[n].status = "PENDING"
           /\ StatusChanged(e) =>
                 /\ history'[n].previous = orders[Body[e].order].status
                 /\ history'[n].status = Body[e].new_status
<1>1. history \in Seq(HistoryRow)
  BY DEF StoreTypeOK
<1>2. CASE OrderCreated(e)
  <2>1. history' = Append(history, [order |-> Body[e].order, previous |-> None,
                                    status |-> "PENDING", event |-> e])
    BY <1>2 DEF OrderCreated, RecordStatusHistory
  <2>2. Body[e].type # "ORDER_STATUS_CHANGED"
    BY <1>2 DEF OrderCreated
  <2>3. QED
    BY <1>1, <2>1, <2>2 DEF StatusChanged
<1>3. CASE StatusChanged(e)
  <2>1. history' = Append(history, [order |-> Body[e].order,
                                    previous |-> orders[Body[e].order].status,
                                    status |-> Body[e].new_status, event |-> e])
    BY <1>3 DEF StatusChanged, RecordStatusHistory
  <2>2. Body[e].type # "ORDER_CREATED"
    BY <1>3 DEF StatusChanged
  <2>3. QED
    BY <1>1, <2>1, <2>2 DEF OrderCreated
<1>4. QED
  BY <1>2, <1>3

\* Every event leaves the trail with one row per event at most.
LEMMA LedgerStep ==
    StoreTypeOK /\ AppliedOnce /\ [StoreNext]_tables => AppliedOnce'
<1> SUFFICES ASSUME StoreTypeOK, AppliedOnce, [StoreNext]_tables
             PROVE  AppliedOnce'
  OBVIOUS
<1>1. ASSUME NEW e \in EventId, ProcessEvent(e)
      PROVE  AppliedOnce'
  <2>1. e \notin processed /\ processed' = processed \cup {e}
    BY <1>1, EveryEventIsClaimed
  <2>2. CASE UNCHANGED history
    BY <2>1, <2>2 DEF AppliedOnce
  <2>3. CASE OrderCreated(e) \/ StatusChanged(e)
    <3> DEFINE n == Len(history) + 1
    <3>1. /\ n \in Nat /\ DOMAIN history = 1..(n - 1) /\ DOMAIN history' = 1..n
          /\ \A i \in 1..(n - 1) : history'[i] = history[i]
          /\ history'[n].event = e
      BY <2>3, NewRow
    <3> HIDE DEF n
    <3>2. \A i \in 1..(n - 1) : history'[i].event # e
      BY <2>1, <3>1 DEF AppliedOnce
    <3>3. \A i \in 1..n : history'[i].event \in processed'
      BY <2>1, <3>1 DEF AppliedOnce
    <3>4. \A i, j \in 1..n : history'[i].event = history'[j].event => i = j
      BY <3>1, <3>2 DEF AppliedOnce
    <3>5. QED
      BY <3>1, <3>3, <3>4 DEF AppliedOnce
  <2>4. QED
    BY <1>1, <2>2, <2>3, TrailStep
<1>2. CASE UNCHANGED tables
  BY <1>2 DEF tables, AppliedOnce
<1>3. QED
  BY <1>1, <1>2 DEF StoreNext

\* No event leaves two rows in the trail, and none without its ledger row.
THEOREM EventsAppliedOnce == StoreSpec => []AppliedOnce
<1>1. StoreInit => AppliedOnce
  BY DEF StoreInit, AppliedOnce
<1>2. StoreTypeOK /\ AppliedOnce /\ [StoreNext]_tables => AppliedOnce'
  BY LedgerStep
<1>3. QED
  BY <1>1, <1>2, StoreTypeCorrect, PTL DEF StoreSpec

-------------------------------------------------------------------------------
(* The trail.                                                                *)

\* What an event with a row in the trail does to orders: only the order of the
\* event changes, to the status of the row.
LEMMA OrdersStep ==
    ASSUME StoreTypeOK, NEW e \in EventId,
           OrderCreated(e) \/ StatusChanged(e)
    PROVE  LET o == Body[e].order IN
           /\ o \in OrderId
           /\ \A q \in OrderId \ {o} : orders'[q] = orders[q]
           /\ orders'[o] # None
           /\ OrderCreated(e) => /\ orders[o] = None
                                 /\ orders'[o].status = "PENDING"
                                 /\ orders'[o].closed = FALSE
           /\ StatusChanged(e) =>
                 /\ orders[o] # None
                 /\ orders[o].status \in Status \ Terminal
                 /\ orders'[o].status = Body[e].new_status
                 /\ orders'[o].closed = (orders[o].closed \/ Body[e].new_status \in Terminal)
                 /\ orders'[o].client = orders[o].client
                 /\ orders'[o].address = orders[o].address
                 /\ orders'[o].items = orders[o].items
<1> DEFINE b == Body[e]
<1>1. CASE OrderCreated(e)
  <2>1. PICK id \in 1..(Len(address) + 1) : InsertOrder(b, id)
    BY <1>1 DEF OrderCreated
  <2>2. b.order \in OrderId /\ b.client \in ClientId /\ b.items \in Items
    BY <1>1, CreatedFields DEF OrderCreated
  <2>3. orders[b.order] = None /\ b.type = "ORDER_CREATED"
    BY <1>1 DEF OrderCreated, Known
  <2>4. orders' = [orders EXCEPT ![b.order] =
                     [client |-> b.client, address |-> id, items |-> b.items,
                      status |-> "PENDING", closed |-> FALSE]]
    BY <2>1 DEF InsertOrder
  <2>5. orders'[b.order] \in OrderRow
    BY <2>2, <2>4 DEF StoreTypeOK, OrderRow, Status
  <2>6. QED
    BY <2>2, <2>3, <2>4, <2>5, RowAssumption DEF StoreTypeOK, StatusChanged
<1>2. CASE StatusChanged(e)
  <2>1. b.order \in OrderId /\ b.new_status \in Status
    BY <1>2, StatusFields DEF StatusChanged
  <2>2. orders[b.order] \in OrderRow /\ b.type = "ORDER_STATUS_CHANGED"
    BY <1>2, <2>1 DEF StatusChanged, Known, StoreTypeOK
  <2> DEFINE row == WithStatus(orders[b.order], b.new_status)
  <2>3. orders' = [orders EXCEPT ![b.order] = row]
    BY <1>2 DEF StatusChanged, UpdateOrderStatus
  <2>4. row \in OrderRow
    BY <2>1, <2>2, StatusKeepsRow
  <2>5. orders[b.order].status \in Status \ Terminal
    BY <1>2, <2>2 DEF StatusChanged, Frozen, OrderRow
  <2>6. /\ row.status = b.new_status
        /\ row.client = orders[b.order].client
        /\ row.address = orders[b.order].address
        /\ row.items = orders[b.order].items
        /\ row.closed = (orders[b.order].closed \/ b.new_status \in Terminal)
    BY <2>1, <2>2, StatusKeepsRow
  <2> HIDE DEF row
  <2>7. orders'[b.order] = row /\ \A q \in OrderId \ {b.order} : orders'[q] = orders[q]
    BY <2>1, <2>3 DEF StoreTypeOK
  <2>8. orders[b.order] # None /\ orders'[b.order] # None /\ ~OrderCreated(e)
    BY <2>2, <2>4, <2>7, RowAssumption DEF OrderCreated
  <2>9. QED
    BY <2>1, <2>5, <2>6, <2>7, <2>8
<1>3. QED
  BY <1>1, <1>2

\* Every event leaves the trails of the orders unbroken.
LEMMA ChainStep ==
    StoreTypeOK /\ TrailIsChain /\ [StoreNext]_tables => TrailIsChain'
<1> SUFFICES ASSUME StoreTypeOK, TrailIsChain, [StoreNext]_tables
             PROVE  TrailIsChain'
  OBVIOUS
<1>1. ASSUME NEW e \in EventId, ProcessEvent(e)
      PROVE  TrailIsChain'
  <2>1. CASE UNCHANGED <<history, orders>>
    BY <2>1 DEF TrailIsChain, FirstOfOrder, NextOfOrder, LastOfOrder, Precedes, Known
  <2>2. CASE OrderCreated(e) \/ StatusChanged(e)
    <3>a. Len(history) + 1 \in Nat
      BY DEF StoreTypeOK
    <3>b. Body[e].order \in OrderId
      BY <2>2, OrdersStep
    <3> PICK n \in Nat, o \in OrderId :
           n = Len(history) + 1 /\ o = Body[e].order
      BY <3>a, <3>b
    <3>1. /\ DOMAIN history = 1..(n - 1) /\ DOMAIN history' = 1..n
          /\ \A i \in 1..(n - 1) : history'[i] = history[i]
          /\ history'[n].order = o
      BY <2>2, NewRow
    <3>2. /\ \A q \in OrderId \ {o} : orders'[q] = orders[q]
          /\ orders'[o] # None
          /\ OrderCreated(e) => orders[o] = None
          /\ StatusChanged(e) => orders[o] # None
      BY <2>2, OrdersStep
    <3>3. orders'[o].status = history'[n].status
      BY <2>2, NewRow, OrdersStep
    \* The row that was the last of its order precedes the new one.
    <3>4. FirstOfOrder(n)' \/ NextOfOrder(n)'
      <4>1. CASE OrderCreated(e)
        <5>1. history'[n].previous = None /\ history'[n].status = "PENDING"
          BY <4>1, NewRow
        <5>2. \A i \in 1..(n - 1) : history[i].order # o
          BY <3>1, <3>2, <4>1 DEF TrailIsChain, Known
        <5>3. QED
          BY <3>1, <5>1, <5>2 DEF FirstOfOrder
      <4>2. CASE StatusChanged(e)
        <5>1. PICK i \in 1..(n - 1) : LastOfOrder(i, o)
          BY <3>1, <3>2, <4>2 DEF TrailIsChain, Known
        <5>2. Precedes(i, n)'
          BY <3>1, <5>1 DEF Precedes, LastOfOrder
        <5>3. history'[n].previous = orders[o].status
          BY <4>2, NewRow
        <5>4. QED
          BY <3>1, <5>1, <5>2, <5>3 DEF NextOfOrder, LastOfOrder
      <4>3. QED
        BY <2>2, <4>1, <4>2
    <3>5. ASSUME NEW j \in 1..(n - 1)
          PROVE  FirstOfOrder(j)' \/ NextOfOrder(j)'
      <4>1. CASE FirstOfOrder(j)
        BY <3>1, <4>1 DEF FirstOfOrder
      <4>2. CASE NextOfOrder(j)
        <5>1. PICK i \in 1..(j - 1) : /\ Precedes(i, j)
                                      /\ history[j].previous = history[i].status
          BY <4>2 DEF NextOfOrder
        <5>2. Precedes(i, j)'
          BY <3>1, <5>1 DEF Precedes
        <5>3. history'[j].previous = history'[i].status
          BY <3>1, <5>1
        <5>4. QED
          BY <5>2, <5>3 DEF NextOfOrder
      <4>3. QED
        BY <3>1, <4>1, <4>2 DEF TrailIsChain
    <3>6. ASSUME NEW i \in 1..n
          PROVE  Known(history[i].order)'
      <4>1. CASE i = n
        BY <3>1, <3>2, <4>1 DEF Known
      <4>2. CASE i # n
        <5>a. i \in 1..Len(history) /\ history \in Seq(HistoryRow)
          BY <3>1, <4>2 DEF StoreTypeOK
        <5>b. history[i] \in HistoryRow
          BY <5>a
        <5>1. i \in 1..(n - 1) /\ history[i].order \in OrderId
          BY <4>2, <5>b DEF HistoryRow
        <5>2. orders[history[i].order] # None
          BY <3>1, <5>1 DEF TrailIsChain, Known
        <5>3. orders'[history[i].order] # None
          BY <3>2, <5>1, <5>2
        <5>4. QED
          BY <3>1, <5>1, <5>3 DEF Known
      <4>3. QED
        BY <4>1, <4>2
    <3>7. ASSUME NEW q \in OrderId, Known(q)'
          PROVE  \E i \in 1..n : LastOfOrder(i, q)'
      <4>1. CASE q = o
        <5>1. LastOfOrder(n, o)'
          BY <3>1, <3>3 DEF LastOfOrder
        <5>2. QED
          BY <4>1, <5>1
      <4>2. CASE q # o
        <5>1. Known(q) /\ orders'[q] = orders[q]
          BY <3>2, <3>7, <4>2 DEF Known
        <5>2. PICK i \in 1..(n - 1) : LastOfOrder(i, q)
          BY <3>1, <5>1 DEF TrailIsChain
        <5>3. LastOfOrder(i, q)'
          BY <3>1, <4>2, <5>1, <5>2 DEF LastOfOrder
        <5>4. QED
          BY <5>3
      <4>3. QED
        BY <4>1, <4>2
    <3>8. \A j \in 1..n : FirstOfOrder(j)' \/ NextOfOrder(j)'
      BY <3>4, <3>5
    <3>9. QED
      BY <3>1, <3>6, <3>7, <3>8 DEF TrailIsChain
  <2>3. QED
    BY <1>1, <2>1, <2>2, TrailStep
<1>2. CASE UNCHANGED tables
  BY <1>2 DEF tables, TrailIsChain, FirstOfOrder, NextOfOrder, LastOfOrder,
              Precedes, Known
<1>3. QED
  BY <1>1, <1>2 DEF StoreNext

\* The trail of every order is an unbroken chain from PENDING to its status.
THEOREM TrailUnbroken == StoreSpec => []TrailIsChain
<1>1. StoreInit => TrailIsChain
  BY DEF StoreInit, TrailIsChain, Known
<1>2. StoreTypeOK /\ TrailIsChain /\ [StoreNext]_tables => TrailIsChain'
  BY ChainStep
<1>3. QED
  BY <1>1, <1>2, StoreTypeCorrect, PTL DEF StoreSpec

\* No event changes a closed order.
LEMMA FinalStep ==
    StoreTypeOK /\ TrailIsChain /\ TerminalIsFinal /\ [StoreNext]_tables
       => TerminalIsFinal'
<1> SUFFICES ASSUME StoreTypeOK, TrailIsChain, TerminalIsFinal,
                    [StoreNext]_tables
             PROVE  TerminalIsFinal'
  OBVIOUS
<1>1. ASSUME NEW e \in EventId, ProcessEvent(e)
      PROVE  TerminalIsFinal'
  <2>1. CASE UNCHANGED <<history, orders>>
    BY <2>1 DEF TerminalIsFinal, Known
  <2>2. CASE OrderCreated(e) \/ StatusChanged(e)
    <3>a. Len(history) + 1 \in Nat
      BY DEF StoreTypeOK
    <3>b. Body[e].order \in OrderId
      BY <2>2, OrdersStep
    <3> PICK n \in Nat, o \in OrderId :
           n = Len(history) + 1 /\ o = Body[e].order
      BY <3>a, <3>b
    <3>1. /\ DOMAIN history = 1..(n - 1) /\ DOMAIN history' = 1..n
          /\ \A i \in 1..(n - 1) : history'[i] = history[i]
          /\ history'[n].order = o
      BY <2>2, NewRow
    <3>2. /\ \A q \in OrderId \ {o} : orders'[q] = orders[q]
          /\ OrderCreated(e) => orders[o] = None
          /\ StatusChanged(e) => /\ orders[o] # None
                                 /\ orders[o].status \in Status \ Terminal
      BY <2>2, OrdersStep
    \* No earlier row of the order is terminal: not the last one, whose status
    \* the trigger let pass, and none before it.
    <3>3. \A i \in 1..(n - 1) :
             history[i].order = o => history[i].status \notin Terminal
      <4>1. CASE OrderCreated(e)
        BY <3>1, <3>2, <4>1 DEF TrailIsChain, Known
      <4>2. CASE StatusChanged(e)
        <5>1. PICK m \in 1..(n - 1) : LastOfOrder(m, o)
          BY <3>1, <3>2, <4>2 DEF TrailIsChain, Known
        <5>2. history[m].status \notin Terminal
          BY <3>2, <4>2, <5>1 DEF LastOfOrder
        <5>3. ASSUME NEW i \in 1..(n - 1), history[i].order = o, i # m
              PROVE  history[i].status \notin Terminal
          <6>1. i < m
            BY <3>1, <5>1, <5>3 DEF LastOfOrder
          <6>2. QED
            BY <3>1, <5>1, <5>3, <6>1 DEF TerminalIsFinal, LastOfOrder
        <5>4. QED
          BY <5>2, <5>3
      <4>3. QED
        BY <2>2, <4>1, <4>2
    <3>4. \A i, j \in 1..n :
             i < j /\ history'[i].order = history'[j].order
                => history'[i].status \notin Terminal
      <4> SUFFICES ASSUME NEW i \in 1..n, NEW j \in 1..n,
                          i < j, history'[i].order = history'[j].order
                   PROVE  history'[i].status \notin Terminal
        OBVIOUS
      <4>1. i \in 1..(n - 1)
        BY <3>1
      <4>2. CASE j = n
        BY <3>1, <3>3, <4>1, <4>2
      <4>3. CASE j # n
        BY <3>1, <4>1, <4>3 DEF TerminalIsFinal
      <4>4. QED
        BY <4>2, <4>3
    <3>5. \A q \in OrderId :
             Known(q)' => (orders'[q].closed <=> orders'[q].status \in Terminal)
      <4> TAKE q \in OrderId
      <4>1. CASE q # o
        BY <3>2, <4>1 DEF TerminalIsFinal, Known
      <4>2. CASE q = o /\ OrderCreated(e)
        BY <4>2, OrdersStep DEF Terminal
      <4>3. CASE q = o /\ StatusChanged(e)
        <5>1. ~orders[o].closed
          BY <3>2, <4>3 DEF TerminalIsFinal, Known
        <5>2. orders'[o].status = Body[e].new_status
          BY <4>3, OrdersStep
        <5>3. orders'[o].closed = (orders[o].closed \/ Body[e].new_status \in Terminal)
          BY <4>3, OrdersStep
        <5>4. QED
          BY <4>3, <5>1, <5>2, <5>3
      <4>4. QED
        BY <2>2, <4>1, <4>2, <4>3
    <3>6. QED
      BY <3>1, <3>4, <3>5 DEF TerminalIsFinal
  <2>3. QED
    BY <1>1, <2>1, <2>2, TrailStep
<1>2. CASE UNCHANGED tables
  BY <1>2 DEF tables, TerminalIsFinal, Known
<1>3. QED
  BY <1>1, <1>2 DEF StoreNext

\* An order that reached a terminal status is closed and stays as it is.
THEOREM ClosedOrdersStayClosed == StoreSpec => []TerminalIsFinal
<1>1. StoreInit => TerminalIsFinal
  BY DEF StoreInit, TerminalIsFinal, Known
<1>2. StoreTypeOK /\ TrailIsChain /\ TerminalIsFinal /\ [StoreNext]_tables
         => TerminalIsFinal'
  BY FinalStep
<1>3. QED
  BY <1>1, <1>2, StoreTypeCorrect, TrailUnbroken, PTL DEF StoreSpec

-------------------------------------------------------------------------------
(* The addresses.                                                            *)

\* Version n is the new one, the others only expire.
VersionAdded(n, k, a, place) ==
    /\ n \in Nat /\ DOMAIN address = 1..(n - 1) /\ DOMAIN address' = 1..n
    /\ \A i \in 1..(n - 1) :
          /\ address'[i].client = address[i].client
          /\ address'[i].external = address[i].external
          /\ address'[i].place = address[i].place
          /\ address'[i].current = (address[i].current /\ i \notin Current(k, a))
    /\ address'[n].client = k
    /\ address'[n].external = a
    /\ address'[n].place = place
    /\ address'[n].current = TRUE

\* What an upsert that adds a version leaves in the table.
LEMMA NewVersion ==
    ASSUME address \in Seq(AddressRow),
           NEW k \in ClientId, NEW a \in AddressId, NEW place \in Place,
           address' = Append(Expire(Current(k, a)),
                             [client |-> k, external |-> a,
                              place |-> place, current |-> TRUE])
    PROVE  VersionAdded(Len(address) + 1, k, a, place)
<1> DEFINE old == Expire(Current(k, a))
           row == [client |-> k, external |-> a, place |-> place, current |-> TRUE]
<1>1. /\ old \in Seq(AddressRow)
      /\ Len(old) = Len(address)
      /\ \A i \in 1..Len(address) :
            /\ old[i].client = address[i].client
            /\ old[i].external = address[i].external
            /\ old[i].place = address[i].place
            /\ old[i].current = (address[i].current /\ i \notin Current(k, a))
  BY ExpireKeepsRows
<1>2. row \in AddressRow /\ row.client = k /\ row.external = a
      /\ row.place = place /\ row.current = TRUE
  BY DEF AddressRow
<1>3. Len(address) \in Nat /\ DOMAIN address = 1..Len(address)
  OBVIOUS
<1> HIDE DEF old, row
<1>4. address' = Append(old, row)
  BY DEF old, row
<1>5. /\ DOMAIN address' = 1..(Len(address) + 1)
      /\ \A i \in 1..Len(address) : address'[i] = old[i]
      /\ address'[Len(address) + 1] = row
  BY <1>1, <1>2, <1>3, <1>4
<1>6. \A i \in 1..Len(address) :
         /\ address'[i].client = address[i].client
         /\ address'[i].external = address[i].external
         /\ address'[i].place = address[i].place
         /\ address'[i].current = (address[i].current /\ i \notin Current(k, a))
  BY <1>1, <1>5
<1>7. LET n == Len(address) + 1 IN
      /\ address'[n].client = k
      /\ address'[n].external = a
      /\ address'[n].place = place
      /\ address'[n].current = TRUE
  BY <1>2, <1>5
<1>8. Len(address) = (Len(address) + 1) - 1 /\ Len(address) + 1 \in Nat
  BY <1>3
<1>9. QED
  BY <1>3, <1>5, <1>6, <1>7, <1>8 DEF VersionAdded

\* An event leaves the newest version of each address as the current one.
LEMMA NewestStep ==
    StoreTypeOK /\ CurrentIsNewest /\ [StoreNext]_tables => CurrentIsNewest'
<1> SUFFICES ASSUME StoreTypeOK, CurrentIsNewest, [StoreNext]_tables
             PROVE  CurrentIsNewest'
  OBVIOUS
<1>1. CASE UNCHANGED address
  BY <1>1 DEF CurrentIsNewest, SameAddress
<1>2. ASSUME NEW k \in ClientId, NEW a \in AddressId, NEW place \in Place,
             address' = Append(Expire(Current(k, a)),
                               [client |-> k, external |-> a,
                                place |-> place, current |-> TRUE])
      PROVE  CurrentIsNewest'
  <2>1. address \in Seq(AddressRow) /\ Len(address) + 1 \in Nat
    BY DEF StoreTypeOK
  <2> PICK n \in Nat : n = Len(address) + 1
    BY <2>1
  <2>v. VersionAdded(n, k, a, place)
    BY <1>2, <2>1, NewVersion
  <2>2. /\ DOMAIN address = 1..(n - 1) /\ DOMAIN address' = 1..n
        /\ \A i \in 1..(n - 1) : /\ address'[i].client = address[i].client
                                 /\ address'[i].external = address[i].external
        /\ address'[n].client = k
        /\ address'[n].external = a
        /\ address'[n].current = TRUE
    BY <2>v DEF VersionAdded
  <2>3. \A i \in 1..(n - 1) :
           address'[i].current = (address[i].current /\ i \notin Current(k, a))
    BY <2>v DEF VersionAdded
  <2>4. \A i, j \in 1..(n - 1) : SameAddress(i, j)' <=> SameAddress(i, j)
    BY <2>2 DEF SameAddress
  <2>5. \A i \in 1..(n - 1) :
           SameAddress(i, n)' <=> address[i].client = k /\ address[i].external = a
    BY <2>2 DEF SameAddress
  <2>6. ASSUME NEW i \in 1..(n - 1)
        PROVE  address'[i].current
                  <=> \A j \in 1..n : SameAddress(i, j)' => j <= i
    <3>1. CASE SameAddress(i, n)'
      <4>1. ~address'[i].current
        BY <2>2, <2>3, <2>5, <3>1 DEF Current
      <4>2. ~(n <= i)
        OBVIOUS
      <4>3. QED
        BY <3>1, <4>1, <4>2
    <3>2. CASE ~SameAddress(i, n)'
      <4>1. i \notin Current(k, a)
        BY <2>5, <3>2 DEF Current
      <4>2. address'[i].current <=> address[i].current
        BY <2>3, <4>1
      <4>3. address[i].current
               <=> \A j \in 1..(n - 1) : SameAddress(i, j) => j <= i
        BY <2>2 DEF CurrentIsNewest
      <4>4. QED
        BY <2>4, <3>2, <4>2, <4>3
    <3>3. QED
      BY <3>1, <3>2
  <2>7. address'[n].current <=> \A j \in 1..n : SameAddress(n, j)' => j <= n
    BY <2>2
  <2>8. QED
    BY <2>2, <2>6, <2>7 DEF CurrentIsNewest
<1>3. ASSUME NEW e \in EventId, OrderCreated(e)
      PROVE  CurrentIsNewest'
  <2> DEFINE b == Body[e]
  <2>1. PICK id \in 1..(Len(address) + 1) :
           UpsertCurrentAddress(b.client, b.address, b.place, id)
    BY <1>3 DEF OrderCreated
  <2>2. b.client \in ClientId /\ b.address \in AddressId /\ b.place \in Place
    BY <1>3, CreatedFields DEF OrderCreated
  <2>3. QED
    BY <1>1, <1>2, <2>1, <2>2 DEF UpsertCurrentAddress
<1>4. QED
  BY <1>1, <1>3
     DEF StoreNext, ProcessEvent, StatusChanged, DroppedUnknownOrder,
         PaymentConfirmed, InvoiceIssued, DroppedUnknownType, tables

\* The current version of an address is its newest, after any history.
THEOREM NewestIsCurrent == StoreSpec => []CurrentIsNewest
<1>1. StoreInit => CurrentIsNewest
  BY DEF StoreInit, CurrentIsNewest
<1>2. StoreTypeOK /\ CurrentIsNewest /\ [StoreNext]_tables => CurrentIsNewest'
  BY NewestStep
<1>3. QED
  BY <1>1, <1>2, StoreTypeCorrect, PTL DEF StoreSpec

\* An event leaves the versions of addresses as they are, or adds one whose fields
\* differ from those of the current one.
LEMMA AddressStep ==
    ASSUME NEW e \in EventId, ProcessEvent(e)
    PROVE  \/ UNCHANGED address
           \/ /\ OrderCreated(e)
              /\ Body[e].client \in ClientId
              /\ Body[e].address \in AddressId
              /\ Body[e].place \in Place
              /\ \A i \in Current(Body[e].client, Body[e].address) :
                    address[i].place # Body[e].place
              /\ address' = Append(Expire(Current(Body[e].client, Body[e].address)),
                                   [client |-> Body[e].client,
                                    external |-> Body[e].address,
                                    place |-> Body[e].place, current |-> TRUE])
<1>1. CASE OrderCreated(e)
  <2>1. PICK id \in 1..(Len(address) + 1) :
           UpsertCurrentAddress(Body[e].client, Body[e].address, Body[e].place, id)
    BY <1>1 DEF OrderCreated
  <2>2. /\ Body[e].client \in ClientId
        /\ Body[e].address \in AddressId
        /\ Body[e].place \in Place
    BY <1>1, CreatedFields DEF OrderCreated
  <2>3. QED
    BY <1>1, <2>1, <2>2 DEF UpsertCurrentAddress
<1>2. CASE ~OrderCreated(e)
  BY <1>2
     DEF ProcessEvent, StatusChanged, DroppedUnknownOrder, PaymentConfirmed,
         InvoiceIssued, DroppedUnknownType
<1>3. QED
  BY <1>1, <1>2

\* An event adds no version that says what the superseded one says.
LEMMA DifferStep ==
    StoreTypeOK /\ CurrentIsNewest /\ VersionsDiffer /\ [StoreNext]_tables
       => VersionsDiffer'
<1> SUFFICES ASSUME StoreTypeOK, CurrentIsNewest, VersionsDiffer, [StoreNext]_tables
             PROVE  VersionsDiffer'
  OBVIOUS
<1>1. CASE UNCHANGED address
  BY <1>1 DEF VersionsDiffer, SameAddress
<1>2. ASSUME NEW k \in ClientId, NEW a \in AddressId, NEW place \in Place,
             \A i \in Current(k, a) : address[i].place # place,
             address' = Append(Expire(Current(k, a)),
                               [client |-> k, external |-> a,
                                place |-> place, current |-> TRUE])
      PROVE  VersionsDiffer'
  <2>1. address \in Seq(AddressRow) /\ Len(address) + 1 \in Nat
    BY DEF StoreTypeOK
  <2> PICK n \in Nat : n = Len(address) + 1
    BY <2>1
  <2>v. VersionAdded(n, k, a, place)
    BY <1>2, <2>1, NewVersion
  <2>2. /\ DOMAIN address = 1..(n - 1) /\ DOMAIN address' = 1..n
        /\ \A i \in 1..(n - 1) : /\ address'[i].client = address[i].client
                                 /\ address'[i].external = address[i].external
                                 /\ address'[i].place = address[i].place
        /\ address'[n].client = k
        /\ address'[n].external = a
        /\ address'[n].place = place
    BY <2>v DEF VersionAdded
  <2>3. \A i, j \in 1..(n - 1) : SameAddress(i, j)' <=> SameAddress(i, j)
    BY <2>2 DEF SameAddress
  <2>4. \A i \in 1..(n - 1) :
           SameAddress(i, n)' <=> address[i].client = k /\ address[i].external = a
    BY <2>2 DEF SameAddress
  <2> SUFFICES ASSUME NEW i \in 1..n, NEW j \in 1..n,
                      i < j, SameAddress(i, j)',
                      \A m \in 1..n : SameAddress(m, j)' => m <= i \/ j <= m
               PROVE  address'[i].place # address'[j].place
    BY <2>2 DEF VersionsDiffer
  <2>5. CASE j # n
    <3>1. i \in 1..(n - 1) /\ j \in 1..(n - 1)
      BY <2>5
    <3>2. \A m \in 1..(n - 1) : SameAddress(m, j) => m <= i \/ j <= m
      BY <2>3, <3>1
    <3>3. address[i].place # address[j].place
      BY <2>2, <2>3, <3>1, <3>2 DEF VersionsDiffer
    <3>4. QED
      BY <2>2, <3>1, <3>3
  \* The new version follows what was the newest, hence the current one.
  <2>6. CASE j = n
    <3>1. i \in 1..(n - 1) /\ address[i].client = k /\ address[i].external = a
      BY <2>4, <2>6
    <3>2. \A m \in 1..(n - 1) : SameAddress(i, m) => m <= i
      BY <2>4, <2>6, <3>1 DEF SameAddress
    <3>3. i \in Current(k, a)
      BY <2>2, <3>1, <3>2 DEF CurrentIsNewest, Current
    <3>4. QED
      BY <1>2, <2>2, <2>6, <3>1, <3>3
  <2>7. QED
    BY <2>5, <2>6
<1>3. ASSUME NEW e \in EventId, ProcessEvent(e)
      PROVE  VersionsDiffer'
  BY <1>1, <1>2, <1>3, AddressStep
<1>4. QED
  BY <1>1, <1>3 DEF StoreNext, tables

\* A version of an address differs from the one it supersedes, after any history.
THEOREM EveryVersionDiffers == StoreSpec => []VersionsDiffer
<1>1. StoreInit => VersionsDiffer
  BY DEF StoreInit, VersionsDiffer
<1>2. StoreTypeOK /\ CurrentIsNewest /\ VersionsDiffer /\ [StoreNext]_tables
         => VersionsDiffer'
  BY DifferStep
<1>3. QED
  BY <1>1, <1>2, StoreTypeCorrect, NewestIsCurrent, PTL DEF StoreSpec

-------------------------------------------------------------------------------
(* Refusals.                                                                 *)

\* Orders are never deleted, and a terminal one keeps its status.
LEMMA OrdersOnlyAdvance ==
    ASSUME StoreTypeOK, NEW e \in EventId, ProcessEvent(e), NEW o \in OrderId,
           Known(o)
    PROVE  Known(o)' /\ (Frozen(o) => Frozen(o)')
<1>1. CASE UNCHANGED <<history, orders>>
  BY <1>1 DEF Known, Frozen
<1>2. CASE OrderCreated(e) \/ StatusChanged(e)
  <2>1. CASE o = Body[e].order
    <3>1. StatusChanged(e) /\ orders'[o] # None /\ orders[o].status \notin Terminal
      BY <1>2, <2>1, OrdersStep DEF Known
    <3>2. QED
      BY <3>1 DEF Known, Frozen
  <2>2. CASE o # Body[e].order
    <3>1. orders'[o] = orders[o]
      BY <1>2, <2>2, OrdersStep
    <3>2. QED
      BY <3>1 DEF Known, Frozen
  <2>3. QED
    BY <2>1, <2>2
<1>3. QED
  BY <1>1, <1>2, TrailStep

\* A refused event cannot be processed by what follows, but for the row that it
\* could not insert: it is refused again, or that row is there.
THEOREM RefusedEventsStayRefused == StoreSpec => RefusedUntilRowThere
<1>1. StoreTypeOK /\ [StoreNext]_tables
         => [\A e \in EventId : DbError(e) =>
                \/ DbError(e)'
                \/ Body[e].fault = "bad_new_row" /\ NeedsNoNewRow(e)']_tables
  <2> SUFFICES ASSUME StoreTypeOK, NEW f \in EventId, ProcessEvent(f),
                      NEW e \in EventId, DbError(e),
                      ~(Body[e].fault = "bad_new_row" /\ NeedsNoNewRow(e)')
               PROVE  DbError(e)'
    BY DEF StoreNext
  <2>1. e # f
    <3>1. CASE OrderCreated(f) \/ PaymentConfirmed(f) \/ InvoiceIssued(f)
      BY <3>1 DEF DbError, Duplicate, OrderCreated, PaymentConfirmed, InvoiceIssued
    <3>2. CASE StatusChanged(f) \/ DroppedUnknownOrder(f) \/ DroppedUnknownType(f)
      BY <3>2 DEF DbError, Duplicate, StatusChanged, DroppedUnknownOrder,
                  DroppedUnknownType
    <3>3. QED
      BY <3>1, <3>2 DEF ProcessEvent
  <2>2. ~Duplicate(e)'
    BY <2>1, EveryEventIsClaimed DEF DbError, Duplicate
  <2>3. Body[e].order \in OrderId
    BY CreatedFields, StatusFields, PaymentFields, InvoiceFields DEF DbError
  <2>4. Known(Body[e].order) =>
           /\ Known(Body[e].order)'
           /\ Frozen(Body[e].order) => Frozen(Body[e].order)'
    BY <2>3, OrdersOnlyAdvance
  <2>5. ~Fits(e) => ~Fits(e)'
    BY DEF Fits
  <2>6. QED
    BY <2>2, <2>4, <2>5 DEF DbError
<1>2. QED
  BY <1>1, StoreTypeCorrect, PTL DEF StoreSpec, RefusedUntilRowThere

-------------------------------------------------------------------------------
(* References.                                                               *)

\* Every event leaves rows behind that refer to rows which exist.
LEMMA ReferenceStep ==
    StoreTypeOK /\ ForeignKeys /\ [StoreNext]_tables => ForeignKeys'
<1> SUFFICES ASSUME StoreTypeOK, ForeignKeys, [StoreNext]_tables
             PROVE  ForeignKeys'
  OBVIOUS
<1>1. ASSUME NEW e \in EventId, OrderCreated(e)
      PROVE  ForeignKeys'
  <2> DEFINE b == Body[e]
  <2>1. PICK id \in 1..(Len(address) + 1) :
           /\ UpsertCurrentAddress(b.client, b.address, b.place, id)
           /\ InsertOrder(b, id)
    BY <1>1 DEF OrderCreated
  <2>2. /\ b.order \in OrderId /\ b.client \in ClientId /\ b.profile \in Profile
        /\ b.address \in AddressId /\ b.place \in Place
    BY <1>1, CreatedFields DEF OrderCreated
  \* Versions keep their place in the table and their client.
  <2>3. /\ DOMAIN address \subseteq DOMAIN address'
        /\ \A i \in DOMAIN address : address'[i].client = address[i].client
        /\ id \in DOMAIN address' /\ address'[id].client = b.client
    <3>1. CASE id \in Current(b.client, b.address) /\ UNCHANGED address
      BY <3>1 DEF Current
    <3>2. CASE /\ id = Len(address) + 1
               /\ address' = Append(Expire(Current(b.client, b.address)),
                               [client |-> b.client, external |-> b.address,
                                place |-> b.place, current |-> TRUE])
      <4>1. /\ Len(address) + 1 \in Nat
            /\ DOMAIN address = 1..((Len(address) + 1) - 1)
            /\ DOMAIN address' = 1..(Len(address) + 1)
            /\ \A i \in 1..((Len(address) + 1) - 1) :
                  address'[i].client = address[i].client
            /\ address'[Len(address) + 1].client = b.client
        BY <2>2, <3>2, NewVersion DEF StoreTypeOK, VersionAdded
      <4>2. QED
        BY <3>2, <4>1
    <3>3. QED
      BY <2>1, <3>1, <3>2 DEF UpsertCurrentAddress
  <2>4. /\ clients' = [clients EXCEPT ![b.client] = b.profile]
        /\ b.profile # None
    BY <1>1, <2>2, NoneAssumption DEF OrderCreated, UpsertClient
  <2>5. ASSUME NEW o \in OrderId, Known(o)'
        PROVE  /\ clients'[orders'[o].client] # None
               /\ orders'[o].address \in DOMAIN address'
               /\ address'[orders'[o].address].client = orders'[o].client
    <3>1. CASE o = b.order
      <4>1. orders'[o].client = b.client /\ orders'[o].address = id
        BY <2>1, <2>2, <3>1 DEF InsertOrder, StoreTypeOK
      <4>2. QED
        BY <2>2, <2>3, <2>4, <4>1 DEF StoreTypeOK
    <3>2. CASE o # b.order
      <4>1. orders'[o] = orders[o] /\ Known(o)
        BY <2>1, <2>2, <2>5, <3>2 DEF InsertOrder, StoreTypeOK, Known
      <4>2. orders[o].client \in ClientId
        BY <4>1 DEF StoreTypeOK, Known, OrderRow
      <4>3. clients'[orders[o].client] # None
        BY <2>4, <4>1, <4>2 DEF ForeignKeys, StoreTypeOK
      <4>4. QED
        BY <2>3, <4>1, <4>3 DEF ForeignKeys
    <3>3. QED
      BY <3>1, <3>2
  <2>6. QED
    BY <2>5 DEF ForeignKeys
<1>2. ASSUME NEW e \in EventId, StatusChanged(e)
      PROVE  ForeignKeys'
  <2>1. \A o \in OrderId : Known(o)' =>
           /\ Known(o)
           /\ orders'[o].client = orders[o].client
           /\ orders'[o].address = orders[o].address
    <3> TAKE o \in OrderId
    <3>1. CASE o = Body[e].order
      BY <1>2, <3>1, OrdersStep DEF Known
    <3>2. CASE o # Body[e].order
      <4>1. orders'[o] = orders[o]
        BY <1>2, <3>2, OrdersStep
      <4>2. QED
        BY <4>1 DEF Known
    <3>3. QED
      BY <3>1, <3>2
  <2>2. UNCHANGED <<clients, address>>
    BY <1>2 DEF StatusChanged
  <2>3. QED
    BY <2>1, <2>2 DEF ForeignKeys
<1>3. CASE UNCHANGED <<clients, address, orders>>
  BY <1>3 DEF ForeignKeys, Known
<1>4. QED
  BY <1>1, <1>2, <1>3
     DEF StoreNext, ProcessEvent, DroppedUnknownOrder, PaymentConfirmed,
         InvoiceIssued, DroppedUnknownType, tables

\* An order refers to a client and to an address version of that client.
THEOREM ReferencesExist == StoreSpec => []ForeignKeys
<1>1. StoreInit => ForeignKeys
  BY DEF StoreInit, ForeignKeys, Known
<1>2. StoreTypeOK /\ ForeignKeys /\ [StoreNext]_tables => ForeignKeys'
  BY ReferenceStep
<1>3. QED
  BY <1>1, <1>2, StoreTypeCorrect, PTL DEF StoreSpec

\* Whatever an event does, a version keeps its place in the table and its fields.
LEMMA VersionsKept ==
    ASSUME StoreTypeOK, NEW e \in EventId, ProcessEvent(e)
    PROVE  /\ DOMAIN address \subseteq DOMAIN address'
           /\ \A i \in DOMAIN address :
                 /\ address'[i].client = address[i].client
                 /\ address'[i].external = address[i].external
                 /\ address'[i].place = address[i].place
<1> DEFINE k == Body[e].client
           a == Body[e].address
           place == Body[e].place
<1>1. CASE UNCHANGED address
  BY <1>1
<1>2. CASE /\ k \in ClientId /\ a \in AddressId /\ place \in Place
           /\ address' = Append(Expire(Current(k, a)),
                                [client |-> k, external |-> a,
                                 place |-> place, current |-> TRUE])
  <2>1. address \in Seq(AddressRow)
    BY DEF StoreTypeOK
  <2> HIDE DEF k, a, place
  <2>2. /\ Len(address) + 1 \in Nat
        /\ DOMAIN address = 1..((Len(address) + 1) - 1)
        /\ DOMAIN address' = 1..(Len(address) + 1)
        /\ \A i \in 1..((Len(address) + 1) - 1) :
              /\ address'[i].client = address[i].client
              /\ address'[i].external = address[i].external
              /\ address'[i].place = address[i].place
    BY <1>2, <2>1, NewVersion DEF VersionAdded
  <2>3. QED
    BY <2>2
<1>3. QED
  BY <1>1, <1>2, AddressStep

\* The order that ORDER_CREATED inserts refers to a version that holds the fields
\* of the event.
LEMMA CreatedOrder ==
    ASSUME StoreTypeOK, NEW e \in EventId, OrderCreated(e)
    PROVE  LET b   == Body[e]
               row == orders'[b.order]
           IN  /\ b.type = "ORDER_CREATED"
               /\ row.items = b.items
               /\ row.client = b.client
               /\ row.address \in DOMAIN address'
               /\ address'[row.address].client = b.client
               /\ address'[row.address].external = b.address
               /\ address'[row.address].place = b.place
<1> DEFINE b == Body[e]
<1>1. PICK id \in 1..(Len(address) + 1) :
         /\ UpsertCurrentAddress(b.client, b.address, b.place, id)
         /\ InsertOrder(b, id)
  BY DEF OrderCreated
<1>2. /\ b.type = "ORDER_CREATED"
      /\ b.order \in OrderId /\ b.client \in ClientId
      /\ b.address \in AddressId /\ b.place \in Place
  BY CreatedFields DEF OrderCreated
<1>3. /\ orders'[b.order].items = b.items
      /\ orders'[b.order].client = b.client
      /\ orders'[b.order].address = id
  BY <1>1, <1>2 DEF InsertOrder, StoreTypeOK
<1>4. /\ id \in DOMAIN address'
      /\ address'[id].client = b.client
      /\ address'[id].external = b.address
      /\ address'[id].place = b.place
  <2>1. CASE /\ id \in Current(b.client, b.address)
             /\ address[id].place = b.place
             /\ UNCHANGED address
    BY <2>1 DEF Current
  <2>2. CASE /\ id = Len(address) + 1
             /\ address' = Append(Expire(Current(b.client, b.address)),
                             [client |-> b.client, external |-> b.address,
                              place |-> b.place, current |-> TRUE])
    <3>1. address \in Seq(AddressRow) /\ Len(address) + 1 \in Nat
      BY DEF StoreTypeOK
    <3>2. PICK n \in Nat : n = Len(address) + 1
      BY <3>1
    <3> DEFINE k == b.client
               a == b.address
               place == b.place
    <3>3. /\ k \in ClientId /\ a \in AddressId /\ place \in Place
          /\ address' = Append(Expire(Current(k, a)),
                          [client |-> k, external |-> a,
                           place |-> place, current |-> TRUE])
      BY <1>2, <2>2
    <3> HIDE DEF k, a, place
    <3>4. /\ DOMAIN address' = 1..n
          /\ address'[n].client = k
          /\ address'[n].external = a
          /\ address'[n].place = place
      BY <3>1, <3>2, <3>3, NewVersion DEF VersionAdded
    <3>5. n \in 1..n /\ id = n
      BY <2>2, <3>1, <3>2
    <3>6. QED
      BY <3>4, <3>5 DEF k, a, place
  <2>3. QED
    BY <1>1, <2>1, <2>2 DEF UpsertCurrentAddress
<1>5. QED
  BY <1>2, <1>3, <1>4

\* What OrderPortrait says of an order o and the event e that created it.
Portrayed(e, o) ==
    LET b   == Body[e]
        row == orders[o]
    IN  /\ b.type = "ORDER_CREATED"
        /\ b.order = o
        /\ row.items = b.items
        /\ row.client = b.client
        /\ row.address \in DOMAIN address
        /\ address[row.address].client = b.client
        /\ address[row.address].external = b.address
        /\ address[row.address].place = b.place

\* An order that has its portrait keeps it.
LEMMA PortraitKept ==
    ASSUME StoreTypeOK, NEW e \in EventId, ProcessEvent(e),
           NEW o \in OrderId, Known(o), NEW f \in EventId, Portrayed(f, o)
    PROVE  Portrayed(f, o)'
<1>1. /\ orders'[o].items = orders[o].items
      /\ orders'[o].client = orders[o].client
      /\ orders'[o].address = orders[o].address
  <2>1. CASE UNCHANGED orders
    BY <2>1
  <2>2. CASE OrderCreated(e) \/ StatusChanged(e)
    <3>1. CASE o = Body[e].order
      BY <2>2, <3>1, OrdersStep DEF Known
    <3>2. CASE o # Body[e].order
      BY <2>2, <3>2, OrdersStep
    <3>3. QED
      BY <3>1, <3>2
  <2>3. QED
    BY <2>1, <2>2, TrailStep
<1>2. QED
  BY <1>1, VersionsKept DEF Portrayed

\* OrderPortrait, row by row.
Portraits == \A i \in DOMAIN history :
                history[i].previous = None =>
                   Portrayed(history[i].event, history[i].order)

\* Every event leaves the orders the portrait of their creation.
LEMMA PortraitStep ==
    StoreTypeOK /\ TrailIsChain /\ Portraits /\ [StoreNext]_tables => Portraits'
<1> SUFFICES ASSUME StoreTypeOK, TrailIsChain, Portraits, [StoreNext]_tables
             PROVE  Portraits'
  OBVIOUS
<1>1. ASSUME NEW e \in EventId, ProcessEvent(e)
      PROVE  Portraits'
  <2>1. ASSUME NEW i \in DOMAIN history, history[i].previous = None,
               NEW f, f = history[i].event, NEW o, o = history[i].order
        PROVE  Portrayed(f, o)'
    <3>1. f \in EventId /\ o \in OrderId
      <4>1. history[i] \in HistoryRow
        BY <2>1 DEF StoreTypeOK
      <4>2. QED
        BY <2>1, <4>1 DEF HistoryRow
    <3>2. Known(o) /\ Portrayed(f, o)
      BY <2>1 DEF TrailIsChain, Portraits
    <3>3. QED
      BY <1>1, <3>1, <3>2, PortraitKept
  <2>2. CASE UNCHANGED history
    <3> SUFFICES ASSUME NEW i \in DOMAIN history, history[i].previous = None,
                        NEW f, f = history[i].event, NEW o, o = history[i].order
                 PROVE  Portrayed(f, o)'
      BY <2>2 DEF Portrayed, Portraits
    <3> QED
      BY <2>1
  <2>3. CASE OrderCreated(e) \/ StatusChanged(e)
    <3> DEFINE n == Len(history) + 1
    <3>1. /\ n \in Nat /\ DOMAIN history = 1..(n - 1) /\ DOMAIN history' = 1..n
          /\ \A i \in 1..(n - 1) : history'[i] = history[i]
          /\ history'[n].event = e
          /\ history'[n].order = Body[e].order
      BY <2>3, NewRow
    <3>2. StatusChanged(e) => /\ history'[n].previous = orders[Body[e].order].status
                              /\ orders[Body[e].order].status \in Status
      BY NewRow, OrdersStep
    <3> HIDE DEF n
    <3>3. ASSUME NEW i \in 1..n, history'[i].previous = None,
                 NEW f, f = history'[i].event, NEW o, o = history'[i].order
          PROVE  Portrayed(f, o)'
      <4>1. CASE i \in 1..(n - 1)
        BY <2>1, <3>1, <3>3, <4>1
      <4>2. CASE i = n
        <5>1. OrderCreated(e)
          BY <2>3, <3>2, <3>3, <4>2, NoneAssumption
        <5>2. f = e /\ o = Body[e].order
          BY <3>1, <3>3, <4>2
        <5>3. QED
          BY <5>1, <5>2, CreatedOrder DEF Portrayed
      <4>3. QED
        BY <3>1, <4>1, <4>2
    <3>4. QED
      BY <3>1, <3>3 DEF Portrayed, Portraits
  <2>4. QED
    BY <1>1, <2>2, <2>3, TrailStep
<1>2. CASE UNCHANGED tables
  BY <1>2 DEF tables, Portrayed, Portraits
<1>3. QED
  BY <1>1, <1>2 DEF StoreNext

\* Every order keeps the portrait of the address it was placed with.
THEOREM PortraitsStay == StoreSpec => []OrderPortrait
<1>1. StoreInit => Portraits
  BY DEF StoreInit, Portraits
<1>2. StoreTypeOK /\ TrailIsChain /\ Portraits /\ [StoreNext]_tables => Portraits'
  BY PortraitStep
<1>3. Portraits => OrderPortrait
  BY DEF Portrayed, Portraits, OrderPortrait
<1>4. QED
  BY <1>1, <1>2, <1>3, StoreTypeCorrect, TrailUnbroken, PTL DEF StoreSpec

-------------------------------------------------------------------------------
(* The charges.                                                              *)

\* After a MERGE a row is that of the merged id and order, or was there before,
\* with the order it has.
LEMMA MergedRows ==
    ASSUME NEW X, NEW table \in [X -> ChargeRow \cup {None}],
           NEW x \in X, NEW o \in OrderId, NEW charge \in Charge,
           NEW y \in X, Merge(table, x, o, charge)[y] # None
    PROVE  \/ y = x /\ Merge(table, x, o, charge)[y].order = o
           \/ /\ table[y] # None
              /\ Merge(table, x, o, charge)[y].order = table[y].order
<1>1. CASE y # x
  BY <1>1 DEF Merge
<1>2. CASE y = x /\ table[x] = None
  BY <1>2 DEF Merge
<1>3. CASE y = x /\ table[x] # None
  <2>1. table[x] \in ChargeRow
    BY <1>3
  <2>2. Merge(table, x, o, charge)[x] = [table[x] EXCEPT !.charge = charge]
    BY <1>3 DEF Merge
  <2>3. QED
    BY <1>3, <2>1, <2>2 DEF ChargeRow
<1>4. QED
  BY <1>1, <1>2, <1>3

\* Rows of address, payment and invoices are never taken away, and a version keeps
\* its place.
RowsStay ==
    /\ \A i \in DOMAIN address : address'[i].place = address[i].place
    /\ \A x \in PaymentId : payment[x] # None => payment'[x] # None
    /\ \A x \in InvoiceId : invoices[x] # None => invoices'[x] # None

\* A MERGE takes no row away.
LEMMA MergeKeepsRows ==
    ASSUME NEW X, NEW table \in [X -> ChargeRow \cup {None}],
           NEW x \in X, NEW o \in OrderId, NEW charge \in Charge,
           NEW y \in X, table[y] # None
    PROVE  Merge(table, x, o, charge)[y] # None
<1>1. CASE y # x
  BY <1>1 DEF Merge
<1>2. CASE y = x
  <2>1. table[x] \in ChargeRow
    BY <1>2
  <2>2. Merge(table, x, o, charge)[x] = [table[x] EXCEPT !.charge = charge]
    BY <1>2 DEF Merge
  <2>3. [table[x] EXCEPT !.charge = charge] \in ChargeRow
    BY <2>1 DEF ChargeRow
  <2> QED
    BY <1>2, <2>2, <2>3, RowAssumption
<1> QED
  BY <1>1, <1>2

\* Nor does an event.
LEMMA EventsKeepRows ==
    ASSUME StoreTypeOK, NEW e \in EventId, ProcessEvent(e)
    PROVE  RowsStay
<1>1. \A i \in DOMAIN address : address'[i].place = address[i].place
  BY VersionsKept
<1>2. CASE PaymentConfirmed(e)
  <2>1. /\ Body[e].payment \in PaymentId /\ Body[e].order \in OrderId
        /\ Body[e].charge \in Charge
    BY <1>2, PaymentFields DEF PaymentConfirmed
  <2>2. payment' = Merge(payment, Body[e].payment, Body[e].order, Body[e].charge)
        /\ invoices' = invoices /\ payment \in [PaymentId -> ChargeRow \cup {None}]
    BY <1>2 DEF PaymentConfirmed, StoreTypeOK
  <2>3. \A x \in PaymentId : payment[x] # None => payment'[x] # None
    BY <2>1, <2>2, MergeKeepsRows
  <2> QED
    BY <1>1, <2>2, <2>3 DEF RowsStay
<1>3. CASE InvoiceIssued(e)
  <2>1. /\ Body[e].invoice \in InvoiceId /\ Body[e].order \in OrderId
        /\ Body[e].charge \in Charge
    BY <1>3, InvoiceFields DEF InvoiceIssued
  <2>2. invoices' = Merge(invoices, Body[e].invoice, Body[e].order, Body[e].charge)
        /\ payment' = payment /\ invoices \in [InvoiceId -> ChargeRow \cup {None}]
    BY <1>3 DEF InvoiceIssued, StoreTypeOK
  <2>3. \A x \in InvoiceId : invoices[x] # None => invoices'[x] # None
    BY <2>1, <2>2, MergeKeepsRows
  <2> QED
    BY <1>1, <2>2, <2>3 DEF RowsStay
<1>4. CASE ~PaymentConfirmed(e) /\ ~InvoiceIssued(e)
  <2>1. payment' = payment /\ invoices' = invoices
    BY <1>4 DEF ProcessEvent, OrderCreated, StatusChanged, DroppedUnknownOrder,
       DroppedUnknownType
  <2> QED
    BY <1>1, <2>1 DEF RowsStay
<1> QED
  BY <1>2, <1>3, <1>4

\* Every event leaves the payments and invoices with orders that exist.
LEMMA AnchorStep ==
    StoreTypeOK /\ ChargesAnchored /\ [StoreNext]_tables => ChargesAnchored'
<1> SUFFICES ASSUME StoreTypeOK, ChargesAnchored, [StoreNext]_tables
             PROVE  ChargesAnchored'
  OBVIOUS
<1>1. ASSUME NEW e \in EventId, ProcessEvent(e)
      PROVE  ChargesAnchored'
  <2>1. processed \subseteq processed' /\ e \in processed'
    BY <1>1, EveryEventIsClaimed
  <2>2. \A o \in OrderId : Known(o) => orders'[o] # None
    BY <1>1, OrdersOnlyAdvance DEF Known
  <2>3. ASSUME NEW x \in PaymentId, payment'[x] # None
        PROVE  /\ orders'[payment'[x].order] # None
               /\ \E f \in processed' : /\ Body[f].type = "PAYMENT_CONFIRMED"
                                        /\ Body[f].payment = x
                                        /\ Body[f].order = payment'[x].order
    <3>1. CASE payment[x] # None /\ payment'[x].order = payment[x].order
      <4>1. payment[x].order \in OrderId
        BY <3>1 DEF StoreTypeOK, ChargeRow
      <4>2. QED
        BY <2>1, <2>2, <3>1, <4>1 DEF ChargesAnchored
    <3>2. CASE PaymentConfirmed(e)
      <4> DEFINE b == Body[e]
      <4>1. /\ b.type = "PAYMENT_CONFIRMED"
            /\ Known(b.order)
            /\ payment' = Merge(payment, b.payment, b.order, b.charge)
        BY <3>2 DEF PaymentConfirmed
      <4>2. b.order \in OrderId /\ b.payment \in PaymentId /\ b.charge \in Charge
        BY <4>1, PaymentFields
      <4>3. payment \in [PaymentId -> ChargeRow \cup {None}]
        BY DEF StoreTypeOK
      <4>4. \/ x = b.payment /\ payment'[x].order = b.order
            \/ payment[x] # None /\ payment'[x].order = payment[x].order
        BY <2>3, <4>1, <4>2, <4>3, MergedRows
      <4>5. QED
        BY <2>1, <2>2, <3>1, <4>1, <4>2, <4>4
    <3>3. CASE UNCHANGED payment
      BY <2>3, <3>1, <3>3
    <3>4. QED
      BY <1>1, <3>2, <3>3
         DEF ProcessEvent, OrderCreated, StatusChanged, DroppedUnknownOrder,
             InvoiceIssued, DroppedUnknownType
  <2>4. ASSUME NEW x \in InvoiceId, invoices'[x] # None
        PROVE  /\ orders'[invoices'[x].order] # None
               /\ \E f \in processed' : /\ Body[f].type = "INVOICE_ISSUED"
                                        /\ Body[f].invoice = x
                                        /\ Body[f].order = invoices'[x].order
    <3>1. CASE invoices[x] # None /\ invoices'[x].order = invoices[x].order
      <4>1. invoices[x].order \in OrderId
        BY <3>1 DEF StoreTypeOK, ChargeRow
      <4>2. QED
        BY <2>1, <2>2, <3>1, <4>1 DEF ChargesAnchored
    <3>2. CASE InvoiceIssued(e)
      <4> DEFINE b == Body[e]
      <4>1. /\ b.type = "INVOICE_ISSUED"
            /\ Known(b.order)
            /\ invoices' = Merge(invoices, b.invoice, b.order, b.charge)
        BY <3>2 DEF InvoiceIssued
      <4>2. b.order \in OrderId /\ b.invoice \in InvoiceId /\ b.charge \in Charge
        BY <4>1, InvoiceFields
      <4>3. invoices \in [InvoiceId -> ChargeRow \cup {None}]
        BY DEF StoreTypeOK
      <4>4. \/ x = b.invoice /\ invoices'[x].order = b.order
            \/ invoices[x] # None /\ invoices'[x].order = invoices[x].order
        BY <2>4, <4>1, <4>2, <4>3, MergedRows
      <4>5. QED
        BY <2>1, <2>2, <3>1, <4>1, <4>2, <4>4
    <3>3. CASE UNCHANGED invoices
      BY <2>4, <3>1, <3>3
    <3>4. QED
      BY <1>1, <3>2, <3>3
         DEF ProcessEvent, OrderCreated, StatusChanged, DroppedUnknownOrder,
             PaymentConfirmed, DroppedUnknownType
  <2>5. QED
    BY <2>3, <2>4 DEF ChargesAnchored, Known
<1>2. CASE UNCHANGED tables
  BY <1>2 DEF tables, ChargesAnchored, Known
<1>3. QED
  BY <1>1, <1>2 DEF StoreNext

\* Every payment and every invoice belongs to a known order that a processed event
\* announced it for.
THEOREM ChargesAreAnchored == StoreSpec => []ChargesAnchored
<1>1. StoreInit => ChargesAnchored
  BY DEF StoreInit, ChargesAnchored
<1>2. StoreTypeOK /\ ChargesAnchored /\ [StoreNext]_tables => ChargesAnchored'
  BY AnchorStep
<1>3. QED
  BY <1>1, <1>2, StoreTypeCorrect, PTL DEF StoreSpec

-------------------------------------------------------------------------------
(* The trail only grows, and remembers the creation of every order.          *)

\* No step removes or rewrites a row of order_status_history.
LEMMA TrailGrows ==
    ASSUME StoreTypeOK, [StoreNext]_tables
    PROVE  /\ DOMAIN history \subseteq DOMAIN history'
           /\ \A h \in DOMAIN history : history'[h] = history[h]
<1>1. CASE UNCHANGED history
  BY <1>1
<1>2. ASSUME NEW e \in EventId, OrderCreated(e) \/ StatusChanged(e)
      PROVE  /\ DOMAIN history \subseteq DOMAIN history'
             /\ \A h \in DOMAIN history : history'[h] = history[h]
  <2> DEFINE n == Len(history) + 1
  <2>1. /\ n \in Nat /\ DOMAIN history = 1..(n - 1) /\ DOMAIN history' = 1..n
        /\ \A i \in 1..(n - 1) : history'[i] = history[i]
    BY <1>2, NewRow
  <2> HIDE DEF n
  <2>2. QED
    BY <2>1
<1>3. QED
  BY <1>1, <1>2, TrailStep DEF StoreNext, tables

\* Every known order has the row of its creation in the trail.
Recorded ==
    \A o \in OrderId : Known(o) =>
       \E h \in DOMAIN history : /\ history[h].order = o
                                 /\ history[h].previous = None

\* Every event leaves each order with a row of its creation.
LEMMA RecordStep ==
    StoreTypeOK /\ Recorded /\ [StoreNext]_tables => Recorded'
<1> SUFFICES ASSUME StoreTypeOK, Recorded, [StoreNext]_tables,
                    NEW o \in OrderId, orders'[o] # None
             PROVE  \E h \in DOMAIN history' : /\ history'[h].order = o
                                               /\ history'[h].previous = None
  BY DEF Recorded, Known
<1>1. CASE Known(o)
  BY <1>1, TrailGrows DEF Recorded
<1>2. CASE ~Known(o)
  <2>1. PICK e \in EventId : ProcessEvent(e)
    BY <1>2 DEF StoreNext, tables, Known
  <2>2. OrderCreated(e) \/ StatusChanged(e)
    BY <1>2, <2>1, TrailStep DEF Known
  <2>3. o = Body[e].order /\ OrderCreated(e)
    BY <1>2, <2>2, OrdersStep DEF Known
  <2> DEFINE n == Len(history) + 1
  <2>4. /\ DOMAIN history' = 1..n
        /\ history'[n].order = Body[e].order /\ history'[n].previous = None
    BY <2>3, NewRow
  <2>5. n \in 1..n
    BY DEF StoreTypeOK
  <2>6. QED
    BY <2>3, <2>4, <2>5
<1>3. QED
  BY <1>1, <1>2

\* insert_order and the first record_status_history are one transaction.
LEMMA CreationIsRecorded == StoreSpec => []Recorded
<1>1. StoreInit => Recorded
  BY DEF StoreInit, Recorded, Known
<1>2. StoreTypeOK /\ Recorded /\ [StoreNext]_tables => Recorded'
  BY RecordStep
<1>3. QED
  BY <1>1, <1>2, StoreTypeCorrect, PTL DEF StoreSpec


-------------------------------------------------------------------------------
(* All of it together, for specifications whose steps are those of the store. *)

\* What the tables promise, in the form that one event preserves.
TablesInv == /\ StoreTypeOK /\ ForeignKeys /\ AppliedOnce
             /\ TrailIsChain /\ TerminalIsFinal
             /\ CurrentIsNewest /\ VersionsDiffer
             /\ Portraits /\ ChargesAnchored

\* The empty tables promise it.
LEMMA TablesInit == StoreInit => TablesInv
BY DEF StoreInit, TablesInv, StoreTypeOK, ForeignKeys, AppliedOnce, TrailIsChain,
       TerminalIsFinal, CurrentIsNewest, VersionsDiffer, Portraits, ChargesAnchored, Known

\* Whatever is applied to tables that promise it, they go on to.
LEMMA TablesStep == TablesInv /\ [StoreNext]_tables => TablesInv'
BY StoreTypeStep, ReferenceStep, LedgerStep, ChainStep, FinalStep, NewestStep,
   DifferStep, PortraitStep, AnchorStep DEF TablesInv

\* It includes the portraits of the orders.
LEMMA TablesPortraits == TablesInv => OrderPortrait
BY DEF TablesInv, Portrayed, Portraits, OrderPortrait
===============================================================================
