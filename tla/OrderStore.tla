------------------------------ MODULE OrderStore ------------------------------
(*****************************************************************************)
(* The SQL Server tables that the ingestion consumer writes, and one action  *)
(* per webhook event type: process_event (services/ingestion_consumer/app/   *)
(* consumer.py) with the statements of db_ops.py it issues, the constraints  *)
(* of migration 0001 and its trigger on orders.  Each action is a whole      *)
(* committed transaction; a rejected event leaves every table as it was.     *)
(*                                                                           *)
(* StoreSpec is any number of events applied one at a time.  IngestionConsumer *)
(* takes the transactions of its replicas as such steps; that interleaved    *)
(* transactions do come to the same is the matter of IngestionTxn.           *)
(*****************************************************************************)
EXTENDS Naturals, Sequences, WebhookEvents

Terminal == {"DELIVERED", "CANCELLED", "CLOSED"}

OrderRow   == [client: ClientId, address: Nat, items: Items,
               status: Status, closed: BOOLEAN]
AddressRow == [client: ClientId, external: AddressId, place: Place,
               current: BOOLEAN]
HistoryRow == [order: OrderId, previous: Status \cup {None},
               status: Status, event: EventId]
ChargeRow  == [order: OrderId, charge: Charge]

ASSUME RowAssumption ==
    None \notin OrderRow \cup ChargeRow

VARIABLES
    processed,  \* processed_webhook_events: the committed ledger of event_ids
    clients,    \* clients: profile by external id
    address,    \* address: every version ever written, address_id is the index
    orders,     \* orders with their order_items
    history,    \* order_status_history, in the order of history_id
    payment,    \* payment, by external id
    invoices    \* invoices, by external id

tables == <<processed, clients, address, orders, history, payment, invoices>>

StoreInit ==
    /\ processed = {}
    /\ clients   = [k \in ClientId |-> None]
    /\ address   = <<>>
    /\ orders    = [o \in OrderId |-> None]
    /\ history   = <<>>
    /\ payment   = [x \in PaymentId |-> None]
    /\ invoices  = [x \in InvoiceId |-> None]

-------------------------------------------------------------------------------
(* The statements of db_ops.py.                                              *)

Known(o) == orders[o] # None

\* trg_orders_block_retro_update rolls back an UPDATE of a terminal order.
\* Variant: the trigger is missing.
NotFrozen(o) == FALSE
Frozen(o) == orders[o].status \in Terminal

\* claim_event and mark_event_processed: the primary key refuses a second row.
\* Variant: the ledger row is not unique.
ClaimAgain(e) == processed' = processed \cup {e}
Claim(e) ==
    /\ e \notin processed
    /\ processed' = processed \cup {e}

UpsertClient(k, profile) == clients' = [clients EXCEPT ![k] = profile]

\* The row that the SELECT ... is_current = 1 of upsert_current_address finds.
Current(k, a) == {i \in DOMAIN address : /\ address[i].client = k
                                         /\ address[i].external = a
                                         /\ address[i].current}

\* Variant: the superseded version is left current.
KeepCurrent(S) == address
Expire(S) == [i \in DOMAIN address |->
                [address[i] EXCEPT !.current = @ /\ i \notin S]]

\* SCD type 2: keep the current version if nothing changed, else expire it and
\* insert a new one.  id is the address_id handed to insert_order.
\* Variants: the address is overwritten in place; every order adds a version.
OverwriteAddress(k, a, place, id) ==
    \/ /\ id \in Current(k, a)
       /\ address' = [address EXCEPT ![id].place = place]
    \/ /\ Current(k, a) = {}
       /\ id = Len(address) + 1
       /\ address' = Append(address, [client |-> k, external |-> a,
                                      place |-> place, current |-> TRUE])
AlwaysNewVersion(k, a, place, id) ==
    /\ id = Len(address) + 1
    /\ address' = Append(Expire(Current(k, a)),
                         [client |-> k, external |-> a,
                          place |-> place, current |-> TRUE])
UpsertCurrentAddress(k, a, place, id) ==
    \/ /\ id \in Current(k, a)
       /\ address[id].place = place
       /\ UNCHANGED address
    \/ /\ \A i \in Current(k, a) : address[i].place # place
       /\ id = Len(address) + 1
       /\ address' = Append(Expire(Current(k, a)),
                            [client |-> k, external |-> a,
                             place |-> place, current |-> TRUE])

\* insert_order and insert_order_items; items never change afterwards.
InsertOrder(b, id) ==
    orders' = [orders EXCEPT ![b.order] =
                 [client |-> b.client, address |-> id, items |-> b.items,
                  status |-> "PENDING", closed |-> FALSE]]

\* update_order_status: closed_at is set by a terminal status, else kept.
WithStatus(row, new) ==
    [row EXCEPT !.status = new, !.closed = @ \/ new \in Terminal]
UpdateOrderStatus(o, new) ==
    orders' = [orders EXCEPT ![o] = WithStatus(@, new)]

\* Variant: the trail always says that the order was PENDING before.
RecordFromPending(o, previous, new, e) ==
    history' = Append(history, [order |-> o,
                                previous |-> IF previous = None THEN None
                                                                ELSE "PENDING",
                                status |-> new, event |-> e])
RecordStatusHistory(o, previous, new, e) ==
    history' = Append(history, [order |-> o, previous |-> previous,
                                status |-> new, event |-> e])

\* The MERGE of upsert_payment and of upsert_invoice: a known external id keeps
\* the order it was inserted with.  Variant: the INSERT leaves order_id out.
MergeUnanchored(table, x, o, charge) ==
    [table EXCEPT ![x] = IF @ = None THEN [order |-> None, charge |-> charge]
                                     ELSE [@ EXCEPT !.charge = charge]]
Merge(table, x, o, charge) ==
    [table EXCEPT ![x] = IF @ = None THEN [order |-> o, charge |-> charge]
                                     ELSE [@ EXCEPT !.charge = charge]]

\* The event writes no row but those that every event of its type writes: the
\* version of the address, the payment or the invoice is there already.
NeedsNoNewRow(e) ==
    LET b == Body[e] IN
    \/ /\ b.type = "ORDER_CREATED"
       /\ \E id \in Current(b.client, b.address) : address[id].place = b.place
    \/ b.type = "PAYMENT_CONFIRMED" /\ payment[b.payment] # None
    \/ b.type = "INVOICE_ISSUED" /\ invoices[b.invoice] # None

\* The schema takes the values of the event.
Fits(e) == \/ Body[e].fault = "none"
           \/ Body[e].fault = "bad_new_row" /\ NeedsNoNewRow(e)

-------------------------------------------------------------------------------
(* process_event, one action per branch that ends in a commit.               *)

OrderCreated(e) ==
    LET b == Body[e] IN
    /\ b.type = "ORDER_CREATED"
    /\ Fits(e)
    /\ ~Known(b.order)                      \* uq_orders_external_order_id
    /\ Claim(e)
    /\ UpsertClient(b.client, b.profile)
    /\ \E id \in 1..(Len(address) + 1) :
          /\ UpsertCurrentAddress(b.client, b.address, b.place, id)
          /\ InsertOrder(b, id)
    /\ RecordStatusHistory(b.order, None, "PENDING", e)
    /\ UNCHANGED <<payment, invoices>>

StatusChanged(e) ==
    LET b == Body[e] IN
    /\ b.type = "ORDER_STATUS_CHANGED"
    /\ b.fault = "none"                     \* else KeyError or ck_orders_status
    /\ Known(b.order)
    /\ ~Frozen(b.order)
    /\ Claim(e)
    /\ UpdateOrderStatus(b.order, b.new_status)
    /\ RecordStatusHistory(b.order, orders[b.order].status, b.new_status, e)
    /\ UNCHANGED <<clients, address, payment, invoices>>

\* The order is not there yet: a warning, and the claim is committed.
DroppedUnknownOrder(e) ==
    LET b == Body[e] IN
    /\ \/ b.type = "ORDER_STATUS_CHANGED" /\ b.fault # "missing_field"
       \/ b.type \in {"PAYMENT_CONFIRMED", "INVOICE_ISSUED"}
    /\ b.fault # "no_order"
    /\ ~Known(b.order)
    /\ Claim(e)
    /\ UNCHANGED <<clients, address, orders, history, payment, invoices>>

\* Variant: PAYMENT_CONFIRMED is stored without resolve_order_id.
PaymentUnresolved(e) ==
    LET b == Body[e] IN
    /\ b.type = "PAYMENT_CONFIRMED"
    /\ Fits(e)
    /\ Claim(e)
    /\ payment' = Merge(payment, b.payment, b.order, b.charge)
    /\ UNCHANGED <<clients, address, orders, history, invoices>>
PaymentConfirmed(e) ==
    LET b == Body[e] IN
    /\ b.type = "PAYMENT_CONFIRMED"
    /\ Fits(e)
    /\ Known(b.order)
    /\ Claim(e)
    /\ payment' = Merge(payment, b.payment, b.order, b.charge)
    /\ UNCHANGED <<clients, address, orders, history, invoices>>

InvoiceIssued(e) ==
    LET b == Body[e] IN
    /\ b.type = "INVOICE_ISSUED"
    /\ Fits(e)
    /\ Known(b.order)
    /\ Claim(e)
    /\ invoices' = Merge(invoices, b.invoice, b.order, b.charge)
    /\ UNCHANGED <<clients, address, orders, history, payment>>

\* Variant: a payment that the schema refuses keeps its claim.
SwallowsBadValue(e) ==
    /\ \/ Body[e].type = "OTHER"
       \/ Body[e].type = "PAYMENT_CONFIRMED" /\ Body[e].fault = "bad_value"
    /\ Claim(e)
    /\ UNCHANGED <<clients, address, orders, history, payment, invoices>>
DroppedUnknownType(e) ==
    /\ Body[e].type = "OTHER"
    /\ Claim(e)
    /\ UNCHANGED <<clients, address, orders, history, payment, invoices>>

ProcessEvent(e) ==
    \/ OrderCreated(e)
    \/ StatusChanged(e)
    \/ DroppedUnknownOrder(e)
    \/ PaymentConfirmed(e)
    \/ InvoiceIssued(e)
    \/ DroppedUnknownType(e)

-------------------------------------------------------------------------------
(* The branches that roll back.                                              *)

Duplicate(e) == e \in processed

\* A SQLAlchemyError: a value the schema refuses, an order created twice, or the
\* trigger on a terminal order.
DbError(e) ==
    LET b == Body[e] IN
    /\ ~Duplicate(e)
    /\ \/ /\ b.type = "ORDER_CREATED"
          /\ b.fault \notin {"no_order", "missing_field"}
          /\ ~Fits(e) \/ Known(b.order)
       \/ /\ b.type = "ORDER_STATUS_CHANGED"
          /\ Known(b.order)
          /\ \/ b.fault = "bad_value"
             \/ b.fault = "none" /\ Frozen(b.order)
       \/ /\ b.type \in {"PAYMENT_CONFIRMED", "INVOICE_ISSUED"}
          /\ Known(b.order)
          /\ b.fault \notin {"no_order", "missing_field"}
          /\ ~Fits(e)

\* A KeyError.  A payment or an invoice of an unknown order is dropped before
\* its other fields are read.
UnexpectedError(e) ==
    LET b == Body[e] IN
    /\ ~Duplicate(e)
    /\ b.type # "OTHER"
    /\ \/ b.fault = "no_order"
       \/ /\ b.fault = "missing_field"
          /\ b.type \in {"PAYMENT_CONFIRMED", "INVOICE_ISSUED"} => Known(b.order)

\* The event process_event returns for publication: ORDER_APPROVED.
Approves(e) ==
    /\ Body[e].type = "ORDER_STATUS_CHANGED"
    /\ Body[e].new_status = "APPROVED"
    /\ Known(Body[e].order)

StoreNext == \E e \in EventId : ProcessEvent(e)

StoreSpec == StoreInit /\ [][StoreNext]_tables

-------------------------------------------------------------------------------
(* What the tables promise to whoever reads them.                            *)

\* Every row has the columns of its table, and NULL only where the schema allows it.
StoreTypeOK ==
    /\ processed \subseteq EventId
    /\ clients \in [ClientId -> Profile \cup {None}]
    /\ address \in Seq(AddressRow)
    /\ orders \in [OrderId -> OrderRow \cup {None}]
    /\ history \in Seq(HistoryRow)
    /\ payment \in [PaymentId -> ChargeRow \cup {None}]
    /\ invoices \in [InvoiceId -> ChargeRow \cup {None}]

\* orders.client_id and orders.address_id refer to rows that exist, the address
\* being one of that client (FOREIGN KEYs of migration 0001, insert_order).
ForeignKeys ==
    \A o \in OrderId : Known(o) =>
       /\ clients[orders[o].client] # None
       /\ orders[o].address \in DOMAIN address
       /\ address[orders[o].address].client = orders[o].client

\* No event leaves two marks: the rows of order_status_history come from
\* pairwise different events, each of which is in the ledger (claim_event).
AppliedOnce ==
    /\ \A i \in DOMAIN history : history[i].event \in processed
    /\ \A i, j \in DOMAIN history :
          history[i].event = history[j].event => i = j

\* Row i of the trail is the row of its order that comes just before row j.
Precedes(i, j) ==
    /\ i < j
    /\ history[i].order = history[j].order
    /\ \A m \in DOMAIN history :
          i < m /\ m < j => history[m].order # history[j].order

\* Row j opens the trail of its order, continues it, or row i ends that of order o.
FirstOfOrder(j) ==
    /\ \A i \in 1..(j - 1) : history[i].order # history[j].order
    /\ history[j].previous = None
    /\ history[j].status = "PENDING"
NextOfOrder(j) ==
    \E i \in 1..(j - 1) : /\ Precedes(i, j)
                          /\ history[j].previous = history[i].status
LastOfOrder(i, o) ==
    /\ history[i].order = o
    /\ history[i].status = orders[o].status
    /\ \A j \in DOMAIN history : i < j => history[j].order # o

\* The trail of an order is unbroken: it starts at PENDING out of nothing, every
\* row leaves from the status its predecessor arrived at, and it ends at the
\* status orders shows (record_status_history against update_order_status).
TrailIsChain ==
    /\ \A j \in DOMAIN history : FirstOfOrder(j) \/ NextOfOrder(j)
    /\ \A i \in DOMAIN history : Known(history[i].order)
    /\ \A o \in OrderId : Known(o) => \E i \in DOMAIN history : LastOfOrder(i, o)

\* Closed means closed: nothing follows a terminal row in the trail of an order,
\* and closed_at is set exactly on the orders that stand in a terminal status
\* (trg_orders_block_retro_update and the CASE of update_order_status).
TerminalIsFinal ==
    /\ \A i, j \in DOMAIN history :
          i < j /\ history[i].order = history[j].order
             => history[i].status \notin Terminal
    /\ \A o \in OrderId :
          Known(o) => (orders[o].closed <=> orders[o].status \in Terminal)

SameAddress(i, j) == /\ address[i].client = address[j].client
                     /\ address[i].external = address[j].external

\* The current version of an address is the newest one, and there is one
\* (upsert_current_address against uq_address_current_per_client).
CurrentIsNewest ==
    \A i \in DOMAIN address :
       address[i].current
          <=> \A j \in DOMAIN address : SameAddress(i, j) => j <= i

\* A version is written because something changed: it differs from the version
\* it supersedes (upsert_current_address, the comparison of the fields).
VersionsDiffer ==
    \A i, j \in DOMAIN address :
       (/\ i < j
        /\ SameAddress(i, j)
        /\ \A m \in DOMAIN address : SameAddress(m, j) => m <= i \/ j <= m)
          => address[i].place # address[j].place

\* An order keeps the portrait of the address it was placed with, whatever the
\* client changes later: its address_id is the version that holds the fields of
\* the event that created it (README, "retrato"; insert_order).
OrderPortrait ==
    \A i \in DOMAIN history :
       history[i].previous = None =>
          LET b   == Body[history[i].event]
              row == orders[history[i].order]
          IN  /\ b.type = "ORDER_CREATED"
              /\ b.order = history[i].order
              /\ row.items = b.items
              /\ row.client = b.client
              /\ row.address \in DOMAIN address
              /\ address[row.address].client = b.client
              /\ address[row.address].external = b.address
              /\ address[row.address].place = b.place

\* Money is never booked on air: a payment or an invoice belongs to a known order
\* and some processed event announced it for that order (resolve_order_id).
ChargesAnchored ==
    /\ \A x \in PaymentId : payment[x] # None =>
          /\ Known(payment[x].order)
          /\ \E e \in processed : /\ Body[e].type = "PAYMENT_CONFIRMED"
                                 /\ Body[e].payment = x
                                 /\ Body[e].order = payment[x].order
    /\ \A x \in InvoiceId : invoices[x] # None =>
          /\ Known(invoices[x].order)
          /\ \E e \in processed : /\ Body[e].type = "INVOICE_ISSUED"
                                 /\ Body[e].invoice = x
                                 /\ Body[e].order = invoices[x].order

\* An event the database refuses stays refused, whatever is processed meanwhile,
\* with one exception: a payment, an invoice or an address that only the INSERT
\* refuses is taken once another event has written the row (consumer.py, "will
\* fail identically every time", the reason not to retry a SQLAlchemyError, and
\* the MERGEs of db_ops.py).
RefusedUntilRowThere ==
    [][\A e \in EventId : DbError(e) =>
          \/ DbError(e)'
          \/ Body[e].fault = "bad_new_row" /\ NeedsNoNewRow(e)']_tables

===============================================================================
