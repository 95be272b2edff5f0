------------------------------ MODULE IngestionTxn ------------------------------
(*****************************************************************************)
(* The transactions of _run_in_txn (services/ingestion_consumer/app/         *)
(* consumer.py), statement by statement, when several replicas run theirs at *)
(* the same time: which statement of db_ops.py reads what, which rows it     *)
(* locks until the end of the transaction, where it waits for the locks of   *)
(* another, and what COMMIT then makes of the tables of OrderStore.          *)
(*                                                                           *)
(* SQL Server runs READ COMMITTED with row versions (db/entrypoint.sh): a    *)
(* SELECT reads what is committed and waits for nobody; a write, the search  *)
(* of a MERGE or of an UPDATE, and the check of a FOREIGN KEY wait for the    *)
(* exclusive lock of another transaction.  A search that finds no row locks  *)
(* nothing.  A lock stands for a key together with its row.                  *)
(*****************************************************************************)
EXTENDS OrderStore, FiniteSets

CONSTANTS
    Session,      \* the connections: one per replica, which awaits its transaction
    MaxAttempts,  \* stop_after_attempt of _run_in_txn
    MaxFailures,  \* bound: how many transactions a run lets fail from outside
    MaxProcessed  \* bound: a run begins no event once so many are processed

ASSUME TxnAssumption ==
    MaxAttempts \in Nat \ {0} /\ MaxFailures \in Nat /\ MaxProcessed \in Nat

VARIABLES
    at,        \* at[s]: the statement that session s executes next
    event,     \* the event it processes
    read,      \* what its transaction read of the order and of the address
    holds,     \* the locks it holds
    attempts,  \* the attempts of _run_in_txn that failed
    failures   \* transactions that failed from outside so far

session == <<at, event, read, holds, attempts>>
vars    == <<tables, session, failures>>

Key == ({"event"} \X EventId) \cup ({"client"} \X ClientId)
          \cup ({"address"} \X (ClientId \X AddressId))
          \cup ({"payment"} \X PaymentId) \cup ({"invoice"} \X InvoiceId)
          \cup ({"order"} \X OrderId)

\* order: there was a row.  status: the one before the UPDATE.  address: the
\* address_id of the current version, or 0.
Nothing == [order |-> FALSE, status |-> None, address |-> 0]

Init ==
    /\ StoreInit
    /\ at       = [s \in Session |-> "idle"]
    /\ event    = [s \in Session |-> None]
    /\ read     = [s \in Session |-> Nothing]
    /\ holds    = [s \in Session |-> {}]
    /\ attempts = [s \in Session |-> 0]
    /\ failures = 0

-------------------------------------------------------------------------------
(* Statements.                                                               *)

B(s) == Body[event[s]]

\* No other transaction has a lock on the key.
Free(s, key) == \A t \in Session \ {s} : key \notin holds[t]

\* The statement is done, with the locks K, and the next one is next.
Go(s, K, next) ==
    /\ at' = [at EXCEPT ![s] = next]
    /\ holds' = [holds EXCEPT ![s] = @ \cup K]
    /\ UNCHANGED <<tables, event, attempts, failures>>

\* The transaction is over: its locks are gone, and what it read is forgotten.
\* Variant: a rolled back transaction keeps its connection, and so its locks.
EndLeaking(s, next) ==
    /\ at' = [at EXCEPT ![s] = next]
    /\ read' = [read EXCEPT ![s] = Nothing]
    /\ UNCHANGED holds
End(s, next) ==
    /\ at' = [at EXCEPT ![s] = next]
    /\ read' = [read EXCEPT ![s] = Nothing]
    /\ holds' = [holds EXCEPT ![s] = {}]

\* And so is handle_message's work on the event.
Finish(s) ==
    /\ End(s, "idle")
    /\ event' = [event EXCEPT ![s] = None]
    /\ attempts' = [attempts EXCEPT ![s] = 0]

\* A SQLAlchemyError: rolled back and not retried.
Refuse(s) ==
    /\ End(s, "refused")
    /\ UNCHANGED <<tables, event, attempts, failures>>

\* Its except branch: logged and counted as db_error.
GiveUp(s) ==
    /\ at[s] = "refused"
    /\ Finish(s)
    /\ UNCHANGED <<tables, failures>>

\* handle_message with event e: engine.begin.
Begin(s, e) ==
    /\ at[s] = "idle"
    /\ Cardinality(processed) < MaxProcessed
    /\ at' = [at EXCEPT ![s] = "claim"]
    /\ event' = [event EXCEPT ![s] = e]
    /\ UNCHANGED <<tables, read, holds, attempts, failures>>

\* claim_event: the INSERT waits for a transaction that has the same event, and
\* meets a duplicate when that one, or an earlier one, is committed.
FirstStatement(type) ==
    CASE type = "ORDER_CREATED"        -> "find_client"
      [] type = "ORDER_STATUS_CHANGED" -> "update_order"
      [] type \in {"PAYMENT_CONFIRMED", "INVOICE_ISSUED"} -> "resolve_order"
      [] OTHER -> "commit"
ClaimEvent(s) ==
    /\ at[s] = "claim"
    /\ Free(s, <<"event", event[s]>>)
    /\ ~Duplicate(event[s])
    /\ Go(s, {<<"event", event[s]>>}, FirstStatement(B(s).type))
    /\ UNCHANGED read

DuplicateEvent(s) ==
    /\ at[s] = "claim"
    /\ Free(s, <<"event", event[s]>>)
    /\ Duplicate(event[s])
    /\ Finish(s)
    /\ UNCHANGED <<tables, failures>>

\* upsert_client: the search of the MERGE locks the row it finds.  Without
\* HOLDLOCK nothing keeps another MERGE from finding no row either.
\* Variant: the profile of a known client is not written again.
ClientLockless(s) == {}
ClientLock(s) == {<<"client", B(s).client>>}

FindClient(s) ==
    /\ at[s] = "find_client"
    /\ Free(s, <<"client", B(s).client>>)
    /\ IF clients[B(s).client] # None
         THEN Go(s, ClientLock(s), "read_address")
         ELSE Go(s, {}, "insert_client")
    /\ UNCHANGED read

\* Its INSERT, which waits for the other one and then violates
\* uq_clients_external_client_id, unless that one was rolled back.
InsertClient(s) ==
    /\ at[s] = "insert_client"
    /\ Free(s, <<"client", B(s).client>>)
    /\ clients[B(s).client] = None
    /\ Go(s, ClientLock(s), "read_address")
    /\ UNCHANGED read

ClientRace(s) ==
    /\ at[s] = "insert_client"
    /\ Free(s, <<"client", B(s).client>>)
    /\ clients[B(s).client] # None
    /\ Refuse(s)

\* upsert_current_address: a SELECT of committed rows, and the decision.
CurrentId(k, a) == IF Current(k, a) = {} THEN 0
                                         ELSE CHOOSE i \in Current(k, a) : TRUE
ReadAddress(s) ==
    /\ at[s] = "read_address"
    /\ LET id == CurrentId(B(s).client, B(s).address) IN
       /\ read' = [read EXCEPT ![s].address = id]
       /\ Go(s, {}, IF id # 0 /\ address[id].place = B(s).place
                      THEN "insert_order" ELSE "write_address")

\* The UPDATE of the version that was read and the INSERT of the new one, which
\* violates uq_address_current_per_client if another version is current.
AddressKey(s) == <<"address", <<B(s).client, B(s).address>>>>
WriteAddress(s) ==
    /\ at[s] = "write_address"
    /\ B(s).fault # "bad_new_row"
    /\ Free(s, AddressKey(s))
    /\ IF Current(B(s).client, B(s).address) \subseteq {read[s].address}
         THEN Go(s, {AddressKey(s)}, "insert_order") /\ UNCHANGED read
         ELSE Refuse(s)

\* insert_order, insert_order_items, record_status_history.
InsertOrderRow(s) ==
    /\ at[s] = "insert_order"
    /\ Free(s, <<"order", B(s).order>>)
    /\ B(s).fault \in {"none", "bad_new_row"}
    /\ ~Known(B(s).order)
    /\ Go(s, {<<"order", B(s).order>>}, "commit")
    /\ UNCHANGED read

OrderExists(s) ==
    /\ at[s] = "insert_order"
    /\ B(s).fault \notin {"no_order", "missing_field"}
    /\ Free(s, <<"order", B(s).order>>)
    /\ Known(B(s).order)
    /\ Refuse(s)

\* update_order_status and, for a row that was found, record_status_history and
\* fetch_order_snapshot.
\* Variant: OUTPUT is replaced by a SELECT in a transaction of its own.
LeaveOrderUnlocked(s) == {}
OrderLock(s) == {<<"order", B(s).order>>}

UpdateOrder(s) ==
    /\ at[s] = "update_order"
    /\ B(s).fault \notin {"no_order", "missing_field"}
    /\ Free(s, <<"order", B(s).order>>)
    /\ \/ /\ ~Known(B(s).order)
          /\ Go(s, {}, "commit")
          /\ UNCHANGED read
       \/ /\ Known(B(s).order)
          /\ B(s).fault = "none"
          /\ ~Frozen(B(s).order)
          /\ read' = [read EXCEPT ![s].order = TRUE,
                                  ![s].status = orders[B(s).order].status]
          /\ Go(s, OrderLock(s), "commit")

\* The CHECK on the status, or the trigger.
UpdateRejected(s) ==
    /\ at[s] = "update_order"
    /\ B(s).fault \notin {"no_order", "missing_field"}
    /\ Free(s, <<"order", B(s).order>>)
    /\ Known(B(s).order)
    /\ B(s).fault = "bad_value" \/ Frozen(B(s).order)
    /\ Refuse(s)

\* resolve_order_id: a SELECT of committed rows.
ResolveOrder(s) ==
    /\ at[s] = "resolve_order"
    /\ B(s).fault # "no_order"
    /\ read' = [read EXCEPT ![s].order = Known(B(s).order)]
    /\ Go(s, {}, IF Known(B(s).order) THEN "find_charge" ELSE "commit")

\* upsert_payment, upsert_invoice: a MERGE like that of upsert_client, whose
\* INSERT also checks the FOREIGN KEY to the order.
ChargeKey(s) == IF B(s).type = "PAYMENT_CONFIRMED" THEN <<"payment", B(s).payment>>
                                                   ELSE <<"invoice", B(s).invoice>>
ChargeExists(s) == IF B(s).type = "PAYMENT_CONFIRMED"
                     THEN payment[B(s).payment] # None
                     ELSE invoices[B(s).invoice] # None

FindCharge(s) ==
    /\ at[s] = "find_charge"
    /\ B(s).fault # "missing_field"
    /\ Free(s, ChargeKey(s))
    /\ \/ /\ ChargeExists(s)
          /\ B(s).fault # "bad_value"
          /\ Go(s, {ChargeKey(s)}, "commit")
       \/ /\ ~ChargeExists(s)
          /\ Go(s, {}, "insert_charge")
    /\ UNCHANGED read

InsertCharge(s) ==
    /\ at[s] = "insert_charge"
    /\ B(s).fault = "none"
    /\ Free(s, ChargeKey(s))
    /\ ~ChargeExists(s)
    /\ Go(s, {ChargeKey(s)}, "check_order")
    /\ UNCHANGED read

ChargeRace(s) ==
    /\ at[s] = "insert_charge"
    /\ Free(s, ChargeKey(s))
    /\ ChargeExists(s)
    /\ Refuse(s)

CheckOrder(s) ==
    /\ at[s] = "check_order"
    /\ Free(s, <<"order", B(s).order>>)
    /\ Go(s, {}, "commit")
    /\ UNCHANGED read

\* KeyError: the statement needs a field that is missing.
MissingField(s) ==
    /\ \/ /\ at[s] \in {"insert_order", "update_order", "resolve_order"}
          /\ B(s).fault = "no_order"
       \/ /\ at[s] \in {"find_client", "read_address", "insert_order",
                        "update_order", "find_charge"}
          /\ B(s).fault = "missing_field"
    /\ Finish(s)
    /\ UNCHANGED <<tables, failures>>

\* SQLAlchemyError: a value that its column does not take, in any write of it or
\* in an INSERT only.  That of update_order is UpdateRejected.
BadValue(s) ==
    /\ \/ /\ at[s] \in {"find_client", "insert_client", "write_address",
                        "insert_order", "find_charge", "insert_charge"}
          /\ B(s).fault = "bad_value"
       \/ /\ at[s] \in {"write_address", "insert_charge"}
          /\ B(s).fault = "bad_new_row"
    /\ Refuse(s)

-------------------------------------------------------------------------------
(* COMMIT, with mark_event_processed: what the statements wrote becomes what  *)
(* everybody reads.  The address_id and the history_id are those of the order *)
(* of commits, which nobody can tell from that of the INSERTs.                *)

CommitCreated(s) ==
    LET b  == B(s)
        id == read[s].address
        keep == id # 0 /\ address[id].place = b.place
    IN
    /\ b.type = "ORDER_CREATED"
    /\ UpsertClient(b.client, b.profile)
    /\ \/ keep /\ UNCHANGED address /\ InsertOrder(b, id)
       \/ /\ ~keep
          /\ address' = Append(Expire({id}), [client |-> b.client,
                external |-> b.address, place |-> b.place, current |-> TRUE])
          /\ InsertOrder(b, Len(address) + 1)
    /\ RecordStatusHistory(b.order, None, "PENDING", event[s])
    /\ UNCHANGED <<payment, invoices>>

CommitStatus(s) ==
    LET b == B(s) IN
    /\ b.type = "ORDER_STATUS_CHANGED"
    /\ read[s].order
    /\ UpdateOrderStatus(b.order, b.new_status)
    /\ RecordStatusHistory(b.order, read[s].status, b.new_status, event[s])
    /\ UNCHANGED <<clients, address, payment, invoices>>

CommitCharge(s) ==
    LET b == B(s) IN
    /\ read[s].order
    /\ \/ /\ b.type = "PAYMENT_CONFIRMED"
          /\ payment' = Merge(payment, b.payment, b.order, b.charge)
          /\ UNCHANGED invoices
       \/ /\ b.type = "INVOICE_ISSUED"
          /\ invoices' = Merge(invoices, b.invoice, b.order, b.charge)
          /\ UNCHANGED payment
    /\ UNCHANGED <<clients, address, orders, history>>

\* The order was not there, or the type is unknown: the claim only.
CommitDropped(s) ==
    /\ B(s).type # "ORDER_CREATED"
    /\ ~read[s].order
    /\ UNCHANGED <<clients, address, orders, history, payment, invoices>>

Commit(s) ==
    /\ at[s] = "commit"
    /\ Claim(event[s])
    /\ CommitCreated(s) \/ CommitStatus(s) \/ CommitCharge(s) \/ CommitDropped(s)
    /\ Finish(s)
    /\ UNCHANGED <<failures>>

\* OperationalError: a connection that is lost, a lock that takes more than
\* LOCK_TIMEOUT_MS, a deadlock.  All is rolled back, and the next attempt begins.
Interrupted(s) ==
    /\ at[s] \notin {"idle", "refused"}
    /\ failures < MaxFailures
    /\ failures' = failures + 1
    /\ \/ /\ attempts[s] + 1 < MaxAttempts
          /\ attempts' = [attempts EXCEPT ![s] = @ + 1]
          /\ End(s, "claim")
          /\ UNCHANGED event
       \/ /\ attempts[s] + 1 = MaxAttempts
          /\ Finish(s)
    /\ UNCHANGED tables

-------------------------------------------------------------------------------

Statement(s) ==
    \/ ClaimEvent(s) \/ DuplicateEvent(s)
    \/ FindClient(s) \/ InsertClient(s) \/ ClientRace(s)
    \/ ReadAddress(s) \/ WriteAddress(s)
    \/ InsertOrderRow(s) \/ OrderExists(s)
    \/ UpdateOrder(s) \/ UpdateRejected(s)
    \/ ResolveOrder(s)
    \/ FindCharge(s) \/ InsertCharge(s) \/ ChargeRace(s) \/ CheckOrder(s)
    \/ MissingField(s) \/ BadValue(s) \/ GiveUp(s) \/ Commit(s)

Next == \E s \in Session : \/ \E e \in EventId : Begin(s, e)
                           \/ Statement(s)
                           \/ Interrupted(s)

Spec == Init /\ [][Next]_vars

\* A transaction goes on when it can, and a lock that becomes free goes to the
\* one that waits for it before it goes to a later one for ever.
Fairness == \A s \in Session : SF_vars(Statement(s))

FairSpec == Spec /\ Fairness

-------------------------------------------------------------------------------
(* What the transactions promise.                                            *)

StatementName ==
    {"idle", "claim", "find_client", "insert_client", "read_address",
     "write_address", "insert_order", "update_order", "resolve_order",
     "find_charge", "insert_charge", "check_order", "commit", "refused"}

\* The tables, and what a session holds in memory.
TxnTypeOK ==
    /\ StoreTypeOK
    /\ at \in [Session -> StatementName]
    /\ event \in [Session -> EventId \cup {None}]
    /\ read \in [Session -> [order: BOOLEAN, status: Status \cup {None}, address: Nat]]
    /\ holds \in [Session -> SUBSET Key]
    /\ attempts \in [Session -> 0..(MaxAttempts - 1)]
    /\ failures \in Nat

\* The order of an event became known after its transaction had looked for it:
\* the event is dropped all the same.
DroppedLate(e) ==
    /\ Body[e].type \in {"ORDER_STATUS_CHANGED", "PAYMENT_CONFIRMED", "INVOICE_ISSUED"}
    /\ Known(Body[e].order)
    /\ Claim(e)
    /\ UNCHANGED <<clients, address, orders, history, payment, invoices>>

\* Whatever other replicas write between its statements, a transaction does to the
\* tables what process_event does to them in one step at its COMMIT, or it drops an
\* event of an order that another one was just creating (_run_in_txn).
CommitsAreEvents == [][\E e \in EventId : ProcessEvent(e) \/ DroppedLate(e)]_tables

\* The version that upsert_current_address read, without a lock, is still the
\* current one when it is expired, kept or referred to: the lock on the client,
\* which its MERGE takes first, covers it (db_ops.py, the SELECT of the address).
AddressReadIsCurrent ==
    \A s \in Session :
       at[s] \in {"write_address", "insert_order", "commit"}
       /\ B(s).type = "ORDER_CREATED"
          => read[s].address = CurrentId(B(s).client, B(s).address)

\* The keys the next statement of a session waits for.
Wants(s) ==
    CASE at[s] = "claim"                             -> {<<"event", event[s]>>}
      [] at[s] \in {"find_client", "insert_client"}  -> {<<"client", B(s).client>>}
      [] at[s] = "write_address"                     -> {AddressKey(s)}
      [] at[s] \in {"insert_order", "update_order",
                    "check_order"}                   -> {<<"order", B(s).order>>}
      [] at[s] \in {"find_charge", "insert_charge"}  -> {ChargeKey(s)}
      [] OTHER                                       -> {}

WaitsFor(s, t) == s # t /\ Wants(s) \cap holds[t] # {}

\* Replicas on the same orders and clients never wait for each other in a ring:
\* no transaction is the victim of a deadlock, whatever the order of their events
\* (process_event, the order of its statements).
NoDeadlock ==
    \A S \in (SUBSET Session) \ {{}} :
       \E s \in S : \A t \in S : ~WaitsFor(s, t)

\* Every transaction comes to an end, without LOCK_TIMEOUT having to end it
\* (common/db.py, "instead of waiting on a lock forever").
EveryTxnEnds == \A s \in Session : at[s] # "idle" ~> at[s] = "idle"

-------------------------------------------------------------------------------
(* What the code says of it, where it does otherwise.                        *)

\* consumer.py, handle_message, "will fail identically every time": an event that
\* is given up with the outcome db_error is one that the tables refuse.
RefusedForCause == \A s \in Session : at[s] = "refused" => DbError(event[s])

===============================================================================
