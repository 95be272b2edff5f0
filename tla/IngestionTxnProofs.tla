--------------------------- MODULE IngestionTxnProofs ---------------------------
(*****************************************************************************)
(* Proofs about IngestionTxn for any number of sessions, events and failures: *)
(* what the locks of its transactions keep apart, and that COMMIT therefore   *)
(* does to the tables what an action of OrderStore does.                      *)
(*****************************************************************************)
EXTENDS IngestionTxn, OrderStoreProofs

USE TxnAssumption

-------------------------------------------------------------------------------
(* The inductive invariant.                                                   *)

\* The statements of each kind of transaction behind its claim.
CreatedStep == {"find_client", "insert_client", "read_address", "write_address",
                "insert_order"}
ChargeStep  == {"resolve_order", "find_charge", "insert_charge", "check_order"}
ChargeType  == {"PAYMENT_CONFIRMED", "INVOICE_ISSUED"}

\* A transaction has its claim and nothing else to begin with, and nobody has
\* committed its event.
ClaimInv(s) ==
    /\ at[s] = "idle" <=> event[s] = None
    /\ at[s] \in {"idle", "claim", "refused"} => holds[s] = {} /\ read[s] = Nothing
    /\ at[s] \notin {"idle", "claim", "refused"} =>
          <<"event", event[s]>> \in holds[s] /\ event[s] \notin processed

\* Each statement belongs to its type of event.
PathInv(s) ==
    /\ at[s] \in CreatedStep => B(s).type = "ORDER_CREATED"
    /\ at[s] = "update_order" => B(s).type = "ORDER_STATUS_CHANGED"
    /\ at[s] \in ChargeStep => B(s).type \in ChargeType

\* What the transaction read of the address is what there is: the id of the
\* current version, or 0 for none.
ReadsCurrent(s) == Current(B(s).client, B(s).address) = {read[s].address} \ {0}

\* A value that only an INSERT refuses came through because there is none to do.
RowThere(s) == B(s).fault = "bad_new_row" => NeedsNoNewRow(event[s])

\* A new order: its client is locked from the MERGE on, which keeps the address
\* that was read current; its own row is locked from the INSERT on.
CreatedInv(s) ==
    B(s).type = "ORDER_CREATED" =>
       /\ at[s] \in {"read_address", "write_address", "insert_order", "commit"} =>
             <<"client", B(s).client>> \in holds[s]
       /\ at[s] \in {"write_address", "insert_order", "commit"} => ReadsCurrent(s)
       /\ at[s] \in {"insert_order", "commit"} => RowThere(s)
       /\ at[s] = "commit" =>
             /\ B(s).fault \in {"none", "bad_new_row"} /\ ~Known(B(s).order)
             /\ <<"order", B(s).order>> \in holds[s]

\* A status: the row is locked from the UPDATE on, so that the status it had is
\* the one that the trail is told.
StatusInv(s) ==
    /\ at[s] = "update_order" => ~read[s].order
    /\ at[s] = "commit" /\ B(s).type = "ORDER_STATUS_CHANGED" =>
          \/ ~read[s].order /\ B(s).fault \notin {"no_order", "missing_field"}
          \/ /\ read[s].order /\ B(s).fault = "none"
             /\ Known(B(s).order) /\ ~Frozen(B(s).order)
             /\ read[s].status = orders[B(s).order].status
             /\ <<"order", B(s).order>> \in holds[s]

\* A payment or an invoice: an order that was found stays, and so does the row of
\* its external id.
ChargeInv(s) ==
    /\ at[s] \in {"find_charge", "insert_charge", "check_order"} =>
          read[s].order /\ Known(B(s).order) /\ B(s).fault # "no_order"
    /\ at[s] = "check_order" => B(s).fault = "none"
    /\ at[s] = "commit" /\ B(s).type \in ChargeType =>
          /\ B(s).fault # "no_order"
          /\ read[s].order => /\ B(s).fault \in {"none", "bad_new_row"}
                              /\ RowThere(s) /\ Known(B(s).order)

SessionInv(s) ==
    ClaimInv(s) /\ PathInv(s) /\ CreatedInv(s) /\ StatusInv(s) /\ ChargeInv(s)

\* A lock has one holder.
Exclusive == \A s, t \in Session : s # t => holds[s] \cap holds[t] = {}

TxnInv ==
    /\ TxnTypeOK /\ CurrentIsNewest /\ Exclusive
    /\ \A s \in Session : SessionInv(s)

-------------------------------------------------------------------------------
(* The current version of an address.                                         *)

\* There is at most one, and CurrentId is its id, or 0.
LEMMA OneCurrent ==
    ASSUME StoreTypeOK, CurrentIsNewest, NEW k, NEW a
    PROVE  /\ CurrentId(k, a) \in Nat
           /\ CurrentId(k, a) = 0 <=> Current(k, a) = {}
           /\ Current(k, a) = {CurrentId(k, a)} \ {0}
  <1>1. DOMAIN address = 1..Len(address) /\ Len(address) \in Nat
    BY DEF StoreTypeOK
  <1>2. \A i \in Current(k, a) : i \in 1..Len(address)
    BY <1>1 DEF Current
  <1>3. \A i, j \in Current(k, a) : i = j
    <2> TAKE i, j \in Current(k, a)
    <2>1. SameAddress(i, j) /\ SameAddress(j, i)
      BY DEF Current, SameAddress
    <2>2. i <= j /\ j <= i
      BY <2>1 DEF CurrentIsNewest, Current
    <2> QED
      BY <1>2, <2>2
  <1>4. CASE Current(k, a) = {}
    BY <1>1, <1>4 DEF CurrentId
  <1>5. CASE Current(k, a) # {}
    <2>1. CurrentId(k, a) \in Current(k, a)
      BY <1>5 DEF CurrentId
    <2>2. Current(k, a) = {CurrentId(k, a)}
      BY <1>3, <2>1
    <2> QED
      BY <1>1, <1>2, <1>5, <2>1, <2>2
  <1> QED
    BY <1>4, <1>5

\* Expiring depends on the rows that are there only.
LEMMA ExpireSame ==
    ASSUME NEW S, NEW T, \A i \in DOMAIN address : i \in S <=> i \in T
    PROVE  Expire(S) = Expire(T)
  <1>1. \A i \in DOMAIN address : (i \notin S) = (i \notin T)
    OBVIOUS
  <1> QED
    BY <1>1 DEF Expire

-------------------------------------------------------------------------------
(* COMMIT.                                                                    *)

\* What the tables become at COMMIT is what process_event makes of them in one
\* step, but for an event that is dropped late.
LEMMA CommitIsEvent ==
    ASSUME TxnInv, NEW s \in Session, Commit(s)
    PROVE  event[s] \in EventId /\ (ProcessEvent(event[s]) \/ DroppedLate(event[s]))
  <1> DEFINE b == B(s)
  <1>0. SessionInv(s) /\ at[s] = "commit" /\ Claim(event[s])
    BY DEF TxnInv, Commit
  <1>1. event[s] \in EventId
    BY <1>0 DEF TxnInv, TxnTypeOK, SessionInv, ClaimInv
  <1>2. CASE CommitCreated(s)
    <2> DEFINE id == read[s].address
    <2>1. /\ b.type = "ORDER_CREATED" /\ Fits(event[s]) /\ ~Known(b.order)
          /\ Current(b.client, b.address) = {id} \ {0}
      BY <1>0, <1>2 DEF CommitCreated, SessionInv, CreatedInv, ReadsCurrent, RowThere, Fits, B
    <2>2. Current(b.client, b.address) \subseteq DOMAIN address
      BY DEF Current
    <2>3. Len(address) \in Nat /\ DOMAIN address = 1..Len(address)
      BY DEF TxnInv, TxnTypeOK, StoreTypeOK
    <2>4. \E n \in 1..(Len(address) + 1) :
             UpsertCurrentAddress(b.client, b.address, b.place, n) /\ InsertOrder(b, n)
      <3>1. CASE id # 0 /\ address[id].place = b.place
        <4>1. UNCHANGED address /\ InsertOrder(b, id)
          BY <1>2, <3>1 DEF CommitCreated
        <4>2. id \in 1..(Len(address) + 1) /\ id \in Current(b.client, b.address)
          BY <2>1, <2>2, <2>3, <3>1
        <4> QED
          BY <3>1, <4>1, <4>2 DEF UpsertCurrentAddress
      <3>2. CASE ~(id # 0 /\ address[id].place = b.place)
        <4>1. /\ address' = Append(Expire({id}), [client |-> b.client,
                    external |-> b.address, place |-> b.place, current |-> TRUE])
              /\ InsertOrder(b, Len(address) + 1)
          BY <1>2, <3>2 DEF CommitCreated
        <4>2. Expire({id}) = Expire(Current(b.client, b.address))
          <5>1. \A i \in DOMAIN address : i \in {id} <=> i \in Current(b.client, b.address)
            BY <2>1, <2>3
          <5> HIDE DEF b, id
          <5> QED
            BY <5>1, ExpireSame
        <4>3. \A i \in Current(b.client, b.address) : address[i].place # b.place
          BY <2>1, <3>2
        <4>4. Len(address) + 1 \in 1..(Len(address) + 1)
          BY <2>3
        <4> QED
          BY <4>1, <4>2, <4>3, <4>4 DEF UpsertCurrentAddress
      <3> QED
        BY <3>1, <3>2
    <2>5. OrderCreated(event[s])
      BY <1>0, <1>2, <2>1, <2>4 DEF CommitCreated, OrderCreated, B
    <2> QED
      BY <1>1, <2>5 DEF ProcessEvent
  <1>3. CASE CommitStatus(s)
    <2>1. /\ b.type = "ORDER_STATUS_CHANGED" /\ b.fault = "none"
          /\ Known(b.order) /\ ~Frozen(b.order)
          /\ read[s].status = orders[b.order].status
      BY <1>0, <1>3 DEF CommitStatus, SessionInv, StatusInv
    <2>2. StatusChanged(event[s])
      BY <1>0, <1>3, <2>1 DEF CommitStatus, StatusChanged, B
    <2> QED
      BY <1>1, <2>2 DEF ProcessEvent
  <1>4. CASE CommitCharge(s)
    <2>1. b.type \in ChargeType /\ Fits(event[s]) /\ Known(b.order)
      BY <1>0, <1>4 DEF CommitCharge, SessionInv, ChargeInv, ChargeType, RowThere, Fits, B
    <2>2. PaymentConfirmed(event[s]) \/ InvoiceIssued(event[s])
      BY <1>0, <1>4, <2>1 DEF CommitCharge, PaymentConfirmed, InvoiceIssued, B
    <2> QED
      BY <1>1, <2>2 DEF ProcessEvent
  <1>5. CASE CommitDropped(s)
    <2>1. b.type \in {"ORDER_STATUS_CHANGED", "PAYMENT_CONFIRMED", "INVOICE_ISSUED", "OTHER"}
      BY <1>1, <1>5, BodyAssumption DEF CommitDropped, B, CreatedBody, StatusBody,
         PaymentBody, InvoiceBody, OtherBody
    <2>2. /\ b.type = "ORDER_STATUS_CHANGED" => b.fault \notin {"no_order", "missing_field"}
          /\ b.type \in ChargeType => b.fault # "no_order"
      BY <1>0, <1>5 DEF CommitDropped, SessionInv, StatusInv, ChargeInv
    <2>3. UNCHANGED <<clients, address, orders, history, payment, invoices>>
      BY <1>5 DEF CommitDropped
    <2>4. CASE b.type = "OTHER"
      BY <1>1, <1>0, <2>3, <2>4 DEF DroppedUnknownType, ProcessEvent, B
    <2>5. CASE b.type # "OTHER" /\ Known(b.order)
      BY <1>1, <1>0, <2>1, <2>3, <2>5 DEF DroppedLate, B
    <2>6. CASE b.type # "OTHER" /\ ~Known(b.order)
      BY <1>1, <1>0, <2>1, <2>2, <2>3, <2>6
      DEF DroppedUnknownOrder, ProcessEvent, B, ChargeType
    <2> QED
      BY <1>1, <2>4, <2>5, <2>6
  <1> QED
    BY <1>2, <1>3, <1>4, <1>5 DEF Commit

\* What a COMMIT leaves alone: the rows of orders that are not locked by it, the
\* current addresses of clients that are not, and the knowledge of an order.
LEMMA CommitRespectsLocks ==
    ASSUME TxnInv, NEW s \in Session, Commit(s)
    PROVE  /\ StoreTypeOK' /\ CurrentIsNewest'
           /\ processed' = processed \cup {event[s]} /\ RowsStay
           /\ \A o \in OrderId : Known(o) => Known(o)'
           /\ \A o \in OrderId : <<"order", o>> \notin holds[s] => orders'[o] = orders[o]
           /\ \A k, a : <<"client", k>> \notin holds[s] => Current(k, a)' = Current(k, a)
  <1> DEFINE e == event[s]
  <1>1. e \in EventId /\ (ProcessEvent(e) \/ DroppedLate(e))
    BY CommitIsEvent
  <1>2. StoreTypeOK /\ CurrentIsNewest /\ SessionInv(s) /\ at[s] = "commit"
    BY DEF TxnInv, TxnTypeOK, Commit
  <1>3. processed' = processed \cup {e}
    BY DEF Commit, Claim
  <1>4. CASE UNCHANGED <<clients, address, orders, history, payment, invoices>>
    <2>1. StoreTypeOK'
      BY <1>1, <1>2, <1>3, <1>4 DEF StoreTypeOK
    <2>2. CurrentIsNewest' /\ \A k, a : Current(k, a)' = Current(k, a)
      BY <1>2, <1>4 DEF CurrentIsNewest, SameAddress, Current
    <2>3. (\A o \in OrderId : Known(o) => Known(o)') /\ RowsStay
      BY <1>4 DEF Known, RowsStay
    <2> QED
      BY <1>3, <1>4, <2>1, <2>2, <2>3
  <1>5. CASE ProcessEvent(e)
    <2>1. StoreTypeOK' /\ CurrentIsNewest' /\ RowsStay
      BY <1>1, <1>2, <1>5, StoreTypeStep, NewestStep, EventsKeepRows DEF StoreNext
    <2>2. \A o \in OrderId : Known(o) => Known(o)'
      BY <1>1, <1>2, <1>5, OrdersOnlyAdvance
    <2>3. CASE OrderCreated(e)
      <3>1. B(s).type = "ORDER_CREATED" /\ Body[e] = B(s)
        BY <2>3 DEF OrderCreated, B
      <3>2. /\ <<"client", B(s).client>> \in holds[s]
            /\ <<"order", B(s).order>> \in holds[s]
        BY <1>2, <3>1 DEF SessionInv, CreatedInv
      <3>3. \A o \in OrderId : <<"order", o>> \notin holds[s] => orders'[o] = orders[o]
        BY <1>1, <1>2, <2>3, <3>1, <3>2, OrdersStep
      <3>4. ASSUME NEW k, NEW a, k # B(s).client
            PROVE  Current(k, a)' = Current(k, a)
        <4>1. PICK id \in 1..(Len(address) + 1) :
                 UpsertCurrentAddress(B(s).client, B(s).address, B(s).place, id)
          BY <2>3, <3>1 DEF OrderCreated
        <4>2. CASE UNCHANGED address
          BY <4>2 DEF Current
        <4>3. CASE address' = Append(Expire(Current(B(s).client, B(s).address)),
                                [client |-> B(s).client, external |-> B(s).address,
                                 place |-> B(s).place, current |-> TRUE])
          <5>1. PICK n \in Nat : n = Len(address) + 1
            BY <1>2 DEF StoreTypeOK
          <5>2. /\ DOMAIN address = 1..(n - 1) /\ DOMAIN address' = 1..n
                /\ address'[n].client = B(s).client
                /\ \A i \in 1..(n - 1) :
                      /\ address'[i].client = address[i].client
                      /\ address'[i].external = address[i].external
                      /\ address'[i].current
                           = (address[i].current /\ i \notin Current(B(s).client, B(s).address))
            <6>1. B(s).client \in ClientId /\ B(s).address \in AddressId /\ B(s).place \in Place
              BY <1>1, <3>1, CreatedFields
            <6>2. address \in Seq(AddressRow)
              BY <1>2 DEF StoreTypeOK
            <6> QED
              BY <4>3, <5>1, <6>1, <6>2, NewVersion DEF VersionAdded
          <5>3. \A i \in 1..(n - 1) :
                   address[i].client = k => i \notin Current(B(s).client, B(s).address)
            BY <3>4 DEF Current
          <5>4. \A i \in 1..n : i \in Current(k, a)' <=> i \in Current(k, a)
            <6>1. n \notin Current(k, a)' /\ n \notin Current(k, a)
              BY <3>4, <5>2 DEF Current
            <6>2. ASSUME NEW i \in 1..(n - 1)
                  PROVE  i \in Current(k, a)' <=> i \in Current(k, a)
              <7>1. i \in DOMAIN address /\ i \in DOMAIN address'
                BY <5>2
              <7>2. /\ address'[i].client = address[i].client
                    /\ address'[i].external = address[i].external
                BY <5>2
              <7>3. address[i].client = k => (address'[i].current <=> address[i].current)
                BY <5>2, <5>3
              <7> QED
                BY <7>1, <7>2, <7>3, Zenon DEF Current
            <6> QED
              BY <6>1, <6>2
          <5> QED
            BY <5>2, <5>4 DEF Current
        <4> QED
          BY <4>1, <4>2, <4>3 DEF UpsertCurrentAddress
      <3> QED
        BY <1>3, <2>1, <2>2, <3>2, <3>3, <3>4
    <2>4. CASE StatusChanged(e)
      <3>1. B(s).type = "ORDER_STATUS_CHANGED" /\ Body[e] = B(s) /\ Known(B(s).order)
        BY <2>4 DEF StatusChanged, B
      <3>2. read[s].order
        <4> SUFFICES ASSUME ~read[s].order PROVE FALSE
          OBVIOUS
        <4>1. CommitDropped(s)
          BY <3>1 DEF Commit, CommitCreated, CommitStatus, CommitCharge
        <4>2. history' = history
          BY <4>1 DEF CommitDropped
        <4>3. history' # history
          BY <1>2, <2>4 DEF StatusChanged, RecordStatusHistory, StoreTypeOK
        <4> QED
          BY <4>2, <4>3
      <3>3. <<"order", B(s).order>> \in holds[s]
        BY <1>2, <3>1, <3>2 DEF SessionInv, StatusInv
      <3>4. \A o \in OrderId : <<"order", o>> \notin holds[s] => orders'[o] = orders[o]
        <4>1. \A o \in OrderId \ {B(s).order} : orders'[o] = orders[o]
          BY <1>1, <1>2, <2>4, <3>1, OrdersStep
        <4> QED
          BY <3>3, <4>1
      <3>5. \A k, a : Current(k, a)' = Current(k, a)
        BY <2>4 DEF StatusChanged, Current
      <3> QED
        BY <1>3, <2>1, <2>2, <3>4, <3>5
    <2>5. CASE ~OrderCreated(e) /\ ~StatusChanged(e)
      <3>1. UNCHANGED <<address, orders>>
        BY <1>5, <2>5 DEF ProcessEvent, DroppedUnknownOrder, PaymentConfirmed, InvoiceIssued,
           DroppedUnknownType
      <3>2. \A k, a : Current(k, a)' = Current(k, a)
        BY <3>1 DEF Current
      <3> QED
        BY <1>3, <2>1, <2>2, <3>1, <3>2
    <2> QED
      BY <2>3, <2>4, <2>5
  <1> QED
    BY <1>1, <1>4, <1>5 DEF DroppedLate

-------------------------------------------------------------------------------
(* The other sessions.                                                        *)

\* A step of session s leaves what the others hold and know.
OthersRest(s) ==
    \A t \in Session \ {s} : /\ at'[t] = at[t] /\ event'[t] = event[t]
                             /\ read'[t] = read[t] /\ holds'[t] = holds[t]

\* Every event is about an order.
LEMMA BodyOrder == \A e \in EventId : Body[e].order \in OrderId
  BY BodyAssumption DEF CreatedBody, StatusBody, PaymentBody, InvoiceBody, OtherBody

\* What a session may rely on in the tables while it holds its locks.
Undisturbed(t) ==
    /\ at[t] \notin {"idle", "claim", "refused"} => event[t] \notin processed'
    /\ RowsStay
    /\ \A o \in OrderId : Known(o) => Known(o)'
    /\ \A o \in OrderId : <<"order", o>> \in holds[t] => orders'[o] = orders[o]
    /\ \A k, a : <<"client", k>> \in holds[t] => Current(k, a)' = Current(k, a)

\* It may rely on it: another session changes tables only at its COMMIT, with
\* the locks of what it changes.
LEMMA LocksProtect ==
    ASSUME TxnInv, NEW s \in Session, NEW t \in Session \ {s},
           UNCHANGED tables \/ Commit(s)
    PROVE  Undisturbed(t)
  <1>1. SessionInv(t) /\ SessionInv(s) /\ holds[s] \cap holds[t] = {}
    BY DEF TxnInv, Exclusive
  <1>2. CASE UNCHANGED tables
    BY <1>1, <1>2 DEF tables, Undisturbed, RowsStay, Known, Current, SessionInv, ClaimInv
  <1>3. CASE Commit(s)
    <2>1. <<"event", event[s]>> \in holds[s]
      BY <1>1, <1>3 DEF SessionInv, ClaimInv, Commit
    <2>2. ASSUME at[t] \notin {"idle", "claim", "refused"}
          PROVE  event[t] \notin processed'
      <3>1. <<"event", event[t]>> \in holds[t] /\ event[t] \notin processed
        BY <1>1, <2>2 DEF SessionInv, ClaimInv
      <3>2. event[t] # event[s]
        BY <1>1, <2>1, <3>1
      <3> QED
        BY <1>3, <3>1, <3>2, CommitRespectsLocks
    <2>3. \A o \in OrderId : <<"order", o>> \in holds[t] => orders'[o] = orders[o]
      BY <1>1, <1>3, CommitRespectsLocks
    <2>4. \A k, a : <<"client", k>> \in holds[t] => Current(k, a)' = Current(k, a)
      BY <1>1, <1>3, CommitRespectsLocks
    <2>5. (\A o \in OrderId : Known(o) => Known(o)') /\ RowsStay
      BY <1>3, CommitRespectsLocks
    <2> QED
      BY <2>2, <2>3, <2>4, <2>5 DEF Undisturbed
  <1> QED
    BY <1>2, <1>3

\* A session that does not move keeps its invariant.
LEMMA RestingSession ==
    ASSUME TxnInv, NEW t \in Session, SessionInv(t), Undisturbed(t),
           at'[t] = at[t], event'[t] = event[t], read'[t] = read[t], holds'[t] = holds[t]
    PROVE  SessionInv(t)'
  <1>0. B(t)' = B(t)
    BY DEF B
  <1>1. ClaimInv(t)' /\ PathInv(t)'
    BY <1>0 DEF SessionInv, ClaimInv, PathInv, Undisturbed
  <1>2. event[t] # None => event[t] \in EventId /\ B(t).order \in OrderId
    BY BodyOrder DEF TxnInv, TxnTypeOK, B
  <1>3. at[t] # "idle" => event[t] # None
    BY DEF SessionInv, ClaimInv
  <1>4. CreatedInv(t)'
    <2> SUFFICES ASSUME B(t).type = "ORDER_CREATED" PROVE CreatedInv(t)'
      BY <1>0 DEF CreatedInv
    <2>1. ASSUME at[t] \in {"write_address", "insert_order", "commit"}
          PROVE  ReadsCurrent(t)'
      <3>1. <<"client", B(t).client>> \in holds[t] /\ ReadsCurrent(t)
        BY <2>1 DEF SessionInv, CreatedInv
      <3>2. PICK k, a : k = B(t).client /\ a = B(t).address
        OBVIOUS
      <3>3. Current(k, a)' = Current(k, a)
        BY <3>1, <3>2 DEF Undisturbed
      <3>4. Current(B(t).client, B(t).address)' = Current(k, a)
        BY <1>0, <3>2, <3>3 DEF Current
      <3> QED
        BY <3>1, <3>2, <3>4 DEF ReadsCurrent
    <2>2. ASSUME at[t] = "commit"
          PROVE  ~Known(B(t).order)'
      <3>1. <<"order", B(t).order>> \in holds[t] /\ ~Known(B(t).order)
        BY <2>2 DEF SessionInv, CreatedInv
      <3>2. orders'[B(t).order] = orders[B(t).order]
        BY <1>2, <1>3, <2>2, <3>1 DEF Undisturbed
      <3> QED
        BY <1>0, <3>1, <3>2 DEF Known
    <2>3. ASSUME at[t] \in {"insert_order", "commit"}
          PROVE  RowThere(t)'
      <3>1. <<"client", B(t).client>> \in holds[t] /\ RowThere(t)
        BY <2>3 DEF SessionInv, CreatedInv
      <3>2. PICK k, a : k = B(t).client /\ a = B(t).address
        OBVIOUS
      <3>3. Current(k, a)' = Current(k, a) /\ RowsStay
        BY <3>1, <3>2 DEF Undisturbed
      <3>4. CASE B(t).fault # "bad_new_row"
        BY <1>0, <3>4 DEF RowThere
      <3>5. CASE B(t).fault = "bad_new_row"
        <4>1. PICK id \in Current(k, a) : address[id].place = B(t).place
          BY <3>1, <3>2, <3>5 DEF RowThere, NeedsNoNewRow, B
        <4>2. id \in Current(k, a)' /\ address'[id].place = B(t).place
          BY <3>3, <4>1 DEF RowsStay, Current
        <4> QED
          BY <3>2, <4>2 DEF RowThere, NeedsNoNewRow, B, Current
      <3> QED
        BY <3>4, <3>5
    <2> QED
      BY <1>0, <2>1, <2>2, <2>3 DEF SessionInv, CreatedInv
  <1>5. StatusInv(t)'
    <2> SUFFICES ASSUME at[t] = "commit", B(t).type = "ORDER_STATUS_CHANGED"
                 PROVE  StatusInv(t)'
      BY <1>0 DEF SessionInv, StatusInv
    <2>1. CASE ~read[t].order
      BY <1>0, <2>1 DEF SessionInv, StatusInv
    <2>2. CASE read[t].order
      <3>1. /\ <<"order", B(t).order>> \in holds[t] /\ B(t).fault = "none"
            /\ Known(B(t).order) /\ ~Frozen(B(t).order)
            /\ read[t].status = orders[B(t).order].status
        BY <2>2 DEF SessionInv, StatusInv
      <3>2. orders'[B(t).order] = orders[B(t).order]
        BY <1>2, <1>3, <3>1 DEF Undisturbed
      <3>3. Known(B(t).order)' /\ ~Frozen(B(t).order)'
        BY <1>0, <3>1, <3>2 DEF Known, Frozen
      <3> QED
        BY <1>0, <2>2, <3>1, <3>2, <3>3 DEF StatusInv
    <2> QED
      BY <2>1, <2>2
  <1>6. ChargeInv(t)'
    <2>1. at[t] # "idle" => (Known(B(t).order) => Known(B(t).order)')
      BY <1>0, <1>2, <1>3 DEF Undisturbed, Known
    <2>2. ASSUME at[t] = "commit", B(t).type \in ChargeType, RowThere(t)
          PROVE  RowThere(t)'
      <3>1. event[t] \in EventId /\ RowsStay
        BY <1>2, <1>3, <2>2 DEF Undisturbed
      <3>2. NeedsNoNewRow(event[t]) => NeedsNoNewRow(event[t])'
        BY <2>2, <3>1, PaymentFields, InvoiceFields DEF NeedsNoNewRow, RowsStay, ChargeType, B
      <3> QED
        BY <1>0, <2>2, <3>2 DEF RowThere
    <2> QED
      BY <1>0, <2>1, <2>2 DEF SessionInv, ChargeInv
  <1> QED
    BY <1>1, <1>4, <1>5, <1>6 DEF SessionInv

\* So a step keeps the invariant if it does for its own session.
LEMMA OwnSessionSuffices ==
    ASSUME TxnInv, NEW s \in Session, TxnTypeOK', OthersRest(s),
           UNCHANGED tables \/ Commit(s), SessionInv(s)',
           \A t \in Session \ {s} : holds'[s] \cap holds[t] = {}
    PROVE  TxnInv'
  <1>1. CurrentIsNewest'
    BY CommitRespectsLocks DEF TxnInv, tables, CurrentIsNewest, SameAddress
  <1>2. Exclusive'
    BY DEF Exclusive, OthersRest, TxnInv
  <1>3. ASSUME NEW t \in Session \ {s} PROVE SessionInv(t)'
    <2>1. Undisturbed(t) /\ SessionInv(t)
      BY LocksProtect DEF TxnInv
    <2> QED
      BY <2>1, RestingSession DEF OthersRest
  <1> QED
    BY <1>1, <1>2, <1>3 DEF TxnInv

-------------------------------------------------------------------------------
(* The steps of a session.                                                    *)

ReadRow == [order: BOOLEAN, status: Status \cup {None}, address: Nat]

\* A statement that is done: the session goes on with more locks, and may have
\* read something.
LEMMA GoesOn ==
    ASSUME TxnInv, NEW s \in Session, NEW K \in SUBSET Key, NEW next \in StatementName,
           Go(s, K, next), \A key \in K : Free(s, key),
           UNCHANGED read \/ \E r \in ReadRow : read' = [read EXCEPT ![s] = r]
    PROVE  /\ TxnTypeOK' /\ OthersRest(s) /\ UNCHANGED tables
           /\ \A t \in Session \ {s} : holds'[s] \cap holds[t] = {}
           /\ at'[s] = next /\ event'[s] = event[s] /\ holds'[s] = holds[s] \cup K
           /\ UNCHANGED read => read'[s] = read[s]
  <1>1. TxnTypeOK
    BY DEF TxnInv
  <1>2. /\ UNCHANGED <<tables, event, attempts, failures>>
        /\ at' = [at EXCEPT ![s] = next] /\ holds' = [holds EXCEPT ![s] = holds[s] \cup K]
    BY DEF Go
  <1>3. /\ at' \in [Session -> StatementName] /\ at'[s] = next
        /\ \A t \in Session \ {s} : at'[t] = at[t]
    BY <1>1, <1>2 DEF TxnTypeOK
  <1>4. /\ holds' \in [Session -> SUBSET Key] /\ holds'[s] = holds[s] \cup K
        /\ \A t \in Session \ {s} : holds'[t] = holds[t]
    BY <1>1, <1>2 DEF TxnTypeOK
  <1>5. /\ read' \in [Session -> ReadRow]
        /\ \A t \in Session \ {s} : read'[t] = read[t]
    BY <1>1 DEF TxnTypeOK, ReadRow
  <1>6. TxnTypeOK'
    BY <1>1, <1>2, <1>3, <1>4, <1>5 DEF TxnTypeOK, StoreTypeOK, tables, ReadRow
  <1>7. \A t \in Session \ {s} : holds'[s] \cap holds[t] = {}
    BY <1>4 DEF TxnInv, Exclusive, Free
  <1> QED
    BY <1>2, <1>3, <1>4, <1>5, <1>6, <1>7 DEF OthersRest

\* A transaction that is over without a COMMIT.
LEMMA GoesHome ==
    ASSUME TxnInv, NEW s \in Session, NEW next \in {"idle", "claim", "refused"},
           End(s, next), UNCHANGED tables,
           IF next = "idle" THEN event' = [event EXCEPT ![s] = None]
                            ELSE UNCHANGED event /\ event[s] # None,
           attempts' \in [Session -> 0..(MaxAttempts - 1)], failures' \in Nat
    PROVE  TxnInv'
  <1>1. TxnTypeOK
    BY DEF TxnInv
  <1>2. /\ at' \in [Session -> StatementName] /\ at'[s] = next
        /\ \A t \in Session \ {s} : at'[t] = at[t]
    BY <1>1 DEF TxnTypeOK, End, StatementName
  <1>3. Nothing \in ReadRow
    BY DEF Nothing, ReadRow
  <1>4. /\ read' \in [Session -> ReadRow] /\ read'[s] = Nothing
        /\ \A t \in Session \ {s} : read'[t] = read[t]
    BY <1>1, <1>3 DEF TxnTypeOK, End, ReadRow
  <1>5. /\ holds' \in [Session -> SUBSET Key] /\ holds'[s] = {}
        /\ \A t \in Session \ {s} : holds'[t] = holds[t]
    BY <1>1 DEF TxnTypeOK, End
  <1>6. /\ event' \in [Session -> EventId \cup {None}]
        /\ next = "idle" <=> event'[s] = None
        /\ \A t \in Session \ {s} : event'[t] = event[t]
    BY <1>1 DEF TxnTypeOK
  <1>7. TxnTypeOK'
    BY <1>1, <1>2, <1>4, <1>5, <1>6 DEF TxnTypeOK, StoreTypeOK, tables, ReadRow
  <1>8. ClaimInv(s)' /\ PathInv(s)'
    BY <1>2, <1>4, <1>5, <1>6 DEF ClaimInv, PathInv, CreatedStep, ChargeStep
  <1>9. CreatedInv(s)' /\ StatusInv(s)' /\ ChargeInv(s)'
    BY <1>2 DEF CreatedInv, StatusInv, ChargeInv
  <1> QED
    BY <1>2, <1>4, <1>5, <1>6, <1>7, <1>8, <1>9, OwnSessionSuffices DEF OthersRest, SessionInv

\* In particular when its event is finished, or refused.
LEMMA FinishedOrRefused ==
    ASSUME TxnInv, NEW s \in Session,
           \/ Finish(s) /\ UNCHANGED tables /\ failures' \in Nat
           \/ Refuse(s) /\ at[s] # "idle"
    PROVE  TxnInv'
  <1>1. TxnTypeOK /\ SessionInv(s)
    BY DEF TxnInv
  <1>2. CASE Finish(s) /\ UNCHANGED tables /\ failures' \in Nat
    <2>1. attempts' \in [Session -> 0..(MaxAttempts - 1)]
      BY <1>1, <1>2 DEF Finish, TxnTypeOK
    <2>2. End(s, "idle") /\ event' = [event EXCEPT ![s] = None]
      BY <1>2 DEF Finish
    <2> QED
      BY <1>2, <2>1, <2>2, GoesHome
  <1>3. CASE Refuse(s) /\ at[s] # "idle"
    <2>1. /\ attempts' \in [Session -> 0..(MaxAttempts - 1)] /\ failures' \in Nat
          /\ UNCHANGED tables /\ UNCHANGED event /\ End(s, "refused")
      BY <1>1, <1>3 DEF Refuse, TxnTypeOK
    <2>2. event[s] # None
      BY <1>1, <1>3 DEF SessionInv, ClaimInv
    <2> QED
      BY <2>1, <2>2, GoesHome
  <1> QED
    BY <1>2, <1>3

\* The next event, and the next attempt.
LEMMA BeginStep ==
    ASSUME TxnInv, NEW s \in Session, NEW e \in EventId, Begin(s, e)
    PROVE  TxnInv'
  <1>1. TxnTypeOK /\ SessionInv(s) /\ at[s] = "idle"
    BY DEF TxnInv, Begin
  <1>2. e # None
    BY NoneAssumption
  <1>3. /\ at' \in [Session -> StatementName] /\ at'[s] = "claim"
        /\ \A t \in Session \ {s} : at'[t] = at[t]
    BY <1>1 DEF TxnTypeOK, Begin, StatementName
  <1>4. /\ event' \in [Session -> EventId \cup {None}] /\ event'[s] = e
        /\ \A t \in Session \ {s} : event'[t] = event[t]
    BY <1>1 DEF TxnTypeOK, Begin
  <1>5. UNCHANGED <<tables, read, holds, attempts, failures>>
    BY DEF Begin
  <1>6. TxnTypeOK'
    BY <1>1, <1>3, <1>4, <1>5 DEF TxnTypeOK, StoreTypeOK, tables
  <1>7. holds[s] = {} /\ read[s] = Nothing
    BY <1>1 DEF SessionInv, ClaimInv
  <1>8. ClaimInv(s)' /\ PathInv(s)'
    BY <1>2, <1>3, <1>4, <1>5, <1>7 DEF ClaimInv, PathInv, CreatedStep, ChargeStep
  <1>9. CreatedInv(s)' /\ StatusInv(s)' /\ ChargeInv(s)'
    BY <1>3 DEF CreatedInv, StatusInv, ChargeInv
  <1> QED
    BY <1>3, <1>4, <1>5, <1>6, <1>7, <1>8, <1>9, OwnSessionSuffices DEF OthersRest, SessionInv

\* An interrupted transaction.
LEMMA InterruptedStep ==
    ASSUME TxnInv, NEW s \in Session, Interrupted(s)
    PROVE  TxnInv'
  <1>1. TxnTypeOK /\ SessionInv(s) /\ at[s] # "idle" /\ UNCHANGED tables /\ failures' \in Nat
    BY DEF TxnInv, Interrupted, TxnTypeOK
  <1>2. event[s] # None
    BY <1>1 DEF SessionInv, ClaimInv
  <1>3. CASE /\ attempts[s] + 1 < MaxAttempts
             /\ attempts' = [attempts EXCEPT ![s] = @ + 1]
             /\ End(s, "claim")
             /\ UNCHANGED event
    <2>1. attempts' \in [Session -> 0..(MaxAttempts - 1)]
      BY <1>1, <1>3 DEF TxnTypeOK
    <2> QED
      BY <1>1, <1>2, <1>3, <2>1, GoesHome
  <1>4. CASE Finish(s)
    BY <1>1, <1>4, FinishedOrRefused
  <1> QED
    BY <1>3, <1>4 DEF Interrupted

\* The event that a session is busy with.
LEMMA BusyWith ==
    ASSUME TxnInv, NEW s \in Session, at[s] # "idle"
    PROVE  /\ TxnTypeOK /\ SessionInv(s)
           /\ event[s] \in EventId /\ event[s] # None /\ B(s).order \in OrderId
           /\ <<"event", event[s]>> \in Key /\ <<"order", B(s).order>> \in Key
  <1>1. TxnTypeOK /\ SessionInv(s)
    BY DEF TxnInv
  <1>2. event[s] \in EventId /\ event[s] # None
    BY <1>1 DEF TxnTypeOK, SessionInv, ClaimInv
  <1>3. B(s).order \in OrderId
    BY <1>2, BodyOrder DEF B
  <1> QED
    BY <1>1, <1>2, <1>3 DEF Key

\* What a statement leaves as it was, since it changes no table.
LEMMA SameTables ==
    ASSUME NEW s \in Session, UNCHANGED tables, event'[s] = event[s]
    PROVE  /\ B(s)' = B(s)
           /\ processed' = processed /\ orders' = orders
           /\ Known(B(s).order)' <=> Known(B(s).order)
           /\ Frozen(B(s).order)' <=> Frozen(B(s).order)
           /\ Current(B(s).client, B(s).address)' = Current(B(s).client, B(s).address)
           /\ RowThere(s)' <=> RowThere(s)
  BY DEF tables, B, Known, Frozen, Current, RowThere, NeedsNoNewRow

\* claim_event.
LEMMA ClaimStep ==
    ASSUME TxnInv, NEW s \in Session, ClaimEvent(s)
    PROVE  TxnInv'
  <1>1. at[s] = "claim" /\ Free(s, <<"event", event[s]>>) /\ event[s] \notin processed
        /\ Go(s, {<<"event", event[s]>>}, FirstStatement(B(s).type)) /\ UNCHANGED read
    BY DEF ClaimEvent, Duplicate
  <1>2. /\ SessionInv(s) /\ event[s] # None /\ <<"event", event[s]>> \in Key
        /\ holds[s] = {} /\ read[s] = Nothing
    BY <1>1, BusyWith DEF SessionInv, ClaimInv
  <1>3. FirstStatement(B(s).type) \in StatementName
    BY DEF FirstStatement, StatementName
  <1>4. PICK K \in SUBSET Key, next \in StatementName :
           /\ Go(s, K, next)
           /\ K = {<<"event", event[s]>>} /\ next = FirstStatement(B(s).type)
    BY <1>1, <1>2, <1>3
  <1>5. /\ next \in {"find_client", "update_order", "resolve_order", "commit"}
        /\ next = "find_client" => B(s).type = "ORDER_CREATED"
        /\ next = "update_order" => B(s).type = "ORDER_STATUS_CHANGED"
        /\ next = "resolve_order" => B(s).type \in ChargeType
        /\ next = "commit" => B(s).type \notin {"ORDER_CREATED", "ORDER_STATUS_CHANGED"} \cup ChargeType
    BY <1>4 DEF FirstStatement, ChargeType
  <1>6. /\ TxnTypeOK' /\ OthersRest(s) /\ UNCHANGED tables
        /\ \A t \in Session \ {s} : holds'[s] \cap holds[t] = {}
        /\ at'[s] = next /\ event'[s] = event[s] /\ holds'[s] = holds[s] \cup K
    <2>1. \A key \in K : Free(s, key)
      BY <1>1, <1>4
    <2> QED
      BY <1>1, <1>4, <2>1, GoesOn
  <1>7. B(s)' = B(s) /\ processed' = processed
    BY <1>6, SameTables
  <1>8. ClaimInv(s)' /\ PathInv(s)'
    BY <1>1, <1>2, <1>4, <1>5, <1>6, <1>7 DEF ClaimInv, PathInv, CreatedStep, ChargeStep
  <1>9. CreatedInv(s)' /\ StatusInv(s)' /\ ChargeInv(s)'
    <2>1. read'[s].order = FALSE
      BY <1>1, <1>2 DEF Nothing
    <2> QED
      BY <1>5, <1>6, <1>7, <2>1 DEF CreatedInv, StatusInv, ChargeInv, ChargeType
  <1> QED
    BY <1>6, <1>8, <1>9, OwnSessionSuffices DEF SessionInv

\* A statement behind the claim keeps ClaimInv: it drops no lock.
LEMMA ClaimIsKept ==
    ASSUME TxnInv, NEW s \in Session, at[s] \notin {"idle", "claim", "refused"},
           UNCHANGED tables, event'[s] = event[s], holds[s] \subseteq holds'[s],
           at'[s] \notin {"idle", "claim", "refused"}
    PROVE  ClaimInv(s)'
  <1>1. SessionInv(s) /\ event[s] # None
    BY BusyWith
  <1> QED
    BY <1>1, SameTables DEF SessionInv, ClaimInv

\* The statements of a new order, up to the address.
LEMMA ClientSteps ==
    ASSUME TxnInv, NEW s \in Session, FindClient(s) \/ InsertClient(s)
    PROVE  TxnInv'
  <1>1. at[s] \in {"find_client", "insert_client"} /\ UNCHANGED read
        /\ Free(s, <<"client", B(s).client>>)
        /\ \/ Go(s, {<<"client", B(s).client>>}, "read_address")
           \/ Go(s, {}, "insert_client")
    BY DEF FindClient, InsertClient, ClientLock
  <1>2. B(s).type = "ORDER_CREATED" /\ SessionInv(s) /\ event[s] \in EventId
    BY <1>1, BusyWith DEF SessionInv, PathInv, CreatedStep
  <1>3. B(s).client \in ClientId /\ <<"client", B(s).client>> \in Key
    BY <1>2, CreatedFields DEF B, Key
  <1>4. PICK K \in SUBSET Key, next \in StatementName :
           /\ Go(s, K, next) /\ K \subseteq {<<"client", B(s).client>>}
           /\ next \in {"read_address", "insert_client"}
           /\ next = "read_address" => <<"client", B(s).client>> \in K
    BY <1>1, <1>3 DEF StatementName
  <1>5. /\ TxnTypeOK' /\ OthersRest(s) /\ UNCHANGED tables
        /\ \A t \in Session \ {s} : holds'[s] \cap holds[t] = {}
        /\ at'[s] = next /\ event'[s] = event[s] /\ holds'[s] = holds[s] \cup K
    <2>1. \A key \in K : Free(s, key)
      BY <1>1, <1>4
    <2> QED
      BY <1>1, <1>4, <2>1, GoesOn
  <1>6. B(s)' = B(s)
    BY <1>5, SameTables
  <1>7. ClaimInv(s)'
    BY <1>1, <1>4, <1>5, ClaimIsKept
  <1>8. PathInv(s)'
    BY <1>2, <1>4, <1>5, <1>6 DEF PathInv, CreatedStep, ChargeStep
  <1>9. CreatedInv(s)' /\ StatusInv(s)' /\ ChargeInv(s)'
    BY <1>4, <1>5, <1>6 DEF CreatedInv, StatusInv, ChargeInv
  <1> QED
    BY <1>5, <1>7, <1>8, <1>9, OwnSessionSuffices DEF SessionInv

\* The SELECT of the address, and what follows from it.
LEMMA ReadAddressStep ==
    ASSUME TxnInv, NEW s \in Session, ReadAddress(s)
    PROVE  TxnInv'
  <1> DEFINE id == CurrentId(B(s).client, B(s).address)
             r == [read[s] EXCEPT !.address = id]
  <1>1. at[s] = "read_address" /\ read' = [read EXCEPT ![s] = r]
        /\ \/ Go(s, {}, "insert_order") /\ id # 0 /\ address[id].place = B(s).place
           \/ Go(s, {}, "write_address")
    BY DEF ReadAddress
  <1>2. /\ B(s).type = "ORDER_CREATED" /\ SessionInv(s) /\ TxnTypeOK
        /\ <<"client", B(s).client>> \in holds[s]
    BY <1>1, BusyWith DEF SessionInv, PathInv, CreatedInv, CreatedStep
  <1>3. id \in Nat /\ Current(B(s).client, B(s).address) = {id} \ {0}
    BY <1>2, OneCurrent DEF TxnInv, TxnTypeOK
  <1>4. r \in ReadRow /\ r.address = id
    BY <1>2, <1>3 DEF TxnTypeOK, ReadRow
  <1> HIDE DEF r, id
  <1>5. {} \in SUBSET Key /\ {"insert_order", "write_address"} \subseteq StatementName
    BY DEF StatementName
  <1>6. PICK K \in SUBSET Key, next \in StatementName :
           /\ Go(s, K, next) /\ K = {} /\ next \in {"insert_order", "write_address"}
           /\ next = "insert_order" => id # 0 /\ address[id].place = B(s).place
    BY <1>1, <1>5
  <1>7. /\ TxnTypeOK' /\ OthersRest(s) /\ UNCHANGED tables
        /\ \A t \in Session \ {s} : holds'[s] \cap holds[t] = {}
        /\ at'[s] = next /\ event'[s] = event[s] /\ holds'[s] = holds[s] \cup K
    <2>1. UNCHANGED read \/ \E x \in ReadRow : read' = [read EXCEPT ![s] = x]
      BY <1>1, <1>4
    <2>2. Go(s, K, next) /\ \A key \in K : Free(s, key)
      BY <1>6
    <2> QED
      BY <2>1, <2>2, GoesOn
  <1>8. B(s)' = B(s) /\ read'[s] = r
        /\ Current(B(s).client, B(s).address)' = Current(B(s).client, B(s).address)
        /\ (RowThere(s)' <=> RowThere(s))
    BY <1>1, <1>2, <1>7, SameTables DEF TxnTypeOK
  <1>9. ReadsCurrent(s)'
    BY <1>3, <1>4, <1>8 DEF ReadsCurrent
  <1>10. ClaimInv(s)'
    BY <1>1, <1>6, <1>7, ClaimIsKept
  <1>11. PathInv(s)'
    BY <1>2, <1>6, <1>7, <1>8 DEF PathInv, CreatedStep, ChargeStep
  <1>12. next = "insert_order" => RowThere(s)
    <2>1. next = "insert_order" => id \in Current(B(s).client, B(s).address)
      BY <1>3, <1>6
    <2> QED
      BY <1>2, <1>6, <2>1 DEF RowThere, NeedsNoNewRow, B
  <1>13. CreatedInv(s)' /\ StatusInv(s)' /\ ChargeInv(s)'
    BY <1>2, <1>6, <1>7, <1>8, <1>9, <1>12 DEF CreatedInv, StatusInv, ChargeInv
  <1> QED
    BY <1>7, <1>10, <1>11, <1>13, OwnSessionSuffices DEF SessionInv

\* What a statement behind the claim has done: it changed no table, and the session
\* has what it had and the new locks.
GoneOn(s, K, next) ==
    /\ TxnTypeOK' /\ OthersRest(s) /\ UNCHANGED tables /\ ClaimInv(s)'
    /\ \A t \in Session \ {s} : holds'[s] \cap holds[t] = {}
    /\ at'[s] = next /\ holds'[s] = holds[s] \cup K
    /\ UNCHANGED read => read'[s] = read[s]
    /\ B(s)' = B(s) /\ orders' = orders
    /\ Known(B(s).order)' <=> Known(B(s).order)
    /\ Frozen(B(s).order)' <=> Frozen(B(s).order)
    /\ Current(B(s).client, B(s).address)' = Current(B(s).client, B(s).address)
    /\ RowThere(s)' <=> RowThere(s)

\* What every statement behind the claim has in common.
LEMMA StatementGoesOn ==
    ASSUME TxnInv, NEW s \in Session, NEW K \in SUBSET Key, NEW next \in StatementName,
           Go(s, K, next), \A key \in K : Free(s, key),
           UNCHANGED read \/ \E r \in ReadRow : read' = [read EXCEPT ![s] = r],
           at[s] \notin {"idle", "claim", "refused"}, next \notin {"idle", "claim", "refused"}
    PROVE  GoneOn(s, K, next)
  <1>1. /\ TxnTypeOK' /\ OthersRest(s) /\ UNCHANGED tables
        /\ \A t \in Session \ {s} : holds'[s] \cap holds[t] = {}
        /\ at'[s] = next /\ event'[s] = event[s] /\ holds'[s] = holds[s] \cup K
        /\ UNCHANGED read => read'[s] = read[s]
    BY GoesOn
  <1>2. ClaimInv(s)'
    BY <1>1, ClaimIsKept
  <1> QED
    BY <1>1, <1>2, SameTables DEF GoneOn

\* The UPDATE and INSERT of the address, and the INSERT of the order.
LEMMA WriteStep ==
    ASSUME TxnInv, NEW s \in Session, InsertOrderRow(s) \/ WriteAddress(s), ~Refuse(s)
    PROVE  TxnInv'
  <1>1. CASE WriteAddress(s)
    <2>1. at[s] = "write_address" /\ UNCHANGED read /\ Free(s, AddressKey(s))
          /\ B(s).fault # "bad_new_row"
          /\ Go(s, {AddressKey(s)}, "insert_order")
      BY <1>1 DEF WriteAddress
    <2>2. /\ B(s).type = "ORDER_CREATED" /\ SessionInv(s) /\ event[s] \in EventId
          /\ <<"client", B(s).client>> \in holds[s] /\ ReadsCurrent(s)
      BY <2>1, BusyWith DEF SessionInv, PathInv, CreatedInv, CreatedStep
    <2>3. AddressKey(s) \in Key /\ "insert_order" \in StatementName
      BY <2>2, CreatedFields DEF B, Key, AddressKey, StatementName
    <2>4. PICK K \in SUBSET Key, next \in StatementName :
             Go(s, K, next) /\ next = "insert_order" /\ K = {AddressKey(s)}
      BY <2>1, <2>3
    <2>5. \A key \in K : Free(s, key)
      BY <2>1, <2>4
    <2>6. /\ TxnTypeOK' /\ OthersRest(s) /\ UNCHANGED tables /\ ClaimInv(s)'
          /\ \A t \in Session \ {s} : holds'[s] \cap holds[t] = {}
          /\ at'[s] = next /\ holds'[s] = holds[s] \cup K
          /\ read'[s] = read[s] /\ B(s)' = B(s)
          /\ Current(B(s).client, B(s).address)' = Current(B(s).client, B(s).address)
      <3>1. GoneOn(s, K, next)
        BY <2>1, <2>4, <2>5, StatementGoesOn
      <3> QED
        BY <2>1, <3>1 DEF GoneOn
    <2>7. PathInv(s)' /\ StatusInv(s)' /\ ChargeInv(s)'
      BY <2>2, <2>4, <2>6 DEF PathInv, StatusInv, ChargeInv, CreatedStep, ChargeStep
    <2>8. ReadsCurrent(s)'
      BY <2>2, <2>6 DEF ReadsCurrent
    <2>9. CreatedInv(s)'
      BY <2>1, <2>2, <2>4, <2>6, <2>8 DEF CreatedInv, RowThere
    <2> QED
      BY <2>6, <2>7, <2>8, <2>9, OwnSessionSuffices DEF SessionInv
  <1>2. CASE InsertOrderRow(s)
    <2>1. at[s] = "insert_order" /\ UNCHANGED read /\ Free(s, <<"order", B(s).order>>)
          /\ B(s).fault \in {"none", "bad_new_row"} /\ ~Known(B(s).order)
          /\ Go(s, {<<"order", B(s).order>>}, "commit")
      BY <1>2 DEF InsertOrderRow
    <2>2. /\ B(s).type = "ORDER_CREATED" /\ SessionInv(s) /\ <<"order", B(s).order>> \in Key
          /\ <<"client", B(s).client>> \in holds[s] /\ ReadsCurrent(s) /\ RowThere(s)
      BY <2>1, BusyWith DEF SessionInv, PathInv, CreatedInv, CreatedStep
    <2>3. PICK K \in SUBSET Key, next \in StatementName :
             Go(s, K, next) /\ next = "commit" /\ K = {<<"order", B(s).order>>}
      BY <2>1, <2>2 DEF StatementName
    <2>4. \A key \in K : Free(s, key)
      BY <2>1, <2>3
    <2>5. /\ TxnTypeOK' /\ OthersRest(s) /\ UNCHANGED tables /\ ClaimInv(s)'
          /\ \A t \in Session \ {s} : holds'[s] \cap holds[t] = {}
          /\ at'[s] = next /\ holds'[s] = holds[s] \cup K
          /\ read'[s] = read[s] /\ B(s)' = B(s)
          /\ Known(B(s).order)' <=> Known(B(s).order)
          /\ RowThere(s)' <=> RowThere(s)
          /\ Current(B(s).client, B(s).address)' = Current(B(s).client, B(s).address)
      <3>1. GoneOn(s, K, next)
        BY <2>1, <2>3, <2>4, StatementGoesOn
      <3> QED
        BY <2>1, <3>1 DEF GoneOn
    <2>6. PathInv(s)' /\ StatusInv(s)' /\ ChargeInv(s)'
      BY <2>2, <2>3, <2>5 DEF PathInv, StatusInv, ChargeInv, CreatedStep, ChargeStep, ChargeType
    <2>7. ReadsCurrent(s)'
      BY <2>2, <2>5 DEF ReadsCurrent
    <2>8. ~Known(B(s).order)'
      BY <2>1, <2>5
    <2>9. CreatedInv(s)'
      BY <2>1, <2>2, <2>3, <2>5, <2>7, <2>8 DEF CreatedInv
    <2> QED
      BY <2>5, <2>6, <2>9, OwnSessionSuffices DEF SessionInv
  <1> QED
    BY <1>1, <1>2

\* What the UPDATE of a status reads of the order.
LEMMA ReadUpdate ==
    ASSUME NEW r \in ReadRow, NEW old \in Status
    PROVE  LET new == [r EXCEPT !.order = TRUE, !.status = old]
           IN  new \in ReadRow /\ new.order = TRUE /\ new.status = old
  BY DEF ReadRow

\* The UPDATE of the status.
LEMMA UpdateStep ==
    ASSUME TxnInv, NEW s \in Session, UpdateOrder(s)
    PROVE  TxnInv'
  <1>1. at[s] = "update_order" /\ B(s).fault \notin {"no_order", "missing_field"}
        /\ Free(s, <<"order", B(s).order>>)
    BY DEF UpdateOrder
  <1>2. /\ B(s).type = "ORDER_STATUS_CHANGED" /\ SessionInv(s) /\ TxnTypeOK
        /\ <<"order", B(s).order>> \in Key /\ B(s).order \in OrderId
    BY <1>1, BusyWith DEF SessionInv, PathInv
  <1>3. CASE ~Known(B(s).order) /\ Go(s, {}, "commit") /\ UNCHANGED read
    <2>1. PICK K \in SUBSET Key, next \in StatementName :
             Go(s, K, next) /\ next = "commit" /\ K = {}
      BY <1>3 DEF StatementName
    <2>2. \A key \in K : Free(s, key)
      BY <2>1
    <2>3. /\ TxnTypeOK' /\ OthersRest(s) /\ UNCHANGED tables /\ ClaimInv(s)'
          /\ \A t \in Session \ {s} : holds'[s] \cap holds[t] = {}
          /\ at'[s] = next /\ read'[s] = read[s] /\ B(s)' = B(s)
      <3>1. GoneOn(s, K, next)
        BY <1>1, <1>3, <2>1, <2>2, StatementGoesOn
      <3> QED
        BY <1>3, <3>1 DEF GoneOn
    <2>4. ~read[s].order
      BY <1>1, <1>2 DEF SessionInv, StatusInv
    <2>5. PathInv(s)' /\ CreatedInv(s)' /\ StatusInv(s)' /\ ChargeInv(s)'
      BY <1>1, <1>2, <2>1, <2>3, <2>4
      DEF PathInv, CreatedInv, StatusInv, ChargeInv, CreatedStep, ChargeStep, ChargeType
    <2> QED
      BY <2>3, <2>5, OwnSessionSuffices DEF SessionInv
  <1>4. CASE /\ Known(B(s).order) /\ B(s).fault = "none" /\ ~Frozen(B(s).order)
             /\ read' = [read EXCEPT ![s].order = TRUE,
                                     ![s].status = orders[B(s).order].status]
             /\ Go(s, OrderLock(s), "commit")
    <2>1. orders[B(s).order].status \in Status
      BY <1>2, <1>4 DEF TxnTypeOK, StoreTypeOK, OrderRow, Known
    <2>2. PICK r \in ReadRow : /\ read' = [read EXCEPT ![s] = r]
                               /\ r.order = TRUE /\ r.status = orders[B(s).order].status
      <3> DEFINE r == [read[s] EXCEPT !.order = TRUE, !.status = orders[B(s).order].status]
      <3>1. read[s] \in ReadRow
        BY <1>2 DEF TxnTypeOK, ReadRow
      <3>2. r \in ReadRow /\ r.order = TRUE /\ r.status = orders[B(s).order].status
        BY <2>1, <3>1, ReadUpdate
      <3> QED
        BY <1>4, <3>2
    <2>3. PICK K \in SUBSET Key, next \in StatementName :
             Go(s, K, next) /\ next = "commit" /\ K = {<<"order", B(s).order>>}
      BY <1>2, <1>4 DEF StatementName, OrderLock
    <2>4. \A key \in K : Free(s, key)
      BY <1>1, <2>3
    <2>5. /\ TxnTypeOK' /\ OthersRest(s) /\ UNCHANGED tables /\ ClaimInv(s)'
          /\ \A t \in Session \ {s} : holds'[s] \cap holds[t] = {}
          /\ at'[s] = next /\ holds'[s] = holds[s] \cup K
          /\ B(s)' = B(s) /\ orders' = orders
          /\ Known(B(s).order)' <=> Known(B(s).order)
          /\ Frozen(B(s).order)' <=> Frozen(B(s).order)
      <3>1. UNCHANGED read \/ \E x \in ReadRow : read' = [read EXCEPT ![s] = x]
        BY <2>2
      <3>2. at[s] \notin {"idle", "claim", "refused"} /\ next \notin {"idle", "claim", "refused"}
        BY <1>1, <2>3
      <3>3. Go(s, K, next)
        BY <2>3
      <3>4. GoneOn(s, K, next)
        BY <2>4, <3>1, <3>2, <3>3, StatementGoesOn
      <3> QED
        BY <3>4 DEF GoneOn
    <2>6. read'[s].order = TRUE /\ read'[s].status = orders[B(s).order].status
      BY <1>2, <2>2 DEF TxnTypeOK
    <2>7. PathInv(s)' /\ CreatedInv(s)' /\ ChargeInv(s)'
      BY <1>2, <2>3, <2>5
      DEF PathInv, CreatedInv, ChargeInv, CreatedStep, ChargeStep, ChargeType
    <2>8. Known(B(s).order)' /\ ~Frozen(B(s).order)'
      BY <1>4, <2>5
    <2>9. StatusInv(s)'
      BY <1>4, <2>3, <2>5, <2>6, <2>8 DEF StatusInv
    <2> QED
      BY <2>5, <2>7, <2>9, OwnSessionSuffices DEF SessionInv
  <1> QED
    BY <1>3, <1>4 DEF UpdateOrder

\* The SELECT of the order of a payment or an invoice.
LEMMA ResolveStep ==
    ASSUME TxnInv, NEW s \in Session, ResolveOrder(s)
    PROVE  TxnInv'
  <1> DEFINE r == [read[s] EXCEPT !.order = Known(B(s).order)]
  <1>1. /\ at[s] = "resolve_order" /\ read' = [read EXCEPT ![s] = r]
        /\ B(s).fault # "no_order"
        /\ Go(s, {}, IF Known(B(s).order) THEN "find_charge" ELSE "commit")
    BY DEF ResolveOrder
  <1>2. B(s).type \in ChargeType /\ SessionInv(s) /\ TxnTypeOK
    BY <1>1, BusyWith DEF SessionInv, PathInv, ChargeStep
  <1>3. r \in ReadRow /\ r.order = Known(B(s).order)
    <2>1. read[s] \in ReadRow /\ Known(B(s).order) \in BOOLEAN
      BY <1>2 DEF TxnTypeOK, ReadRow, Known
    <2> QED
      BY <2>1 DEF ReadRow
  <1> HIDE DEF r
  <1>4. PICK K \in SUBSET Key, next \in StatementName :
           /\ Go(s, K, next) /\ K = {}
           /\ \/ Known(B(s).order) /\ next = "find_charge"
              \/ ~Known(B(s).order) /\ next = "commit"
    BY <1>1 DEF StatementName
  <1>5. /\ TxnTypeOK' /\ OthersRest(s) /\ UNCHANGED tables /\ ClaimInv(s)'
        /\ \A t \in Session \ {s} : holds'[s] \cap holds[t] = {}
        /\ at'[s] = next /\ B(s)' = B(s)
        /\ Known(B(s).order)' <=> Known(B(s).order)
    <2>1. UNCHANGED read \/ \E x \in ReadRow : read' = [read EXCEPT ![s] = x]
      BY <1>1, <1>3
    <2>2. at[s] \notin {"idle", "claim", "refused"} /\ next \notin {"idle", "claim", "refused"}
      BY <1>1, <1>4
    <2>3. Go(s, K, next) /\ \A key \in K : Free(s, key)
      BY <1>4
    <2>4. GoneOn(s, K, next)
      BY <2>1, <2>2, <2>3, StatementGoesOn
    <2> QED
      BY <2>4 DEF GoneOn
  <1>6. read'[s] = r
    BY <1>1, <1>2 DEF TxnTypeOK
  <1>7. read'[s].order <=> Known(B(s).order)'
    BY <1>3, <1>5, <1>6
  <1>8. next = "find_charge" => Known(B(s).order)'
    BY <1>4, <1>5
  <1>9. next = "commit" => ~read'[s].order
    BY <1>4, <1>5, <1>7
  <1>10. PathInv(s)' /\ CreatedInv(s)' /\ StatusInv(s)'
    BY <1>2, <1>4, <1>5
    DEF PathInv, CreatedInv, StatusInv, CreatedStep, ChargeStep, ChargeType
  <1>11. ChargeInv(s)'
    BY <1>1, <1>4, <1>5, <1>7, <1>8, <1>9 DEF ChargeInv
  <1> QED
    BY <1>5, <1>10, <1>11, OwnSessionSuffices DEF SessionInv

\* The MERGE of a payment or an invoice, with the check of its FOREIGN KEY.
LEMMA MergeStep ==
    ASSUME TxnInv, NEW s \in Session, FindCharge(s) \/ InsertCharge(s) \/ CheckOrder(s)
    PROVE  TxnInv'
  <1>1. /\ at[s] \in {"find_charge", "insert_charge", "check_order"} /\ UNCHANGED read
        /\ \/ /\ at[s] = "find_charge" /\ Free(s, ChargeKey(s)) /\ ChargeExists(s)
              /\ B(s).fault \notin {"missing_field", "bad_value"}
              /\ Go(s, {ChargeKey(s)}, "commit")
           \/ at[s] = "find_charge" /\ Go(s, {}, "insert_charge")
           \/ /\ at[s] = "insert_charge" /\ Free(s, ChargeKey(s)) /\ B(s).fault = "none"
              /\ Go(s, {ChargeKey(s)}, "check_order")
           \/ at[s] = "check_order" /\ Go(s, {}, "commit")
    BY DEF FindCharge, InsertCharge, CheckOrder
  <1>2. /\ B(s).type \in ChargeType /\ SessionInv(s) /\ event[s] \in EventId
        /\ read[s].order /\ Known(B(s).order) /\ B(s).fault # "no_order"
        /\ at[s] = "check_order" => B(s).fault = "none"
    BY <1>1, BusyWith DEF SessionInv, PathInv, ChargeInv, ChargeStep
  <1>3. ChargeKey(s) \in Key
    BY <1>2, PaymentFields, InvoiceFields DEF B, Key, ChargeKey, ChargeType
  <1>4. PICK K \in SUBSET Key, next \in StatementName :
           /\ Go(s, K, next) /\ \A key \in K : Free(s, key)
           /\ \/ /\ next = "commit"
                 /\ \/ B(s).fault = "none"
                    \/ /\ ChargeExists(s)
                       /\ B(s).fault \notin {"missing_field", "bad_value"}
              \/ next = "insert_charge"
              \/ next = "check_order" /\ B(s).fault = "none"
    BY <1>1, <1>2, <1>3 DEF StatementName
  <1>5. /\ TxnTypeOK' /\ OthersRest(s) /\ UNCHANGED tables /\ ClaimInv(s)'
        /\ \A t \in Session \ {s} : holds'[s] \cap holds[t] = {}
        /\ at'[s] = next /\ read'[s] = read[s] /\ B(s)' = B(s)
        /\ Known(B(s).order)' <=> Known(B(s).order)
        /\ RowThere(s)' <=> RowThere(s)
    <2>1. at[s] \notin {"idle", "claim", "refused"} /\ next \notin {"idle", "claim", "refused"}
      BY <1>1, <1>4
    <2>2. Go(s, K, next) /\ \A key \in K : Free(s, key)
      BY <1>4
    <2>3. UNCHANGED read
      BY <1>1
    <2>4. GoneOn(s, K, next)
      BY <2>1, <2>2, <2>3, StatementGoesOn
    <2> QED
      BY <2>3, <2>4 DEF GoneOn
  <1>6. PathInv(s)' /\ CreatedInv(s)' /\ StatusInv(s)'
    BY <1>2, <1>4, <1>5
    DEF PathInv, CreatedInv, StatusInv, CreatedStep, ChargeStep, ChargeType
  <1>7. next = "commit" => B(s).fault \in {"none", "bad_new_row"} /\ RowThere(s)
    <2>1. B(s).fault \in Fault
      BY <1>2, BodyAssumption
      DEF B, ChargeType, CreatedBody, StatusBody, PaymentBody, InvoiceBody, OtherBody
    <2>2. ChargeExists(s) => RowThere(s)
      BY <1>2 DEF ChargeExists, RowThere, NeedsNoNewRow, B, ChargeType
    <2> QED
      BY <1>2, <1>4, <2>1, <2>2 DEF Fault, RowThere
  <1>8. ChargeInv(s)'
    BY <1>2, <1>4, <1>5, <1>7 DEF ChargeInv
  <1> QED
    BY <1>5, <1>6, <1>8, OwnSessionSuffices DEF SessionInv

\* COMMIT.
LEMMA CommitStep ==
    ASSUME TxnInv, NEW s \in Session, Commit(s)
    PROVE  TxnInv'
  <1>1. TxnTypeOK /\ at[s] = "commit" /\ End(s, "idle")
        /\ event' = [event EXCEPT ![s] = None]
        /\ attempts' = [attempts EXCEPT ![s] = 0] /\ UNCHANGED failures
    BY DEF TxnInv, Commit, Finish
  <1>2. StoreTypeOK'
    BY CommitRespectsLocks
  <1>3. /\ at' \in [Session -> StatementName] /\ at'[s] = "idle"
        /\ \A t \in Session \ {s} : at'[t] = at[t]
    BY <1>1 DEF TxnTypeOK, End, StatementName
  <1>4. Nothing \in ReadRow
    BY DEF Nothing, ReadRow
  <1>5. /\ read' \in [Session -> ReadRow] /\ read'[s] = Nothing
        /\ \A t \in Session \ {s} : read'[t] = read[t]
    BY <1>1, <1>4 DEF TxnTypeOK, End, ReadRow
  <1>6. /\ holds' \in [Session -> SUBSET Key] /\ holds'[s] = {}
        /\ \A t \in Session \ {s} : holds'[t] = holds[t]
    BY <1>1 DEF TxnTypeOK, End
  <1>7. /\ event' \in [Session -> EventId \cup {None}] /\ event'[s] = None
        /\ \A t \in Session \ {s} : event'[t] = event[t]
    BY <1>1 DEF TxnTypeOK
  <1>8. TxnTypeOK'
    BY <1>1, <1>2, <1>3, <1>5, <1>6, <1>7 DEF TxnTypeOK, ReadRow
  <1>9. ClaimInv(s)' /\ PathInv(s)'
    BY <1>3, <1>5, <1>6, <1>7 DEF ClaimInv, PathInv, CreatedStep, ChargeStep
  <1>10. CreatedInv(s)' /\ StatusInv(s)' /\ ChargeInv(s)'
    BY <1>3 DEF CreatedInv, StatusInv, ChargeInv
  <1> QED
    BY <1>3, <1>5, <1>6, <1>7, <1>8, <1>9, <1>10, OwnSessionSuffices
    DEF OthersRest, SessionInv

\* The ways in which a transaction ends before it is done.
LEMMA EarlyEnd ==
    ASSUME TxnInv, NEW s \in Session,
           \/ GiveUp(s) \/ DuplicateEvent(s) \/ MissingField(s) \/ BadValue(s)
           \/ ClientRace(s) \/ OrderExists(s) \/ UpdateRejected(s) \/ ChargeRace(s)
           \/ (WriteAddress(s) /\ Refuse(s))
    PROVE  TxnInv'
  <1>1. failures \in Nat
    BY DEF TxnInv, TxnTypeOK
  <1>2. \/ Finish(s) /\ UNCHANGED tables /\ failures' \in Nat
        \/ Refuse(s) /\ at[s] # "idle"
    BY <1>1 DEF GiveUp, DuplicateEvent, MissingField, BadValue, ClientRace, OrderExists,
       UpdateRejected, ChargeRace, WriteAddress
  <1> QED
    BY <1>2, FinishedOrRefused

\* The invariant holds at first and is kept by every step.
LEMMA TxnInvariant == Spec => []TxnInv
  <1>1. Init => TxnInv
    <2> SUFFICES ASSUME Init PROVE TxnInv
      OBVIOUS
    <2>1. StoreTypeOK /\ CurrentIsNewest
      BY DEF Init, StoreInit, StoreTypeOK, CurrentIsNewest
    <2>2. TxnTypeOK
      BY <2>1 DEF Init, TxnTypeOK, StatementName, Nothing
    <2>3. Exclusive
      BY DEF Init, Exclusive
    <2>4. ASSUME NEW s \in Session PROVE SessionInv(s)
      <3>1. at[s] = "idle" /\ event[s] = None /\ holds[s] = {} /\ read[s] = Nothing
        BY DEF Init
      <3>2. ClaimInv(s) /\ PathInv(s)
        BY <3>1 DEF ClaimInv, PathInv, CreatedStep, ChargeStep
      <3>3. CreatedInv(s) /\ StatusInv(s) /\ ChargeInv(s)
        BY <3>1 DEF CreatedInv, StatusInv, ChargeInv
      <3> QED
        BY <3>2, <3>3 DEF SessionInv
    <2> QED
      BY <2>1, <2>2, <2>3, <2>4 DEF TxnInv
  <1>2. TxnInv /\ [Next]_vars => TxnInv'
    <2> SUFFICES ASSUME TxnInv, [Next]_vars PROVE TxnInv'
      OBVIOUS
    <2>1. ASSUME NEW s \in Session, NEW e \in EventId, Begin(s, e) PROVE TxnInv'
      BY <2>1, BeginStep
    <2>2. ASSUME NEW s \in Session, Interrupted(s) PROVE TxnInv'
      BY <2>2, InterruptedStep
    <2>3. ASSUME NEW s \in Session, Statement(s) PROVE TxnInv'
      <3>1. CASE ClaimEvent(s) \/ FindClient(s) \/ InsertClient(s) \/ ReadAddress(s)
        BY <3>1, ClaimStep, ClientSteps, ReadAddressStep
      <3>2. CASE WriteAddress(s) \/ InsertOrderRow(s)
        <4>1. CASE Refuse(s)
          <5>1. InsertOrderRow(s) => at'[s] = "commit"
            BY DEF InsertOrderRow, Go, TxnInv, TxnTypeOK
          <5>2. at'[s] = "refused"
            BY <4>1 DEF Refuse, End, TxnInv, TxnTypeOK
          <5> QED
            BY <3>2, <4>1, <5>1, <5>2, EarlyEnd
        <4>2. CASE ~Refuse(s)
          BY <3>2, <4>2, WriteStep
        <4> QED
          BY <4>1, <4>2
      <3>3. CASE UpdateOrder(s) \/ ResolveOrder(s)
        BY <3>3, UpdateStep, ResolveStep
      <3>4. CASE FindCharge(s) \/ InsertCharge(s) \/ CheckOrder(s)
        BY <3>4, MergeStep
      <3>5. CASE \/ GiveUp(s) \/ DuplicateEvent(s) \/ MissingField(s) \/ BadValue(s)
                 \/ ClientRace(s) \/ OrderExists(s) \/ UpdateRejected(s) \/ ChargeRace(s)
        BY <3>5, EarlyEnd
      <3>6. CASE Commit(s)
        BY <3>6, CommitStep
      <3> QED
        BY <2>3, <3>1, <3>2, <3>3, <3>4, <3>5, <3>6 DEF Statement
    <2>4. CASE UNCHANGED vars
      <3>1. UNCHANGED <<tables, at, event, read, holds, attempts, failures>>
        BY <2>4 DEF vars, session
      <3>2. TxnTypeOK' /\ CurrentIsNewest' /\ Exclusive'
        BY <3>1 DEF TxnInv, TxnTypeOK, StoreTypeOK, tables, CurrentIsNewest, SameAddress, Exclusive
      <3>3. ASSUME NEW s \in Session PROVE SessionInv(s)'
        <4>1. SessionInv(s) /\ Undisturbed(s)
          BY <3>1 DEF TxnInv, SessionInv, ClaimInv, Undisturbed, RowsStay, tables, Known,
             Current
        <4> QED
          BY <3>1, <4>1, RestingSession
      <3> QED
        BY <3>2, <3>3 DEF TxnInv
    <2> QED
      BY <2>1, <2>2, <2>3, <2>4 DEF Next
  <1> QED
    BY <1>1, <1>2, PTL DEF Spec

-------------------------------------------------------------------------------
(* The order of the locks.                                                    *)

\* The statements of every transaction lock events, clients, addresses, charges
\* and orders in this order.
Rank(key) == CASE key[1] = "event"                -> 1
               [] key[1] = "client"               -> 2
               [] key[1] = "address"              -> 3
               [] key[1] \in {"payment", "invoice"} -> 4
               [] OTHER                           -> 5

\* The rank of the locks that a session at this statement may still ask for.
Level(statement) ==
    CASE statement = "claim"                                            -> 1
      [] statement \in {"find_client", "insert_client"}                 -> 2
      [] statement \in {"read_address", "write_address"}                -> 3
      [] statement \in {"resolve_order", "find_charge", "insert_charge"} -> 4
      [] statement \in {"insert_order", "update_order", "check_order"}  -> 5
      [] OTHER                                                          -> 6

\* All that a session holds ranks below what it may ask for.
HoldsBelow(s) == \A key \in holds[s] : Rank(key) < Level(at[s])

\* A statement that is done moves a session up, and locks keys below its new level.
LEMMA GoesUp ==
    ASSUME TxnTypeOK, NEW s \in Session, \A t \in Session : HoldsBelow(t),
           NEW K, NEW next \in StatementName, Go(s, K, next),
           Level(at[s]) <= Level(next), \A key \in K : Rank(key) < Level(next)
    PROVE  \A t \in Session : HoldsBelow(t)'
  <1>1. /\ at'[s] = next /\ holds'[s] = holds[s] \cup K
        /\ \A t \in Session \ {s} : at'[t] = at[t] /\ holds'[t] = holds[t]
    BY DEF Go, TxnTypeOK
  <1>2. \A key : Rank(key) \in Nat
    BY DEF Rank
  <1>3. Level(at[s]) \in Nat /\ Level(next) \in Nat
    BY DEF Level
  <1>4. \A key \in holds'[s] : Rank(key) < Level(next)
    BY <1>1, <1>2, <1>3 DEF HoldsBelow
  <1> QED
    BY <1>1, <1>4 DEF HoldsBelow

\* A transaction that ends holds nothing.
LEMMA EndsBelow ==
    ASSUME TxnTypeOK, NEW s \in Session, \A t \in Session : HoldsBelow(t),
           NEW next, End(s, next)
    PROVE  \A t \in Session : HoldsBelow(t)'
  <1>1. /\ holds'[s] = {}
        /\ \A t \in Session \ {s} : at'[t] = at[t] /\ holds'[t] = holds[t]
    BY DEF End, TxnTypeOK
  <1> QED
    BY <1>1 DEF HoldsBelow

\* Every step keeps the order of the locks.
LEMMA LockOrderStep ==
    ASSUME TxnInv, \A t \in Session : HoldsBelow(t), [Next]_vars
    PROVE  \A t \in Session : HoldsBelow(t)'
  <1>1. TxnTypeOK
    BY DEF TxnInv
  <1>2. ASSUME NEW s \in Session, NEW e \in EventId, Begin(s, e)
        PROVE  \A t \in Session : HoldsBelow(t)'
    <2>1. holds[s] = {} /\ UNCHANGED holds /\ \A t \in Session \ {s} : at'[t] = at[t]
      BY <1>1, <1>2 DEF Begin, TxnInv, SessionInv, ClaimInv, TxnTypeOK
    <2> QED
      BY <2>1 DEF HoldsBelow
  <1>3. ASSUME NEW s \in Session, Interrupted(s)
        PROVE  \A t \in Session : HoldsBelow(t)'
    BY <1>1, <1>3, EndsBelow DEF Interrupted, Finish
  <1>4. ASSUME NEW s \in Session, Statement(s)
        PROVE  \A t \in Session : HoldsBelow(t)'
    <2>1. CASE \/ DuplicateEvent(s) \/ ClientRace(s) \/ OrderExists(s) \/ UpdateRejected(s)
               \/ ChargeRace(s) \/ MissingField(s) \/ BadValue(s) \/ GiveUp(s) \/ Commit(s)
      <3>1. \E next : End(s, next)
        BY <2>1 DEF DuplicateEvent, ClientRace, OrderExists, UpdateRejected, ChargeRace,
           MissingField, BadValue, GiveUp, Commit, Finish, Refuse
      <3> QED
        BY <1>1, <3>1, EndsBelow
    <2>2. CASE ClaimEvent(s)
      <3>1. at[s] = "claim" /\ FirstStatement(B(s).type) \in StatementName
            /\ Go(s, {<<"event", event[s]>>}, FirstStatement(B(s).type))
        BY <2>2 DEF ClaimEvent, FirstStatement, StatementName
      <3>2. Level(at[s]) = 1 /\ Level(FirstStatement(B(s).type)) \in 2..6
        BY <3>1 DEF Level, FirstStatement
      <3>3. \A key \in {<<"event", event[s]>>} : Rank(key) = 1
        BY DEF Rank
      <3>4. PICK next \in StatementName : /\ Go(s, {<<"event", event[s]>>}, next)
                                          /\ Level(next) \in 2..6
        BY <3>1, <3>2
      <3>5. /\ Level(at[s]) <= Level(next)
            /\ \A key \in {<<"event", event[s]>>} : Rank(key) < Level(next)
        BY <3>2, <3>3, <3>4
      <3> QED
        BY <1>1, <3>4, <3>5, GoesUp
    <2>3. CASE FindClient(s) \/ InsertClient(s)
      <3>1. /\ at[s] \in {"find_client", "insert_client"}
            /\ \/ Go(s, {<<"client", B(s).client>>}, "read_address")
               \/ Go(s, {}, "insert_client")
        BY <2>3 DEF FindClient, InsertClient, ClientLock
      <3>2. /\ Level(at[s]) = 2 /\ Level("read_address") = 3 /\ Level("insert_client") = 2
            /\ Rank(<<"client", B(s).client>>) = 2
        BY <3>1 DEF Level, Rank
      <3>3. "read_address" \in StatementName /\ "insert_client" \in StatementName
        BY DEF StatementName
      <3>4. CASE Go(s, {<<"client", B(s).client>>}, "read_address")
        BY <1>1, <3>2, <3>3, <3>4, GoesUp
      <3>5. CASE Go(s, {}, "insert_client")
        BY <1>1, <3>2, <3>3, <3>5, GoesUp
      <3> QED
        BY <3>1, <3>4, <3>5
    <2>4. CASE ReadAddress(s) \/ ResolveOrder(s)
      <3>1. \/ /\ at[s] = "read_address"
               /\ \E next \in {"insert_order", "write_address"} : Go(s, {}, next)
            \/ /\ at[s] = "resolve_order"
               /\ \E next \in {"find_charge", "commit"} : Go(s, {}, next)
        BY <2>4 DEF ReadAddress, ResolveOrder
      <3>2. PICK next \in StatementName : Go(s, {}, next) /\ Level(at[s]) <= Level(next)
        BY <3>1 DEF Level, StatementName
      <3> QED
        BY <1>1, <3>2, GoesUp
    <2>5. CASE WriteAddress(s)
      <3>1. at[s] = "write_address" /\ (Go(s, {AddressKey(s)}, "insert_order") \/ Refuse(s))
        BY <2>5 DEF WriteAddress
      <3>2. /\ Level(at[s]) = 3 /\ Level("insert_order") = 5 /\ Rank(AddressKey(s)) = 3
            /\ "insert_order" \in StatementName
        BY <3>1 DEF Level, Rank, AddressKey, StatementName
      <3>3. CASE Go(s, {AddressKey(s)}, "insert_order")
        BY <1>1, <3>2, <3>3, GoesUp
      <3>4. CASE Refuse(s)
        BY <1>1, <3>4, EndsBelow DEF Refuse
      <3> QED
        BY <3>1, <3>3, <3>4
    <2>6. CASE InsertOrderRow(s) \/ UpdateOrder(s)
      <3>1. /\ at[s] \in {"insert_order", "update_order"}
            /\ \E K \in SUBSET {<<"order", B(s).order>>} : Go(s, K, "commit")
        BY <2>6 DEF InsertOrderRow, UpdateOrder, OrderLock
      <3>2. /\ Level(at[s]) = 5 /\ Level("commit") = 6 /\ Rank(<<"order", B(s).order>>) = 5
            /\ "commit" \in StatementName
        BY <3>1 DEF Level, Rank, StatementName
      <3> QED
        BY <1>1, <3>1, <3>2, GoesUp
    <2>7. CASE FindCharge(s) \/ InsertCharge(s) \/ CheckOrder(s)
      <3>1. Rank(ChargeKey(s)) = 4
        BY DEF Rank, ChargeKey
      <3>2. \/ /\ at[s] \in {"find_charge", "insert_charge"}
               /\ \E next \in {"commit", "check_order"} : Go(s, {ChargeKey(s)}, next)
            \/ at[s] = "find_charge" /\ Go(s, {}, "insert_charge")
            \/ at[s] = "check_order" /\ Go(s, {}, "commit")
        BY <2>7 DEF FindCharge, InsertCharge, CheckOrder
      <3>3. PICK K \in SUBSET {ChargeKey(s)}, next \in StatementName :
               /\ Go(s, K, next) /\ Level(at[s]) <= Level(next)
               /\ K = {} \/ Level(next) \in {5, 6}
        BY <3>2 DEF Level, StatementName
      <3>4. \A key \in K : Rank(key) < Level(next)
        BY <3>1, <3>3
      <3> QED
        BY <1>1, <3>3, <3>4, GoesUp
    <2> QED
      BY <1>4, <2>1, <2>2, <2>3, <2>4, <2>5, <2>6, <2>7 DEF Statement
  <1>5. CASE UNCHANGED vars
    BY <1>5 DEF vars, session, HoldsBelow
  <1> QED
    BY <1>2, <1>3, <1>4, <1>5 DEF Next

\* Who waits for another is at a lower level.
LEMMA WaitsUpwards ==
    ASSUME NEW s \in Session, NEW t \in Session, HoldsBelow(t), WaitsFor(s, t)
    PROVE  Level(at[s]) < Level(at[t])
  <1>1. PICK key \in Wants(s) : key \in holds[t]
    BY DEF WaitsFor
  <1>2. Level(at[s]) <= Rank(key)
    BY <1>1 DEF Wants, Level, Rank, AddressKey, ChargeKey
  <1>3. Rank(key) < Level(at[t])
    BY <1>1 DEF HoldsBelow
  <1>4. Level(at[s]) \in Nat /\ Level(at[t]) \in Nat /\ Rank(key) \in Nat
    BY DEF Level, Rank
  <1> QED
    BY <1>2, <1>3, <1>4

\* So there is no ring: a chain of sessions that wait has at most six.
LEMMA NobodyWaitsInARing ==
    ASSUME \A t \in Session : HoldsBelow(t)
    PROVE  NoDeadlock
  <1> SUFFICES ASSUME NEW S \in SUBSET Session, S # {},
                      \A s \in S : \E t \in S : WaitsFor(s, t)
               PROVE  FALSE
    BY DEF NoDeadlock
  <1> DEFINE L == [s \in S |-> Level(at[s])]
  <1>1. \A s \in S : \E t \in S : L[s] < L[t]
    BY WaitsUpwards
  <1>2. L \in [S -> 1..6]
    BY DEF Level
  <1> HIDE DEF L
  <1>3. ASSUME NEW n \in Nat, NEW s \in S, L[s] >= n
        PROVE  \E t \in S : L[t] >= n + 1
    <2>1. PICK t \in S : L[s] < L[t]
      BY <1>1
    <2>2. L[s] \in 1..6 /\ L[t] \in 1..6
      BY <1>2
    <2> QED
      BY <1>3, <2>1, <2>2
  <1> DEFINE Reached(n) == \E t \in S : L[t] >= n
  <1>4. \A n \in Nat : Reached(n) => Reached(n + 1)
    BY <1>3
  <1>5. Reached(1)
    BY <1>2
  <1>6. ~Reached(7)
    BY <1>2
  <1> HIDE DEF Reached
  <1>7. Reached(2) /\ Reached(3)
    BY <1>4, <1>5
  <1>8. Reached(4) /\ Reached(5)
    BY <1>4, <1>7
  <1> QED
    BY <1>4, <1>6, <1>8

-------------------------------------------------------------------------------
(* The results.                                                               *)

\* Whatever the sessions interleave and whichever transactions fail, the tables
\* and what the sessions hold keep their types (_run_in_txn).
THEOREM TxnTypes == Spec => []TxnTypeOK
  <1>1. TxnInv => TxnTypeOK
    BY DEF TxnInv
  <1> QED
    BY <1>1, TxnInvariant, PTL

\* The SELECT of upsert_current_address takes no lock, and yet the version that it
\* read is the current one until its transaction ends, for any number of replicas.
THEOREM AddressReadsStayCurrent == Spec => []AddressReadIsCurrent
  <1>1. TxnInv => AddressReadIsCurrent
    <2> SUFFICES ASSUME TxnInv, NEW s \in Session,
                        at[s] \in {"write_address", "insert_order", "commit"},
                        B(s).type = "ORDER_CREATED"
                 PROVE  read[s].address = CurrentId(B(s).client, B(s).address)
      BY DEF AddressReadIsCurrent
    <2>1. Current(B(s).client, B(s).address) = {read[s].address} \ {0}
      BY DEF TxnInv, SessionInv, CreatedInv, ReadsCurrent
    <2>2. /\ CurrentId(B(s).client, B(s).address) = 0
                <=> Current(B(s).client, B(s).address) = {}
          /\ Current(B(s).client, B(s).address)
                = {CurrentId(B(s).client, B(s).address)} \ {0}
      BY OneCurrent DEF TxnInv, TxnTypeOK
    <2> QED
      BY <2>1, <2>2
  <1> QED
    BY <1>1, TxnInvariant, PTL

\* Each COMMIT does to the tables what process_event does in one step of OrderStore,
\* but for an event that is dropped late: the atomic transactions of
\* IngestionConsumer are those of the code (_run_in_txn).
THEOREM CommitsAreStoreEvents == Spec => CommitsAreEvents
  <1> DEFINE A == \E e \in EventId : ProcessEvent(e) \/ DroppedLate(e)
  <1>1. TxnInv /\ [Next]_vars => [A]_tables
    <2> SUFFICES ASSUME TxnInv, [Next]_vars PROVE UNCHANGED tables \/ A
      OBVIOUS
    <2>1. ASSUME NEW s \in Session, Commit(s) PROVE A
      BY <2>1, CommitIsEvent
    <2>2. ASSUME NEW s \in Session, Statement(s), ~Commit(s) PROVE UNCHANGED tables
      BY <2>2 DEF Statement, ClaimEvent, DuplicateEvent, FindClient, InsertClient,
         ClientRace, ReadAddress, WriteAddress, InsertOrderRow, OrderExists, UpdateOrder,
         UpdateRejected, ResolveOrder, FindCharge, InsertCharge, ChargeRace, CheckOrder,
         MissingField, BadValue, GiveUp, Go, Refuse
    <2>3. ASSUME NEW s \in Session, Interrupted(s) \/ \E e \in EventId : Begin(s, e)
          PROVE  UNCHANGED tables
      BY <2>3 DEF Interrupted, Begin
    <2> QED
      BY <2>1, <2>2, <2>3 DEF Next, vars
  <1> QED
    BY <1>1, TxnInvariant, PTL DEF Spec, CommitsAreEvents

\* The statements of process_event take their locks in one order, so that any
\* number of replicas, on whatever events, never wait for each other in a ring.
THEOREM NoRingOfLocks == Spec => []NoDeadlock
  <1> DEFINE LockOrder == \A t \in Session : HoldsBelow(t)
  <1>1. Init => LockOrder
    BY DEF Init, HoldsBelow
  <1>2. TxnInv /\ LockOrder /\ [Next]_vars => LockOrder'
    BY LockOrderStep
  <1>3. LockOrder => NoDeadlock
    BY NobodyWaitsInARing
  <1> QED
    BY <1>1, <1>2, <1>3, TxnInvariant, PTL DEF Spec

\* An event that is dropped late is one more in the ledger, and nothing else.
LEMMA LateDropStep ==
    ASSUME TablesInv, NEW e \in EventId, DroppedLate(e)
    PROVE  TablesInv'
<1>1. /\ processed' = processed \cup {e}
      /\ UNCHANGED <<clients, address, orders, history, payment, invoices>>
  BY DEF DroppedLate, Claim
<1>2. StoreTypeOK' /\ ForeignKeys' /\ AppliedOnce'
  BY <1>1 DEF TablesInv, StoreTypeOK, ForeignKeys, AppliedOnce, Known
<1>3. TrailIsChain' /\ TerminalIsFinal'
  BY <1>1 DEF TablesInv, TrailIsChain, TerminalIsFinal, FirstOfOrder, NextOfOrder,
              LastOfOrder, Precedes, Known
<1>4. CurrentIsNewest' /\ VersionsDiffer'
  BY <1>1 DEF TablesInv, CurrentIsNewest, VersionsDiffer, SameAddress
<1>5. Portraits'
  BY <1>1 DEF TablesInv, Portraits, Portrayed
<1>6. ChargesAnchored'
  BY <1>1 DEF TablesInv, ChargesAnchored, Known
<1>7. QED
  BY <1>2, <1>3, <1>4, <1>5, <1>6 DEF TablesInv

\* All that the tables promise of atomic transactions they keep with interleaved
\* ones: whatever the statements of any number of replicas read before others
\* commit, the ledger, the trail, the versions and the references stay right.
THEOREM InterleavingKeepsTables ==
    Spec => [](/\ StoreTypeOK /\ ForeignKeys /\ AppliedOnce
               /\ TrailIsChain /\ TerminalIsFinal
               /\ CurrentIsNewest /\ VersionsDiffer
               /\ OrderPortrait /\ ChargesAnchored)
  <1> DEFINE A == \E e \in EventId : ProcessEvent(e) \/ DroppedLate(e)
  <1>1. Init => TablesInv
    BY TablesInit DEF Init
  <1>2. TablesInv /\ [A]_tables => TablesInv'
    BY TablesStep, LateDropStep DEF StoreNext
  <1>3. TablesInv => /\ StoreTypeOK /\ ForeignKeys /\ AppliedOnce
                     /\ TrailIsChain /\ TerminalIsFinal
                     /\ CurrentIsNewest /\ VersionsDiffer
                     /\ OrderPortrait /\ ChargesAnchored
    BY TablesPortraits DEF TablesInv
  <1>4. Spec => [][A]_tables
    BY CommitsAreStoreEvents DEF CommitsAreEvents
  <1>5. Spec => Init
    BY DEF Spec
  <1> HIDE DEF A
  <1> QED
    BY <1>1, <1>2, <1>3, <1>4, <1>5, PTL
===============================================================================
