--------------------------- MODULE IngestionConsumer ---------------------------
(*****************************************************************************)
(* The consumer group "ingestion-consumer": main and handle_message of       *)
(* services/ingestion_consumer/app/consumer.py, run by any number of         *)
(* replicas, between the topic webhook-events and the tables of OrderStore,  *)
(* and the topic order-approved they publish to.                             *)
(*                                                                           *)
(* A step of a replica is what happens between two points where another can  *)
(* be seen: a poll, one database transaction, one publication, one commit of *)
(* an offset.  The broker assigns partitions and may take them back while    *)
(* their messages are in a replica's hands, the database may fail before or  *)
(* after a commit takes effect, and a replica may crash between any two      *)
(* steps; Budget bounds how often, and nothing else about when.              *)
(*****************************************************************************)
EXTENDS OrderStore, WebhookReceiver, FiniteSets

CONSTANTS
    Consumer,     \* replicas of the service
    BatchMax,     \* BATCH_MAX_RECORDS: messages of one getmany
    MaxAttempts,  \* stop_after_attempt of _run_in_txn
    Budget        \* bound: how many failures of each kind a run looks at

Failure == {"crash",      \* a replica stops: OOM, restart of its host
            "rebalance",  \* the broker moves a partition to another replica
            "db",         \* OperationalError, nothing committed
            "ack",        \* OperationalError, but the commit took effect
            "log",        \* log_pipeline_event cannot write its row
            "send"}       \* the publication of ORDER_APPROVED raises

ASSUME BatchAssumption   == BatchMax \in Nat \ {0}
ASSUME AttemptAssumption == MaxAttempts \in Nat \ {0}
ASSUME BudgetAssumption  == Budget \in [Failure -> Nat]
ASSUME ReplicaAssumption == None \notin Consumer \cup Partition
ASSUME SnapshotAssumption ==
    None \notin [event: EventId, order: OrderId, profile: Profile, place: Place,
                 items: Items]

GivenUp == {"malformed", "db_unavailable", "db_error", "unexpected_error"}
Outcome == GivenUp \cup {"publish_failed"}
Report  == [message: Message, outcome: Outcome]

Snapshot == [event: EventId, order: OrderId, profile: Profile, place: Place,
             items: Items]

VARIABLES
    \* The broker: who owns a partition, the group's committed offset, and the
    \* offset from which the owner fetches next.
    owner, committed, position,
    \* A replica: where main and handle_message stand, the partition in hand,
    \* the part of each partition its batch still holds, the attempts of
    \* _run_in_txn that failed, and the event to publish.
    pc, current, cursor, limit, attempts, outbox,
    approved,     \* the topic order-approved
    pipelineLog,  \* pipeline_log: what was written of the reports
    reports,      \* what the replicas logged and counted (metrics, stdout)
    spent         \* failures so far, by kind

broker  == <<owner, committed, position>>
memory  == <<pc, current, cursor, limit, attempts, outbox>>
outside == <<approved, pipelineLog, reports, spent>>
vars    == <<tables, log, broker, memory, outside>>

Init ==
    /\ StoreInit
    /\ ReceiverInit
    /\ owner       = [p \in Partition |-> None]
    /\ committed   = [p \in Partition |-> 0]      \* auto_offset_reset earliest
    /\ position    = [p \in Partition |-> 0]
    /\ pc          = [c \in Consumer |-> "down"]
    /\ current     = [c \in Consumer |-> None]
    /\ cursor      = [c \in Consumer |-> [p \in Partition |-> 0]]
    /\ limit       = [c \in Consumer |-> [p \in Partition |-> 0]]
    /\ attempts    = [c \in Consumer |-> 0]
    /\ outbox      = [c \in Consumer |-> None]
    /\ approved    = <<>>
    /\ pipelineLog = {}
    /\ reports     = {}
    /\ spent       = [k \in Failure |-> 0]

-------------------------------------------------------------------------------
(* Shared pieces.                                                            *)

\* Failures of the kinds K happen, if the budget has them.
Spend(K) ==
    /\ \A k \in K : spent[k] < Budget[k]
    /\ spent' = [k \in Failure |-> IF k \in K THEN spent[k] + 1 ELSE spent[k]]

\* log.error, the counter, and log_pipeline_event, whose row is best effort.
ReportAs(m, outcome, K) ==
    LET r == [message |-> m, outcome |-> outcome] IN
    /\ reports' = reports \cup {r}
    /\ \/ pipelineLog' = pipelineLog \cup {r} /\ Spend(K)
       \/ pipelineLog' = pipelineLog /\ Spend(K \cup {"log"})

\* The message of replica c, at the cursor of the partition in hand.
MessageOf(c) == log[current[c]][cursor[c][current[c]] + 1]

\* for msg in messages: on to the next one, or to the commit after the last.
NextMessage(c) ==
    LET p == current[c] IN
    /\ cursor' = [cursor EXCEPT ![c][p] = @ + 1]
    /\ attempts' = [attempts EXCEPT ![c] = 0]
    /\ pc' = [pc EXCEPT ![c] = IF cursor[c][p] + 1 = limit[c][p] THEN "commit"
                                                                 ELSE "handle"]
    /\ UNCHANGED <<current, limit>>

\* The process is gone, and its partitions are free once its session expires.
Halt(c) ==
    /\ pc'       = [pc EXCEPT ![c] = "down"]
    /\ current'  = [current EXCEPT ![c] = None]
    /\ cursor'   = [cursor EXCEPT ![c] = [p \in Partition |-> 0]]
    /\ limit'    = [limit EXCEPT ![c] = [p \in Partition |-> 0]]
    /\ attempts' = [attempts EXCEPT ![c] = 0]
    /\ outbox'   = [outbox EXCEPT ![c] = None]
    /\ owner'    = [p \in Partition |-> IF owner[p] = c THEN None ELSE owner[p]]
    /\ UNCHANGED <<committed, position>>

-------------------------------------------------------------------------------
(* main                                                                      *)

\* restart: unless-stopped, then consumer.start and producer.start.
Restart(c) ==
    /\ pc[c] = "down"
    /\ pc' = [pc EXCEPT ![c] = "poll"]
    /\ UNCHANGED <<tables, log, broker, outside, current, cursor, limit,
                   attempts, outbox>>

\* getmany: at most BatchMax messages, from any of the owned partitions.  With
\* nothing to read it returns an empty batch and the loop polls again: a stutter.
Poll(c) ==
    /\ pc[c] = "poll"
    /\ \E upto \in [Partition -> 0..MaxLog] :
          LET batch == {q \in Partition : upto[q] # position[q]} IN
          /\ \A q \in batch : /\ owner[q] = c
                              /\ position[q] < upto[q]
                              /\ upto[q] <= Len(log[q])
          /\ Cardinality({x \in batch \X (1..MaxLog) :
                /\ position[x[1]] < x[2]
                /\ x[2] <= upto[x[1]]}) <= BatchMax
          /\ \E p \in batch : current' = [current EXCEPT ![c] = p]
          /\ cursor' = [cursor EXCEPT ![c] =
                          [q \in Partition |-> IF q \in batch THEN position[q] ELSE 0]]
          /\ limit' = [limit EXCEPT ![c] =
                          [q \in Partition |-> IF q \in batch THEN upto[q] ELSE 0]]
          /\ position' = upto
    /\ pc' = [pc EXCEPT ![c] = "handle"]
    /\ UNCHANGED <<tables, log, owner, committed, attempts, outbox, outside>>

\* What the commit of a partition stands for: the offset after the last message of
\* its batch.  Variant: commit() without an argument, the position of every
\* partition, those of the batch that are not handled yet included.
CommitAll(c) ==
    committed' = [q \in Partition |-> IF owner[q] = c THEN position[q] ELSE committed[q]]
CommitBatch(c) ==
    committed' = [committed EXCEPT ![current[c]] = limit[c][current[c]]]

\* Then the next partition of the batch, or the next poll.
Commit(c) ==
    LET p    == current[c]
        rest == {q \in Partition \ {p} : cursor[c][q] < limit[c][q]}
    IN  /\ pc[c] = "commit"
        /\ owner[p] = c
        /\ CommitBatch(c)
        /\ cursor' = [cursor EXCEPT ![c][p] = 0]
        /\ limit' = [limit EXCEPT ![c][p] = 0]
        /\ \/ /\ rest = {}
              /\ pc' = [pc EXCEPT ![c] = "poll"]
              /\ current' = [current EXCEPT ![c] = None]
           \/ \E q \in rest : /\ pc' = [pc EXCEPT ![c] = "handle"]
                              /\ current' = [current EXCEPT ![c] = q]
        /\ UNCHANGED <<tables, log, owner, position, attempts, outbox, outside>>

\* commit raises for a partition that is no longer assigned; nothing catches it.
CommitRejected(c) ==
    /\ pc[c] = "commit"
    /\ owner[current[c]] # c
    /\ Halt(c)
    /\ UNCHANGED <<tables, log, outside>>

\* The same end at any moment.
Crash(c) ==
    /\ pc[c] # "down"
    /\ Spend({"crash"})
    /\ Halt(c)
    /\ UNCHANGED <<tables, log, approved, pipelineLog, reports>>

-------------------------------------------------------------------------------
(* handle_message, one action per outcome.                                   *)

Handling(c) == pc[c] = "handle" /\ MessageOf(c) \in EventId

\* Variant: the exception is not caught, and the replica stops.
PoisonStops(c) ==
    /\ pc[c] = "handle"
    /\ MessageOf(c) \in Poison
    /\ Halt(c)
    /\ UNCHANGED <<tables, log, outside>>
Malformed(c) ==
    /\ pc[c] = "handle"
    /\ MessageOf(c) \in Poison
    /\ ReportAs(MessageOf(c), "malformed", {})
    /\ NextMessage(c)
    /\ UNCHANGED <<tables, log, broker, outbox, approved>>

\* fetch_order_snapshot, read in the transaction that approves the order.
\* Variant: the client's current address instead of the order's.
CurrentSnapshot(e) ==
    LET row == orders[Body[e].order]
        new == CHOOSE i \in DOMAIN address :
                  address[i].client = row.client /\ address[i].current
    IN  [event |-> e, order |-> Body[e].order, profile |-> clients[row.client],
         place |-> address[new].place, items |-> row.items]
FetchOrderSnapshot(e) ==
    LET row == orders[Body[e].order] IN
    [event |-> e, order |-> Body[e].order, profile |-> clients[row.client],
     place |-> address[row.address].place, items |-> row.items]

\* The transaction commits.
Applied(c) ==
    LET e == MessageOf(c) IN
    /\ Handling(c)
    /\ ProcessEvent(e)
    /\ \/ /\ ~Approves(e)
          /\ NextMessage(c)
          /\ UNCHANGED outbox
       \/ /\ Approves(e)
          /\ outbox' = [outbox EXCEPT ![c] = FetchOrderSnapshot(e)]
          /\ pc' = [pc EXCEPT ![c] = "publish"]
          /\ UNCHANGED <<current, cursor, limit, attempts>>
    /\ UNCHANGED <<log, broker, outside>>

\* DuplicateEvent: rolled back, logged as a no-op.
\* Variant: an approval that was already processed is published again.
RepublishDuplicate(c) ==
    LET e == MessageOf(c) IN
    /\ Handling(c)
    /\ Duplicate(e)
    /\ \/ /\ ~Approves(e)
          /\ NextMessage(c)
          /\ UNCHANGED outbox
       \/ /\ Approves(e)
          /\ outbox' = [outbox EXCEPT ![c] = FetchOrderSnapshot(e)]
          /\ pc' = [pc EXCEPT ![c] = "publish"]
          /\ UNCHANGED <<current, cursor, limit, attempts>>
    /\ UNCHANGED <<tables, log, broker, outside>>
DuplicateSkipped(c) ==
    /\ Handling(c)
    /\ Duplicate(MessageOf(c))
    /\ NextMessage(c)
    /\ UNCHANGED <<tables, log, broker, outbox, outside>>

\* SQLAlchemyError and any other exception: rolled back and not retried.
Refused(c) ==
    LET e == MessageOf(c) IN
    /\ Handling(c)
    /\ \/ DbError(e)         /\ ReportAs(e, "db_error", {})
       \/ UnexpectedError(e) /\ ReportAs(e, "unexpected_error", {})
    /\ NextMessage(c)
    /\ UNCHANGED <<tables, log, broker, outbox, approved>>

\* OperationalError of the kind k, for the last allowed time or not.
\* Variants: one attempt too many; the last failure is passed over in silence.
AttemptOnceMore(c, k) ==
    \/ /\ attempts[c] < MaxAttempts
       /\ attempts' = [attempts EXCEPT ![c] = @ + 1]
       /\ Spend({k})
       /\ UNCHANGED <<pc, current, cursor, limit, pipelineLog, reports>>
    \/ /\ attempts[c] = MaxAttempts
       /\ ReportAs(MessageOf(c), "db_unavailable", {k})
       /\ NextMessage(c)
AttemptInSilence(c, k) ==
    \/ /\ attempts[c] + 1 < MaxAttempts
       /\ attempts' = [attempts EXCEPT ![c] = @ + 1]
       /\ Spend({k})
       /\ UNCHANGED <<pc, current, cursor, limit, pipelineLog, reports>>
    \/ /\ attempts[c] + 1 = MaxAttempts
       /\ Spend({k})
       /\ UNCHANGED <<pipelineLog, reports>>
       /\ NextMessage(c)
Attempt(c, k) ==
    \/ /\ attempts[c] + 1 < MaxAttempts
       /\ attempts' = [attempts EXCEPT ![c] = @ + 1]
       /\ Spend({k})
       /\ UNCHANGED <<pc, current, cursor, limit, pipelineLog, reports>>
    \/ /\ attempts[c] + 1 = MaxAttempts
       /\ ReportAs(MessageOf(c), "db_unavailable", {k})
       /\ NextMessage(c)

\* A deadlock, a lock timeout or a lost connection: nothing was committed.
\* Variant: the claim of the event was.
ClaimLeaks(c) ==
    /\ Handling(c)
    /\ Attempt(c, "db")
    /\ Claim(MessageOf(c))
    /\ UNCHANGED <<clients, address, orders, history, payment, invoices>>
    /\ UNCHANGED <<log, broker, outbox, approved>>
DbUnavailable(c) ==
    /\ Handling(c)
    /\ Attempt(c, "db")
    /\ UNCHANGED <<tables, log, broker, outbox, approved>>

\* The connection is lost on COMMIT, after the server made it durable: the
\* outbox of this attempt is gone, and the next one finds a duplicate.
AckLost(c) ==
    /\ Handling(c)
    /\ ProcessEvent(MessageOf(c))
    /\ Attempt(c, "ack")
    /\ UNCHANGED <<log, broker, outbox, approved>>

\* send_and_wait to order-approved.
Published(c) ==
    /\ pc[c] = "publish"
    /\ approved' = Append(approved, outbox[c])
    /\ outbox' = [outbox EXCEPT ![c] = None]
    /\ NextMessage(c)
    /\ UNCHANGED <<tables, log, broker, pipelineLog, reports, spent>>

\* It raises, whether or not the broker has the message.
\* Variant: and nothing is logged.
PublishFailedInSilence(c) ==
    /\ pc[c] = "publish"
    /\ approved' \in {approved, Append(approved, outbox[c])}
    /\ Spend({"send"})
    /\ outbox' = [outbox EXCEPT ![c] = None]
    /\ NextMessage(c)
    /\ UNCHANGED <<tables, log, broker, pipelineLog, reports>>
PublishFailed(c) ==
    /\ pc[c] = "publish"
    /\ approved' \in {approved, Append(approved, outbox[c])}
    /\ ReportAs(outbox[c].event, "publish_failed", {"send"})
    /\ outbox' = [outbox EXCEPT ![c] = None]
    /\ NextMessage(c)
    /\ UNCHANGED <<tables, log, broker>>

-------------------------------------------------------------------------------
(* The broker, as the service meets it: the group coordinator of Redpanda and *)
(* the background rejoin of aiokafka, which does not wait for a batch.        *)

Assign(p, c) ==
    /\ owner[p] = None
    /\ pc[c] # "down"
    /\ owner' = [owner EXCEPT ![p] = c]
    /\ position' = [position EXCEPT ![p] = committed[p]]
    /\ UNCHANGED <<tables, log, committed, memory, outside>>

\* The replica that loses the partition keeps the messages it already has.
Rebalance(p, c) ==
    /\ owner[p] \notin {None, c}
    /\ pc[c] # "down"
    /\ Spend({"rebalance"})
    /\ owner' = [owner EXCEPT ![p] = c]
    /\ position' = [position EXCEPT ![p] = committed[p]]
    /\ UNCHANGED <<tables, log, committed, memory, approved, pipelineLog, reports>>

-------------------------------------------------------------------------------

Webhook == ReceiverNext /\ UNCHANGED <<tables, broker, memory, outside>>

HandleMessage(c) == \/ Malformed(c) \/ Applied(c) \/ DuplicateSkipped(c)
                    \/ Refused(c) \/ DbUnavailable(c) \/ AckLost(c)
                    \/ Published(c) \/ PublishFailed(c)

Replica(c) == HandleMessage(c) \/ Poll(c) \/ Commit(c) \/ CommitRejected(c)

Next ==
    \/ Webhook
    \/ \E c \in Consumer : Replica(c) \/ Crash(c) \/ Restart(c)
    \/ \E c \in Consumer, p \in Partition : Assign(p, c) \/ Rebalance(p, c)

Spec == Init /\ [][Next]_vars

\* A running replica keeps taking steps, docker restarts a stopped one, and the
\* broker does not leave a partition without an owner while somebody could read.
Fairness ==
    /\ \A c \in Consumer : WF_vars(Replica(c)) /\ WF_vars(Restart(c))
    /\ \A p \in Partition : WF_vars(\E c \in Consumer : Assign(p, c))

FairSpec == Spec /\ Fairness

-------------------------------------------------------------------------------
(* What the group promises.                                                  *)

\* What the broker, the loops of main, handle_message and the reports hold, and
\* that a message is never tried more than stop_after_attempt allows.
BrokerTypeOK ==
    /\ owner \in [Partition -> Consumer \cup {None}]
    /\ committed \in [Partition -> Nat]
    /\ position \in [Partition -> Nat]
LoopTypeOK ==
    /\ pc \in [Consumer -> {"down", "poll", "handle", "publish", "commit"}]
    /\ current \in [Consumer -> Partition \cup {None}]
    /\ cursor \in [Consumer -> [Partition -> Nat]]
    /\ limit \in [Consumer -> [Partition -> Nat]]
    /\ attempts \in [Consumer -> 0..(MaxAttempts - 1)]
PublishTypeOK ==
    /\ outbox \in [Consumer -> Snapshot \cup {None}]
    /\ approved \in Seq(Snapshot)
ReportTypeOK ==
    /\ pipelineLog \subseteq reports
    /\ reports \subseteq Report
    /\ spent \in [Failure -> Nat]

\* All of it together with the tables and the topic.
ConsumerTypeOK == /\ StoreTypeOK /\ LogTypeOK /\ BrokerTypeOK
                  /\ LoopTypeOK /\ PublishTypeOK /\ ReportTypeOK

\* A replica has a partition in hand while it works on a batch, and something to
\* publish exactly between its transaction and the publication.
InHand ==
    \A c \in Consumer :
       /\ pc[c] \in {"handle", "publish", "commit"} => current[c] \in Partition
       /\ pc[c] = "publish" <=> outbox[c] # None

\* The messages the replicas are done with: in the ledger, or given up.
Handled == processed \cup {r.message : r \in {x \in reports : x.outcome \in GivenUp}}

\* The offsets of a partition below which all is handled.
Safe(p) == {n \in 0..Len(log[p]) : \A i \in 1..n : log[p][i] \in Handled}

\* A committed offset never passes over a message that nobody handled, though
\* replicas that lost a partition still commit and replay in between (the
\* docstring of consumer.py, README "Concorrência").
HandledBelowCommit == \A p \in Partition : committed[p] \in Safe(p)

\* The group promises of webhook-events what AtLeastOnce says: it settles nothing
\* that was not sent, forgets nothing that is settled and acknowledges nothing else.
\* Offsets may go back: a replica that gets a partition back commits its old batch.
InTopic == UNION {{log[p][i] : i \in DOMAIN log[p]} : p \in Partition}
Acked   == UNION {{log[p][i] : i \in 1..committed[p]} : p \in Partition}
Promise == INSTANCE AtLeastOnce WITH
              Item <- Message, sent <- InTopic, settled <- Handled, acked <- Acked
DeliversAtLeastOnce == Promise!Spec

\* Why it never does, by induction.  A batch is walked in order, partition by
\* partition: only the one in hand can be at its end, and only for the commit.
Walk(c, p) ==
    /\ cursor[c][p] <= limit[c][p]
    /\ limit[c][p] <= Len(log[p])
    /\ pc[c] \in {"down", "poll"} => limit[c][p] = 0
    /\ pc[c] \in {"handle", "publish"} /\ current[c] = p => cursor[c][p] < limit[c][p]
    /\ pc[c] = "commit" /\ current[c] = p => cursor[c][p] = limit[c][p]
    /\ limit[c][p] > 0 /\ cursor[c][p] = limit[c][p] => pc[c] = "commit" /\ current[c] = p

\* What waits for publication comes from the message in hand, and is committed.
OutboxInv ==
    \A c \in Consumer : outbox[c] # None => /\ outbox[c].event = MessageOf(c)
                                           /\ outbox[c].event \in processed

\* What lies below a committed offset or a cursor is handled, and the owner of a
\* partition fetches from an offset below which all is handled, or which ends the
\* batch it still has in hand.
Offsets(p) ==
    /\ committed[p] \in Safe(p)
    /\ \A c \in Consumer : cursor[c][p] \in Safe(p)
    /\ owner[p] # None => \/ position[p] \in Safe(p)
                          \/ position[p] = limit[owner[p]][p]

OffsetInv == /\ \A c \in Consumer, p \in Partition : Walk(c, p)
             /\ OutboxInv
             /\ \A p \in Partition : Offsets(p)

\* However often an approval is delivered, crashed on and replayed, and whoever
\* handles it, it is published at most once (claim_event before the outbox).
PublishedOnce ==
    /\ \A i, j \in DOMAIN approved :
          approved[i].event = approved[j].event => i = j
    /\ \A c \in Consumer : outbox[c] # None =>
          /\ \A i \in DOMAIN approved : approved[i].event # outbox[c].event
          /\ \A d \in Consumer \ {c} : outbox[d] # None =>
                outbox[d].event # outbox[c].event

\* What the ERP is told is what the tables committed: each published order went
\* to APPROVED through that event, and the address is the one it was placed with.
PublishedIsApproved ==
    \A i \in DOMAIN approved :
       LET s == approved[i] IN
       /\ \E h \in DOMAIN history : /\ history[h].event = s.event
                                    /\ history[h].order = s.order
                                    /\ history[h].status = "APPROVED"
       /\ \E h \in DOMAIN history : /\ history[h].order = s.order
                                    /\ history[h].previous = None
                                    /\ Body[history[h].event].place = s.place
                                    /\ Body[history[h].event].items = s.items

\* The approvals that are committed, but neither published, nor in the hands of a
\* replica, nor reported as not published.
LostApprovals ==
    {h \in DOMAIN history :
       /\ history[h].status = "APPROVED"
       /\ \A i \in DOMAIN approved : approved[i].event # history[h].event
       /\ \A c \in Consumer : outbox[c] # None =>
                                 outbox[c].event # history[h].event
       /\ \A r \in reports : r.message = history[h].event =>
                                r.outcome # "publish_failed"}

\* The missing transactional outbox costs at most one approval per crash or lost
\* commit acknowledgement, and nothing else loses one (consumer.py, the gap named
\* in the except of the publication).
LossesAreCaused ==
    Cardinality(LostApprovals) <= spent["crash"] + spent["ack"]

\* The trail of an order has its events in the order of one log, with two replicas
\* on that partition and replays included, except past an event that was given up
\* for the database's sake (receive_webhook, "so all events for the same order land
\* on the same partition and are processed in order").  An order whose id is falsy
\* has no log of its own, and promises nothing.
InOneLog(e, f) == \E p \in Partition : Before(p, e, f)
InLogOrderUnlessGivenUp ==
    \A i, j \in DOMAIN history :
       (/\ i < j
        /\ history[i].order = history[j].order
        /\ history[j].order \notin Falsy)
          => \/ InOneLog(history[i].event, history[j].event)
             \/ \E r \in reports : /\ r.message = history[j].event
                                   /\ r.outcome = "db_unavailable"

\* The event left its row in the trail, in payment or in invoices.
LeftItsMark(e) ==
    \/ \E h \in DOMAIN history : history[h].event = e
    \/ Body[e].type = "PAYMENT_CONFIRMED" /\ payment[Body[e].payment] # None
    \/ Body[e].type = "INVOICE_ISSUED" /\ invoices[Body[e].invoice] # None

\* No event is dropped as that of an unknown order, and its event_id spent, behind
\* the ORDER_CREATED it follows in the log, whichever replica handles either and
\* however often, unless that one was given up (receive_webhook, "you cannot apply
\* PAYMENT_CONFIRMED before ORDER_CREATED has landed").
NothingDroppedBehindItsOrder ==
    \A p \in Partition : \A c, e \in EventId :
       (/\ e \in processed
        /\ Body[e].type \in {"ORDER_STATUS_CHANGED", "PAYMENT_CONFIRMED", "INVOICE_ISSUED"}
        /\ Body[c].type = "ORDER_CREATED"
        /\ Body[c].order = Body[e].order
        /\ Before(p, c, e)
        /\ \A r \in reports : r.message = c => r.outcome \notin GivenUp)
          => LeftItsMark(e)

\* A message that reaches the topic is handled in spite of crashes, rebalances and
\* database failures, and its offset gets committed (README, "se o processo cair no
\* meio de um lote, as mensagens voltam a ser entregues").  Past a rebalance the
\* offset may stay behind: a replica that got its partition back commits its old
\* batch over a newer offset.
EventuallyHandled ==
    \A p \in Partition, i \in 1..MaxLog :
       (Len(log[p]) >= i)
          ~> /\ i \in DOMAIN log[p] /\ log[p][i] \in Handled
             /\ committed[p] >= i \/ spent["rebalance"] > 0

-------------------------------------------------------------------------------
(* What the documentation says, where the code does otherwise.               *)

\* README, "não tem risco de duas réplicas processarem o mesmo pedido ao mesmo
\* tempo": no two replicas are in handle_message for events of one order.
OneReplicaPerOrder ==
    \A c, d \in Consumer :
       (c # d /\ Handling(c) /\ Handling(d))
          => Body[MessageOf(c)].order # Body[MessageOf(d)].order

\* receive_webhook, "processed in order by a single consumer instance": the status
\* changes of an order are applied in the order of the log.
StatusesInLogOrder ==
    \A i, j \in DOMAIN history :
       (/\ i < j
        /\ history[i].order = history[j].order
        /\ history[i].previous # None)
          => InOneLog(history[i].event, history[j].event)

\* README, the limitation on the transactional outbox: an approval is lost when
\* the process stops between the commit and the publication.
LossesAreCrashes == Cardinality(LostApprovals) <= spent["crash"]

===============================================================================
