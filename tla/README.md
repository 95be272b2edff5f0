# A verification project for observability-lab

TLA+ models of the order pipeline in this repository, checked with TLC and, for
the results that matter most, proved with TLAPS. References such as
`consumer.py:223` are to files of the repository (`consumer.py` and `db_ops.py`
are in `services/ingestion_consumer/app/`).

## The system

A partner posts webhooks about its orders. They travel

    partner -> webhook-receiver -> topic webhook-events -> ingestion-consumer
            -> SQL Server tables
            -> topic order-approved -> order-approved-worker -> ERP (or DLQ)

| Part | State | Operations | Interacts with | What is hard | What makes it correct |
|---|---|---|---|---|---|
| webhook-receiver | none (the topic) | `receive_webhook` | partner, broker | 503 although the broker has the message: repeats | events of an order with an id in one partition |
| tables | ledger of event ids, clients, address versions, orders, trail, payments, invoices | one transaction per event | consumer, every reader | long sequences: SCD2 versions, terminal orders, events before their order | each event at most once, unbroken trail, closed stays closed, orders keep the portrait of their address |
| ingestion-consumer | batch in memory, outbox of one event; offsets in the broker | `getmany`, `handle_message`, commit | broker, database, topic order-approved | replicas, rebalance with a batch in hand, crash, retry, lost COMMIT answer | no event skipped, none applied or published twice, losses only for known causes |
| order-approved-worker | message in hand, attempts; offset in the broker | deliver with 5 attempts, DLQ, commit | topic, ERP | crash between POST and commit, timeout of a POST that worked | each approval delivered or dead-lettered, offset never ahead |
| mock ERP | list of received orders | `receive_order` | worker | fails at random | - |
| load simulator | none | sends orders, repeats some | receiver | - | - |
| pipeline_log and its DAG | rows with a time | insert; hourly deletion | consumer | bursts, retry of the task | removes by its two rules, and in time every row |
| bulk load DAG | fact table, data file, indexes, XCom | truncate, generate, bcp, validate, index, notify | database, Airflow's retries | bcp timing out half way | no order twice; a run reported as a success leaves exactly one whole batch |
| run history, Telegram | a file | append, POST | bulk load DAG | - | - |
| connections, migrations, compose, monitoring | configuration | - | all | start-up order | - |

`PROJECT.json` has the same list with what is modelled, and the hazards of the
code at their lines; the properties are aimed at those.

## Modules

| Module | Models | Used by |
|---|---|---|
| `WebhookEvents` | the partner's events as data: type, keys, what is wrong with them (`Fault`) | the modules of events |
| `OrderStore` | the tables, the statements of `db_ops.py`, the branches of `process_event`, the constraints and the trigger of migration 0001 | `IngestionConsumer`, `IngestionTxn` |
| `IngestionTxn` | the transactions of `_run_in_txn`, statement by statement, with their locks | |
| `WebhookReceiver` | `receive_webhook` and the topic webhook-events | `IngestionConsumer` |
| `AtLeastOnce` | abstract: what a consumer of a topic promises | the two below |
| `IngestionConsumer` | `main` and `handle_message` of any number of replicas, composed with `WebhookReceiver`, `OrderStore`, the broker and the failures | `Pipeline` |
| `OrderApprovedWorker` | `main` and `deliver` of any number of workers, the ERP, the dead-letter topic, the broker and the failures | `Pipeline` |
| `Pipeline` | the two groups, joined by the topic order-approved | |
| `BulkLoad` | the five tasks of `bulk_load_dimensions` with its scripts | |
| `LogRetention` | `enforce_retention` next to `log_pipeline_event` | |
| `MC...` | the instances TLC checks | |
| `...Proofs` | theorems and proofs about the module of that name | |
| `TrailProofs` | more theorems about `IngestionConsumer`: what it publishes, loses and writes in the trail | `PipelineProofs` |

**OrderStore.** An action per branch of `process_event` that ends in a COMMIT
(`OrderCreated`, `StatusChanged`, `PaymentConfirmed`, `InvoiceIssued`,
`DroppedUnknownOrder`, `DroppedUnknownType`); `Duplicate`, `DbError` and
`UnexpectedError` say when the transaction is rolled back instead, which leaves
the tables alone. One operator per statement: `Claim` (ledger), `UpsertClient`,
`UpsertCurrentAddress` with `Current` and `Expire` (SCD type 2), `InsertOrder`,
`UpdateOrderStatus`, `RecordStatusHistory`, `Merge` (payments, invoices);
`Frozen` is the trigger. An event may lack its order or another field (`KeyError`), have
a value that no row takes, or one that only an INSERT refuses (`bad_new_row`): the two
branches of a MERGE write different columns, so a payment without a valid `method` is
refused while its id is new and taken once the row is there (`Fits`, `NeedsNoNewRow`);
the same goes for an address whose NULLs count as the current version's empty strings.

**WebhookReceiver.** `RoutingKey` is the key with its fallbacks: the order's id, else the
client's (`ClientKey`), else the event's. Order ids that `or` passes over are `Falsy`; events of
such an order may lie in several partitions.

**IngestionTxn.** `at[s]` is the statement a session executes next, `holds[s]`
its locks, `read[s]` what its transaction has read that it still needs. A SELECT
reads what is committed and waits for nobody (READ_COMMITTED_SNAPSHOT,
`db/entrypoint.sh`); an INSERT, and the search of a MERGE or an UPDATE, wait
until nobody else holds the key (`Free`). A MERGE is two steps, the search and,
if that found nothing, the INSERT, since without HOLDLOCK the search of another
one may come in between (`FindClient`, `InsertClient`, `ClientRace`, and the
same for payments and invoices). Nobody sees what a session wrote before
`Commit`, which uses the operators of `OrderStore`. `Interrupted` is an
`OperationalError`: LOCK_TIMEOUT, a deadlock victim, a lost connection; `Refuse`
is any other `SQLAlchemyError`. A lock stands for a logical row with its index
entries. `address_id` and the order of the trail are those of the commits.

**IngestionConsumer.** `pc` says where a replica stands in the loop of `main`:
`poll`, `handle`, `publish`, `commit` or `down`. `current` is the partition in
hand, `cursor` and `limit` bound what is left of each partition of the batch,
`attempts` counts failed attempts of `_run_in_txn`, `outbox` is what it
returned. The broker keeps `owner`, `committed` and `position` of a partition.
A step is what happens between two points where somebody else can be seen: a
poll, one transaction, one publication, one offset commit. `handle_message` has
one action per way it ends (`Malformed`, `Applied`, `DuplicateSkipped`,
`Refused`, `DbUnavailable`, `AckLost`, `Published`, `PublishFailed`).
`Rebalance` takes a partition from a replica that keeps the messages it already
fetched: `main` has no rebalance listener. `CommitRejected` is a commit for a
partition no longer owned, which raises out of `main`; `Crash` may come anywhere.

**OrderApprovedWorker.** A worker never looks into an order, so a message is
its place in the topic. `Fetch` moves the position past the message, `deliver`
is a sequence of POSTs, each `Delivered`, `ServerError` (retried), `Rejected`
(4xx, not retried) or `NoAnswer`: the ERP may have the order, or get it later
(`LateArrival`), or never. After the last attempt comes the dead-letter topic.
`CommitPositions` is the commit without an argument: it commits the positions of
the partitions the worker owns *now*, whatever it just handled. A message that
is not JSON ends the process (`Unparseable`), as do a failed commit and a failed
send to the dead-letter topic, which nothing catches.

**Pipeline.** `OrderApprovedWorker` is instantiated with `Len(approved)` of
`IngestionConsumer` as the end of its one partition. A step is a step of one
group. The only producer of that topic dumps JSON, so no message is poison.

**BulkLoad.** `step` walks through the tasks; each may raise or be killed at any
step (`StepRaises`, `Killed`) and is then tried once more from its first step
(`retries=1`), or fails the run. bcp commits batch by batch (`BcpBatch`), skips a
bounded number of bad lines, may fail at any batch, and may hang until `BcpTimeout`. A
row is its run, its position and the attempt that loaded it. The last task
always runs: it writes the history (`RecordRun`), then tries Telegram. Both sizes are any
integers, as `conf` is not checked: without a positive `total_rows` the file is empty, a
`batch_size` of zero divides by zero, and a negative one leaves `generate_rows` in a loop that
only a kill ends.

**LogRetention.** A run is `StartRun`, `DeleteExpired`, `CountRows`, `TrimOldest`,
`Commit`; between two of them consumers log and an hour may pass. Its statements
see rows that were committed by then, its own deletions are seen at `Commit`, and
an attempt that fails rolls all of them back.

Abstractions. A client's profile, the eight compared address fields, the items,
and the amounts of a payment are each one value. Surrogate keys are the natural
ones, except `address_id`, which is the index of the version. Timestamps, text and
metrics are left out, but for the outcomes in `reports` and the age of a log row,
in hours, which stops counting when it is past the retention. Log rows are
numbered in the order of their time. Which driver errors count as
`OperationalError` is taken from the comment at `consumer.py:120`. The
`pipeline_log` row is written with the outcome, or is lost (`ReportAs`), as
`log_pipeline_event` swallows its own errors.

`IngestionConsumer` takes a transaction as one step. That is what `IngestionTxn`
is for: it shows (`CommitsAreEvents`, checked and proved) that a COMMIT does what
one step of `OrderStore` does, and so that the tables keep their promises
(`InterleavingKeepsTables`, proved). The one exception is `DroppedLate`: an event whose
order another session creates after its statement looked for it is dropped as
if the order were unknown. The group of `IngestionConsumer` drops it only if it
comes first; two replicas can reach this only through a rebalance, as the events
of an order with an id are in one partition.

## Runs

All bounds are constants of the `.cfg` files.

| Run | Question | Bounds | Result |
|---|---|---|---|
| `order_store` | Do the tables keep their promises in every order of arrival? | 14 events, 3 orders, 1 client with an address that changes and changes back, one payment and one invoice id, events that are refused always or only without a row | holds, 140,416 states |
| `transactions` | Are interleaved transactions as good as atomic ones, without deadlock or starvation? | 2 sessions, 14 events of 2 orders and 1 client, each begun at any time and again until two are processed, 2 attempts, 1 transaction that fails from outside | holds, 186,572 states |
| `ingestion` | Do two replicas keep offsets, the order of the log and approvals right under failures? | 2 partitions, at most 2 messages in one and 3 in both, 4 events of 2 orders, one of which has an empty id, batches of 2, 2 attempts, any 3 failures among one crash, rebalance, lost COMMIT answer, lost log row, failed publication and two database errors | holds, 794,607 states |
| `ingestion_live` | Is every message handled and committed in the end? | 1 partition, 2 messages among 5 events and a poison message, 3 attempts and 3 database errors, a crash, a rebalance, a failed publication | holds, 273,328 states |
| `worker` | Is every approved order delivered or dead-lettered, and repeated only for a cause? | 2 workers, a partition of two messages and one of one, any of them poison, 2 attempts, any 2 failures | holds, 319,578 states |
| `pipeline` | Does a committed approval reach the ERP or the dead-letter topic? | 1 order approved by two events, one replica and one worker with a failure, two partner messages beside the creation | holds, 167,948 states |
| `bulk_load` | Can failures and retries leave duplicates, or a partial load reported as a success? | 2 runs of -1, 2 or 3 rows, batches of -1, 0, 2 or 3, one skipped line, each task failing or killed anywhere | holds, 208,642 states |
| `log_retention` | Does the retention remove what its rules say, and in time everything? | 6 rows, a retention of 2 hours, at most 2 rows kept, 2 trimmed at a time, 3 failed attempts | holds, 61,958 states |
| `one_replica_per_order` | Can two replicas handle one order at once? | one rebalance | yes, README.md:135 says no |
| `statuses_in_log_order` | Are an order's statuses applied in the order of the topic? | one replica, three database errors, a crash | no, `main.py:79` says yes |
| `losses_are_crashes` | Does only a crash lose an approval? | one crash, one lost COMMIT answer | no, README.md:324 knows the crash only |
| `refused_for_cause` | Is an event given up as `db_error` one that fails every time? | two sessions, two orders of a new client, no failure | no, `consumer.py:152` says yes |

Why the bounds are enough to be interesting:

- `order_store`: two address changes are needed to come back to an earlier place,
  and a third order to reuse it. One payment that is always refused, and one payment and
  one address that are refused until another event has written the row.
- `transactions`: every pair of statement sequences meets, on the same event, the
  same order, the same client or address, the same charge, with one of them
  rolled back half way. A third session adds no new conflict between two; the
  rings of three and more are excluded by the proof of `NoRingOfLocks`.
- `ingestion`: two replicas and one rebalance give a partition two owners with a
  batch in hand, and a second failure hits them there; two messages per batch
  separate the commit of an offset from the first message, and two partitions its
  commit from the rest of the batch; three failures cover giving an event up
  (two attempts) and then replaying it. The creation of the order with the empty id
  and its approval are in different partitions.
- `worker`: a commit without an argument goes wrong only if a worker lost its
  partition, or lost and regained it, or owns another one, while it has a message
  in hand: two partitions and two failures. The second message of a partition is
  the one that would be passed over. The code has five attempts; two are the
  first and the last.
- `bulk_load`: the second run meets the rows, the indexes and the files of the
  first; 3 rows in batches of 2 leave a prefix. Sizes of 0 and below are
  configurations the DAG accepts.
- `log_retention`: six rows are three times what is kept, and more than one run
  can trim; an hour that passes in the middle of a run makes rows expire between
  its DELETE and its count.

Bounds cut the runs off (`MaxLog`, `MaxMessages`, `Budget`, `MaxProcessed`,
`MaxEnd`, `MaxRuns`), so a group that has read its log stops: deadlock is
not checked in those runs, nor in `order_store`, where the events run out.
Deadlock of transactions is a property of its own, `NoDeadlock`. Symmetry
is used for the replicas in safety runs only; nothing chooses a replica by name.
PROJECT.json names for each property a plausible bug that violates it (the
*variants* in the modules).

What the properties say, with the code they are about, is in the comment above
each one. The most important:

- `AppliedOnce`, `TrailIsChain`, `TerminalIsFinal`: the ledger, the trail, the
  trigger.
- `CurrentIsNewest`, `VersionsDiffer`, `OrderPortrait`: slowly changing addresses
  and the orders that refer to them.
- `RefusedUntilRowThere`: a `SQLAlchemyError` is not retried because it would fail again;
  so it does, whatever is processed in between, if the tables refused it, but for
  what only an INSERT refuses.
- `CommitsAreEvents`, `AddressReadIsCurrent`, `NoDeadlock`, `EveryTxnEnds`: two replicas
  in the database at once. The SELECT of the current address takes no lock;
  what keeps it current is the lock on the client, taken by an earlier MERGE that
  seems to have nothing to do with it. All statements lock events, clients,
  addresses, charges and orders in this order.
- `NothingDroppedBehindItsOrder`: an event of an unknown order is dropped and its id spent, so
  it must not overtake the `ORDER_CREATED` before it; no crash, rebalance or replay lets
  it, unless that creation was given up.
- `HandledBelowCommit`: the docstring of `consumer.py`, for the group: below a
  committed offset everything is in the ledger or was given up with a report.
- `PublishedOnce` and `LossesAreCaused`: at most one publication per approval; an
  approval is lost in silence only once per crash or lost COMMIT answer.
- `InLogOrderUnlessGivenUp`: the trail follows the topic, except past an event that
  was given up, and except for orders whose id makes no key.
- `SettledBelowCommit`, `CommitsMoveForward`: the commit without an argument passes no
  order over and goes back for nobody, rebalances included.
- `RepeatsAreCaused`: five attempts alone never deliver an order twice.
- `ApprovalsAccountedFor`: every committed approval can be found somewhere on its
  way; no more are missing than ingestion-consumer crashed or lost an answer to
  COMMIT, and nothing that goes wrong behind order-approved costs one.
- `NoOrderTwice`, `LoadsUnindexed`, `SuccessIsWhole`, `RunsAreReported`: retries of the bulk
  load over what an earlier attempt left.
- `RemovesByTheRules`, `RowsLeave`: the retention, with rows that come and age while it
  runs.

### Refinement

`AtLeastOnce` is the promise of a consumer: what is acknowledged was settled, what is
settled was sent, and nothing is unsettled again. Both consumer groups implement
it (`DeliversAtLeastOnce`): settled means handled for ingestion-consumer, and at the
ERP or dead-lettered for the worker; acknowledged means below the committed offset.
The commits of `IngestionTxn` are events of `OrderStore` (`CommitsAreEvents`). All of these are
checked by TLC and proved. `IngestionConsumer` takes a transaction as one step, so that it
implements `StoreSpec` by its shape: that is a lemma by which theorems about the tables are
carried over, not a result; the result is `CommitsAreEvents`. Likewise
`PipelineSpec => Spec`. That the pipeline implements the worker's specification is one
(`PipelineDelivers`, proved): what the ingestion group publishes is what that specification
allows a producer to do.

### Fairness

`EventuallyHandled` assumes, for each replica, that it keeps running
(`WF(Replica(c))`: the loop of `main` never waits without a timeout, LOCK_TIMEOUT
included) and that it is restarted (`WF(Restart(c))`: `restart: unless-stopped`,
`docker-compose.yml:104`), and for each partition that the broker gives it to
somebody running. Nothing is assumed of the partner, and failures are never
obliged to happen or to stop, beyond the budget. Which of its outcomes a step of
`handle_message` has is not fair: a database that fails each attempt leads to
giving up, and counts as handled.
After a rebalance the property promises that the message is handled, not that
its offset stays committed: a replica that got its partition back commits the
end of its old batch over a newer offset.

`EventuallySettled` of the worker and `ApprovalsArrive` of the pipeline assume the
same of their processes. Which answer a POST gets is not fair: an ERP that never
takes an order leads to the dead-letter topic. A poison message stops the
group for good, and the property says so.

`EveryTxnEnds` assumes `SF` of a session's statements: a session waits for a lock that
others take and leave, and SQL Server serves those who wait for a lock in turn.
It holds without LOCK_TIMEOUT ever ending a transaction.

`RunsAreReported` assumes that the scheduler goes on with what it started and that
bcp's timeout comes; bcp itself may hang. `RowsLeave` assumes that hours pass and
that a run that is due takes its steps; attempts may fail as often as the bound allows.

### Findings

The four violation runs are disagreements of documentation and code, described
in PROJECT.json. None breaks the tables: the claim of the event id inside the
transaction is what protects them, not partition ownership. The third loses an
approval for good, counted as `duplicate`. The fourth gives up an order
that a second attempt would have stored: two replicas insert the same new
client, and the loser's duplicate key is not an `OperationalError`.

More were met and have no run:

- Migration 0003 (`0003_pipeline_log.py:4`) speaks of a hard cap of 100,000 rows. A run
  trims at most 200 rows of the retention, so a burst stays above it for many
  hours; `RowsLeave` is what holds, through the age of the rows.
- README.md:232 has the bulk load delete the rows of its `load_batch_id`; the code
  truncates the table. With the DELETE (variant `ResetBatch`) each run would leave the
  rows of the one before, and `NoOrderTwice` fails.
- `consumer.py:152` says that a data error "will fail identically every time". A payment's
  `method` and an invoice's `invoice_number` and `issued_at` are written only by the INSERT
  (`db_ops.py:275`, `db_ops.py:303`): an event given up for one of them would be taken
  once another event has inserted the row (the exception in `RefusedUntilRowThere`).
- `bulk_load_dimensions.py:291` promises "always a message". With a negative
  `conf["batch_size"]` and a positive `total_rows` the loop of `data_generator.py:35` never ends
  and has no timeout, the run is not reported, and `max_active_runs=1` keeps all later runs
  waiting (the exemption `NeverGenerated` in `RunsAreReported`).
- `main.py:79` says that all events of an order share a partition. The key falls back to the
  client, which only some events name, if the order's id is the empty string, which the
  schema takes: such orders have no log of their own (`Falsy`).

## Proofs

TLAPS checks these for every set of events, orders, sessions, replicas, workers
and partitions, every limit and every number of failures. Every safety property,
action property and refinement that a run checks is stated by a theorem. The
assumptions are the named ASSUMEs of the modules, which TLC evaluates in the runs:
events are well-typed, `None` is no value, the key hash is a function, limits are
positive. Two are of the kind that only a count needs: a topic has finitely many
partitions (`PartitionAssumption` of the worker), and the bound on order-approved has
room for every approval there is (`RoomAssumption` of `Pipeline`), so that the worker's
bound never stops the other group.

`OrderStoreProofs`:

- `StoreTypeCorrect`, then `EventsAppliedOnce` (`AppliedOnce` is inductive: a row is
  only added by the transaction that claims its event), `TrailUnbroken`
  (the last row of an order carries the status in `orders`, so the next row
  continues it), `ClosedOrdersStayClosed` (with the chain: a row after a
  terminal one would start from a terminal status, which the trigger refuses),
  `NewestIsCurrent`, `ReferencesExist`.
- `EveryVersionDiffers`, `PortraitsStay`, `ChargesAreAnchored`. The portrait (row by row,
  `Portraits`) needs the chain, by which no second row of an order creates it, and that
  a version only ever expires (`VersionsKept`). `TablesInv` gathers all of these.
- `RefusedEventsStayRefused` (`RefusedUntilRowThere`): what makes `DbError` true - the order
  exists, its status is terminal, the value is bad - is never undone. A row that is
  missing may come, and then stays (`RowsStay`), or, for an address, be superseded again: so the
  property looks at each step and not at a past.

`IngestionTxnProofs`, from the inductive `TxnInv`: a lock has one holder (`Exclusive`);
a session behind its claim holds its event; a new order holds its client from the
MERGE on, and what it read of the address is current (`ReadsCurrent`); a
session at `commit` holds the row of the order it writes (`SessionInv`); one that got past
the INSERT with a value that only an INSERT refuses had its row there (`RowThere`).
`CommitRespectsLocks` says that a COMMIT changes only rows it has locked,
`LocksProtect` that what another session relies on is then undisturbed, so that each
step has to be looked at for its own session only (`OwnSessionSuffices`). From it:

- `TxnTypes`, `AddressReadsStayCurrent`;
- `CommitsAreStoreEvents`: at `commit` the conditions that `OrderStore` asks for still
  hold, although they were read statements ago (`CommitIsEvent`);
- `NoRingOfLocks`: what a session holds ranks below what it may still ask for
  (`HoldsBelow`), so who waits is on a lower level than the one waited for
  (`WaitsUpwards`), and there are six levels;
- `InterleavingKeepsTables`: `TablesInv` of `OrderStoreProofs` holds with interleaved
  transactions. An event dropped late only adds itself to the ledger
  (`LateDropStep`). `RefusedUntilRowThere` is not in this theorem, because it does not carry
  over: TLC finds an event that the tables refuse meanwhile and that is then
  dropped, and so claimed, by a statement that looked for its order before.

`IngestionConsumerProofs`:

- `GroupKeepsTables`: each step is a step of `StoreSpec` or leaves the tables, so the
  invariants above hold for the group.
- `ConsumerTypeCorrect`: with `InHand`, which ties `pc` to `current` and `outbox`.
- `NothingSkipped`: `HandledBelowCommit` is not inductive, since it says nothing of what
  replicas are about to commit. `OffsetInv` adds it: each batch is walked in
  order (`Walk`), what lies below a cursor is handled, and the owner fetches from
  an offset that is safe *or ends the batch it still has in hand* - the
  disjunct that a rebalance away and back needs. `StepKinds` sorts the actions
  into the few things they do to offsets.
- `ApprovedAtMostOnce`: what was published or is to be is in the ledger (`OutboxInv`,
  `ApprovedInv`), and only a claim of an event not in the ledger fills an outbox.
- `GroupDeliversAtLeastOnce`: the refinement of `AtLeastOnce`, from the same invariant.
- `AllRouted`, a lemma: every message is foreign or in the partition of its key (`Home`).

`TrailProofs`, about the same module:

- `PublishedIsTrue`: an approval in the topic or in an outbox has its rows in the trail
  (`SourcedInv`), with the address and items of the event that created its order.
  `PublishedIsApproved` alone says nothing of the outboxes, from which the topic
  is filled.
- `LossesHaveCauses`: a committed approval is `Found` in an outbox, in the topic or in
  a report. A step that makes one lost spends a crash or a lost COMMIT answer and
  makes no other lost, as a replica has one outbox; the cardinality theorems count.
- `TrailFollowsTheLog`, from `TrailInv`. For the order of the rows one has to know why
  the earlier event of the log has no row yet when the later one gets its row: it was
  handled, as everything before the later one was (`ReachedInv`, from the walk of
  the batches in `OffsetInv`), so it was dropped, refused or given up. If it was
  refused it stays so (`Hopeless`, `Meant`), and so it never gets a row behind the
  later one's; if it was given up for the database's sake the property lets it. Events of
  an order with an id share their partition (`Home`), so that being reached there says
  something about both.
- `NothingIsDroppedBehindItsOrder`, from the same invariant: when an event is dropped, all
  before it in its partition is handled (`ReachedInv`); a creation among that which was not given
  up is in the ledger, a creation in the ledger has inserted its order, and orders never
  go. An event in the ledger that was applied left its row, and rows never go.
  It needs no condition on the key: it speaks of any one log that has both.

`OrderApprovedWorkerProofs`: `SettledBelowCommit` becomes inductive (`DeliveryInv`) with
`InHand` (a worker that is about to commit has a settled message in hand) and
`OneAhead`: the owner of a partition is at its committed offset, or one message past
it with that very message in hand. So the commit without an argument can only
name what is settled, wherever the message came from. From it: `WorkerTypes`,
`NothingIsPassedOver`, `CommitsOnlyAdvance`, `WorkerDelivers`.

`RepeatsHaveCauses` counts. `RepeatsAreCaused` is not inductive: a failure may be paid
long before the repeat that it causes. `Debts` are the repeats to come: a worker
that holds a message which is settled, or which the offsets no longer wait for
(`Stray`), a partition whose next message is settled (`Again`), a POST on the wire.
`Paid` says that repeats and debts together are at most the failures; each step
that makes a debt spends a failure or takes the debt over from another
(`HandedOverFirst`, `HandedOverAgain`, `FetchPaid`, `HaltDebts`). `AllNear` is what makes the
debt of a partition one message at most: nothing settled, in hand or on the wire is
further than one past the committed offset. The lists of the ERP and the
dead-letter topic are summed with a fold; `FoldCounts` turns the sum into the
cardinality of a set, with the existence of the sum from the well-foundedness of
proper inclusion between finite sets, as no induction theorem can be instantiated.

`PipelineProofs`:

- `PipelineDelivers`: the pipeline implements the worker's specification.
  A step of the ingestion group that grows `approved` is the worker's `Publish`, by one
  message (`IngestIsPublish`), and has room, since no approval is published twice and
  every published one is an approval (`Approving`, `RoomForAll`). So the theorems
  of both hold in the pipeline.
- `EveryApprovalIsAccountedFor`: what is below the worker's offset is settled, so what is
  missing was lost (`MissingIsLost`), and `LossesAreCaused` counts those.
- `ArrivalsAreTrue`: what arrives at the ERP or in the dead-letter topic are approvals
  that the tables committed (`ArrivalsAreApproved`), and no more of them than there are,
  plus one copy per failure of the worker's side (`ArrivalsAreOnce`). It says that the
  ERP hears of nothing that did not happen, with all the theorems before it:
  publication, the offsets, the repeats and the joint.

`BulkLoadProofs`, from `BulkInv`: the table is empty until bcp starts and from then on
holds only lines of this run that bcp is through with (`LoadInv`); once validated it
is whole, and has the indexes of the statements done (`IndexInv`); the history tells of
no run before it ends (`HistoryInv`). `EnoughIsAll`: a
set of as many rows as positions that repeats none has them all, which is why a
COUNT is enough for `SuccessIsWhole`. Also `BulkTypes`, `RetriesLeaveNoDuplicates`,
`BcpLoadsUnindexed`.

`LogRetentionProofs`: `RetentionTypes` with `RunsRemoveByTheRules`. What the count saw can
only have grown when the trim runs (`TrimIsDue`), and the oldest rows of a set
are as few as the trim asks for (`OldestAreFew`).

Only model-checked: the liveness properties (`EventuallyHandled`, `EventuallySettled`,
`ApprovalsArrive`, `EveryTxnEnds`, `RunsAreReported`, `RowsLeave`). They follow from fairness,
hence from ENABLED, which this prover does not reason about.

## Not modelled

- The load simulator: what it sends, in the order it sends it, is among what the
  partner of `WebhookReceiver` may send.
- Schema deployment (`db-init`, alembic): a container that ends before the services
  start; the tables are modelled as it leaves them. Ports, volumes, start-up order
  and monitoring are configuration. `/health`, `/metrics` and `_debug` only read.
- The connection pool: a replica awaits its one transaction, and its log row
  after it, so the pool is never at its limit.
- A foreign message without `event_type`: `handle_message` reads it again in the branches that
  give up (`consumer.py:149`), so it raises a `KeyError` out of `main` if the database stays
  unavailable for three attempts, and ends the replica. The receiver never sends one.
- A bcp that outlives its task: whether it does depends on how the process is
  killed. `BulkLoad` lets it die with the task. Clearing a task by hand in Airflow is
  not modelled either.
- Lock escalation and page locks: a lock is that of a row. `NoDeadlock` holds under
  this assumption only.

## Plan

The safety properties are proved. What is left is the safety part of the liveness
arguments: that a replica with a batch has a step to take and that each step of it
but a failure lowers a measure; that, if any transaction waits, some
other can go on (`NoRingOfLocks` only excludes the ring); that the age of a log row
never falls.
