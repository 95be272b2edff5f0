------------------------ MODULE IngestionConsumerProofs ------------------------
(*****************************************************************************)
(* What the consumer group keeps true for any number of replicas, partitions *)
(* and events, any log, and any number of crashes, rebalances and failures.  *)
(*****************************************************************************)
EXTENDS IngestionConsumer, OrderStoreProofs

-------------------------------------------------------------------------------
(* What is proved of the tables holds of the group.                          *)

\* A step of the group that is not a commit of a transaction leaves the tables.
LEMMA StoreStep == ASSUME [Next]_vars PROVE [StoreNext]_tables
<1>1. ASSUME NEW c \in Consumer, Applied(c) \/ AckLost(c)
      PROVE  StoreNext
  BY <1>1 DEF Applied, AckLost, Handling, StoreNext
<1>2. ASSUME NEW c \in Consumer,
             \/ Malformed(c) \/ DuplicateSkipped(c) \/ Refused(c)
             \/ DbUnavailable(c) \/ Published(c) \/ PublishFailed(c)
             \/ Poll(c) \/ Commit(c) \/ CommitRejected(c)
             \/ Crash(c) \/ Restart(c)
             \/ \E p \in Partition : Assign(p, c) \/ Rebalance(p, c)
      PROVE  UNCHANGED tables
  BY <1>2 DEF Malformed, DuplicateSkipped, Refused, DbUnavailable, Published,
              PublishFailed, Poll, Commit, CommitRejected, Crash, Restart,
              Assign, Rebalance
<1>3. CASE Webhook
  BY <1>3 DEF Webhook
<1>4. CASE UNCHANGED vars
  BY <1>4 DEF vars
<1>5. QED
  BY <1>1, <1>2, <1>3, <1>4 DEF Next, Replica, HandleMessage

\* So the tables of the group are those of a process that applies events one at a
\* time: what is proved of StoreSpec holds of the group.
LEMMA GroupImplementsStore == Spec => StoreSpec
<1>1. Init => StoreInit
  BY DEF Init
<1>2. [Next]_vars => [StoreNext]_tables
  BY StoreStep
<1>3. QED
  BY <1>1, <1>2, PTL DEF Spec, StoreSpec

\* So the group keeps what the tables promise (claim_event, the trigger, the
\* address versions), whoever handles what.
COROLLARY GroupKeepsTables ==
    Spec => [](StoreTypeOK /\ ForeignKeys /\ AppliedOnce /\ TrailIsChain
               /\ TerminalIsFinal /\ CurrentIsNewest /\ VersionsDiffer
               /\ OrderPortrait /\ ChargesAnchored)
BY GroupImplementsStore, StoreTypeCorrect, ReferencesExist, EventsAppliedOnce,
   TrailUnbroken, ClosedOrdersStayClosed, NewestIsCurrent, EveryVersionDiffers,
   PortraitsStay, ChargesAreAnchored, PTL

-------------------------------------------------------------------------------
(* Type correctness.                                                         *)

\* Where the receiver puts an event.
Home(e) == PartitionOf[RoutingKey(e)]

\* It is a partition, whichever of the three keys the event has.
LEMMA HomeIsAPartition ==
    ASSUME NEW e \in EventId
    PROVE  Body[e].order \in OrderId /\ Home(e) \in Partition
<1>1. Body[e].order \in OrderId
  BY BodyAssumption DEF CreatedBody, StatusBody, PaymentBody, InvoiceBody, OtherBody
<1>2. RoutingKey(e) \in OrderId \cup ClientId \cup EventId
  BY <1>1, KeyAssumption DEF RoutingKey
<1>3. QED
  BY <1>1, <1>2, PartitionAssumption DEF Home

\* Counting a failure keeps the counters numbers.
LEMMA SpendKeepsType ==
    ASSUME spent \in [Failure -> Nat], NEW K, Spend(K)
    PROVE  spent' \in [Failure -> Nat]
BY DEF Spend

\* A report is a message with an outcome (log_pipeline_event).
LEMMA ReportKeepsType ==
    ASSUME ReportTypeOK, NEW m \in Message, NEW outcome \in Outcome, NEW K,
           ReportAs(m, outcome, K)
    PROVE  ReportTypeOK'
<1> DEFINE r == [message |-> m, outcome |-> outcome]
<1>1. r \in Report
  BY DEF Report
<1>2. spent' \in [Failure -> Nat]
  BY SpendKeepsType DEF ReportTypeOK, ReportAs
<1>3. reports' = reports \cup {r} /\ pipelineLog' \subseteq pipelineLog \cup {r}
  BY DEF ReportAs
<1>4. QED
  BY <1>1, <1>2, <1>3 DEF ReportTypeOK

\* Going on to the next message of the partition in hand.
LEMMA NextMessageKeepsType ==
    ASSUME LoopTypeOK, NEW c \in Consumer, current[c] \in Partition, NextMessage(c)
    PROVE  LoopTypeOK'
<1>1. pc' \in [Consumer -> {"down", "poll", "handle", "publish", "commit"}]
  BY DEF LoopTypeOK, NextMessage
<1>2. attempts' \in [Consumer -> 0..(MaxAttempts - 1)]
  BY AttemptAssumption DEF LoopTypeOK, NextMessage
<1>3. [cursor[c] EXCEPT ![current[c]] = @ + 1] \in [Partition -> Nat]
  BY DEF LoopTypeOK
<1>4. cursor' = [cursor EXCEPT ![c] = [cursor[c] EXCEPT ![current[c]] = @ + 1]]
  BY DEF LoopTypeOK, NextMessage
<1>5. cursor' \in [Consumer -> [Partition -> Nat]]
  BY <1>3, <1>4 DEF LoopTypeOK
<1>6. QED
  BY <1>1, <1>2, <1>5 DEF LoopTypeOK, NextMessage

\* A replica that stops forgets what it had in memory.
LEMMA HaltKeepsType ==
    ASSUME LoopTypeOK, BrokerTypeOK, PublishTypeOK, NEW c \in Consumer, Halt(c)
    PROVE  LoopTypeOK' /\ BrokerTypeOK' /\ outbox' \in [Consumer -> Snapshot \cup {None}]
<1>1. LoopTypeOK'
  BY AttemptAssumption DEF LoopTypeOK, Halt
<1>2. BrokerTypeOK'
  BY DEF BrokerTypeOK, Halt
<1>3. outbox' \in [Consumer -> Snapshot \cup {None}]
  BY DEF PublishTypeOK, Halt
<1>4. QED
  BY <1>1, <1>2, <1>3

\* What fetch_order_snapshot reads exists: the order is known, and refers to a
\* client and an address version that are there.
LEMMA SnapshotType ==
    ASSUME StoreTypeOK, ForeignKeys, NEW e \in EventId, Approves(e)
    PROVE  FetchOrderSnapshot(e) \in Snapshot
<1> DEFINE o == Body[e].order
           row == orders[o]
<1>1. o \in OrderId /\ row \in OrderRow
  BY StatusFields DEF Approves, Known, StoreTypeOK
<1>2. row.client \in ClientId /\ row.items \in Items
  BY <1>1 DEF OrderRow
<1>3. clients[row.client] \in Profile
  BY <1>1, <1>2 DEF ForeignKeys, Approves, StoreTypeOK
<1>4. row.address \in DOMAIN address
  BY <1>1 DEF ForeignKeys, Approves
<1>5. address[row.address] \in AddressRow
  BY <1>4 DEF StoreTypeOK
<1>6. address[row.address].place \in Place
  BY <1>5 DEF AddressRow
<1>7. QED
  BY <1>1, <1>2, <1>3, <1>6 DEF FetchOrderSnapshot, Snapshot

GroupInv == /\ LogTypeOK /\ BrokerTypeOK /\ LoopTypeOK
            /\ PublishTypeOK /\ ReportTypeOK /\ InHand

\* NextMessage moves a replica that holds a partition, and has nothing to publish
\* any more.
LEMMA NextMessageKeepsHand ==
    ASSUME GroupInv, NEW c \in Consumer, current[c] \in Partition, NextMessage(c),
           outbox' \in [Consumer -> Snapshot \cup {None}],
           outbox'[c] = None, \A d \in Consumer \ {c} : outbox'[d] = outbox[d]
    PROVE  InHand'
<1>1. /\ pc'[c] \in {"handle", "commit"} /\ current' = current
      /\ \A d \in Consumer \ {c} : pc'[d] = pc[d]
  BY DEF GroupInv, LoopTypeOK, NextMessage
<1>2. QED
  BY <1>1 DEF GroupInv, InHand

\* A message that is done with without a publication: the replica goes on.
LEMMA MessageDone ==
    ASSUME GroupInv, NEW c \in Consumer, pc[c] = "handle", NextMessage(c),
           UNCHANGED <<log, broker, outbox, approved>>, ReportTypeOK'
    PROVE  GroupInv'
<1>1. current[c] \in Partition /\ outbox[c] = None
  BY DEF GroupInv, InHand
<1>2. LoopTypeOK'
  BY <1>1, NextMessageKeepsType DEF GroupInv
<1>3. outbox' = outbox /\ outbox \in [Consumer -> Snapshot \cup {None}]
  BY DEF GroupInv, PublishTypeOK
<1>4. InHand'
  BY <1>1, <1>3, NextMessageKeepsHand
<1>5. LogTypeOK' /\ BrokerTypeOK' /\ PublishTypeOK'
  BY DEF GroupInv, LogTypeOK, BrokerTypeOK, PublishTypeOK, broker
<1>6. QED
  BY <1>2, <1>4, <1>5 DEF GroupInv

\* An attempt of _run_in_txn that fails, the last one or not.
LEMMA AttemptKeepsInv ==
    ASSUME GroupInv, NEW c \in Consumer, Handling(c), NEW k \in Failure,
           Attempt(c, k), UNCHANGED <<log, broker, outbox, approved>>
    PROVE  GroupInv'
<1>1. CASE /\ attempts[c] + 1 < MaxAttempts
           /\ attempts' = [attempts EXCEPT ![c] = @ + 1]
           /\ Spend({k})
           /\ UNCHANGED <<pc, current, cursor, limit, pipelineLog, reports>>
  <2>1. attempts' \in [Consumer -> 0..(MaxAttempts - 1)]
    BY <1>1, AttemptAssumption DEF GroupInv, LoopTypeOK
  <2>2. ReportTypeOK'
    BY <1>1, SpendKeepsType DEF GroupInv, ReportTypeOK
  <2>3. LoopTypeOK' /\ InHand' /\ PublishTypeOK'
    BY <1>1, <2>1 DEF GroupInv, LoopTypeOK, InHand, PublishTypeOK
  <2>4. LogTypeOK' /\ BrokerTypeOK'
    BY DEF GroupInv, LogTypeOK, BrokerTypeOK, broker
  <2>5. QED
    BY <2>2, <2>3, <2>4 DEF GroupInv
<1>2. CASE /\ ReportAs(MessageOf(c), "db_unavailable", {k})
           /\ NextMessage(c)
  <2>1. MessageOf(c) \in Message /\ "db_unavailable" \in Outcome /\ pc[c] = "handle"
    BY DEF Handling, Message, Outcome, GivenUp
  <2>2. ReportTypeOK'
    BY <1>2, <2>1, ReportKeepsType DEF GroupInv
  <2>3. QED
    BY <1>2, <2>1, <2>2, MessageDone
<1>3. QED
  BY <1>1, <1>2 DEF Attempt

\* getmany puts a partition of the batch in hand.
LEMMA PollKeepsInv ==
    ASSUME GroupInv, NEW c \in Consumer, Poll(c)
    PROVE  GroupInv'
<1>1. PICK upto \in [Partition -> 0..MaxLog] :
         LET batch == {q \in Partition : upto[q] # position[q]} IN
         /\ \E p \in batch : current' = [current EXCEPT ![c] = p]
         /\ cursor' = [cursor EXCEPT ![c] =
                         [q \in Partition |-> IF q \in batch THEN position[q] ELSE 0]]
         /\ limit' = [limit EXCEPT ![c] =
                         [q \in Partition |-> IF q \in batch THEN upto[q] ELSE 0]]
         /\ position' = upto
  BY DEF Poll
<1>2. upto \in [Partition -> Nat]
  BY MaxLogAssumption
<1>3. PICK p \in Partition : current' = [current EXCEPT ![c] = p]
  BY <1>1
<1>4. BrokerTypeOK'
  BY <1>1, <1>2 DEF Poll, GroupInv, BrokerTypeOK
<1>5. /\ [q \in Partition |-> IF upto[q] # position[q] THEN position[q] ELSE 0]
            \in [Partition -> Nat]
      /\ [q \in Partition |-> IF upto[q] # position[q] THEN upto[q] ELSE 0]
            \in [Partition -> Nat]
  BY <1>2 DEF GroupInv, BrokerTypeOK
<1>6. /\ cursor' = [cursor EXCEPT ![c] =
            [q \in Partition |-> IF upto[q] # position[q] THEN position[q] ELSE 0]]
      /\ limit' = [limit EXCEPT ![c] =
            [q \in Partition |-> IF upto[q] # position[q] THEN upto[q] ELSE 0]]
  BY <1>1
<1>7. /\ cursor' \in [Consumer -> [Partition -> Nat]]
      /\ limit' \in [Consumer -> [Partition -> Nat]]
  BY <1>5, <1>6 DEF GroupInv, LoopTypeOK
<1>8. LoopTypeOK'
  BY <1>3, <1>7 DEF Poll, GroupInv, LoopTypeOK
<1>9. InHand'
  BY <1>3 DEF Poll, GroupInv, LoopTypeOK, InHand
<1>10. LogTypeOK' /\ PublishTypeOK' /\ ReportTypeOK'
  BY DEF Poll, GroupInv, LogTypeOK, PublishTypeOK, ReportTypeOK, outside
<1>11. QED
  BY <1>4, <1>8, <1>9, <1>10 DEF GroupInv

\* After the commit of a partition another one is in hand, or none.
LEMMA CommitKeepsInv ==
    ASSUME GroupInv, NEW c \in Consumer, Commit(c)
    PROVE  GroupInv'
<1>1. PICK p \in Partition : p = current[c]
  BY DEF Commit, GroupInv, InHand
<1>2. /\ [cursor[c] EXCEPT ![p] = 0] \in [Partition -> Nat]
      /\ [limit[c] EXCEPT ![p] = 0] \in [Partition -> Nat]
      /\ limit[c][p] \in Nat
  BY DEF GroupInv, LoopTypeOK
<1>3. /\ cursor' = [cursor EXCEPT ![c] = [cursor[c] EXCEPT ![p] = 0]]
      /\ limit' = [limit EXCEPT ![c] = [limit[c] EXCEPT ![p] = 0]]
      /\ committed' = [committed EXCEPT ![p] = limit[c][p]]
  BY <1>1 DEF Commit, CommitBatch, GroupInv, LoopTypeOK
<1>4. /\ cursor' \in [Consumer -> [Partition -> Nat]]
      /\ limit' \in [Consumer -> [Partition -> Nat]]
  BY <1>2, <1>3 DEF GroupInv, LoopTypeOK
<1>5. BrokerTypeOK'
  BY <1>2, <1>3 DEF Commit, GroupInv, BrokerTypeOK
<1>6. \/ pc' = [pc EXCEPT ![c] = "poll"] /\ current' = [current EXCEPT ![c] = None]
      \/ \E q \in Partition : /\ pc' = [pc EXCEPT ![c] = "handle"]
                              /\ current' = [current EXCEPT ![c] = q]
  BY DEF Commit
<1>7. LoopTypeOK'
  <2>1. /\ pc' \in [Consumer -> {"down", "poll", "handle", "publish", "commit"}]
        /\ current' \in [Consumer -> Partition \cup {None}]
    BY <1>6 DEF GroupInv, LoopTypeOK
  <2>2. attempts' = attempts
    BY DEF Commit
  <2>3. QED
    BY <1>4, <2>1, <2>2 DEF GroupInv, LoopTypeOK
<1>8. pc[c] = "commit" /\ outbox' = outbox
  BY DEF Commit
<1>9. InHand'
  <2>1. outbox[c] = None
    BY <1>8 DEF GroupInv, InHand
  <2>2. /\ pc'[c] # "publish" /\ pc'[c] # "commit"
        /\ pc'[c] = "handle" => current'[c] \in Partition
        /\ \A d \in Consumer \ {c} : pc'[d] = pc[d] /\ current'[d] = current[d]
    BY <1>6 DEF GroupInv, LoopTypeOK
  <2>3. QED
    BY <1>8, <2>1, <2>2 DEF GroupInv, InHand
<1>10. LogTypeOK' /\ PublishTypeOK' /\ ReportTypeOK'
  BY DEF Commit, GroupInv, LogTypeOK, PublishTypeOK, ReportTypeOK, outside
<1>11. QED
  BY <1>5, <1>7, <1>9, <1>10 DEF GroupInv

\* A replica that stops has nothing in hand.
LEMMA HaltKeepsInv ==
    ASSUME GroupInv, NEW c \in Consumer, Halt(c),
           UNCHANGED <<log, approved, pipelineLog, reports>>,
           spent' \in [Failure -> Nat]
    PROVE  GroupInv'
<1>1. /\ LoopTypeOK' /\ BrokerTypeOK'
      /\ outbox' \in [Consumer -> Snapshot \cup {None}]
  BY HaltKeepsType DEF GroupInv
<1>2. PublishTypeOK' /\ ReportTypeOK' /\ LogTypeOK'
  BY <1>1 DEF GroupInv, PublishTypeOK, ReportTypeOK, LogTypeOK
<1>3. /\ pc'[c] = "down" /\ outbox'[c] = None
      /\ \A d \in Consumer \ {c} : /\ pc'[d] = pc[d]
                                   /\ current'[d] = current[d]
                                   /\ outbox'[d] = outbox[d]
  BY DEF Halt, GroupInv, LoopTypeOK, PublishTypeOK
<1>4. InHand'
  BY <1>3 DEF GroupInv, InHand
<1>5. QED
  BY <1>1, <1>2, <1>4 DEF GroupInv

\* A committed transaction leaves an approval to publish, or ends the message.
LEMMA AppliedKeepsInv ==
    ASSUME StoreTypeOK, ForeignKeys, GroupInv, NEW c \in Consumer, Applied(c)
    PROVE  GroupInv'
<1> DEFINE e == MessageOf(c)
<1>1. pc[c] = "handle" /\ e \in EventId
  BY DEF Applied, Handling
<1>2. CASE NextMessage(c) /\ UNCHANGED outbox
  <2>1. ReportTypeOK'
    BY DEF Applied, outside, GroupInv, ReportTypeOK
  <2>2. UNCHANGED <<log, broker, outbox, approved>>
    BY <1>2 DEF Applied, outside
  <2>3. QED
    BY <1>1, <1>2, <2>1, <2>2, MessageDone
<1>3. CASE /\ Approves(e)
           /\ outbox' = [outbox EXCEPT ![c] = FetchOrderSnapshot(e)]
           /\ pc' = [pc EXCEPT ![c] = "publish"]
           /\ UNCHANGED <<current, cursor, limit, attempts>>
  <2>1. FetchOrderSnapshot(e) \in Snapshot
    BY <1>1, <1>3, SnapshotType
  <2>2. FetchOrderSnapshot(e) # None
    BY <2>1, SnapshotAssumption DEF Snapshot
  <2>3. LoopTypeOK' /\ PublishTypeOK'
    BY <1>3, <2>1 DEF Applied, outside, GroupInv, LoopTypeOK, PublishTypeOK
  <2>4. InHand'
    BY <1>1, <1>3, <2>2 DEF GroupInv, InHand, LoopTypeOK, PublishTypeOK
  <2>5. LogTypeOK' /\ BrokerTypeOK' /\ ReportTypeOK'
    BY DEF Applied, outside, broker, GroupInv, LogTypeOK, BrokerTypeOK, ReportTypeOK
  <2>6. QED
    BY <2>3, <2>4, <2>5 DEF GroupInv
<1>4. QED
  BY <1>2, <1>3 DEF Applied

\* The publication, whichever way it ends, empties the outbox and goes on.
LEMMA PublicationKeepsInv ==
    ASSUME GroupInv, NEW c \in Consumer, Published(c) \/ PublishFailed(c)
    PROVE  GroupInv'
<1>1. /\ pc[c] = "publish"
      /\ outbox' = [outbox EXCEPT ![c] = None]
      /\ NextMessage(c)
      /\ UNCHANGED <<log, broker>>
  BY DEF Published, PublishFailed
<1>2. current[c] \in Partition /\ outbox[c] \in Snapshot
  BY <1>1 DEF GroupInv, InHand, PublishTypeOK
<1>3. outbox' \in [Consumer -> Snapshot \cup {None}]
  BY <1>1 DEF GroupInv, PublishTypeOK
<1>4. approved' \in Seq(Snapshot)
  <2>1. approved' = approved \/ approved' = Append(approved, outbox[c])
    BY DEF Published, PublishFailed
  <2>2. QED
    BY <1>2, <2>1 DEF GroupInv, PublishTypeOK
<1>5. ReportTypeOK'
  <2>1. CASE Published(c)
    BY <2>1 DEF Published, GroupInv, ReportTypeOK
  <2>2. CASE PublishFailed(c)
    <3>1. outbox[c].event \in Message /\ "publish_failed" \in Outcome
      BY <1>2 DEF Snapshot, Message, Outcome
    <3>2. ReportAs(outbox[c].event, "publish_failed", {"send"})
      BY <2>2 DEF PublishFailed
    <3>3. QED
      BY <3>1, <3>2, ReportKeepsType DEF GroupInv
  <2>3. QED
    BY <2>1, <2>2
<1>6. LoopTypeOK'
  BY <1>1, <1>2, NextMessageKeepsType DEF GroupInv
<1>7. outbox'[c] = None /\ \A d \in Consumer \ {c} : outbox'[d] = outbox[d]
  BY <1>1 DEF GroupInv, PublishTypeOK
<1>8. InHand'
  BY <1>1, <1>2, <1>3, <1>7, NextMessageKeepsHand
<1>9. LogTypeOK' /\ BrokerTypeOK' /\ PublishTypeOK'
  BY <1>1, <1>3, <1>4 DEF GroupInv, LogTypeOK, BrokerTypeOK, PublishTypeOK, broker
<1>10. QED
  BY <1>5, <1>6, <1>8, <1>9 DEF GroupInv

\* Every step keeps the types: one case per action of Next.
LEMMA GroupStep ==
    ASSUME StoreTypeOK, ForeignKeys, GroupInv, [Next]_vars
    PROVE  GroupInv'
<1>1. CASE Webhook
  <2>1. PICK p \in Partition, m \in Message : Publish(p, m)
    <3>1. ASSUME NEW e \in EventId, Receive(e)
          PROVE  \E p \in Partition : Publish(p, e)
      BY <3>1, HomeIsAPartition DEF Receive, PartitionsFor, Home
    <3>2. ASSUME NEW p \in Partition, ForeignMessage(p)
          PROVE  \E m \in Message : Publish(p, m)
      BY <3>2 DEF ForeignMessage, Message
    <3>3. QED
      BY <1>1, <3>1, <3>2 DEF Webhook, ReceiverNext, Message
  <2>2. LogTypeOK'
    BY <2>1 DEF Publish, GroupInv, LogTypeOK
  <2>3. QED
    BY <1>1, <2>2 DEF Webhook, broker, memory, outside, GroupInv, BrokerTypeOK,
                      LoopTypeOK, PublishTypeOK, ReportTypeOK, InHand
<1>2. ASSUME NEW c \in Consumer, Malformed(c) \/ DuplicateSkipped(c) \/ Refused(c)
      PROVE  GroupInv'
  <2>1. pc[c] = "handle" /\ NextMessage(c) /\ UNCHANGED <<log, broker, outbox, approved>>
    BY <1>2 DEF Malformed, DuplicateSkipped, Refused, Handling, outside
  <2>2. ReportTypeOK'
    <3>1. CASE DuplicateSkipped(c)
      BY <3>1 DEF DuplicateSkipped, outside, GroupInv, ReportTypeOK
    <3>2. CASE Malformed(c) \/ Refused(c)
      <4>1. PICK o \in Outcome : ReportAs(MessageOf(c), o, {}) /\ MessageOf(c) \in Message
        BY <3>2 DEF Malformed, Refused, Handling, Message, Outcome, GivenUp
      <4>2. QED
        BY <4>1, ReportKeepsType DEF GroupInv
    <3>3. QED
      BY <1>2, <3>1, <3>2
  <2>3. QED
    BY <2>1, <2>2, MessageDone
<1>3. ASSUME NEW c \in Consumer, DbUnavailable(c) \/ AckLost(c)
      PROVE  GroupInv'
  <2>1. PICK k \in Failure : Attempt(c, k)
    BY <1>3 DEF DbUnavailable, AckLost, Failure
  <2>2. Handling(c) /\ UNCHANGED <<log, broker, outbox, approved>>
    BY <1>3 DEF DbUnavailable, AckLost
  <2>3. QED
    BY <2>1, <2>2, AttemptKeepsInv
<1>4. ASSUME NEW c \in Consumer, Crash(c) \/ CommitRejected(c)
      PROVE  GroupInv'
  <2>1. spent' \in [Failure -> Nat]
    <3>1. CASE Crash(c)
      BY <3>1, SpendKeepsType DEF Crash, GroupInv, ReportTypeOK
    <3>2. CASE CommitRejected(c)
      BY <3>2 DEF CommitRejected, outside, GroupInv, ReportTypeOK
    <3>3. QED
      BY <1>4, <3>1, <3>2
  <2>2. Halt(c) /\ UNCHANGED <<log, approved, pipelineLog, reports>>
    BY <1>4 DEF Crash, CommitRejected, outside
  <2>3. QED
    BY <2>1, <2>2, HaltKeepsInv
<1>5. ASSUME NEW c \in Consumer, Restart(c)
      PROVE  GroupInv'
  BY <1>5 DEF Restart, broker, outside, GroupInv, LogTypeOK, BrokerTypeOK,
              LoopTypeOK, PublishTypeOK, ReportTypeOK, InHand
<1>6. ASSUME NEW c \in Consumer, NEW p \in Partition, Assign(p, c) \/ Rebalance(p, c)
      PROVE  GroupInv'
  <2>1. BrokerTypeOK'
    BY <1>6 DEF Assign, Rebalance, GroupInv, BrokerTypeOK
  <2>2. ReportTypeOK'
    <3>1. CASE Assign(p, c)
      BY <3>1 DEF Assign, outside, GroupInv, ReportTypeOK
    <3>2. CASE Rebalance(p, c)
      BY <3>2, SpendKeepsType DEF Rebalance, GroupInv, ReportTypeOK
    <3>3. QED
      BY <1>6, <3>1, <3>2
  <2>3. QED
    BY <1>6, <2>1, <2>2 DEF Assign, Rebalance, memory, outside, GroupInv, LogTypeOK,
                            LoopTypeOK, PublishTypeOK, InHand
<1>7. CASE UNCHANGED vars
  BY <1>7 DEF vars, broker, memory, outside, GroupInv, LogTypeOK, BrokerTypeOK,
              LoopTypeOK, PublishTypeOK, ReportTypeOK, InHand
<1>8. QED
  BY <1>1, <1>2, <1>3, <1>4, <1>5, <1>6, <1>7, AppliedKeepsInv, PollKeepsInv,
     CommitKeepsInv, PublicationKeepsInv
  DEF Next, Replica, HandleMessage

\* The types hold before anything happens.
LEMMA GroupInit == Init => GroupInv
<1> SUFFICES ASSUME Init PROVE GroupInv
  OBVIOUS
<1>1. LogTypeOK
  BY DEF Init, ReceiverInit, LogTypeOK
<1>2. BrokerTypeOK /\ PublishTypeOK /\ ReportTypeOK /\ InHand
  BY DEF Init, BrokerTypeOK, PublishTypeOK, ReportTypeOK, InHand
<1>3. LoopTypeOK
  BY AttemptAssumption DEF Init, LoopTypeOK
<1>4. QED
  BY <1>1, <1>2, <1>3 DEF GroupInv

\* Every variable of the group keeps its type, and a replica works on a partition
\* and holds an unpublished approval exactly where main and handle_message say so.
THEOREM ConsumerTypeCorrect == Spec => [](ConsumerTypeOK /\ InHand)
<1>1. GroupInv /\ StoreTypeOK /\ ForeignKeys /\ [Next]_vars => GroupInv'
  BY GroupStep
<1>2. Spec => [](StoreTypeOK /\ ForeignKeys)
  BY GroupKeepsTables, PTL
<1>3. Spec => []GroupInv
  BY GroupInit, <1>1, <1>2, PTL DEF Spec
<1>4. StoreTypeOK /\ GroupInv => ConsumerTypeOK /\ InHand
  BY DEF ConsumerTypeOK, GroupInv
<1>5. QED
  BY <1>2, <1>3, <1>4, PTL

-------------------------------------------------------------------------------
(* The events of an order are in one partition.                              *)

\* Only webhooks and foreign messages change the topic.
LEMMA LogGrows == ASSUME [Next]_vars PROVE log' = log \/ ReceiverNext
<1>1. ASSUME NEW c \in Consumer, Replica(c)
      PROVE  log' = log
  BY <1>1 DEF Replica, HandleMessage, Malformed, Applied, DuplicateSkipped, Refused,
              DbUnavailable, AckLost, Published, PublishFailed, Poll, Commit,
              CommitRejected
<1>2. ASSUME NEW c \in Consumer,
             Crash(c) \/ Restart(c) \/ \E q \in Partition : Assign(q, c) \/ Rebalance(q, c)
      PROVE  log' = log
  BY <1>2 DEF Crash, Restart, Assign, Rebalance
<1>3. CASE Webhook \/ UNCHANGED vars
  BY <1>3 DEF Webhook, vars
<1>4. QED
  BY <1>1, <1>2, <1>3 DEF Next

\* An event that the receiver lets pass lies where its key puts it.
Routed(p) ==
    \A i \in DOMAIN log[p] :
       /\ log[p][i] \in EventId
       /\ Body[log[p][i]].type # "OTHER"
       => Home(log[p][i]) = p

\* Whatever is published lies where its key puts it.
LEMMA RoutedStep ==
    ASSUME LogTypeOK, NEW p \in Partition, Routed(p), [Next]_vars
    PROVE  Routed(p)'
<1>1. CASE log' = log
  BY <1>1 DEF Routed
<1>2. ASSUME NEW q \in Partition, NEW m, Publish(q, m),
             \/ m \notin EventId
             \/ Body[m].type = "OTHER"
             \/ Home(m) = q
      PROVE  Routed(p)'
  <2>1. log' = [log EXCEPT ![q] = Append(log[q], m)]
    BY <1>2 DEF Publish
  <2>2. CASE p # q
    <3>1. log'[p] = log[p]
      BY <2>1, <2>2 DEF LogTypeOK
    <3>2. QED
      BY <3>1 DEF Routed
  <2>3. CASE p = q
    <3>1. log'[p] = Append(log[p], m) /\ log[p] \in Seq(Message)
      BY <2>1, <2>3 DEF LogTypeOK
    <3>2. PICK n \in Nat : n = Len(log[p])
      BY <3>1
    <3>3. /\ DOMAIN log[p] = 1..n /\ DOMAIN log'[p] = 1..(n + 1)
          /\ \A i \in 1..n : log'[p][i] = log[p][i]
          /\ log'[p][n + 1] = m
      BY <3>1, <3>2
    <3>4. QED
      BY <1>2, <2>3, <3>3 DEF Routed
  <2>4. QED
    BY <2>2, <2>3
<1>3. ASSUME NEW e \in EventId, Receive(e)
      PROVE  Routed(p)'
  <2>1. Publish(Home(e), e) /\ Home(e) \in Partition
    BY <1>3, HomeIsAPartition DEF Receive, PartitionsFor, Home
  <2>2. QED
    BY <1>2, <2>1
<1>4. ASSUME NEW q \in Partition, ForeignMessage(q)
      PROVE  Routed(p)'
  <2>1. PICK m \in Poison \cup {e \in EventId : Body[e].type = "OTHER"} : Publish(q, m)
    BY <1>4 DEF ForeignMessage
  <2>2. m \notin EventId \/ Body[m].type = "OTHER"
    BY <2>1, PoisonAssumption
  <2>3. QED
    BY <1>2, <2>1, <2>2
<1>5. QED
  BY <1>1, <1>3, <1>4, LogGrows DEF ReceiverNext

AllRouted == \A p \in Partition : Routed(p)

\* So every event that the receiver lets pass lies in one partition, and those of an
\* order that has a key in the same one.
LEMMA EventsAreRouted == Spec => []AllRouted
<1>1. Init => AllRouted
  BY DEF Init, ReceiverInit, Routed, AllRouted
<1>2. LogTypeOK /\ AllRouted /\ [Next]_vars => AllRouted'
  BY RoutedStep DEF AllRouted
<1>3. Spec => []LogTypeOK
  BY ConsumerTypeCorrect, PTL DEF ConsumerTypeOK
<1>4. QED
  BY <1>1, <1>2, <1>3, PTL DEF Spec

-------------------------------------------------------------------------------
(* No committed offset passes over a message that nobody handled.            *)

\* Neither the ledger nor what the replicas reported ever shrinks.
LEMMA NothingForgotten ==
    ASSUME [Next]_vars PROVE processed \subseteq processed' /\ reports \subseteq reports'
<1>1. processed \subseteq processed'
  <2>1. [StoreNext]_tables
    BY StoreStep
  <2>2. QED
    BY <2>1 DEF StoreNext, ProcessEvent, OrderCreated, StatusChanged, PaymentConfirmed,
                InvoiceIssued, DroppedUnknownOrder, DroppedUnknownType, Claim, tables
<1>2. reports \subseteq reports'
  <2>1. ASSUME NEW c \in Consumer, Replica(c)
        PROVE  reports \subseteq reports'
    BY <2>1 DEF Replica, HandleMessage, Malformed, Applied, DuplicateSkipped, Refused,
                DbUnavailable, AckLost, Attempt, Published, PublishFailed, Poll,
                Commit, CommitRejected, ReportAs, outside
  <2>2. ASSUME NEW c \in Consumer,
               Crash(c) \/ Restart(c) \/ \E p \in Partition : Assign(p, c) \/ Rebalance(p, c)
        PROVE  reports' = reports
    BY <2>2 DEF Crash, Restart, Assign, Rebalance, outside
  <2>3. CASE Webhook \/ UNCHANGED vars
    BY <2>3 DEF Webhook, vars, outside
  <2>4. QED
    BY <2>1, <2>2, <2>3 DEF Next
<1>3. QED
  BY <1>1, <1>2

\* So what is handled stays handled.
LEMMA HandledStays == ASSUME [Next]_vars PROVE Handled \subseteq Handled'
BY NothingForgotten DEF Handled

\* A partition only grows at its end.
LEMMA LogStays ==
    ASSUME GroupInv, [Next]_vars, NEW p \in Partition
    PROVE  /\ Len(log[p]) \in Nat
           /\ Len(log[p]) <= Len(log'[p])
           /\ \A i \in DOMAIN log[p] : log'[p][i] = log[p][i]
           /\ \A i \in DOMAIN log'[p] :
                 i \in Nat /\ (i <= Len(log[p]) => i \in DOMAIN log[p])
<1>1. log[p] \in Seq(Message)
  BY DEF GroupInv, LogTypeOK
<1>2. log' = log \/ \E q \in Partition : \E m : Publish(q, m)
  <2>1. ASSUME NEW e \in EventId, Receive(e)
        PROVE  \E q \in Partition : \E m : Publish(q, m)
    BY <2>1, HomeIsAPartition DEF Receive, PartitionsFor, Home
  <2>2. QED
    BY <2>1, LogGrows DEF ReceiverNext, ForeignMessage
<1>3. CASE log' = log
  BY <1>1, <1>3
<1>4. CASE \E q \in Partition : \E m : Publish(q, m)
  <2>1. PICK q \in Partition : \E m : log' = [log EXCEPT ![q] = Append(@, m)]
    BY <1>4 DEF Publish
  <2>2. PICK m : log' = [log EXCEPT ![q] = Append(@, m)]
    BY <2>1
  <2>3. log'[p] = log[p] \/ log'[p] = Append(log[p], m)
    BY <2>2 DEF GroupInv, LogTypeOK
  <2>4. QED
    BY <1>1, <2>3
<1>5. QED
  BY <1>2, <1>3, <1>4

\* So an offset below which all is handled stays one.
LEMMA SafeStays ==
    ASSUME GroupInv, [Next]_vars, NEW p \in Partition
    PROVE  Safe(p) \subseteq Safe(p)'
<1> SUFFICES ASSUME NEW n \in 0..Len(log[p]), n \in Safe(p)
             PROVE  n \in Safe(p)'
  BY DEF Safe
<1>1. n \in 0..Len(log'[p])
  BY LogStays
<1>2. ASSUME NEW i \in 1..n
      PROVE  log'[p][i] \in Handled'
  <2>1. i \in DOMAIN log[p] /\ log'[p][i] = log[p][i]
    BY LogStays
  <2>2. QED
    BY <2>1, HandledStays DEF Safe
<1>3. QED
  BY <1>1, <1>2 DEF Safe

\* Replica d does not move.
Still(d) == /\ pc'[d] = pc[d]         /\ current'[d] = current[d]
            /\ cursor'[d] = cursor[d] /\ limit'[d] = limit[d]

\* A replica that does not move keeps its walk, however the logs grow.
LEMMA WalkStays ==
    ASSUME GroupInv, [Next]_vars, NEW d \in Consumer, NEW p \in Partition,
           Still(d), Walk(d, p)
    PROVE  Walk(d, p)'
<1>1. Len(log[p]) \in Nat /\ Len(log'[p]) \in Nat /\ Len(log[p]) <= Len(log'[p])
  BY LogStays
<1>2. cursor[d][p] \in Nat /\ limit[d][p] \in Nat
  BY DEF GroupInv, LoopTypeOK
<1>3. QED
  BY <1>1, <1>2 DEF Still, Walk

\* What NextMessage does to the replica, and that it leaves the others alone.
LEMMA NextMessageMoves ==
    ASSUME GroupInv, NEW c \in Consumer, current[c] \in Partition, NextMessage(c)
    PROVE  /\ \A d \in Consumer \ {c} : Still(d)
           /\ current'[c] = current[c] /\ limit'[c] = limit[c]
           /\ \A p \in Partition :
                 cursor'[c][p] = IF p = current[c] THEN cursor[c][p] + 1 ELSE cursor[c][p]
           /\ pc'[c] = IF cursor[c][current[c]] + 1 = limit[c][current[c]]
                          THEN "commit" ELSE "handle"
<1>1. cursor' = [cursor EXCEPT ![c] = [cursor[c] EXCEPT ![current[c]] = @ + 1]]
  BY DEF GroupInv, LoopTypeOK, NextMessage
<1>2. \A p \in Partition :
         cursor'[c][p] = IF p = current[c] THEN cursor[c][p] + 1 ELSE cursor[c][p]
  BY <1>1 DEF GroupInv, LoopTypeOK
<1>3. QED
  BY <1>1, <1>2 DEF GroupInv, LoopTypeOK, NextMessage, Still

\* The cursor advances by one and does not pass the end of the batch.
LEMMA WalkNextMessage ==
    ASSUME GroupInv, [Next]_vars, NEW c \in Consumer, NEW p \in Partition,
           pc[c] \in {"handle", "publish"}, NextMessage(c),
           \A q \in Partition : Walk(c, q)
    PROVE  Walk(c, p)'
<1>1. Len(log[p]) \in Nat /\ Len(log'[p]) \in Nat /\ Len(log[p]) <= Len(log'[p])
  BY LogStays
<1>2. PICK q \in Partition : q = current[c]
  BY DEF GroupInv, InHand
<1>3. cursor[c][p] \in Nat /\ limit[c][p] \in Nat
  BY DEF GroupInv, LoopTypeOK
<1>4. /\ current'[c] = q /\ limit'[c] = limit[c]
      /\ cursor'[c][p] = IF p = q THEN cursor[c][p] + 1 ELSE cursor[c][p]
      /\ pc'[c] = IF cursor[c][q] + 1 = limit[c][q] THEN "commit" ELSE "handle"
  BY <1>2, NextMessageMoves
<1>5. Walk(c, p)
  OBVIOUS
<1>6. CASE p = q
  BY <1>1, <1>2, <1>3, <1>4, <1>5, <1>6 DEF Walk
<1>7. CASE p # q
  BY <1>1, <1>2, <1>3, <1>4, <1>5, <1>7 DEF Walk
<1>8. QED
  BY <1>6, <1>7

\* A replica that stops has no batch.
LEMMA WalkHalt ==
    ASSUME GroupInv, NEW c \in Consumer, NEW p \in Partition, Halt(c),
           Len(log'[p]) \in Nat
    PROVE  Walk(c, p)' /\ \A d \in Consumer \ {c} : Still(d)
<1>1. /\ pc'[c] = "down" /\ cursor'[c][p] = 0 /\ limit'[c][p] = 0
      /\ \A d \in Consumer \ {c} : Still(d)
  BY DEF GroupInv, LoopTypeOK, Halt, Still
<1>2. QED
  BY <1>1 DEF Walk

\* What a poll takes: from each partition of the batch, the messages between the
\* position and a later offset.
LEMMA PollTakes ==
    ASSUME GroupInv, NEW c \in Consumer, Poll(c)
    PROVE  /\ \A d \in Consumer \ {c} : Still(d)
           /\ pc'[c] = "handle"
           /\ current'[c] \in Partition
           /\ position'[current'[c]] # position[current'[c]]
           /\ \A q \in Partition :
                 \/ /\ position'[q] = position[q]
                    /\ cursor'[c][q] = 0 /\ limit'[c][q] = 0
                 \/ /\ owner[q] = c
                    /\ position[q] < position'[q] /\ position'[q] <= Len(log[q])
                    /\ cursor'[c][q] = position[q] /\ limit'[c][q] = position'[q]
<1> DEFINE batch == {q \in Partition : position'[q] # position[q]}
<1>1. /\ \A q \in batch : /\ owner[q] = c
                          /\ position[q] < position'[q]
                          /\ position'[q] <= Len(log[q])
      /\ \E p \in batch : current' = [current EXCEPT ![c] = p]
      /\ cursor' = [cursor EXCEPT ![c] =
                      [q \in Partition |-> IF q \in batch THEN position[q] ELSE 0]]
      /\ limit' = [limit EXCEPT ![c] =
                      [q \in Partition |-> IF q \in batch THEN position'[q] ELSE 0]]
  <2>1. PICK upto \in [Partition -> 0..MaxLog] :
          LET taken == {q \in Partition : upto[q] # position[q]} IN
          /\ position' = upto
          /\ \A q \in taken : /\ owner[q] = c
                              /\ position[q] < upto[q]
                              /\ upto[q] <= Len(log[q])
          /\ \E p \in taken : current' = [current EXCEPT ![c] = p]
          /\ cursor' = [cursor EXCEPT ![c] =
                          [q \in Partition |-> IF q \in taken THEN position[q] ELSE 0]]
          /\ limit' = [limit EXCEPT ![c] =
                          [q \in Partition |-> IF q \in taken THEN upto[q] ELSE 0]]
    BY DEF Poll
  <2>2. {q \in Partition : upto[q] # position[q]} = batch
    BY <2>1
  <2>3. QED
    BY <2>1, <2>2
<1>2. pc'[c] = "handle" /\ \A d \in Consumer \ {c} : Still(d)
  BY <1>1 DEF Poll, GroupInv, LoopTypeOK, Still
<1>3. current'[c] \in batch
  BY <1>1 DEF GroupInv, LoopTypeOK
<1>4. \A q \in Partition :
         /\ cursor'[c][q] = IF q \in batch THEN position[q] ELSE 0
         /\ limit'[c][q] = IF q \in batch THEN position'[q] ELSE 0
  BY <1>1 DEF GroupInv, LoopTypeOK
<1>5. QED
  BY <1>1, <1>2, <1>3, <1>4

\* A fresh batch has something to handle in every partition it takes.
LEMMA WalkPoll ==
    ASSUME GroupInv, NEW c \in Consumer, NEW p \in Partition, Poll(c)
    PROVE  Walk(c, p)'
<1>1. log' = log /\ log[p] \in Seq(Message)
  BY DEF Poll, GroupInv, LogTypeOK
<1>2. Len(log[p]) \in Nat
  BY <1>1
<1>3. position[p] \in Nat /\ position'[p] \in Nat
  BY PollKeepsInv DEF GroupInv, BrokerTypeOK
<1>4. CASE position'[p] = position[p]
  BY <1>1, <1>2, <1>4, PollTakes, <1>3 DEF Walk
<1>5. CASE position'[p] # position[p]
  BY <1>1, <1>2, <1>5, PollTakes, <1>3 DEF Walk
<1>6. QED
  BY <1>4, <1>5

\* What a commit leaves: the partition in hand is done with, and the replica goes
\* on to one that is not, or polls if there is none.
LEMMA CommitLeaves ==
    ASSUME GroupInv, NEW c \in Consumer, Commit(c)
    PROVE  /\ \A d \in Consumer \ {c} : Still(d)
           /\ cursor'[c][current[c]] = 0 /\ limit'[c][current[c]] = 0
           /\ \A q \in Partition \ {current[c]} : /\ cursor'[c][q] = cursor[c][q]
                                                  /\ limit'[c][q] = limit[c][q]
           /\ \/ /\ \A q \in Partition \ {current[c]} : ~(cursor[c][q] < limit[c][q])
                 /\ pc'[c] = "poll"
              \/ /\ current'[c] \in Partition \ {current[c]}
                 /\ cursor[c][current'[c]] < limit[c][current'[c]]
                 /\ pc'[c] = "handle"
<1>1. PICK p \in Partition : p = current[c]
  BY DEF Commit, GroupInv, InHand
<1>2. /\ cursor' = [cursor EXCEPT ![c] = [cursor[c] EXCEPT ![p] = 0]]
      /\ limit' = [limit EXCEPT ![c] = [limit[c] EXCEPT ![p] = 0]]
  BY <1>1 DEF Commit, GroupInv, LoopTypeOK
<1>3. \/ /\ \A q \in Partition \ {p} : ~(cursor[c][q] < limit[c][q])
         /\ pc' = [pc EXCEPT ![c] = "poll"]
         /\ current' = [current EXCEPT ![c] = None]
      \/ \E q \in Partition \ {p} : /\ cursor[c][q] < limit[c][q]
                                    /\ pc' = [pc EXCEPT ![c] = "handle"]
                                    /\ current' = [current EXCEPT ![c] = q]
  BY <1>1 DEF Commit
<1>4. /\ cursor'[c] = [cursor[c] EXCEPT ![p] = 0]
      /\ limit'[c] = [limit[c] EXCEPT ![p] = 0]
      /\ \A d \in Consumer \ {c} : Still(d)
  BY <1>2, <1>3 DEF GroupInv, LoopTypeOK, Still
<1>5. /\ cursor'[c][p] = 0 /\ limit'[c][p] = 0
      /\ \A q \in Partition \ {p} : /\ cursor'[c][q] = cursor[c][q]
                                    /\ limit'[c][q] = limit[c][q]
  BY <1>4 DEF GroupInv, LoopTypeOK
<1>6. \/ /\ \A q \in Partition \ {p} : ~(cursor[c][q] < limit[c][q])
         /\ pc'[c] = "poll"
      \/ /\ current'[c] \in Partition \ {p}
         /\ cursor[c][current'[c]] < limit[c][current'[c]]
         /\ pc'[c] = "handle"
  BY <1>3 DEF GroupInv, LoopTypeOK
<1>7. QED
  BY <1>1, <1>4, <1>5, <1>6

\* A commit closes the partition in hand, and no other one is at its end.
LEMMA WalkCommit ==
    ASSUME GroupInv, NEW c \in Consumer, NEW p \in Partition, Commit(c),
           \A q \in Partition : Walk(c, q)
    PROVE  Walk(c, p)'
<1>1. log' = log /\ log[p] \in Seq(Message)
  BY DEF Commit, GroupInv, LogTypeOK
<1>2. Len(log[p]) \in Nat
  BY <1>1
<1>3. cursor[c][p] \in Nat /\ limit[c][p] \in Nat /\ pc[c] = "commit" /\ Walk(c, p)
  BY DEF Commit, GroupInv, LoopTypeOK
<1>4. CASE p = current[c]
  BY <1>1, <1>2, <1>3, <1>4, CommitLeaves DEF Walk
<1>5. CASE p # current[c]
  BY <1>1, <1>2, <1>3, <1>5, CommitLeaves DEF Walk
<1>6. QED
  BY <1>4, <1>5

\* The steps, by what they do to the walks and offsets: a replica is done with the
\* message in hand, stays on it, polls, commits, stops or starts; a partition gets
\* an owner; or nothing of this moves.
Done(c) == /\ pc[c] \in {"handle", "publish"}
           /\ NextMessage(c)
           /\ MessageOf(c) \in Handled'
           /\ UNCHANGED broker
Stays(c) == /\ pc[c] = "handle"
            /\ pc'[c] \in {"handle", "publish"}
            /\ current'[c] = current[c] /\ cursor'[c] = cursor[c] /\ limit'[c] = limit[c]
            /\ \A d \in Consumer \ {c} : Still(d)
            /\ UNCHANGED <<cursor, limit, broker>>
Moves(p) == /\ position' = [position EXCEPT ![p] = committed[p]]
            /\ committed' = committed
            /\ \A d \in Consumer : Still(d)
            /\ UNCHANGED <<cursor, limit>>
            /\ \A q \in Partition \ {p} : owner'[q] = owner[q]
Idle == (\A d \in Consumer : Still(d)) /\ UNCHANGED <<cursor, limit, broker>>

\* An attempt that fails is repeated, or the message is given up and reported.
LEMMA AttemptKinds ==
    ASSUME GroupInv, NEW c \in Consumer, NEW k, Handling(c), Attempt(c, k),
           UNCHANGED broker
    PROVE  Done(c) \/ Stays(c)
<1>1. CASE /\ attempts' = [attempts EXCEPT ![c] = @ + 1]
           /\ UNCHANGED <<pc, current, cursor, limit, pipelineLog, reports>>
  BY <1>1 DEF Handling, Stays, Still
<1>2. CASE ReportAs(MessageOf(c), "db_unavailable", {k}) /\ NextMessage(c)
  <2>1. [message |-> MessageOf(c), outcome |-> "db_unavailable"] \in reports'
    BY <1>2 DEF ReportAs
  <2>2. MessageOf(c) \in Handled'
    BY <2>1 DEF Handled, GivenUp
  <2>3. QED
    BY <1>2, <2>2 DEF Handling, Done
<1>3. QED
  BY <1>1, <1>2 DEF Attempt

\* Whichever way handle_message ends, the message is in the ledger or reported.
LEMMA HandleKinds ==
    ASSUME GroupInv, OutboxInv, NEW c \in Consumer, HandleMessage(c), [Next]_vars
    PROVE  Done(c) \/ Stays(c)
<1>1. CASE Malformed(c)
  <2>1. [message |-> MessageOf(c), outcome |-> "malformed"] \in reports'
    BY <1>1 DEF Malformed, ReportAs
  <2>2. QED
    BY <1>1, <2>1 DEF Malformed, Done, Handled, GivenUp
<1>2. CASE Applied(c)
  <2>1. MessageOf(c) \in processed'
    BY <1>2 DEF Applied, ProcessEvent, OrderCreated, StatusChanged, PaymentConfirmed,
                InvoiceIssued, DroppedUnknownOrder, DroppedUnknownType, Claim
  <2>2. CASE NextMessage(c)
    BY <1>2, <2>1, <2>2 DEF Applied, Handling, Done, Handled
  <2>3. CASE /\ pc' = [pc EXCEPT ![c] = "publish"]
             /\ UNCHANGED <<current, cursor, limit, attempts>>
    BY <1>2, <2>3 DEF Applied, Handling, Stays, Still, GroupInv, LoopTypeOK
  <2>4. QED
    BY <1>2, <2>2, <2>3 DEF Applied
<1>3. CASE DuplicateSkipped(c)
  <2>1. MessageOf(c) \in Handled
    BY <1>3 DEF DuplicateSkipped, Duplicate, Handled
  <2>2. QED
    BY <1>3, <2>1, HandledStays DEF DuplicateSkipped, Handling, Done
<1>4. CASE Refused(c)
  <2>1. \E o \in GivenUp : [message |-> MessageOf(c), outcome |-> o] \in reports'
    BY <1>4 DEF Refused, ReportAs, GivenUp
  <2>2. MessageOf(c) \in Handled'
    BY <2>1 DEF Handled
  <2>3. QED
    BY <1>4, <2>2 DEF Refused, Handling, Done
<1>5. CASE DbUnavailable(c) \/ AckLost(c)
  BY <1>5, AttemptKinds DEF DbUnavailable, AckLost
<1>6. CASE Published(c) \/ PublishFailed(c)
  <2>1. pc[c] = "publish" /\ NextMessage(c) /\ UNCHANGED broker
    BY <1>6 DEF Published, PublishFailed
  <2>2. MessageOf(c) \in Handled
    BY <2>1 DEF GroupInv, InHand, OutboxInv, Handled
  <2>3. QED
    BY <2>1, <2>2, HandledStays DEF Done
<1>7. QED
  BY <1>1, <1>2, <1>3, <1>4, <1>5, <1>6 DEF HandleMessage

\* Every step of the group is of one of these kinds.
LEMMA StepKinds ==
    ASSUME GroupInv, OutboxInv, [Next]_vars
    PROVE  \/ \E c \in Consumer : \/ Done(c) \/ Stays(c) \/ Poll(c) \/ Commit(c)
                                  \/ Halt(c) \/ Restart(c)
           \/ \E p \in Partition : Moves(p)
           \/ Idle
<1>1. ASSUME NEW c \in Consumer, Replica(c)
      PROVE  Done(c) \/ Stays(c) \/ Poll(c) \/ Commit(c) \/ Halt(c)
  BY <1>1, HandleKinds DEF Replica, CommitRejected
<1>2. ASSUME NEW c \in Consumer, NEW p \in Partition, Assign(p, c) \/ Rebalance(p, c)
      PROVE  Moves(p)
  BY <1>2 DEF Assign, Rebalance, memory, Moves, Still, GroupInv, BrokerTypeOK
<1>3. CASE Webhook \/ UNCHANGED vars
  BY <1>3 DEF Webhook, vars, memory, Idle, Still
<1>4. QED
  BY <1>1, <1>2, <1>3 DEF Next, Crash

\* Every step keeps the batches walked in order.
LEMMA WalkStep ==
    ASSUME GroupInv, OffsetInv, [Next]_vars, NEW d \in Consumer, NEW p \in Partition
    PROVE  Walk(d, p)'
<1>1. \A q \in Partition : Walk(d, q)
  BY DEF OffsetInv
<1>2. Len(log[p]) \in Nat /\ Len(log'[p]) \in Nat /\ Len(log[p]) <= Len(log'[p])
  BY LogStays
<1>3. CASE Still(d)
  BY <1>1, <1>3, WalkStays
<1>4. ASSUME NEW c \in Consumer, Done(c) \/ Stays(c) \/ Poll(c) \/ Commit(c) \/ Halt(c) \/ Restart(c)
      PROVE  c = d \/ Still(d)
  <2>1. CASE Done(c)
    BY <2>1, NextMessageMoves DEF Done, GroupInv, InHand
  <2>2. CASE Stays(c)
    BY <2>2 DEF Stays
  <2>3. CASE Poll(c) \/ Commit(c) \/ Halt(c)
    BY <2>3, PollTakes, CommitLeaves, WalkHalt, <1>2
  <2>4. CASE Restart(c)
    BY <2>4 DEF Restart, GroupInv, LoopTypeOK, Still
  <2>5. QED
    BY <1>4, <2>1, <2>2, <2>3, <2>4
<1>5. CASE Done(d)
  BY <1>1, <1>5, WalkNextMessage DEF Done
<1>6. CASE Stays(d)
  <2>1. cursor[d][p] \in Nat /\ limit[d][p] \in Nat
    BY DEF GroupInv, LoopTypeOK
  <2>2. QED
    BY <1>1, <1>2, <1>6, <2>1 DEF Stays, Walk
<1>7. CASE Poll(d) \/ Commit(d) \/ Halt(d)
  BY <1>1, <1>2, <1>7, WalkPoll, WalkCommit, WalkHalt
<1>8. CASE Restart(d)
  <2>1. cursor[d][p] \in Nat /\ limit[d][p] \in Nat
    BY DEF GroupInv, LoopTypeOK
  <2>2. /\ pc[d] = "down" /\ pc'[d] = "poll" /\ cursor' = cursor /\ limit' = limit
    BY <1>8 DEF Restart, GroupInv, LoopTypeOK
  <2>3. QED
    BY <1>1, <1>2, <2>1, <2>2 DEF Walk
<1>9. QED
  BY <1>3, <1>4, <1>5, <1>6, <1>7, <1>8, StepKinds DEF OffsetInv, Moves, Idle

\* A replica has nothing to publish, or what it had, or what it just committed.
LEMMA OutboxKinds ==
    ASSUME GroupInv, OutboxInv, [Next]_vars, NEW d \in Consumer
    PROVE  \/ outbox'[d] = None
           \/ outbox'[d] = outbox[d] /\ Still(d)
           \/ /\ Applied(d)
              /\ outbox'[d] = FetchOrderSnapshot(MessageOf(d))
              /\ UNCHANGED <<log, current, cursor>>
<1>1. ASSUME NEW c \in Consumer, Applied(c)
      PROVE  \/ outbox'[d] = outbox[d] /\ (c = d \/ Still(d))
             \/ /\ c = d
                /\ outbox'[d] = FetchOrderSnapshot(MessageOf(d))
                /\ UNCHANGED <<log, current, cursor>>
  <2>1. CASE NextMessage(c) /\ UNCHANGED outbox
    BY <1>1, <2>1, NextMessageMoves DEF Applied, Handling, GroupInv, InHand
  <2>2. CASE /\ outbox' = [outbox EXCEPT ![c] = FetchOrderSnapshot(MessageOf(c))]
             /\ pc' = [pc EXCEPT ![c] = "publish"]
             /\ UNCHANGED <<current, cursor, limit, attempts>>
    BY <1>1, <2>2 DEF Applied, GroupInv, LoopTypeOK, PublishTypeOK, Still
  <2>3. QED
    BY <1>1, <2>1, <2>2 DEF Applied
<1>2. ASSUME NEW c \in Consumer, Published(c) \/ PublishFailed(c)
      PROVE  /\ outbox'[c] = None
             /\ c # d => outbox'[d] = outbox[d] /\ Still(d)
  <2>1. /\ pc[c] = "publish" /\ NextMessage(c)
        /\ outbox' = [outbox EXCEPT ![c] = None]
    BY <1>2 DEF Published, PublishFailed
  <2>2. QED
    BY <2>1, NextMessageMoves DEF GroupInv, InHand, PublishTypeOK
<1>3. ASSUME NEW c \in Consumer, Halt(c)
      PROVE  /\ outbox'[c] = None
             /\ c # d => outbox'[d] = outbox[d] /\ Still(d)
  BY <1>3 DEF Halt, GroupInv, LoopTypeOK, PublishTypeOK, Still
<1>4. ASSUME NEW c \in Consumer,
             \/ Malformed(c) \/ DuplicateSkipped(c) \/ Refused(c)
             \/ DbUnavailable(c) \/ AckLost(c) \/ Poll(c) \/ Commit(c) \/ Restart(c)
      PROVE  /\ outbox' = outbox
             /\ pc[c] # "publish"
             /\ c # d => Still(d)
  <2>1. outbox' = outbox /\ pc[c] # "publish"
    BY <1>4 DEF Malformed, DuplicateSkipped, Refused, DbUnavailable, AckLost, Poll,
                Commit, Restart, Handling
  <2>2. CASE Poll(c) \/ Commit(c)
    BY <2>1, <2>2, PollTakes, CommitLeaves
  <2>3. CASE Restart(c)
    BY <2>1, <2>3 DEF Restart, GroupInv, LoopTypeOK, Still
  <2>4. CASE HandleMessage(c)
    <3>1. Done(c) \/ Stays(c)
      BY <2>4, HandleKinds
    <3>2. QED
      BY <2>1, <3>1, NextMessageMoves DEF Done, Stays, GroupInv, InHand
  <2>5. QED
    BY <1>4, <2>2, <2>3, <2>4 DEF HandleMessage
<1>5. ASSUME \/ Webhook \/ UNCHANGED vars
             \/ \E c \in Consumer, p \in Partition : Assign(p, c) \/ Rebalance(p, c)
      PROVE  outbox'[d] = outbox[d] /\ Still(d)
  BY <1>5 DEF Webhook, vars, Assign, Rebalance, memory, Still
<1>6. pc[d] # "publish" => outbox[d] = None
  BY DEF GroupInv, InHand
<1>7. ASSUME NEW c \in Consumer, Applied(c)
      PROVE  pc[c] # "publish"
  BY <1>7 DEF Applied, Handling
<1>8. QED
  BY <1>1, <1>2, <1>3, <1>4, <1>5, <1>6, <1>7
  DEF Next, Replica, HandleMessage, Crash, CommitRejected

\* Every step keeps what waits for publication in the ledger.
LEMMA OutboxStep ==
    ASSUME GroupInv, OffsetInv, [Next]_vars
    PROVE  OutboxInv'
<1> SUFFICES ASSUME NEW d \in Consumer, outbox'[d] # None
             PROVE  outbox'[d].event = MessageOf(d)' /\ outbox'[d].event \in processed'
  BY DEF OutboxInv
<1>1. processed \subseteq processed'
  <2>1. [StoreNext]_tables
    BY StoreStep
  <2>2. QED
    BY <2>1 DEF StoreNext, ProcessEvent, OrderCreated, StatusChanged, PaymentConfirmed,
                InvoiceIssued, DroppedUnknownOrder, DroppedUnknownType, Claim, tables
<1>2. CASE outbox'[d] = outbox[d] /\ Still(d)
  <2>1. pc[d] = "publish" /\ current[d] \in Partition
    BY <1>2 DEF GroupInv, InHand
  <2>2. PICK p \in Partition : p = current[d]
    BY <2>1
  <2>3. cursor[d][p] + 1 \in DOMAIN log[p]
    <3>1. cursor[d][p] \in Nat /\ limit[d][p] \in Nat /\ log[p] \in Seq(Message)
      BY DEF GroupInv, LoopTypeOK, LogTypeOK
    <3>2. cursor[d][p] < limit[d][p] /\ limit[d][p] <= Len(log[p])
      BY <2>1, <2>2 DEF OffsetInv, Walk
    <3>3. QED
      BY <3>1, <3>2
  <2>4. log'[p][cursor[d][p] + 1] = log[p][cursor[d][p] + 1]
    BY <2>3, LogStays
  <2>5. QED
    BY <1>1, <1>2, <2>2, <2>4 DEF OffsetInv, OutboxInv, MessageOf, Still
<1>3. CASE /\ Applied(d)
           /\ outbox'[d] = FetchOrderSnapshot(MessageOf(d))
           /\ UNCHANGED <<log, current, cursor>>
  <2>1. outbox'[d].event = MessageOf(d) /\ MessageOf(d)' = MessageOf(d)
    <3>1. outbox'[d].event = MessageOf(d)
      BY <1>3 DEF FetchOrderSnapshot
    <3>2. MessageOf(d)' = MessageOf(d)
      BY <1>3 DEF MessageOf
    <3>3. QED
      BY <3>1, <3>2
  <2>2. MessageOf(d) \in processed'
    BY <1>3 DEF Applied, ProcessEvent, OrderCreated, StatusChanged, PaymentConfirmed,
                InvoiceIssued, DroppedUnknownOrder, DroppedUnknownType, Claim
  <2>3. QED
    BY <2>1, <2>2
<1>4. QED
  BY <1>2, <1>3, OutboxKinds DEF OffsetInv

\* Every offset and cursor stays where all is handled below it.
LEMMA OffsetsStep ==
    ASSUME GroupInv, GroupInv', OffsetInv, [Next]_vars, NEW p \in Partition
    PROVE  Offsets(p)'
<1>1. Offsets(p) /\ Safe(p) \subseteq Safe(p)'
  BY SafeStays DEF OffsetInv
<1>2. 0 \in Safe(p)'
  <2>1. Len(log'[p]) \in Nat
    BY LogStays
  <2>2. QED
    BY <2>1 DEF Safe
<1>3. CASE Idle
  BY <1>1, <1>3 DEF Idle, broker, Offsets
<1>4. ASSUME NEW c \in Consumer, Done(c)
      PROVE  Offsets(p)'
  <2>1. PICK q \in Partition : q = current[c]
    BY <1>4 DEF Done, GroupInv, InHand
  <2>2. /\ \A d \in Consumer \ {c} : Still(d)
        /\ limit'[c] = limit[c]
        /\ cursor'[c][p] = IF p = q THEN cursor[c][p] + 1 ELSE cursor[c][p]
    BY <1>4, <2>1, NextMessageMoves DEF Done
  <2>3. CASE p # q
    <3>1. \A d \in Consumer : cursor'[d][p] = cursor[d][p] /\ limit'[d][p] = limit[d][p]
      BY <2>2, <2>3 DEF Still
    <3>2. UNCHANGED broker
      BY <1>4 DEF Done
    <3>3. owner[p] # None => owner[p] \in Consumer
      BY DEF GroupInv, BrokerTypeOK
    <3>4. QED
      BY <1>1, <3>1, <3>2, <3>3 DEF broker, Offsets
  <2>4. CASE p = q
    <3>1. cursor[c][p] \in Nat /\ limit[c][p] \in Nat /\ log[p] \in Seq(Message)
      BY DEF GroupInv, LoopTypeOK, LogTypeOK
    <3>2. cursor[c][p] < limit[c][p] /\ limit[c][p] <= Len(log[p])
      BY <1>4, <2>1, <2>4 DEF Done, OffsetInv, Walk
    <3>3. PICK n \in Nat : n = cursor[c][p]
      BY <3>1
    <3>4. n \in Safe(p)' /\ n + 1 \in 0..Len(log'[p])
      <4>1. Len(log[p]) \in Nat /\ Len(log'[p]) \in Nat /\ Len(log[p]) <= Len(log'[p])
        BY LogStays
      <4>2. QED
        BY <1>1, <3>1, <3>2, <3>3, <4>1 DEF Offsets
    <3>5. log'[p][n + 1] \in Handled'
      <4>1. n + 1 \in DOMAIN log[p]
        BY <3>1, <3>2, <3>3
      <4>2. log'[p][n + 1] = MessageOf(c)
        BY <2>1, <2>4, <3>3, <4>1, LogStays DEF MessageOf
      <4>3. QED
        BY <1>4, <4>2 DEF Done
    <3>6. n + 1 \in Safe(p)'
      BY <3>4, <3>5 DEF Safe
    <3>7. \A d \in Consumer : cursor'[d][p] \in Safe(p)' /\ limit'[d][p] = limit[d][p]
      <4>1. cursor'[c][p] = n + 1
        BY <2>2, <2>4, <3>3
      <4>2. QED
        BY <1>1, <2>2, <3>6, <4>1 DEF Still, Offsets
    <3>8. UNCHANGED broker /\ (owner[p] # None => owner[p] \in Consumer)
      BY <1>4 DEF Done, GroupInv, BrokerTypeOK
    <3>9. QED
      BY <1>1, <3>7, <3>8 DEF broker, Offsets
  <2>5. QED
    BY <2>3, <2>4
<1>5. ASSUME NEW c \in Consumer, Stays(c) \/ Restart(c)
      PROVE  Offsets(p)'
  BY <1>1, <1>5 DEF Stays, Restart, broker, Offsets
<1>6. ASSUME NEW c \in Consumer, Poll(c)
      PROVE  Offsets(p)'
  <2>1. UNCHANGED <<owner, committed>> /\ pc[c] = "poll"
    BY <1>6 DEF Poll
  <2>2. limit[c][p] = 0
    BY <2>1 DEF OffsetInv, Walk
  <2>3. CASE position'[p] = position[p] /\ cursor'[c][p] = 0 /\ limit'[c][p] = 0
    <3>1. \A d \in Consumer : /\ cursor'[d][p] \in Safe(p)'
                              /\ limit'[d][p] = limit[d][p]
      BY <1>1, <1>2, <1>6, <2>2, <2>3, PollTakes DEF Still, Offsets
    <3>2. owner[p] # None => owner[p] \in Consumer
      BY DEF GroupInv, BrokerTypeOK
    <3>3. QED
      BY <1>1, <2>1, <2>3, <3>1, <3>2 DEF Offsets
  <2>4. CASE /\ owner[p] = c
             /\ cursor'[c][p] = position[p] /\ limit'[c][p] = position'[p]
    <3>1. position[p] \in Safe(p)'
      BY <1>1, <1>2, <2>2, <2>4, ReplicaAssumption DEF Offsets
    <3>2. \A d \in Consumer : cursor'[d][p] \in Safe(p)'
      BY <1>1, <1>6, <2>4, <3>1, PollTakes DEF Still, Offsets
    <3>3. QED
      BY <1>1, <2>1, <2>4, <3>2 DEF Offsets
  <2>5. QED
    BY <1>6, <2>3, <2>4, PollTakes
<1>7. ASSUME NEW c \in Consumer, Commit(c)
      PROVE  Offsets(p)'
  <2>1. PICK q \in Partition : q = current[c]
    BY <1>7 DEF Commit, GroupInv, InHand
  <2>2. /\ pc[c] = "commit" /\ owner[q] = c /\ UNCHANGED <<owner, position>>
        /\ committed' = [committed EXCEPT ![q] = limit[c][q]]
    BY <1>7, <2>1 DEF Commit, CommitBatch
  <2>3. cursor[c][q] = limit[c][q]
    BY <2>1, <2>2 DEF OffsetInv, Walk
  <2>4. owner[p] # None => owner[p] \in Consumer
    BY DEF GroupInv, BrokerTypeOK
  <2>5. CASE p # q
    <3>1. \A d \in Consumer : cursor'[d][p] = cursor[d][p] /\ limit'[d][p] = limit[d][p]
      BY <1>7, <2>1, <2>5, CommitLeaves DEF Still
    <3>2. committed'[p] = committed[p]
      BY <2>2, <2>5 DEF GroupInv, BrokerTypeOK
    <3>3. QED
      BY <1>1, <2>2, <2>4, <3>1, <3>2 DEF Offsets
  <2>6. CASE p = q
    <3>1. committed'[p] = limit[c][p] /\ limit[c][p] \in Safe(p)'
      BY <1>1, <2>2, <2>3, <2>6 DEF GroupInv, BrokerTypeOK, Offsets
    <3>2. \A d \in Consumer : cursor'[d][p] \in Safe(p)'
      BY <1>1, <1>2, <1>7, <2>1, <2>6, CommitLeaves DEF Still, Offsets
    <3>3. position'[p] \in Safe(p)'
      BY <1>1, <2>2, <2>6, <3>1, ReplicaAssumption DEF Offsets
    <3>4. QED
      BY <3>1, <3>2, <3>3 DEF Offsets
  <2>7. QED
    BY <2>5, <2>6
<1>8. ASSUME NEW c \in Consumer, Halt(c)
      PROVE  Offsets(p)'
  <2>1. /\ owner'[p] # None => owner'[p] = owner[p] /\ owner[p] \in Consumer \ {c}
        /\ UNCHANGED <<committed, position>>
    BY <1>8 DEF Halt, GroupInv, BrokerTypeOK
  <2>2. /\ \A d \in Consumer \ {c} : Still(d)
        /\ cursor'[c][p] = 0
    BY <1>8 DEF Halt, GroupInv, LoopTypeOK, Still
  <2>3. \A d \in Consumer : cursor'[d][p] \in Safe(p)'
    BY <1>1, <1>2, <2>2 DEF Still, Offsets
  <2>4. QED
    BY <1>1, <2>1, <2>2, <2>3 DEF Still, Offsets
<1>9. ASSUME NEW q \in Partition, Moves(q)
      PROVE  Offsets(p)'
  <2>1. position'[p] = IF p = q THEN committed[p] ELSE position[p]
    BY <1>9 DEF Moves, GroupInv, BrokerTypeOK
  <2>2. p # q => owner'[p] = owner[p]
    BY <1>9 DEF Moves
  <2>3. QED
    BY <1>1, <1>9, <2>1, <2>2 DEF Moves, Offsets
<1>10. QED
  BY <1>3, <1>4, <1>5, <1>6, <1>7, <1>8, <1>9, StepKinds DEF OffsetInv

\* Nothing is read or committed at first.
LEMMA OffsetInit == Init => OffsetInv
<1> SUFFICES ASSUME Init PROVE OffsetInv
  OBVIOUS
<1>1. \A p \in Partition : log[p] = <<>>
  BY DEF Init, ReceiverInit
<1>2. \A c \in Consumer, p \in Partition : Walk(c, p)
  BY <1>1 DEF Init, Walk
<1>3. \A p \in Partition : Offsets(p)
  BY <1>1 DEF Init, Offsets, Safe
<1>4. QED
  BY <1>2, <1>3 DEF Init, OffsetInv, OutboxInv

\* A committed offset never passes over a message that nobody handled: with any
\* number of replicas that lose partitions with a batch in hand, crash and replay
\* (main commits limit, and only after the last message of the batch).
THEOREM NothingSkipped == Spec => []HandledBelowCommit
<1>1. GroupInv /\ GroupInv' /\ OffsetInv /\ [Next]_vars => OffsetInv'
  BY WalkStep, OutboxStep, OffsetsStep DEF OffsetInv
<1>2. Spec => [](StoreTypeOK /\ ForeignKeys)
  BY GroupKeepsTables, PTL
<1>3. GroupInv /\ StoreTypeOK /\ ForeignKeys /\ [Next]_vars => GroupInv'
  BY GroupStep
<1>4. Spec => [](GroupInv /\ OffsetInv)
  BY GroupInit, OffsetInit, <1>1, <1>2, <1>3, PTL DEF Spec
<1>5. OffsetInv => HandledBelowCommit
  BY DEF OffsetInv, Offsets, HandledBelowCommit
<1>6. QED
  BY <1>4, <1>5, PTL

-------------------------------------------------------------------------------
(* No approval is published twice.                                           *)

\* What a step does to the approvals: it drops some before publication or keeps
\* them, publishes one, or takes up one that the transaction of a replica commits.
Keeps == /\ approved' = approved
         /\ \A d \in Consumer : outbox'[d] = None \/ outbox'[d] = outbox[d]
Sends(c) == /\ outbox[c] # None /\ outbox'[c] = None
            /\ \/ approved' = approved
               \/ approved' = Append(approved, outbox[c])
            /\ \A d \in Consumer \ {c} : outbox'[d] = outbox[d]
TakesUp(c) == /\ approved' = approved
              /\ \E e \in EventId : /\ ProcessEvent(e) /\ Approves(e)
                                    /\ outbox'[c] = FetchOrderSnapshot(e)
              /\ \A d \in Consumer \ {c} : outbox'[d] = outbox[d]

\* Every step does one of these to the approvals.
LEMMA ApprovalKinds ==
    ASSUME GroupInv, [Next]_vars
    PROVE  Keeps \/ \E c \in Consumer : Sends(c) \/ TakesUp(c)
<1>1. ASSUME NEW c \in Consumer, Applied(c)
      PROVE  Keeps \/ TakesUp(c)
  <2>1. /\ approved' = approved
        /\ MessageOf(c) \in EventId /\ ProcessEvent(MessageOf(c))
    BY <1>1 DEF Applied, Handling, outside
  <2>2. CASE UNCHANGED outbox
    BY <2>1, <2>2 DEF Keeps
  <2>3. CASE /\ Approves(MessageOf(c))
             /\ outbox' = [outbox EXCEPT ![c] = FetchOrderSnapshot(MessageOf(c))]
    <3>1. /\ outbox'[c] = FetchOrderSnapshot(MessageOf(c))
          /\ \A d \in Consumer \ {c} : outbox'[d] = outbox[d]
      BY <2>3 DEF GroupInv, PublishTypeOK
    <3>2. QED
      BY <2>1, <2>3, <3>1 DEF TakesUp
  <2>4. QED
    BY <1>1, <2>2, <2>3 DEF Applied
<1>2. ASSUME NEW c \in Consumer, Published(c) \/ PublishFailed(c)
      PROVE  Sends(c)
  <2>1. outbox[c] # None
    BY <1>2 DEF Published, PublishFailed, GroupInv, InHand
  <2>2. QED
    BY <1>2, <2>1 DEF Published, PublishFailed, Sends, GroupInv, PublishTypeOK
<1>3. ASSUME NEW c \in Consumer, Crash(c) \/ CommitRejected(c)
      PROVE  Keeps
  BY <1>3 DEF Crash, CommitRejected, outside, Halt, Keeps, GroupInv, PublishTypeOK
<1>4. ASSUME NEW c \in Consumer,
             \/ Malformed(c) \/ DuplicateSkipped(c) \/ Refused(c) \/ DbUnavailable(c)
             \/ AckLost(c) \/ Poll(c) \/ Commit(c) \/ Restart(c)
             \/ \E p \in Partition : Assign(p, c) \/ Rebalance(p, c)
      PROVE  Keeps
  BY <1>4 DEF Malformed, DuplicateSkipped, Refused, DbUnavailable, AckLost, Poll,
              Commit, Restart, Assign, Rebalance, memory, outside, Keeps
<1>5. CASE Webhook \/ UNCHANGED vars
  BY <1>5 DEF Webhook, vars, memory, outside, Keeps
<1>6. QED
  BY <1>1, <1>2, <1>3, <1>4, <1>5 DEF Next, Replica, HandleMessage

\* What was published or waits for it is in the ledger, so that no other delivery
\* of the event can be claimed.
ApprovedInv == /\ PublishedOnce
               /\ \A i \in DOMAIN approved : approved[i].event \in processed

\* No step publishes an approval a second time.
LEMMA ApprovedStep ==
    ASSUME GroupInv, GroupInv', OutboxInv, ApprovedInv, [Next]_vars
    PROVE  ApprovedInv'
<1>1. processed \subseteq processed'
  <2>1. [StoreNext]_tables
    BY StoreStep
  <2>2. QED
    BY <2>1 DEF StoreNext, ProcessEvent, OrderCreated, StatusChanged, PaymentConfirmed,
                InvoiceIssued, DroppedUnknownOrder, DroppedUnknownType, Claim, tables
<1>2. CASE Keeps
  BY <1>1, <1>2 DEF Keeps, ApprovedInv, PublishedOnce
<1>3. ASSUME NEW c \in Consumer, TakesUp(c)
      PROVE  ApprovedInv'
  <2>1. outbox'[c].event \notin processed
    BY <1>3, EveryEventIsClaimed DEF TakesUp, FetchOrderSnapshot
  <2>2. \A d \in Consumer \ {c} :
           outbox'[d] # None => outbox'[d].event # outbox'[c].event
    BY <1>3, <2>1 DEF TakesUp, OutboxInv
  <2>3. \A i \in DOMAIN approved : approved[i].event # outbox'[c].event
    BY <2>1 DEF ApprovedInv
  <2>4. QED
    BY <1>1, <1>3, <2>2, <2>3 DEF TakesUp, ApprovedInv, PublishedOnce
<1>4. ASSUME NEW c \in Consumer, Sends(c), approved' = approved
      PROVE  ApprovedInv'
  BY <1>1, <1>4 DEF Sends, ApprovedInv, PublishedOnce
<1>5. ASSUME NEW c \in Consumer, Sends(c), approved' = Append(approved, outbox[c])
      PROVE  ApprovedInv'
  <2>1. PICK n \in Nat : n = Len(approved)
    BY DEF GroupInv, PublishTypeOK
  <2>2. /\ DOMAIN approved = 1..n /\ DOMAIN approved' = 1..(n + 1)
        /\ \A i \in 1..n : approved'[i] = approved[i]
        /\ approved'[n + 1] = outbox[c]
    BY <1>5, <2>1 DEF GroupInv, PublishTypeOK
  <2>3. outbox[c].event \in processed
    BY <1>5 DEF Sends, OutboxInv
  <2>4. \A i \in DOMAIN approved' : approved'[i].event \in processed'
    BY <1>1, <2>2, <2>3 DEF ApprovedInv
  <2>5. \A i \in 1..n : approved'[i].event # outbox[c].event
    BY <1>5, <2>2 DEF Sends, ApprovedInv, PublishedOnce
  <2>6. \A i, j \in 1..n : approved'[i].event = approved'[j].event => i = j
    BY <2>2 DEF ApprovedInv, PublishedOnce
  <2>7. \A i, j \in DOMAIN approved' :
           approved'[i].event = approved'[j].event => i = j
    BY <2>2, <2>5, <2>6
  <2>8. ASSUME NEW d \in Consumer, outbox'[d] # None
        PROVE  /\ \A i \in DOMAIN approved' : approved'[i].event # outbox'[d].event
               /\ \A f \in Consumer \ {d} : outbox'[f] # None =>
                     outbox'[f].event # outbox'[d].event
    <3>1. d # c /\ outbox'[d] = outbox[d] /\ outbox[d].event # outbox[c].event
      BY <1>5, <2>8 DEF Sends, ApprovedInv, PublishedOnce
    <3>2. \A i \in DOMAIN approved' : approved'[i].event # outbox'[d].event
      BY <2>2, <2>8, <3>1 DEF ApprovedInv, PublishedOnce
    <3>3. \A f \in Consumer \ {d} : outbox'[f] # None =>
             outbox'[f].event # outbox'[d].event
      BY <1>5, <2>8, <3>1 DEF Sends, ApprovedInv, PublishedOnce
    <3>4. QED
      BY <3>2, <3>3
  <2>9. QED
    BY <2>4, <2>7, <2>8 DEF ApprovedInv, PublishedOnce
<1>6. QED
  BY <1>2, <1>3, <1>4, <1>5, ApprovalKinds DEF Sends

\* An approval reaches the ERP's topic at most once, whatever is redelivered and
\* replayed: an event is claimed once, and only the replica that claimed it has it
\* to publish (claim_event, handle_message).
THEOREM ApprovedAtMostOnce == Spec => []PublishedOnce
<1>1. Init => ApprovedInv
  BY DEF Init, ApprovedInv, PublishedOnce
<1>2. GroupInv /\ GroupInv' /\ OffsetInv /\ [Next]_vars => OffsetInv'
  BY WalkStep, OutboxStep, OffsetsStep DEF OffsetInv
<1>3. Spec => [](StoreTypeOK /\ ForeignKeys)
  BY GroupKeepsTables, PTL
<1>4. GroupInv /\ StoreTypeOK /\ ForeignKeys /\ [Next]_vars => GroupInv'
  BY GroupStep
<1>5. GroupInv /\ GroupInv' /\ OffsetInv /\ ApprovedInv /\ [Next]_vars => ApprovedInv'
  BY ApprovedStep DEF OffsetInv
<1>6. Spec => []ApprovedInv
  BY GroupInit, OffsetInit, <1>1, <1>2, <1>3, <1>4, <1>5, PTL DEF Spec
<1>7. ApprovedInv => PublishedOnce
  BY DEF ApprovedInv
<1>8. QED
  BY <1>6, <1>7, PTL

-------------------------------------------------------------------------------
(* The group implements AtLeastOnce.                                         *)

\* The message a replica is at is one of the topic.
LEMMA MessageInTopic ==
    ASSUME GroupInv, OffsetInv, NEW c \in Consumer, pc[c] \in {"handle", "publish"}
    PROVE  MessageOf(c) \in InTopic
<1> DEFINE p == current[c]
<1>1. p \in Partition
  BY DEF GroupInv, InHand
<1>2. /\ cursor[c][p] \in Nat /\ limit[c][p] \in Nat /\ Len(log[p]) \in Nat
      /\ cursor[c][p] < limit[c][p] /\ limit[c][p] <= Len(log[p])
  BY <1>1 DEF GroupInv, LoopTypeOK, LogTypeOK, OffsetInv, Walk
<1>3. cursor[c][p] + 1 \in DOMAIN log[p]
  <2>1. log[p] \in Seq(Message)
    BY <1>1 DEF GroupInv, LogTypeOK
  <2>2. QED
    BY <1>2, <2>1
<1>4. QED
  BY <1>1, <1>3 DEF MessageOf, InTopic

\* An outcome that is reported adds the message to what is handled, or nothing.
LEMMA ReportHandles ==
    ASSUME NEW m, NEW o, NEW K, ReportAs(m, o, K),
           processed' \in {processed, processed \cup {m}}
    PROVE  Handled' \in {Handled, Handled \cup {m}}
<1>1. reports' = reports \cup {[message |-> m, outcome |-> o]}
  BY DEF ReportAs
<1> DEFINE given(R) == {r.message : r \in {x \in R : x.outcome \in GivenUp}}
<1>2. given(reports') = given(reports) \/ given(reports') = given(reports) \cup {m}
  <2>1. CASE o \in GivenUp
    <3>1. {x \in reports' : x.outcome \in GivenUp} =
             {x \in reports : x.outcome \in GivenUp} \cup {[message |-> m, outcome |-> o]}
      BY <1>1, <2>1
    <3>2. given(reports') = given(reports) \cup {[message |-> m, outcome |-> o].message}
      BY <3>1
    <3>3. QED
      BY <3>2
  <2>2. CASE o \notin GivenUp
    BY <1>1, <2>2
  <2>3. QED
    BY <2>1, <2>2
<1> HIDE DEF given
<1>3. Handled = processed \cup given(reports) /\ Handled' = processed' \cup given(reports')
  BY DEF Handled, given
<1>4. QED
  BY <1>2, <1>3

\* So does an attempt at the transaction that fails.
LEMMA AttemptHandles ==
    ASSUME NEW c \in Consumer, NEW k, Attempt(c, k),
           processed' \in {processed, processed \cup {MessageOf(c)}}
    PROVE  Handled' \in {Handled, Handled \cup {MessageOf(c)}}
<1>1. CASE UNCHANGED reports
  BY <1>1 DEF Handled
<1>2. CASE ReportAs(MessageOf(c), "db_unavailable", {k})
  BY <1>2, ReportHandles
<1>3. QED
  BY <1>1, <1>2 DEF Attempt

\* One step of handle_message handles the message in hand, or nothing.
LEMMA OneHandled ==
    ASSUME NEW c \in Consumer, HandleMessage(c)
    PROVE  /\ pc[c] \in {"handle", "publish"}
           /\ log' = log /\ committed' = committed
           /\ Handled' \in {Handled, Handled \cup {MessageOf(c)}}
<1>1. pc[c] \in {"handle", "publish"} /\ log' = log /\ committed' = committed
  BY DEF HandleMessage, Malformed, Applied, DuplicateSkipped, Refused, DbUnavailable,
         AckLost, Published, PublishFailed, Handling, broker
<1>2. ASSUME ProcessEvent(MessageOf(c))
      PROVE  processed' = processed \cup {MessageOf(c)}
  BY <1>2 DEF ProcessEvent, OrderCreated, StatusChanged, PaymentConfirmed,
              InvoiceIssued, DroppedUnknownOrder, DroppedUnknownType, Claim
<1>3. CASE Malformed(c)
  BY <1>1, <1>3, ReportHandles DEF Malformed, tables
<1>4. CASE Applied(c)
  BY <1>1, <1>2, <1>4 DEF Applied, outside, Handled
<1>5. CASE DuplicateSkipped(c)
  BY <1>1, <1>5 DEF DuplicateSkipped, tables, outside, Handled
<1>6. CASE Refused(c)
  BY <1>1, <1>6, ReportHandles DEF Refused, tables
<1>7. CASE DbUnavailable(c)
  BY <1>1, <1>7, AttemptHandles DEF DbUnavailable, tables
<1>8. CASE AckLost(c)
  BY <1>1, <1>2, <1>8, AttemptHandles DEF AckLost
<1>9. CASE Published(c)
  BY <1>1, <1>9 DEF Published, tables, Handled
<1>10. CASE PublishFailed(c)
  <2>1. reports' = reports \cup {[message |-> outbox[c].event, outcome |-> "publish_failed"]}
    BY <1>10 DEF PublishFailed, ReportAs
  <2>2. {x \in reports' : x.outcome \in GivenUp} = {x \in reports : x.outcome \in GivenUp}
    BY <2>1 DEF GivenUp
  <2>3. QED
    BY <1>1, <1>10, <2>2 DEF PublishFailed, tables, Handled
<1>11. QED
  BY <1>1, <1>3, <1>4, <1>5, <1>6, <1>7, <1>8, <1>9, <1>10 DEF HandleMessage

\* The other steps of the group handle nothing and leave the topic alone; a commit
\* is the only one that moves an offset.
LEMMA NothingHandled ==
    ASSUME GroupInv,
           \E c \in Consumer :
              \/ Poll(c) \/ Commit(c) \/ CommitRejected(c) \/ Crash(c) \/ Restart(c)
              \/ \E p \in Partition : Assign(p, c) \/ Rebalance(p, c)
    PROVE  log' = log /\ Handled' = Handled
BY DEF Poll, Commit, CommitRejected, Crash, Restart, Assign, Rebalance,
       tables, outside, Handled

\* A message that is sent is one more in the topic.
LEMMA WebhookSends ==
    ASSUME GroupInv, OffsetInv, Webhook
    PROVE  /\ \E m \in Message : InTopic' = InTopic \cup {m}
           /\ Handled' = Handled /\ Acked' = Acked
<1>1. Handled' = Handled /\ committed' = committed
  BY DEF Webhook, tables, broker, outside, Handled
<1>2. \E p \in Partition : \E m \in Message : Publish(p, m)
  <2>1. ASSUME NEW e \in EventId, Receive(e)
        PROVE  \E p \in Partition : \E m \in Message : Publish(p, m)
    BY <2>1, HomeIsAPartition DEF Receive, PartitionsFor, Home, Message
  <2>2. QED
    BY <2>1 DEF Webhook, ReceiverNext, ForeignMessage, Message
<1>3. PICK p \in Partition, m \in Message : log' = [log EXCEPT ![p] = Append(@, m)]
  BY <1>2 DEF Publish
<1>4. log \in [Partition -> Seq(Message)] /\ log' \in [Partition -> Seq(Message)]
  BY <1>3 DEF GroupInv, LogTypeOK
<1>5. /\ log'[p] = Append(log[p], m)
      /\ \A q \in Partition \ {p} : log'[q] = log[q]
  BY <1>3, <1>4
<1> DEFINE all(l, q) == {l[q][i] : i \in DOMAIN l[q]}
<1>6. all(log', p) = all(log, p) \cup {m}
  <2>1. DOMAIN log[p] = 1..Len(log[p]) /\ DOMAIN log'[p] = 1..(Len(log[p]) + 1)
        /\ Len(log[p]) \in Nat
    BY <1>4, <1>5
  <2>2. /\ \A i \in 1..Len(log[p]) : log'[p][i] = log[p][i]
        /\ log'[p][Len(log[p]) + 1] = m
    BY <1>4, <1>5
  <2>3. DOMAIN log'[p] = DOMAIN log[p] \cup {Len(log[p]) + 1}
    BY <2>1
  <2>4. QED
    BY <2>1, <2>2, <2>3
<1>7. \A q \in Partition \ {p} : all(log', q) = all(log, q)
  BY <1>5
<1>8. InTopic' = InTopic \cup {m}
  <2>1. InTopic = UNION {all(log, q) : q \in Partition}
        /\ InTopic' = UNION {all(log', q) : q \in Partition}
    BY DEF InTopic
  <2> HIDE DEF all
  <2>2. ASSUME NEW x
        PROVE  x \in InTopic' <=> x \in InTopic \cup {m}
    <3>1. x \in InTopic' <=> \E q \in Partition : x \in all(log', q)
      BY <2>1
    <3>2. x \in InTopic <=> \E q \in Partition : x \in all(log, q)
      BY <2>1
    <3>3. QED
      BY <1>6, <1>7, <3>1, <3>2
  <2>3. QED
    BY <2>2
<1>9. Acked' = Acked
  <2>1. ASSUME NEW q \in Partition, NEW i \in 1..committed[q]
        PROVE  log'[q][i] = log[q][i]
    <3>1. committed[q] \in 0..Len(log[q]) /\ log[q] \in Seq(Message)
      BY <1>4 DEF OffsetInv, Offsets, Safe
    <3>2. i \in 1..Len(log[q]) /\ Len(log[q]) \in Nat
      BY <3>1
    <3>3. CASE q = p
      BY <1>5, <3>1, <3>2, <3>3
    <3>4. CASE q # p
      BY <1>5, <3>4
    <3>5. QED
      BY <3>3, <3>4
  <2>2. QED
    BY <1>1, <2>1 DEF Acked
<1>10. QED
  BY <1>1, <1>8, <1>9

\* What lies below the committed offsets is handled.
LEMMA AckedIsHandled == OffsetInv => Acked \subseteq Handled
BY DEF OffsetInv, Offsets, Safe, Acked

\* Whatever the replicas, the broker and the database go through, the group
\* settles only what was sent and acknowledges only what is settled: consumer.py
\* implements AtLeastOnce.
THEOREM GroupDeliversAtLeastOnce == Spec => DeliversAtLeastOnce
<1>1. Init => Promise!Init
  <2>1. ASSUME Init PROVE InTopic = {} /\ Handled = {} /\ Acked = {}
    BY <2>1 DEF Init, ReceiverInit, StoreInit, InTopic, Handled, Acked
  <2>2. QED
    BY <2>1 DEF Promise!Init
<1>2. GroupInv /\ OffsetInv /\ OffsetInv' /\ [Next]_vars => [Promise!Next]_(Promise!promise)
  <2> SUFFICES ASSUME GroupInv, OffsetInv, OffsetInv', [Next]_vars
               PROVE  Promise!Next \/ UNCHANGED Promise!promise
    OBVIOUS
  <2> USE DEF Promise!Next, Promise!promise
  <2>1. CASE UNCHANGED vars
    BY <2>1 DEF vars, broker, outside, tables, InTopic, Handled, Acked
  <2>2. CASE Webhook
    BY <2>2, WebhookSends DEF Promise!Send
  <2>3. ASSUME NEW c \in Consumer, HandleMessage(c)
        PROVE  Promise!Next \/ UNCHANGED Promise!promise
    <3>1. InTopic' = InTopic /\ Acked' = Acked
      BY <2>3, OneHandled DEF InTopic, Acked
    <3>2. MessageOf(c) \in InTopic /\ Handled' \in {Handled, Handled \cup {MessageOf(c)}}
      BY <2>3, OneHandled, MessageInTopic
    <3>3. QED
      BY <3>1, <3>2 DEF Promise!Settle
  <2>4. CASE \E c \in Consumer :
                \/ Poll(c) \/ Commit(c) \/ CommitRejected(c) \/ Crash(c) \/ Restart(c)
                \/ \E p \in Partition : Assign(p, c) \/ Rebalance(p, c)
    <3>1. InTopic' = InTopic /\ Handled' = Handled
      BY <2>4, NothingHandled DEF InTopic
    <3>2. (OffsetInv => Acked \subseteq Handled)'
      BY AckedIsHandled, PTL
    <3>3. QED
      BY <3>1, <3>2 DEF Promise!Acknowledge
  <2>5. QED
    BY <2>1, <2>2, <2>3, <2>4 DEF Next, Replica
<1>3. GroupInv /\ GroupInv' /\ OffsetInv /\ [Next]_vars => OffsetInv'
  BY WalkStep, OutboxStep, OffsetsStep DEF OffsetInv
<1>4. Spec => [](StoreTypeOK /\ ForeignKeys)
  BY GroupKeepsTables, PTL
<1>5. GroupInv /\ StoreTypeOK /\ ForeignKeys /\ [Next]_vars => GroupInv'
  BY GroupStep
<1>6. QED
  BY GroupInit, OffsetInit, <1>1, <1>2, <1>3, <1>4, <1>5, PTL
     DEF Spec, DeliversAtLeastOnce, Promise!Spec

===============================================================================
