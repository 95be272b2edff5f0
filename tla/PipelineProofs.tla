---------------------------- MODULE PipelineProofs ----------------------------
(*****************************************************************************)
(* The two groups composed: each keeps, end to end, what it keeps by itself, *)
(* and together they account for every approval.  For any number of          *)
(* replicas, workers, events, attempts and failures.                         *)
(*****************************************************************************)
EXTENDS Pipeline, TrailProofs

\* The theorems about the worker, at the same place in the pipeline as W.
WP == INSTANCE OrderApprovedWorkerProofs WITH
        Partition   <- {OrderApproved},
        MaxAttempts <- DeliverAttempts,
        MaxEnd      <- [p \in {OrderApproved} |-> MaxApprovals],
        MaxFailures <- MaxWorkerFailures,
        end         <- [p \in {OrderApproved} |-> Len(approved)],
        poison      <- {},
        owner       <- wOwner,
        committed   <- wCommitted,
        position    <- wPosition,
        pc          <- wPc,
        item        <- wItem,
        tries       <- wTries,
        failures    <- wFailures

-------------------------------------------------------------------------------
(* The parts.                                                                *)

\* What the worker's theorems assume of its constants holds here.
LEMMA WorkerAssumptions ==
    /\ WP!PartitionAssumption
    /\ WP!AttemptAssumption /\ WP!EndAssumption
    /\ WP!FailureAssumption /\ WP!NoneAssumption
<1>1. WP!PartitionAssumption
  BY FS_Singleton DEF WP!PartitionAssumption, IsFiniteSet, WP!IsFiniteSet
<1>2. /\ WP!AttemptAssumption /\ WP!EndAssumption
      /\ WP!FailureAssumption /\ WP!NoneAssumption
  BY WorkerAssumption DEF WP!AttemptAssumption, WP!EndAssumption,
     WP!FailureAssumption, WP!NoneAssumption, WP!Item
<1>3. QED
  BY <1>1, <1>2

\* W and WP are the same module at the same place.
LEMMA SameWorker ==
    /\ W!WorkerInit <=> WP!WorkerInit
    /\ W!GroupNext <=> WP!GroupNext
    /\ W!Settled = WP!Settled
<1> USE DEF W!topic, WP!topic, W!broker, WP!broker, W!memory, WP!memory,
            W!erp, WP!erp, W!Fail, WP!Fail, W!Halt, WP!Halt,
            W!OneMore, WP!OneMore, W!NextItem, WP!NextItem, W!GoOn, WP!GoOn,
            W!FailedAttempt, WP!FailedAttempt
<1>1. W!Item = WP!Item
  BY DEF W!Item, WP!Item
<1>2. W!WorkerInit <=> WP!WorkerInit
  BY <1>1 DEF W!WorkerInit, WP!WorkerInit
<1>3. W!Settled = WP!Settled
  BY <1>1 DEF W!Settled, WP!Settled, W!Places, WP!Places
<1>4. ASSUME NEW w \in Worker
      PROVE  W!Deliver(w) <=> WP!Deliver(w)
  <2>1. W!Delivered(w) <=> WP!Delivered(w)
    BY DEF W!Delivered, WP!Delivered
  <2>2. W!ServerError(w) <=> WP!ServerError(w)
    BY DEF W!ServerError, WP!ServerError
  <2>3. W!Rejected(w) <=> WP!Rejected(w)
    BY DEF W!Rejected, WP!Rejected
  <2>4. W!NoAnswer(w) <=> WP!NoAnswer(w)
    BY DEF W!NoAnswer, WP!NoAnswer
  <2>5. QED
    BY <2>1, <2>2, <2>3, <2>4 DEF W!Deliver, WP!Deliver
<1>5. ASSUME NEW w \in Worker
      PROVE  W!Loop(w) <=> WP!Loop(w)
  <2>1. W!Fetch(w) <=> WP!Fetch(w)
    BY DEF W!Fetch, WP!Fetch
  <2>2. W!Unparseable(w) <=> WP!Unparseable(w)
    BY DEF W!Unparseable, WP!Unparseable
  <2>3. W!DeadLettered(w) <=> WP!DeadLettered(w)
    BY DEF W!DeadLettered, WP!DeadLettered
  <2>4. W!DeadLetterFailed(w) <=> WP!DeadLetterFailed(w)
    BY DEF W!DeadLetterFailed, WP!DeadLetterFailed
  <2>5. W!Commit(w) <=> WP!Commit(w)
    BY DEF W!Commit, WP!Commit, W!CommitPositions, WP!CommitPositions
  <2>6. W!CommitFailed(w) <=> WP!CommitFailed(w)
    BY DEF W!CommitFailed, WP!CommitFailed
  <2>7. QED
    BY <1>4, <2>1, <2>2, <2>3, <2>4, <2>5, <2>6 DEF W!Loop, WP!Loop
<1>6. ASSUME NEW w \in Worker
      PROVE  /\ W!Crash(w) <=> WP!Crash(w)
             /\ W!Restart(w) <=> WP!Restart(w)
             /\ \A p \in {OrderApproved} : /\ W!Assign(p, w) <=> WP!Assign(p, w)
                                           /\ W!Rebalance(p, w) <=> WP!Rebalance(p, w)
  BY DEF W!Crash, WP!Crash, W!Restart, WP!Restart, W!Assign, WP!Assign,
         W!Rebalance, WP!Rebalance
<1>7. ASSUME NEW post \in wire
      PROVE  W!LateArrival(post) <=> WP!LateArrival(post)
  BY DEF W!LateArrival, WP!LateArrival
<1>8. W!GroupNext <=> WP!GroupNext
  BY <1>5, <1>6, <1>7 DEF W!GroupNext, WP!GroupNext
<1>9. QED
  BY <1>2, <1>3, <1>8

-------------------------------------------------------------------------------
(* The topic between them.                                                   *)

\* What is published, or about to be, approves an order.
Approving == /\ \A i \in DOMAIN approved : approved[i].event \in ApprovalEvent
             /\ \A c \in Consumer : outbox[c] # None =>
                                       outbox[c].event \in ApprovalEvent

\* No step publishes anything but approvals.
LEMMA ApprovingStep ==
    ASSUME GroupInv, Approving, [Next]_vars
    PROVE  Approving'
<1>1. CASE Keeps
  BY <1>1 DEF Keeps, Approving
<1>2. ASSUME NEW c \in Consumer, TakesUp(c)
      PROVE  Approving'
  <2>1. PICK e \in EventId : Approves(e) /\ outbox'[c] = FetchOrderSnapshot(e)
    BY <1>2 DEF TakesUp
  <2>2. outbox'[c].event \in ApprovalEvent
    BY <2>1 DEF Approves, ApprovalEvent, FetchOrderSnapshot
  <2>3. QED
    BY <1>2, <2>2 DEF TakesUp, Approving
<1>3. ASSUME NEW c \in Consumer, Sends(c)
      PROVE  Approving'
  <2>1. outbox[c].event \in ApprovalEvent /\ approved \in Seq(Snapshot)
    BY <1>3 DEF Sends, Approving, GroupInv, PublishTypeOK
  <2>2. QED
    BY <1>3, <2>1 DEF Sends, Approving
<1>4. QED
  BY <1>1, <1>2, <1>3, ApprovalKinds

\* All approvals fit into the bound, as each is published once.
LEMMA RoomForAll ==
    ASSUME GroupInv, Approving, PublishedOnce
    PROVE  Len(approved) \in Nat /\ Len(approved) <= MaxApprovals
<1>1. approved \in Seq(Snapshot)
  BY DEF GroupInv, PublishTypeOK
<1>2. PICK n \in Nat : n = Len(approved) /\ DOMAIN approved = 1..n
  BY <1>1
<1>3. /\ IsFiniteSet(1..n) /\ Cardinality(1..n) = n
      /\ Cardinality(ApprovalEvent) \in Nat
  <2>1. IsFiniteSet(1..n) /\ Cardinality(1..n) = IF 1 > n THEN 0 ELSE n - 1 + 1
    BY FS_Interval
  <2>2. Cardinality(ApprovalEvent) \in Nat
    BY RoomAssumption, FS_CardinalityType
  <2>3. QED
    BY <2>1, <2>2
<1> DEFINE event == [i \in 1..n |-> approved[i].event]
<1>4. event \in [1..n -> ApprovalEvent]
  BY <1>2 DEF Approving
<1>5. \A i, j \in 1..n : event[i] = event[j] => i = j
  BY <1>2 DEF PublishedOnce
<1> HIDE DEF event
<1>6. ~(Cardinality(ApprovalEvent) < Cardinality(1..n))
  BY <1>3, <1>4, <1>5, RoomAssumption, FS_PigeonHole
<1>7. QED
  BY <1>2, <1>3, <1>6, RoomAssumption, WorkerAssumption

\* What ingestion-consumer does to the topic: it appends one message, if any.
LEMMA TopicGrows ==
    ASSUME GroupInv, [Next]_vars
    PROVE  approved' = approved \/ \E s : approved' = Append(approved, s)
BY ApprovalKinds DEF Keeps, Sends, TakesUp

\* To the worker, a step of ingestion-consumer is a publication or nothing.
LEMMA IngestIsPublish ==
    ASSUME GroupInv, GroupInv', Approving', PublishedOnce', [Next]_vars,
           UNCHANGED workerVars
    PROVE  [WP!Next]_(WP!vars)
<1>1. CASE approved' = approved
  BY <1>1 DEF WP!vars, WP!topic, WP!broker, WP!memory, WP!erp, workerVars
<1>2. ASSUME NEW s, approved' = Append(approved, s)
      PROVE  WP!Publish(OrderApproved)
  <2>1. PICK n \in Nat : n = Len(approved) /\ Len(approved') = n + 1
    BY <1>2 DEF GroupInv, PublishTypeOK
  <2>2. n + 1 <= MaxApprovals
    <3>1. (GroupInv /\ Approving /\ PublishedOnce => Len(approved) <= MaxApprovals)'
      BY RoomForAll, PTL
    <3>2. QED
      BY <2>1, <3>1
  <2>3. Len(approved) < MaxApprovals /\ Len(approved') = Len(approved) + 1
    BY <2>1, <2>2, WorkerAssumption
  <2>4. QED
    BY <2>3 DEF WP!Publish, WP!broker, WP!memory, WP!erp, workerVars
<1>3. QED
  BY <1>1, <1>2, TopicGrows DEF WP!Next

-------------------------------------------------------------------------------
(* Each group by itself.                                                     *)

\* The pipeline does to the tables, the log and the topic what ingestion-consumer
\* does: deliver.  What is proved of its specification holds of the pipeline.
LEMMA PipelineIngests == PipelineSpec => Spec
<1>1. PipelineInit => Init
  BY DEF PipelineInit
<1>2. [PipelineNext]_all => [Next]_vars
  BY DEF PipelineNext, Ingest, Deliver, all
<1>3. QED
  BY <1>1, <1>2, PTL DEF PipelineSpec, Spec

\* What the two groups need to know of the topic.
LEMMA TopicInvariant ==
    PipelineSpec => [](GroupInv /\ ApprovedInv /\ Approving)
<1>1. Init => Approving
  BY DEF Init, Approving
<1>2. GroupInv /\ Approving /\ [Next]_vars => Approving'
  BY ApprovingStep
<1>3. Spec => [](GroupInv /\ ApprovedInv)
  BY GroupInvariant, PTL
<1>4. QED
  BY <1>1, <1>2, <1>3, PipelineIngests, PTL DEF Spec

\* To the worker, ingestion-consumer is a producer as its own specification allows
\* for: the pipeline implements that specification.
THEOREM PipelineDelivers == PipelineSpec => WP!Spec
<1>1. PipelineInit => WP!Init
  BY SameWorker DEF PipelineInit, WP!Init, Init
<1> DEFINE Inv == GroupInv /\ ApprovedInv /\ Approving
<1>2. Inv /\ Inv' /\ [PipelineNext]_all => [WP!Next]_(WP!vars)
  <2> SUFFICES ASSUME Inv, Inv', [PipelineNext]_all
               PROVE  [WP!Next]_(WP!vars)
    OBVIOUS
  <2>1. CASE Ingest
    BY <2>1, IngestIsPublish DEF Ingest, ApprovedInv
  <2>2. CASE Deliver
    BY <2>2, SameWorker DEF Deliver, WP!Next
  <2>3. CASE UNCHANGED all
    BY <2>3 DEF all, vars, outside, workerVars, WP!vars, WP!topic, WP!broker,
                WP!memory, WP!erp
  <2>4. QED
    BY <2>1, <2>2, <2>3 DEF PipelineNext
<1>3. QED
  BY <1>1, <1>2, TopicInvariant, PTL DEF PipelineSpec, WP!Spec

\* What the worker keeps by itself it keeps here.
LEMMA PipelineDeliveryInv == PipelineSpec => []WP!DeliveryInv
<1>1. WP!Spec => []WP!DeliveryInv
  BY WorkerAssumptions, WP!DeliveryInvariant
     DEF WP!PartitionAssumption, WP!AttemptAssumption, WP!EndAssumption,
         WP!FailureAssumption, WP!NoneAssumption
<1>2. QED
  BY <1>1, PipelineDelivers, PTL

-------------------------------------------------------------------------------
(* Every approval can be found.                                              *)

\* An approval that cannot be found anywhere is one that ingestion-consumer lost.
LEMMA MissingIsLost ==
    ASSUME StoreTypeOK, GroupInv, WP!DeliveryInv,
           NEW e \in Approvals,
           ~(Arrived(e) \/ Waiting(e) \/ InOutbox(e) \/ Unpublished(e))
    PROVE  \E h \in LostApprovals : history[h].event = e
<1>1. PICK h \in DOMAIN history : /\ history[h].status = "APPROVED"
                                  /\ history[h].event = e
  BY DEF Approvals
<1>2. ASSUME NEW i \in DOMAIN approved, approved[i].event = e
      PROVE  FALSE
  <2>1. i \in Nat \ {0} /\ i \in Places(e)
    BY <1>2 DEF GroupInv, PublishTypeOK, Places
  <2>2. wCommitted[OrderApproved] \in Nat
    BY DEF WP!DeliveryInv, WP!WorkerTypeOK
  <2>3. i <= wCommitted[OrderApproved]
    BY <2>1, <2>2 DEF Waiting
  <2>4. <<OrderApproved, i>> \in WP!Settled
    BY <2>1, <2>2, <2>3 DEF WP!DeliveryInv, WP!SettledBelowCommit, WP!SettledUpTo
  <2>5. QED
    BY <2>1, <2>4, SameWorker DEF Arrived
<1>3. \A c \in Consumer : outbox[c] # None => outbox[c].event # e
  BY DEF InOutbox
<1>4. \A r \in reports : r.message = e => r.outcome # "publish_failed"
  BY DEF Unpublished
<1>5. QED
  BY <1>1, <1>2, <1>3, <1>4 DEF LostApprovals

\* Every approval that the tables commit is at the ERP or dead-lettered, ahead of
\* the worker, about to be published or reported as not published, but for one at
\* most per crash and per lost answer to a COMMIT of ingestion-consumer: whatever
\* goes wrong on the worker's side costs none (consumer.py and worker.py, each
\* committing its offset last).
THEOREM EveryApprovalIsAccountedFor == PipelineSpec => []ApprovalsAccountedFor
<1>1. StoreTypeOK /\ GroupInv /\ WP!DeliveryInv /\ LossesAreCaused
         => ApprovalsAccountedFor
  <2> SUFFICES ASSUME StoreTypeOK, GroupInv, WP!DeliveryInv, LossesAreCaused
               PROVE  ApprovalsAccountedFor
    OBVIOUS
  <2> DEFINE Missing == {e \in Approvals :
                           ~(Arrived(e) \/ Waiting(e) \/ InOutbox(e) \/ Unpublished(e))}
             L == LostApprovals
             row == [e \in Missing |-> CHOOSE h \in L : history[h].event = e]
  <2>1. \A e \in Missing : row[e] \in L /\ history[row[e]].event = e
    BY MissingIsLost
  <2>2. IsFiniteSet(L)
    <3>1. IsFiniteSet(1..Len(history)) /\ DOMAIN history = 1..Len(history)
      BY FS_Interval DEF StoreTypeOK
    <3>2. L \subseteq DOMAIN history
      BY DEF LostApprovals
    <3>3. QED
      BY <3>1, <3>2, FS_Subset
  <2>3. row \in Injection(Missing, L)
    BY <2>1 DEF Injection, IsInjective
  <2>4. Cardinality(Missing) <= Cardinality(L) /\ IsFiniteSet(Missing)
    <3> HIDE DEF Missing, L, row
    <3>1. QED
      BY <2>2, <2>3, FS_Injection
  <2>5. /\ Cardinality(Missing) \in Nat /\ Cardinality(L) \in Nat
        /\ spent["crash"] + spent["ack"] \in Nat
    BY <2>2, <2>4, FS_CardinalityType DEF GroupInv, ReportTypeOK, Failure
  <2>6. Cardinality(L) <= spent["crash"] + spent["ack"]
    BY DEF LossesAreCaused
  <2> HIDE DEF L
  <2>7. Cardinality(Missing) <= spent["crash"] + spent["ack"]
    <3> HIDE DEF Missing
    <3>1. QED
      BY <2>4, <2>5, <2>6
  <2>8. QED
    BY <2>7 DEF ApprovalsAccountedFor
<1>2. Spec => [](StoreTypeOK /\ GroupInv)
  BY GroupInvariant, PTL
<1>3. QED
  BY <1>1, <1>2, PipelineIngests, PipelineDeliveryInv, LossesHaveCauses, PTL

-------------------------------------------------------------------------------
(* What arrives.                                                             *)

\* What is at the ERP or in the dead-letter topic is an approval that the tables
\* have committed.
ArrivalsAreApproved ==
    \A x \in WP!Settled : /\ x[2] \in DOMAIN approved
                          /\ approved[x[2]].event \in Approvals

\* The ERP and the dead-letter topic together have every approval that the tables
\* have committed once at most, and one copy more at most per failure on the
\* worker's side: what ingestion-consumer repeats never shows there.
ArrivalsAreOnce ==
    WP!Total(received) + WP!Total(deadLetters) <= Cardinality(Approvals) + wFailures

\* What the worker's theorems say of the pipeline.
LEMMA PipelineWorker ==
    PipelineSpec => [](/\ WP!DeliveryInv /\ WP!RepeatsAreCaused
                       /\ WP!Settled \subseteq WP!Sent)
<1>1. WP!Spec => [](WP!RepeatsAreCaused /\ WP!Settled \subseteq WP!Sent)
  BY WorkerAssumptions, WP!RepeatsHaveCauses, WP!SettledIsSent, PTL
     DEF WP!PartitionAssumption, WP!AttemptAssumption, WP!EndAssumption,
         WP!FailureAssumption, WP!NoneAssumption
<1>2. QED
  BY <1>1, PipelineDelivers, PipelineDeliveryInv, PTL

\* A place that arrived is one of the topic, and the topic has only approvals.
LEMMA ArrivedPlaces ==
    ASSUME GroupInv, PublishedIsApproved, WP!Settled \subseteq WP!Sent
    PROVE  ArrivalsAreApproved
<1>1. PICK n \in Nat : n = Len(approved) /\ DOMAIN approved = 1..n
  BY DEF GroupInv, PublishTypeOK
<1>2. ASSUME NEW x \in WP!Settled
      PROVE  x[2] \in 1..n /\ x = <<OrderApproved, x[2]>>
  <2>1. x \in WP!Item /\ x[2] <= [p \in {OrderApproved} |-> Len(approved)][x[1]]
    BY DEF WP!Sent
  <2>2. x[1] = OrderApproved /\ x[2] \in 1..MaxApprovals /\ x = <<x[1], x[2]>>
    BY <2>1 DEF WP!Item
  <2>3. QED
    BY <1>1, <2>1, <2>2, WorkerAssumption
<1>3. ASSUME NEW i \in DOMAIN approved
      PROVE  approved[i].event \in Approvals
  BY DEF PublishedIsApproved, Approvals
<1>4. QED
  BY <1>1, <1>2, <1>3 DEF ArrivalsAreApproved

\* Each place that arrived has an approval of its own.
LEMMA ArrivedOnce ==
    ASSUME StoreTypeOK, GroupInv, PublishedOnce, PublishedIsApproved,
           WP!Settled \subseteq WP!Sent
    PROVE  /\ Cardinality(WP!Settled) \in Nat /\ Cardinality(Approvals) \in Nat
           /\ Cardinality(WP!Settled) <= Cardinality(Approvals)
<1> DEFINE S == WP!Settled
           A == Approvals
           event == [x \in S |-> approved[x[2]].event]
<1>1. ArrivalsAreApproved
  BY ArrivedPlaces
<1>2. ASSUME NEW x \in S
      PROVE  x = <<OrderApproved, x[2]>>
  <2>1. x \in WP!Item
    BY DEF WP!Sent
  <2>2. QED
    BY <2>1 DEF WP!Item
<1>3. \A x \in S : event[x] \in A
  BY <1>1 DEF ArrivalsAreApproved
<1>4. ASSUME NEW x \in S, NEW y \in S, event[x] = event[y]
      PROVE  x = y
  <2>1. x[2] = y[2]
    BY <1>1, <1>4 DEF PublishedOnce, ArrivalsAreApproved
  <2>2. QED
    BY <1>2, <2>1
<1>5. event \in Injection(S, A)
  BY <1>3, <1>4 DEF Injection, IsInjective
<1>6. IsFiniteSet(A)
  <2> DEFINE R == {h \in DOMAIN history : history[h].status = "APPROVED"}
             f == [h \in R |-> history[h].event]
  <2>1. IsFiniteSet(1..Len(history)) /\ DOMAIN history = 1..Len(history)
    BY FS_Interval DEF StoreTypeOK
  <2>2. IsFiniteSet(R)
    BY <2>1, FS_Subset
  <2>3. f \in Surjection(R, A)
    BY DEF Surjection, Approvals
  <2> HIDE DEF R, f, A
  <2>4. QED
    BY <2>2, <2>3, FS_Surjection
<1> HIDE DEF S, A, event
<1>7. IsFiniteSet(S) /\ Cardinality(S) <= Cardinality(A)
  BY <1>5, <1>6, FS_Injection
<1>8. Cardinality(S) \in Nat /\ Cardinality(A) \in Nat
  BY <1>6, <1>7, FS_CardinalityType
<1>9. QED
  BY <1>7, <1>8 DEF S, A

\* Through both groups, whatever is repeated, lost or redelivered on the way, the
\* ERP and the dead-letter topic get only what the tables have approved, each once,
\* and once more at most for each failure of the worker, its broker or the ERP.
THEOREM ArrivalsAreTrue == PipelineSpec => [](ArrivalsAreApproved /\ ArrivalsAreOnce)
<1> DEFINE Inv == /\ StoreTypeOK /\ GroupInv /\ PublishedOnce /\ PublishedIsApproved
                  /\ WP!DeliveryInv /\ WP!RepeatsAreCaused
                  /\ WP!Settled \subseteq WP!Sent
<1>1. Inv => ArrivalsAreApproved
  BY ArrivedPlaces
<1>2. Inv => ArrivalsAreOnce
  <2> SUFFICES ASSUME Inv PROVE ArrivalsAreOnce
    OBVIOUS
  <2>1. /\ Cardinality(WP!Settled) \in Nat /\ Cardinality(Approvals) \in Nat
        /\ Cardinality(WP!Settled) <= Cardinality(Approvals)
    BY ArrivedOnce
  <2>2. /\ WP!Total(received) + WP!Total(deadLetters)
              <= Cardinality(WP!Settled) + wFailures
        /\ WP!Total(received) \in Nat /\ WP!Total(deadLetters) \in Nat
        /\ wFailures \in Nat
    <3>1. WP!Total(received) \in Nat /\ WP!Total(deadLetters) \in Nat /\ wFailures \in Nat
      BY WorkerAssumptions, WP!PaidTypes
         DEF WP!PartitionAssumption, WP!AttemptAssumption, WP!EndAssumption,
             WP!FailureAssumption, WP!NoneAssumption
    <3>2. WP!Total(received) + WP!Total(deadLetters)
              <= Cardinality(WP!Settled) + wFailures
      BY DEF WP!RepeatsAreCaused, WP!Total, Cardinality, WP!Cardinality
    <3>3. QED
      BY <3>1, <3>2
  <2>3. QED
    BY <2>1, <2>2 DEF ArrivalsAreOnce
<1>3. Spec => [](StoreTypeOK /\ GroupInv /\ PublishedOnce /\ PublishedIsApproved)
  BY GroupInvariant, ApprovedAtMostOnce, PublishedIsTrue, PTL
<1> HIDE DEF Inv
<1>4. PipelineSpec => []Inv
  BY <1>3, PipelineIngests, PipelineWorker, PTL DEF Inv
<1>5. QED
  BY <1>1, <1>2, <1>4, PTL
===============================================================================
