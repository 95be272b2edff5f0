------------------------------ MODULE TrailProofs ------------------------------
(*****************************************************************************)
(* What the consumer group makes of the trail of the orders: what it         *)
(* publishes is true of it, what it loses of the approvals there is          *)
(* accounted for, and its rows come in the order of the log.  For any number *)
(* of replicas, events and failures, as in IngestionConsumerProofs.          *)
(*****************************************************************************)
EXTENDS IngestionConsumerProofs, FiniteSetTheorems

-------------------------------------------------------------------------------
(* What the proofs below start from.                                         *)

\* All that the group keeps true of itself and of the tables.
LEMMA GroupInvariant ==
    Spec => [](/\ StoreTypeOK /\ ForeignKeys /\ TrailIsChain /\ OrderPortrait
               /\ AppliedOnce /\ Recorded
               /\ GroupInv /\ OffsetInv /\ ApprovedInv)
<1>1. Init => ApprovedInv
  BY DEF Init, ApprovedInv, PublishedOnce
<1>2. GroupInv /\ GroupInv' /\ OffsetInv /\ [Next]_vars => OffsetInv'
  BY WalkStep, OutboxStep, OffsetsStep DEF OffsetInv
<1>3. Spec => [](StoreTypeOK /\ ForeignKeys)
  BY GroupKeepsTables, PTL
<1>4. GroupInv /\ StoreTypeOK /\ ForeignKeys /\ [Next]_vars => GroupInv'
  BY GroupStep
<1>5. GroupInv /\ GroupInv' /\ OffsetInv /\ ApprovedInv /\ [Next]_vars => ApprovedInv'
  BY ApprovedStep DEF OffsetInv
<1>6. Spec => [](GroupInv /\ OffsetInv /\ ApprovedInv)
  BY GroupInit, OffsetInit, <1>1, <1>2, <1>3, <1>4, <1>5, PTL DEF Spec
<1>7. QED
  BY <1>6, GroupKeepsTables, GroupImplementsStore, CreationIsRecorded, PTL

-------------------------------------------------------------------------------
(* What is published is true.                                                *)

\* What PublishedIsApproved says of one message: the trail has the approval and
\* the creation it speaks of.
Sourced(s) ==
    /\ \E h \in DOMAIN history : /\ history[h].event = s.event
                                 /\ history[h].order = s.order
                                 /\ history[h].status = "APPROVED"
    /\ \E h \in DOMAIN history : /\ history[h].order = s.order
                                 /\ history[h].previous = None
                                 /\ Body[history[h].event].place = s.place
                                 /\ Body[history[h].event].items = s.items

SourcedInv == /\ \A i \in DOMAIN approved : Sourced(approved[i])
              /\ \A c \in Consumer : outbox[c] # None => Sourced(outbox[c])

\* The trail grows only, so what it has it keeps.
LEMMA SourcedStays ==
    ASSUME StoreTypeOK, [Next]_vars, NEW s, Sourced(s)
    PROVE  Sourced(s)'
<1>1. [StoreNext]_tables
  BY StoreStep
<1>2. /\ DOMAIN history \subseteq DOMAIN history'
      /\ \A h \in DOMAIN history : history'[h] = history[h]
  BY <1>1, TrailGrows
<1>3. QED
  BY <1>2 DEF Sourced

\* fetch_order_snapshot, in the transaction that approves the order, reads what
\* the trail has of the order.
LEMMA SnapshotIsSourced ==
    ASSUME StoreTypeOK, OrderPortrait, Recorded,
           NEW e \in EventId, ProcessEvent(e), Approves(e),
           NEW s, s = FetchOrderSnapshot(e)
    PROVE  s.event = e /\ Sourced(s)'
<1> DEFINE o == Body[e].order
<1>1. StatusChanged(e) /\ Body[e].new_status = "APPROVED"
  BY DEF Approves, ProcessEvent, OrderCreated, DroppedUnknownOrder, PaymentConfirmed,
         InvoiceIssued, DroppedUnknownType
<1>2. /\ s.event = e /\ s.order = o
      /\ s.place = address[orders[o].address].place
      /\ s.items = orders[o].items
  BY DEF FetchOrderSnapshot
<1>3. \E h \in DOMAIN history' : /\ history'[h].event = s.event
                                 /\ history'[h].order = s.order
                                 /\ history'[h].status = "APPROVED"
  <2> DEFINE n == Len(history) + 1
  <2>1. /\ DOMAIN history' = 1..n
        /\ history'[n].event = e /\ history'[n].order = o
        /\ history'[n].status = "APPROVED"
    BY <1>1, NewRow
  <2>2. n \in 1..n
    BY DEF StoreTypeOK
  <2>3. QED
    BY <1>2, <2>1, <2>2
<1>4. \E h \in DOMAIN history' : /\ history'[h].order = s.order
                                 /\ history'[h].previous = None
                                 /\ Body[history'[h].event].place = s.place
                                 /\ Body[history'[h].event].items = s.items
  <2>1. o \in OrderId /\ Known(o)
    BY <1>1, OrdersStep DEF StatusChanged
  <2>2. PICK h \in DOMAIN history : history[h].order = o /\ history[h].previous = None
    BY <2>1 DEF Recorded
  <2>3. /\ Body[history[h].event].place = s.place
        /\ Body[history[h].event].items = s.items
    BY <1>2, <2>2 DEF OrderPortrait
  <2>4. h \in DOMAIN history' /\ history'[h] = history[h]
    BY TrailGrows DEF StoreNext
  <2>5. QED
    BY <1>2, <2>2, <2>3, <2>4
<1>5. QED
  BY <1>2, <1>3, <1>4 DEF Sourced

\* Every step leaves true what is published and what waits for it.
LEMMA SourcedStep ==
    ASSUME StoreTypeOK, OrderPortrait, Recorded, GroupInv, SourcedInv, [Next]_vars
    PROVE  SourcedInv'
<1>1. CASE Keeps
  <2>1. ASSUME NEW s, Sourced(s)
        PROVE  Sourced(s)'
    BY <2>1, SourcedStays
  <2>2. QED
    BY <1>1, <2>1 DEF Keeps, SourcedInv, Sourced
<1>2. ASSUME NEW c \in Consumer, TakesUp(c)
      PROVE  SourcedInv'
  <2>1. PICK e \in EventId : /\ ProcessEvent(e) /\ Approves(e)
                             /\ outbox'[c] = FetchOrderSnapshot(e)
    BY <1>2 DEF TakesUp
  <2>2. ASSUME NEW d \in Consumer, outbox'[d] # None, NEW s, s = outbox'[d]
        PROVE  Sourced(s)'
    <3>1. CASE d = c
      BY <2>1, <2>2, <3>1, SnapshotIsSourced
    <3>2. CASE d # c
      BY <1>2, <2>2, <3>2, SourcedStays DEF TakesUp, SourcedInv
    <3>3. QED
      BY <3>1, <3>2
  <2>3. ASSUME NEW i \in DOMAIN approved, NEW s, s = approved[i]
        PROVE  Sourced(s)'
    BY <2>3, SourcedStays DEF SourcedInv
  <2>4. QED
    BY <1>2, <2>2, <2>3 DEF TakesUp, SourcedInv, Sourced
<1>3. ASSUME NEW c \in Consumer, Sends(c)
      PROVE  SourcedInv'
  <2>1. Sourced(outbox[c])
    BY <1>3 DEF Sends, SourcedInv
  <2>2. ASSUME NEW i \in DOMAIN approved', NEW s, s = approved'[i]
        PROVE  Sourced(s)
    <3>1. approved \in Seq(Snapshot)
      BY DEF GroupInv, PublishTypeOK
    <3>2. CASE approved' = approved
      BY <2>2, <3>2 DEF SourcedInv
    <3>3. CASE approved' = Append(approved, outbox[c])
      BY <2>1, <2>2, <3>1, <3>3 DEF SourcedInv
    <3>4. QED
      BY <1>3, <3>2, <3>3 DEF Sends
  <2>3. ASSUME NEW d \in Consumer, outbox'[d] # None, NEW s, s = outbox'[d]
        PROVE  Sourced(s)
    BY <1>3, <2>3 DEF Sends, SourcedInv
  <2>4. ASSUME NEW s, Sourced(s)
        PROVE  Sourced(s)'
    BY <2>4, SourcedStays
  <2>5. QED
    BY <2>2, <2>3, <2>4 DEF SourcedInv, Sourced
<1>4. QED
  BY <1>1, <1>2, <1>3, ApprovalKinds

\* The ERP is told what the tables committed: an approval that happened, and the
\* address and the items of the event that created the order.
THEOREM PublishedIsTrue == Spec => []PublishedIsApproved
<1>1. Init => SourcedInv
  BY DEF Init, SourcedInv
<1>2. StoreTypeOK /\ OrderPortrait /\ Recorded /\ GroupInv /\ SourcedInv /\ [Next]_vars
         => SourcedInv'
  BY SourcedStep
<1>3. SourcedInv => PublishedIsApproved
  BY DEF SourcedInv, Sourced, PublishedIsApproved
<1>4. QED
  BY <1>1, <1>2, <1>3, GroupInvariant, PTL DEF Spec

-------------------------------------------------------------------------------
(* What is lost is accounted for.                                            *)

\* The approval e is published, about to be, or reported as not published.
Found(e) ==
    \/ \E i \in DOMAIN approved : approved[i].event = e
    \/ \E c \in Consumer : outbox[c] # None /\ outbox[c].event = e
    \/ \E r \in reports : r.message = e /\ r.outcome = "publish_failed"

\* An approval is lost if it is committed and not found.
LEMMA LostIsNotFound ==
    LostApprovals = {h \in DOMAIN history : /\ history[h].status = "APPROVED"
                                            /\ ~Found(history[h].event)}
BY DEF LostApprovals, Found

\* A step counts the failures that it spends.
LEMMA SpendCounts ==
    ASSUME spent \in [Failure -> Nat], NEW K, Spend(K), NEW k \in Failure
    PROVE  spent'[k] = IF k \in K THEN spent[k] + 1 ELSE spent[k]
BY DEF Spend

\* No failure is forgotten.
LEMMA SpentGrows ==
    ASSUME GroupInv, [Next]_vars, NEW k \in Failure
    PROVE  spent[k] \in Nat /\ spent'[k] \in Nat /\ spent[k] <= spent'[k]
<1>1. spent \in [Failure -> Nat]
  BY DEF GroupInv, ReportTypeOK
<1>2. UNCHANGED spent \/ \E K : Spend(K)
  <2>1. ASSUME NEW c \in Consumer, HandleMessage(c)
        PROVE  UNCHANGED spent \/ \E K : Spend(K)
    BY <2>1 DEF HandleMessage, Malformed, Applied, DuplicateSkipped, Refused,
                DbUnavailable, AckLost, Attempt, Published, PublishFailed, ReportAs,
                outside
  <2>2. ASSUME NEW c \in Consumer,
               \/ Poll(c) \/ Commit(c) \/ CommitRejected(c) \/ Crash(c) \/ Restart(c)
               \/ \E p \in Partition : Assign(p, c) \/ Rebalance(p, c)
        PROVE  UNCHANGED spent \/ \E K : Spend(K)
    BY <2>2 DEF Poll, Commit, CommitRejected, Crash, Restart, Assign, Rebalance, outside
  <2>3. CASE Webhook \/ UNCHANGED vars
    BY <2>3 DEF Webhook, vars, outside
  <2>4. QED
    BY <2>1, <2>2, <2>3 DEF Next, Replica
<1>3. CASE UNCHANGED spent
  BY <1>1, <1>3
<1>4. ASSUME NEW K, Spend(K)
      PROVE  spent[k] \in Nat /\ spent'[k] \in Nat /\ spent[k] <= spent'[k]
  BY <1>1, <1>4, SpendCounts
<1>5. QED
  BY <1>2, <1>3, <1>4

\* Only a crash makes an approval disappear that could be found.
LEMMA FoundStays ==
    ASSUME GroupInv, [Next]_vars, NEW e, Found(e), \A c \in Consumer : ~Crash(c)
    PROVE  Found(e)'
<1>1. CASE UNCHANGED <<approved, outbox>> /\ reports \subseteq reports'
  BY <1>1 DEF Found
<1>2. ASSUME NEW c \in Consumer, Malformed(c) \/ Refused(c)
      PROVE  UNCHANGED <<approved, outbox>> /\ reports \subseteq reports'
  BY <1>2 DEF Malformed, Refused, ReportAs
<1>3. ASSUME NEW c \in Consumer, DbUnavailable(c) \/ AckLost(c)
      PROVE  UNCHANGED <<approved, outbox>> /\ reports \subseteq reports'
  BY <1>3 DEF DbUnavailable, AckLost, Attempt, ReportAs
<1>4. ASSUME NEW c \in Consumer,
             \/ DuplicateSkipped(c) \/ Poll(c) \/ Commit(c) \/ Restart(c)
             \/ \E p \in Partition : Assign(p, c) \/ Rebalance(p, c)
      PROVE  UNCHANGED <<approved, outbox>> /\ reports \subseteq reports'
  BY <1>4 DEF DuplicateSkipped, Poll, Commit, Restart, Assign, Rebalance, memory, outside
<1>5. ASSUME NEW c \in Consumer, CommitRejected(c)
      PROVE  UNCHANGED <<approved, outbox>> /\ reports \subseteq reports'
  <2>1. outbox' = [outbox EXCEPT ![c] = None] /\ outbox[c] = None
    BY <1>5 DEF CommitRejected, Halt, GroupInv, InHand
  <2>2. outbox' = outbox
    BY <2>1 DEF GroupInv, PublishTypeOK
  <2>3. QED
    BY <1>5, <2>2 DEF CommitRejected, outside
<1>6. ASSUME NEW c \in Consumer, Applied(c)
      PROVE  Found(e)'
  <2>1. outbox[c] = None /\ UNCHANGED <<approved, reports>>
    BY <1>6 DEF Applied, Handling, GroupInv, InHand, outside
  <2>2. \A d \in Consumer \ {c} : outbox'[d] = outbox[d]
    BY <1>6 DEF Applied, GroupInv, PublishTypeOK
  <2>3. QED
    BY <2>1, <2>2 DEF Found
<1>7. ASSUME NEW c \in Consumer, Published(c) \/ PublishFailed(c)
      PROVE  Found(e)'
  <2>1. /\ \A d \in Consumer \ {c} : outbox'[d] = outbox[d]
        /\ reports \subseteq reports'
    BY <1>7 DEF Published, PublishFailed, ReportAs, GroupInv, PublishTypeOK
  <2>2. /\ approved \in Seq(Snapshot) /\ approved' \in Seq(Snapshot)
        /\ approved' = approved \/ approved' = Append(approved, outbox[c])
    <3>1. outbox[c] \in Snapshot
      BY <1>7 DEF Published, PublishFailed, GroupInv, InHand, PublishTypeOK
    <3>2. QED
      BY <1>7, <3>1 DEF Published, PublishFailed, GroupInv, PublishTypeOK
  <2>3. /\ DOMAIN approved \subseteq DOMAIN approved'
        /\ \A i \in DOMAIN approved : approved'[i] = approved[i]
    BY <2>2
  <2>4. CASE outbox[c].event # e
    BY <2>1, <2>3, <2>4 DEF Found
  <2>5. CASE outbox[c].event = e /\ Published(c)
    <3>1. approved' = Append(approved, outbox[c])
      BY <2>5 DEF Published
    <3>2. Len(approved) + 1 \in DOMAIN approved' /\ approved'[Len(approved) + 1] = outbox[c]
      BY <2>2, <3>1
    <3>3. QED
      BY <2>5, <3>2 DEF Found
  <2>6. CASE outbox[c].event = e /\ PublishFailed(c)
    <3>1. [message |-> e, outcome |-> "publish_failed"] \in reports'
      BY <2>6 DEF PublishFailed, ReportAs
    <3>2. QED
      BY <3>1 DEF Found
  <2>7. QED
    BY <1>7, <2>4, <2>5, <2>6
<1>8. CASE Webhook \/ UNCHANGED vars
  BY <1>1, <1>8 DEF Webhook, vars, memory, outside
<1>9. QED
  BY <1>1, <1>2, <1>3, <1>4, <1>5, <1>6, <1>7, <1>8 DEF Next, Replica, HandleMessage

\* A step adds one row to the trail at most, and changes none.
LEMMA OneRowMore ==
    ASSUME StoreTypeOK, [Next]_vars
    PROVE  /\ DOMAIN history = 1..Len(history) /\ Len(history) \in Nat
           /\ DOMAIN history' \subseteq DOMAIN history \cup {Len(history) + 1}
           /\ \A h \in DOMAIN history : h \in DOMAIN history' /\ history'[h] = history[h]
<1>1. [StoreNext]_tables
  BY StoreStep
<1>2. DOMAIN history = 1..Len(history) /\ Len(history) \in Nat
  BY DEF StoreTypeOK
<1>3. CASE UNCHANGED history
  BY <1>2, <1>3
<1>4. ASSUME NEW e \in EventId, OrderCreated(e) \/ StatusChanged(e)
      PROVE  DOMAIN history' \subseteq DOMAIN history \cup {Len(history) + 1}
  <2> DEFINE n == Len(history) + 1
  <2>1. DOMAIN history = 1..(n - 1) /\ DOMAIN history' = 1..n /\ n \in Nat
    BY <1>4, NewRow
  <2> HIDE DEF n
  <2>2. DOMAIN history' \subseteq DOMAIN history \cup {n}
    BY <2>1
  <2>3. QED
    BY <2>2 DEF n
<1>5. QED
  BY <1>1, <1>2, <1>3, <1>4, TrailGrows, TrailStep DEF StoreNext, tables

\* An approval that is committed is in the outbox of the replica that committed it,
\* unless the answer to its COMMIT was lost.
LEMMA NewApproval ==
    ASSUME StoreTypeOK, ForeignKeys, GroupInv, [Next]_vars,
           \A c \in Consumer : ~AckLost(c),
           NEW h \in DOMAIN history' \ DOMAIN history, history'[h].status = "APPROVED",
           NEW e, e = history'[h].event
    PROVE  Found(e)'
<1>1. PICK c \in Consumer : Applied(c)
  <2>1. history' # history
    OBVIOUS
  <2>2. ASSUME NEW c \in Consumer,
               \/ Malformed(c) \/ DuplicateSkipped(c) \/ Refused(c)
               \/ DbUnavailable(c) \/ Published(c) \/ PublishFailed(c)
               \/ Poll(c) \/ Commit(c) \/ CommitRejected(c)
               \/ Crash(c) \/ Restart(c)
               \/ \E p \in Partition : Assign(p, c) \/ Rebalance(p, c)
        PROVE  UNCHANGED history
    BY <2>2 DEF Malformed, DuplicateSkipped, Refused, DbUnavailable, Published,
                PublishFailed, Poll, Commit, CommitRejected, Crash, Restart,
                Assign, Rebalance, tables
  <2>3. CASE Webhook \/ UNCHANGED vars
    BY <2>3 DEF Webhook, vars, tables
  <2>4. QED
    BY <2>1, <2>2, <2>3 DEF Next, Replica, HandleMessage
<1> DEFINE f == MessageOf(c)
<1>2. f \in EventId /\ ProcessEvent(f)
  BY <1>1 DEF Applied, Handling
<1>3. OrderCreated(f) \/ StatusChanged(f)
  BY <1>2, TrailStep
<1>4. h = Len(history) + 1
  BY OneRowMore
<1>5. e = f /\ (OrderCreated(f) => history'[h].status = "PENDING")
      /\ (StatusChanged(f) => history'[h].status = Body[f].new_status)
  BY <1>2, <1>3, <1>4, NewRow
<1>6. StatusChanged(f) /\ Body[f].new_status = "APPROVED"
  BY <1>3, <1>5
<1>7. Approves(f)
  BY <1>6 DEF StatusChanged, Approves
<1>8. outbox' = [outbox EXCEPT ![c] = FetchOrderSnapshot(f)]
  BY <1>1, <1>7 DEF Applied
<1>9. outbox'[c] = FetchOrderSnapshot(f)
  BY <1>8 DEF GroupInv, PublishTypeOK
<1>10. outbox'[c].event = f
  BY <1>9 DEF FetchOrderSnapshot
<1>11. outbox'[c] # None
  <2>1. FetchOrderSnapshot(f) \in Snapshot
    BY <1>2, <1>7, SnapshotType
  <2>2. QED
    BY <1>9, <2>1, SnapshotAssumption DEF Snapshot
<1>12. QED
  BY <1>5, <1>10, <1>11 DEF Found

\* Rows that a step loses: an old one that is not found any more, or a new one.
LEMMA NewlyLost ==
    ASSUME StoreTypeOK, [Next]_vars, NEW h \in LostApprovals', h \notin LostApprovals
    PROVE  /\ history'[h].status = "APPROVED"
           /\ \A e : e = history'[h].event => ~Found(e)'
           /\ h \in DOMAIN history => /\ history'[h] = history[h]
                                      /\ Found(history[h].event)
<1>1. /\ h \in DOMAIN history' /\ history'[h].status = "APPROVED"
      /\ \A e : e = history'[h].event => ~Found(e)'
  BY DEF LostApprovals, Found
<1>2. ASSUME h \in DOMAIN history
      PROVE  history'[h] = history[h] /\ Found(history[h].event)
  <2>1. history'[h] = history[h]
    BY <1>2, OneRowMore
  <2>2. QED
    BY <1>1, <1>2, <2>1, LostIsNotFound
<1>3. QED
  BY <1>1, <1>2

\* A crash loses the approval in the replica's outbox at most.
LEMMA CrashLoses ==
    ASSUME StoreTypeOK, AppliedOnce, GroupInv, [Next]_vars,
           NEW c \in Consumer, Crash(c)
    PROVE  \E x : LostApprovals' \subseteq LostApprovals \cup {x}
<1>1. /\ history' = history /\ approved' = approved /\ reports' = reports
      /\ \A d \in Consumer \ {c} : outbox'[d] = outbox[d]
  BY DEF Crash, Halt, tables, GroupInv, PublishTypeOK
<1>2. ASSUME NEW h \in LostApprovals', h \notin LostApprovals
      PROVE  h \in DOMAIN history /\ history[h].event = outbox[c].event
  <2>1. h \in DOMAIN history
    BY <1>1, <1>2 DEF LostApprovals
  <2>2. /\ Found(history[h].event)
        /\ \A e : e = history[h].event => ~Found(e)'
    BY <1>2, <2>1, NewlyLost
  <2>3. QED
    BY <1>1, <2>1, <2>2 DEF Found
<1>3. ASSUME NEW x \in DOMAIN history, history[x].event = outbox[c].event
      PROVE  LostApprovals' \subseteq LostApprovals \cup {x}
  BY <1>2, <1>3 DEF AppliedOnce
<1>4. QED
  BY <1>2, <1>3

\* A lost answer to a COMMIT loses the approval that was committed at most, and
\* the other steps lose none.
LEMMA OtherLosses ==
    ASSUME StoreTypeOK, ForeignKeys, GroupInv, [Next]_vars,
           \A c \in Consumer : ~Crash(c)
    PROVE  /\ LostApprovals' \subseteq LostApprovals \cup {Len(history) + 1}
           /\ (\A c \in Consumer : ~AckLost(c)) => LostApprovals' \subseteq LostApprovals
<1>1. ASSUME NEW h \in LostApprovals', h \notin LostApprovals
      PROVE  h \notin DOMAIN history
  <2> SUFFICES ASSUME h \in DOMAIN history PROVE FALSE
    OBVIOUS
  <2>1. PICK e : e = history[h].event
    OBVIOUS
  <2>2. Found(e) /\ ~Found(e)'
    BY <1>1, <2>1, NewlyLost
  <2>3. QED
    BY <2>2, FoundStays
<1>2. ASSUME NEW h \in LostApprovals', h \notin LostApprovals
      PROVE  h = Len(history) + 1 /\ \E c \in Consumer : AckLost(c)
  <2>1. h \in DOMAIN history' \ DOMAIN history
    BY <1>1, <1>2 DEF LostApprovals
  <2>2. h = Len(history) + 1
    BY <2>1, OneRowMore
  <2>3. PICK e : e = history'[h].event
    OBVIOUS
  <2>4. history'[h].status = "APPROVED" /\ ~Found(e)'
    BY <1>2, <2>3, NewlyLost
  <2>5. \E c \in Consumer : AckLost(c)
    BY <2>1, <2>3, <2>4, NewApproval
  <2>6. QED
    BY <2>2, <2>5
<1>3. QED
  BY <1>2

\* A step that loses an approval spends a crash or an acknowledgement.
LEMMA LossStep ==
    ASSUME StoreTypeOK, StoreTypeOK', ForeignKeys, AppliedOnce, GroupInv,
           LossesAreCaused, [Next]_vars
    PROVE  LossesAreCaused'
<1>1. IsFiniteSet(LostApprovals) /\ IsFiniteSet(LostApprovals')
  <2>1. /\ IsFiniteSet(1..Len(history)) /\ DOMAIN history = 1..Len(history)
        /\ IsFiniteSet(1..Len(history')) /\ DOMAIN history' = 1..Len(history')
    BY FS_Interval DEF StoreTypeOK
  <2>2. LostApprovals \subseteq DOMAIN history /\ LostApprovals' \subseteq DOMAIN history'
    BY DEF LostApprovals
  <2>3. QED
    BY <2>1, <2>2, FS_Subset
<1> DEFINE L == LostApprovals
           M == LostApprovals'
<1>2. /\ Cardinality(L) \in Nat /\ Cardinality(M) \in Nat
      /\ M \subseteq L => Cardinality(M) <= Cardinality(L)
      /\ \A x : M \subseteq L \cup {x} => Cardinality(M) <= Cardinality(L) + 1
  <2>1. Cardinality(L) \in Nat /\ Cardinality(M) \in Nat
    BY <1>1, FS_CardinalityType
  <2>2. M \subseteq L => Cardinality(M) <= Cardinality(L)
    BY <1>1, FS_Subset
  <2>3. ASSUME NEW x, M \subseteq L \cup {x}
        PROVE  Cardinality(M) <= Cardinality(L) + 1
    <3>1. IsFiniteSet(L \cup {x})
          /\ Cardinality(L \cup {x}) \in {Cardinality(L), Cardinality(L) + 1}
      BY <1>1, FS_AddElement
    <3>2. Cardinality(M) <= Cardinality(L \cup {x})
      BY <2>3, <3>1, FS_Subset
    <3>3. QED
      BY <2>1, <3>1, <3>2
  <2>4. QED
    BY <2>1, <2>2, <2>3
<1>3. /\ spent["crash"] \in Nat /\ spent'["crash"] \in Nat
      /\ spent["crash"] <= spent'["crash"]
      /\ spent["ack"] \in Nat /\ spent'["ack"] \in Nat
      /\ spent["ack"] <= spent'["ack"]
  BY SpentGrows DEF Failure
<1>4. Cardinality(L) <= spent["crash"] + spent["ack"]
  BY DEF LossesAreCaused
<1> HIDE DEF L, M
<1>5. Cardinality(M) <= spent'["crash"] + spent'["ack"]
  <2>1. CASE \E c \in Consumer : Crash(c)
    <3>1. PICK c \in Consumer : Crash(c)
      BY <2>1
    <3>2. \E x : M \subseteq L \cup {x}
      BY <3>1, CrashLoses DEF L, M
    <3>3. spent'["crash"] = spent["crash"] + 1
      BY <3>1, SpendCounts DEF Crash, GroupInv, ReportTypeOK, Failure
    <3>4. QED
      BY <1>2, <1>3, <1>4, <3>2, <3>3
  <2>2. CASE (\A c \in Consumer : ~Crash(c)) /\ \E c \in Consumer : AckLost(c)
    <3>1. PICK c \in Consumer : AckLost(c)
      BY <2>2
    <3>2. M \subseteq L \cup {Len(history) + 1}
      BY <2>2, OtherLosses DEF L, M
    <3>3. Spend({"ack"}) \/ Spend({"ack"} \cup {"log"})
      BY <3>1 DEF AckLost, Attempt, ReportAs
    <3>4. spent'["ack"] = spent["ack"] + 1
      BY <3>3, SpendCounts DEF GroupInv, ReportTypeOK, Failure
    <3>5. Cardinality(M) <= Cardinality(L) + 1
      BY <1>2, <3>2
    <3>6. QED
      BY <1>2, <1>3, <1>4, <3>4, <3>5
  <2>3. CASE (\A c \in Consumer : ~Crash(c)) /\ \A c \in Consumer : ~AckLost(c)
    <3>1. M \subseteq L
      BY <2>3, OtherLosses DEF L, M
    <3>2. QED
      BY <1>2, <1>3, <1>4, <3>1
  <2>4. QED
    BY <2>1, <2>2, <2>3
<1>6. QED
  BY <1>5 DEF LossesAreCaused, M

\* An approval that is committed is published, about to be, or reported as not
\* published, but for one at most per crash and per lost answer to a COMMIT
\* (handle_message, between process_event and send_and_wait).
THEOREM LossesHaveCauses == Spec => []LossesAreCaused
<1>1. Init => LossesAreCaused
  <2> SUFFICES ASSUME Init PROVE LossesAreCaused
    OBVIOUS
  <2>1. LostApprovals = {}
    BY DEF Init, StoreInit, LostApprovals
  <2>2. spent["crash"] = 0 /\ spent["ack"] = 0
    BY DEF Init, Failure
  <2>3. QED
    BY <2>1, <2>2, FS_EmptySet DEF LossesAreCaused
<1>2. /\ StoreTypeOK /\ StoreTypeOK' /\ ForeignKeys /\ AppliedOnce /\ GroupInv
      /\ LossesAreCaused /\ [Next]_vars
      => LossesAreCaused'
  BY LossStep
<1>3. QED
  BY <1>1, <1>2, GroupInvariant, PTL DEF Spec

-------------------------------------------------------------------------------
(* The rows of an order come in the order of the log, and nothing is dropped  *)
(* behind the ORDER_CREATED that it follows there.                            *)

\* A replica came to event e where the receiver had put it, with all before it
\* handled.
Reached(e) ==
    \E m \in DOMAIN log[Home(e)] :
       /\ log[Home(e)][m] = e
       /\ \A k \in 1..(m - 1) : log[Home(e)][k] \in Handled

\* A status that can never be written: the order is closed, or the data are wrong.
Hopeless(e) ==
    LET b == Body[e] IN
    b.type = "ORDER_STATUS_CHANGED" =>
       b.fault # "none" \/ (Known(b.order) /\ Frozen(b.order))

\* What a report of a message that was given up says of it.
Meant(r) ==
    /\ r.outcome = "malformed" => r.message \in Poison
    /\ r.outcome \in {"db_error", "unexpected_error"} =>
          r.message \in EventId /\ Hopeless(r.message)

\* Every processed event was reached, and those that left a row name their order;
\* an ORDER_CREATED was processed by inserting its order.
ReachedInv ==
    /\ \A e \in processed : Body[e].type # "OTHER" => Reached(e)
    /\ \A e \in processed : Body[e].type = "ORDER_CREATED" => Known(Body[e].order)
    /\ \A i \in DOMAIN history :
          LET b == Body[history[i].event] IN
          b.order = history[i].order /\ b.type # "OTHER" /\ b.fault # "no_order"

TrailInv == /\ ReachedInv
            /\ \A r \in reports : Meant(r)
            /\ InLogOrderUnlessGivenUp
            /\ NothingDroppedBehindItsOrder

\* What comes before e in a log does so for ever.
LEMMA BeforeStays ==
    ASSUME GroupInv, GroupInv', [Next]_vars, NEW p \in Partition, NEW m, NEW e, Before(p, m, e)
    PROVE  Before(p, m, e)'
<1>1. PICK i, j \in DOMAIN log[p] : /\ i < j /\ log[p][i] = m /\ log[p][j] = e
                                    /\ \A k \in 1..i : log[p][k] # e
  BY DEF Before
<1>2. log[p] \in Seq(Message)
  BY DEF GroupInv, LogTypeOK
<1>3. PICK n \in Nat : n = Len(log[p]) /\ DOMAIN log[p] = 1..n
  BY <1>2
<1>4. PICK l \in Nat : DOMAIN log'[p] = 1..l /\ n <= l
  <2>1. log'[p] \in Seq(Message)
    BY DEF GroupInv, LogTypeOK
  <2>2. QED
    BY <1>3, <2>1, LogStays
<1>5. \A k \in 1..n : log'[p][k] = log[p][k]
  BY <1>3, LogStays
<1>6. /\ i \in DOMAIN log'[p] /\ j \in DOMAIN log'[p]
      /\ log'[p][i] = m /\ log'[p][j] = e
      /\ \A k \in 1..i : log'[p][k] # e
  BY <1>1, <1>3, <1>4, <1>5
<1>7. QED
  BY <1>1, <1>6 DEF Before

\* And nothing comes before e once e is there.
LEMMA BeforeWas ==
    ASSUME GroupInv, GroupInv', [Next]_vars, NEW p \in Partition, NEW m, NEW e, Before(p, m, e)',
           NEW x \in DOMAIN log[p], log[p][x] = e
    PROVE  \E i \in DOMAIN log[p] : i < x /\ log[p][i] = m /\ Before(p, m, e)
<1>1. PICK i, j \in DOMAIN log'[p] : /\ i < j /\ log'[p][i] = m /\ log'[p][j] = e
                                     /\ \A k \in 1..i : log'[p][k] # e
  BY DEF Before
<1>2. log[p] \in Seq(Message)
  BY DEF GroupInv, LogTypeOK
<1>3. PICK n \in Nat : n = Len(log[p]) /\ DOMAIN log[p] = 1..n
  BY <1>2
<1>4. PICK l \in Nat : DOMAIN log'[p] = 1..l
  <2>1. log'[p] \in Seq(Message)
    BY DEF GroupInv, LogTypeOK
  <2>2. QED
    BY <2>1
<1>5. \A k \in 1..n : log'[p][k] = log[p][k]
  BY <1>3, LogStays
<1>6. i < x
  BY <1>1, <1>3, <1>4, <1>5
<1>7. i \in DOMAIN log[p] /\ log[p][i] = m /\ \A k \in 1..i : log[p][k] # e
  BY <1>1, <1>3, <1>4, <1>5, <1>6
<1>8. QED
  BY <1>6, <1>7 DEF Before

\* Every event has its order and its partition; what was reached stays reached.
LEMMA ReachedStays ==
    ASSUME GroupInv, GroupInv', [Next]_vars, NEW e \in EventId, Reached(e)
    PROVE  Reached(e)'
<1>1. PICK p \in Partition : p = Home(e)
  BY HomeIsAPartition
<1>2. PICK m \in DOMAIN log[p] : /\ log[p][m] = e
                                 /\ \A k \in 1..(m - 1) : log[p][k] \in Handled
  BY <1>1 DEF Reached
<1>3. log[p] \in Seq(Message)
  BY DEF GroupInv, LogTypeOK
<1>4. PICK n \in Nat : n = Len(log[p]) /\ DOMAIN log[p] = 1..n
  BY <1>3
<1>5. PICK l \in Nat : DOMAIN log'[p] = 1..l /\ n <= l
  <2>1. log'[p] \in Seq(Message)
    BY DEF GroupInv, LogTypeOK
  <2>2. QED
    BY <1>4, <2>1, LogStays
<1>6. \A i \in 1..n : log'[p][i] = log[p][i]
  BY <1>4, LogStays
<1>7. m \in DOMAIN log'[p] /\ log'[p][m] = e
  BY <1>2, <1>4, <1>5, <1>6
<1>8. ASSUME NEW k \in 1..(m - 1)
      PROVE  log'[p][k] \in Handled'
  <2>1. k \in 1..n
    BY <1>2, <1>4
  <2>2. QED
    BY <1>2, <1>6, <2>1, HandledStays
<1>9. QED
  BY <1>1, <1>7, <1>8 DEF Reached

\* A status that can never be written never is.
LEMMA HopelessStays ==
    ASSUME StoreTypeOK, [StoreNext]_tables, NEW e \in EventId, Hopeless(e)
    PROVE  Hopeless(e)'
<1>1. Body[e].order \in OrderId
  BY HomeIsAPartition
<1>2. CASE UNCHANGED tables
  BY <1>2 DEF tables, Hopeless, Known, Frozen
<1>3. CASE StoreNext
  <2>1. PICK f \in EventId : ProcessEvent(f)
    BY <1>3 DEF StoreNext
  <2>2. Known(Body[e].order) => /\ Known(Body[e].order)'
                                /\ Frozen(Body[e].order) => Frozen(Body[e].order)'
    BY <1>1, <2>1, OrdersOnlyAdvance
  <2>3. QED
    BY <2>2 DEF Hopeless
<1>4. QED
  BY <1>2, <1>3

\* What a step reports it means.
LEMMA NewReport ==
    ASSUME [Next]_vars, NEW r \in reports', r \notin reports
    PROVE  Meant(r)'
<1>1. ASSUME NEW c \in Consumer, Malformed(c)
      PROVE  Meant(r)'
  BY <1>1 DEF Malformed, ReportAs, Meant
<1>2. ASSUME NEW c \in Consumer, Refused(c)
      PROVE  Meant(r)'
  <2>1. PICK e \in EventId : e = MessageOf(c)
    BY <1>2 DEF Refused, Handling
  <2>2. /\ UNCHANGED tables
        /\ DbError(e) \/ UnexpectedError(e)
        /\ r.message = e /\ r.outcome # "malformed"
    BY <1>2, <2>1 DEF Refused, ReportAs
  <2>3. Hopeless(e)
    BY <2>2 DEF DbError, UnexpectedError, Hopeless
  <2>4. Hopeless(e)'
    BY <2>2, <2>3 DEF Hopeless, Known, Frozen, tables
  <2>5. QED
    BY <2>1, <2>2, <2>4 DEF Meant
<1>3. ASSUME NEW c \in Consumer, DbUnavailable(c) \/ AckLost(c)
      PROVE  Meant(r)'
  BY <1>3 DEF DbUnavailable, AckLost, Attempt, ReportAs, Meant
<1>4. ASSUME NEW c \in Consumer, PublishFailed(c)
      PROVE  Meant(r)'
  BY <1>4 DEF PublishFailed, ReportAs, Meant
<1>5. ASSUME NEW c \in Consumer,
             \/ Applied(c) \/ DuplicateSkipped(c) \/ Published(c)
             \/ Poll(c) \/ Commit(c) \/ CommitRejected(c) \/ Crash(c) \/ Restart(c)
             \/ \E p \in Partition : Assign(p, c) \/ Rebalance(p, c)
      PROVE  reports' = reports
  BY <1>5 DEF Applied, DuplicateSkipped, Published, Poll, Commit, CommitRejected,
              Crash, Restart, Assign, Rebalance, outside
<1>6. CASE Webhook \/ UNCHANGED vars
  BY <1>6 DEF Webhook, vars, outside
<1>7. QED
  BY <1>1, <1>2, <1>3, <1>4, <1>5, <1>6 DEF Next, Replica, HandleMessage

\* The tables change by the message in the hands of a replica, which has come to it
\* in its log with all before it handled.
LEMMA EventIsReached ==
    ASSUME GroupInv, OffsetInv, AllRouted, [Next]_vars
    PROVE  \/ UNCHANGED tables
           \/ \E e \in EventId : /\ ProcessEvent(e)
                                 /\ Body[e].type # "OTHER" => Reached(e)
<1>1. UNCHANGED tables \/ \E c \in Consumer : Handling(c) /\ ProcessEvent(MessageOf(c))
  <2>1. ASSUME NEW c \in Consumer,
               \/ Malformed(c) \/ DuplicateSkipped(c) \/ Refused(c)
               \/ DbUnavailable(c) \/ Published(c) \/ PublishFailed(c)
               \/ Poll(c) \/ Commit(c) \/ CommitRejected(c)
               \/ Crash(c) \/ Restart(c)
               \/ \E p \in Partition : Assign(p, c) \/ Rebalance(p, c)
        PROVE  UNCHANGED tables
    BY <2>1 DEF Malformed, DuplicateSkipped, Refused, DbUnavailable, Published,
                PublishFailed, Poll, Commit, CommitRejected, Crash, Restart,
                Assign, Rebalance
  <2>2. ASSUME NEW c \in Consumer, Applied(c) \/ AckLost(c)
        PROVE  Handling(c) /\ ProcessEvent(MessageOf(c))
    BY <2>2 DEF Applied, AckLost
  <2>3. CASE Webhook \/ UNCHANGED vars
    BY <2>3 DEF Webhook, vars
  <2>4. QED
    BY <2>1, <2>2, <2>3 DEF Next, Replica, HandleMessage
<1>2. ASSUME NEW c \in Consumer, Handling(c), ProcessEvent(MessageOf(c)),
             Body[MessageOf(c)].type # "OTHER"
      PROVE  Reached(MessageOf(c))
  <2> DEFINE e == MessageOf(c)
             p == current[c]
             m == cursor[c][p] + 1
  <2>1. e \in EventId /\ pc[c] = "handle" /\ p \in Partition
    BY <1>2 DEF Handling, GroupInv, InHand
  <2>2. PICK n \in Nat : DOMAIN log[p] = 1..n /\ n = Len(log[p])
    <3>1. log[p] \in Seq(Message)
      BY <2>1 DEF GroupInv, LogTypeOK
    <3>2. QED
      BY <3>1
  <2>3. cursor[c][p] \in Nat /\ limit[c][p] \in Nat
        /\ cursor[c][p] < limit[c][p] /\ limit[c][p] <= n
    BY <2>1, <2>2 DEF GroupInv, LoopTypeOK, OffsetInv, Walk
  <2>4. m \in DOMAIN log[p] /\ log[p][m] = e
    BY <2>2, <2>3 DEF MessageOf
  <2>5. \A k \in 1..(m - 1) : log[p][k] \in Handled
    <3>1. cursor[c][p] \in Safe(p)
      BY <2>1 DEF OffsetInv, Offsets
    <3>2. QED
      BY <2>3, <3>1 DEF Safe
  <2>6. Home(e) = p
    BY <1>2, <2>1, <2>4 DEF AllRouted, Routed
  <2>7. QED
    BY <2>4, <2>5, <2>6 DEF Reached
<1>3. QED
  BY <1>1, <1>2 DEF Handling

\* Two events of an order whose id is a key have one partition.
LEMMA OneHome ==
    ASSUME NEW e, NEW f, Body[e].order = Body[f].order, Body[e].order \notin Falsy,
           Body[e].fault # "no_order", Body[f].fault # "no_order"
    PROVE  Home(e) = Home(f)
BY DEF Home, RoutingKey, HasOrderKey

\* A status that is written behind an event that it precedes in the log was passed
\* over when that one was reached: it had been given up.
LEMMA PassedOver ==
    ASSUME GroupInv, \A r \in reports : Meant(r),
           NEW e \in EventId, StatusChanged(e), Reached(e),
           NEW f \in processed, f \in EventId, Reached(f), Home(f) = Home(e),
           ~InOneLog(f, e)
    PROVE  \E r \in reports : r.message = e /\ r.outcome = "db_unavailable"
<1>1. PICK p \in Partition : p = Home(e) /\ p = Home(f)
  BY HomeIsAPartition
<1>2. PICK n \in Nat : DOMAIN log[p] = 1..n
  <2>1. log[p] \in Seq(Message)
    BY DEF GroupInv, LogTypeOK
  <2>2. QED
    BY <2>1
<1>3. PICK m \in DOMAIN log[p] : /\ log[p][m] = f
                                 /\ \A k \in 1..(m - 1) : log[p][k] \in Handled
  BY <1>1 DEF Reached
<1>4. PICK l \in DOMAIN log[p] : log[p][l] = e
  BY <1>1 DEF Reached
<1>5. e \notin processed
  BY DEF StatusChanged, Claim
<1>6. PICK k \in 1..m : log[p][k] = e
  <2> SUFFICES ASSUME \A k \in 1..m : log[p][k] # e
               PROVE  FALSE
    OBVIOUS
  <2>1. m < l
    BY <1>2, <1>3, <1>4
  <2>2. Before(p, f, e)
    BY <1>3, <1>4, <2>1 DEF Before
  <2>3. QED
    BY <2>2 DEF InOneLog
<1>7. k \in 1..(m - 1)
  BY <1>2, <1>3, <1>5, <1>6
<1>8. PICK r \in reports : r.message = e /\ r.outcome \in GivenUp
  BY <1>3, <1>5, <1>6, <1>7 DEF Handled
<1>9. ~Hopeless(e) /\ e \notin Poison
  BY PoisonAssumption DEF StatusChanged, Hopeless
<1>10. QED
  BY <1>8, <1>9 DEF Meant, GivenUp

\* A step that writes a row keeps the rows of each order in the order of its log.
LEMMA InOrderStep ==
    ASSUME StoreTypeOK, TrailIsChain, AppliedOnce, GroupInv, GroupInv', OffsetInv,
           AllRouted, TrailInv, [Next]_vars
    PROVE  InLogOrderUnlessGivenUp'
<1> SUFFICES ASSUME NEW i \in DOMAIN history', NEW j \in DOMAIN history',
                    i < j, history'[i].order = history'[j].order,
                    history'[j].order \notin Falsy,
                    NEW f, f = history'[i].event, NEW e, e = history'[j].event
             PROVE  \/ InOneLog(f, e)'
                    \/ \E r \in reports' : r.message = e /\ r.outcome = "db_unavailable"
  BY DEF InLogOrderUnlessGivenUp
<1>1. PICK n \in Nat : /\ DOMAIN history = 1..n /\ n = Len(history)
                       /\ DOMAIN history' \subseteq 1..n \cup {n + 1}
                       /\ \A h \in 1..n : history'[h] = history[h]
  BY OneRowMore
<1>2. i \in 1..n /\ history'[i] = history[i]
  BY <1>1
<1>3. /\ history[i] \in HistoryRow /\ f = history[i].event /\ f \in processed
      /\ Body[f].order = history[i].order /\ Body[f].fault # "no_order"
      /\ Body[f].type # "OTHER"
  BY <1>1, <1>2 DEF StoreTypeOK, TrailInv, ReachedInv, AppliedOnce
<1>4. f \in EventId /\ Reached(f)
  BY <1>3 DEF HistoryRow, TrailInv, ReachedInv
<1>5. \/ InOneLog(f, e)
      \/ \E r \in reports : r.message = e /\ r.outcome = "db_unavailable"
  <2>1. CASE j \in 1..n
    BY <1>1, <1>2, <1>3, <2>1 DEF TrailInv, InLogOrderUnlessGivenUp
  <2>2. CASE j = n + 1
    <3>1. history' # history
      BY <1>1, <2>2
    <3>2. PICK g \in EventId : /\ ProcessEvent(g)
                               /\ Body[g].type # "OTHER" => Reached(g)
      BY <3>1, EventIsReached DEF tables
    <3>3. OrderCreated(g) \/ StatusChanged(g)
      BY <3>1, <3>2, TrailStep
    <3>4. e = g /\ history'[j].order = Body[g].order
      BY <1>1, <2>2, <3>3, NewRow
    <3>5. Known(Body[g].order)
      BY <1>1, <1>2, <3>4 DEF TrailIsChain
    <3>6. StatusChanged(g) /\ Reached(g) /\ Body[g].fault # "no_order"
      BY <3>2, <3>3, <3>5 DEF OrderCreated, StatusChanged
    <3>7. Home(f) = Home(g)
      BY <1>2, <1>3, <3>4, <3>6, OneHome
    <3>8. QED
      BY <1>3, <1>4, <3>4, <3>6, <3>7, PassedOver DEF TrailInv
  <2>3. QED
    BY <1>1, <2>1, <2>2
<1>6. InOneLog(f, e) => InOneLog(f, e)'
  BY BeforeStays DEF InOneLog
<1>7. QED
  BY <1>5, <1>6, NothingForgotten

\* A MERGE leaves a row of its id.
LEMMA MergedRowIsThere ==
    ASSUME NEW X, NEW table \in [X -> ChargeRow \cup {None}],
           NEW x \in X, NEW o \in OrderId, NEW charge \in Charge
    PROVE  Merge(table, x, o, charge)[x] # None
<1>1. CASE table[x] # None
  BY <1>1, MergeKeepsRows
<1>2. CASE table[x] = None
  <2>1. Merge(table, x, o, charge)[x] = [order |-> o, charge |-> charge]
    BY <1>2 DEF Merge
  <2>2. [order |-> o, charge |-> charge] \in ChargeRow
    BY DEF ChargeRow
  <2>3. QED
    BY <2>1, <2>2, RowAssumption
<1>3. QED
  BY <1>1, <1>2

\* An event of a known order leaves its mark when it is processed, and the mark
\* stays.
LEMMA EventLeavesItsMark ==
    ASSUME StoreTypeOK, NEW e \in EventId, ProcessEvent(e), Known(Body[e].order),
           Body[e].type \in {"ORDER_STATUS_CHANGED", "PAYMENT_CONFIRMED", "INVOICE_ISSUED"}
    PROVE  LeftItsMark(e)'
<1>1. StatusChanged(e) \/ PaymentConfirmed(e) \/ InvoiceIssued(e)
  BY DEF ProcessEvent, OrderCreated, DroppedUnknownOrder, DroppedUnknownType
<1>2. CASE StatusChanged(e)
  <2> DEFINE n == Len(history) + 1
  <2>1. DOMAIN history' = 1..n /\ n \in Nat /\ history'[n].event = e
    BY <1>2, NewRow
  <2>2. n \in DOMAIN history'
    BY <2>1 DEF StoreTypeOK
  <2>3. QED
    BY <2>1, <2>2 DEF LeftItsMark
<1>3. CASE PaymentConfirmed(e)
  <2>1. /\ Body[e].type = "PAYMENT_CONFIRMED"
        /\ Body[e].payment \in PaymentId /\ Body[e].order \in OrderId
        /\ Body[e].charge \in Charge
    BY <1>3, PaymentFields DEF PaymentConfirmed
  <2>2. payment' = Merge(payment, Body[e].payment, Body[e].order, Body[e].charge)
    BY <1>3 DEF PaymentConfirmed
  <2>3. payment'[Body[e].payment] # None
    BY <2>1, <2>2, MergedRowIsThere DEF StoreTypeOK
  <2>4. QED
    BY <2>1, <2>3 DEF LeftItsMark
<1>4. CASE InvoiceIssued(e)
  <2>1. /\ Body[e].type = "INVOICE_ISSUED"
        /\ Body[e].invoice \in InvoiceId /\ Body[e].order \in OrderId
        /\ Body[e].charge \in Charge
    BY <1>4, InvoiceFields DEF InvoiceIssued
  <2>2. invoices' = Merge(invoices, Body[e].invoice, Body[e].order, Body[e].charge)
    BY <1>4 DEF InvoiceIssued
  <2>3. invoices'[Body[e].invoice] # None
    BY <2>1, <2>2, MergedRowIsThere DEF StoreTypeOK
  <2>4. QED
    BY <2>1, <2>3 DEF LeftItsMark
<1>5. QED
  BY <1>1, <1>2, <1>3, <1>4

\* No step takes a mark away.
LEMMA MarksStay ==
    ASSUME StoreTypeOK, [Next]_vars, NEW e \in EventId, LeftItsMark(e)
    PROVE  LeftItsMark(e)'
<1>1. [StoreNext]_tables
  BY StoreStep
<1>2. CASE UNCHANGED tables
  BY <1>2 DEF tables, LeftItsMark
<1>3. CASE StoreNext
  <2>1. RowsStay
    BY <1>3, EventsKeepRows DEF StoreNext
  <2>2. /\ DOMAIN history \subseteq DOMAIN history'
        /\ \A h \in DOMAIN history : history'[h] = history[h]
    BY <1>1, TrailGrows
  <2>3. QED
    BY <2>1, <2>2, PaymentFields, InvoiceFields DEF LeftItsMark, RowsStay
<1>4. QED
  BY <1>1, <1>2, <1>3

\* An event that comes behind the ORDER_CREATED of its order finds the order there.
LEMMA DroppedStep ==
    ASSUME StoreTypeOK, GroupInv, GroupInv', OffsetInv, AllRouted, AllRouted', TrailInv,
           processed \subseteq EventId, [Next]_vars
    PROVE  NothingDroppedBehindItsOrder'
<1> SUFFICES ASSUME NEW p \in Partition, NEW c \in EventId, NEW e \in EventId,
                    e \in processed',
                    Body[e].type \in {"ORDER_STATUS_CHANGED", "PAYMENT_CONFIRMED",
                                      "INVOICE_ISSUED"},
                    Body[c].type = "ORDER_CREATED", Body[c].order = Body[e].order,
                    Before(p, c, e)',
                    \A r \in reports' : r.message = c => r.outcome \notin GivenUp
             PROVE  LeftItsMark(e)'
  BY DEF NothingDroppedBehindItsOrder
<1>1. p = Home(e) /\ Body[e].type # "OTHER"
  <2>1. \E j \in DOMAIN log'[p] : log'[p][j] = e
    BY DEF Before
  <2>2. QED
    BY <2>1 DEF AllRouted, Routed
<1>2. \A r \in reports : r.message = c => r.outcome \notin GivenUp
  BY NothingForgotten
<1>3. CASE e \in processed
  <2>1. PICK x \in DOMAIN log[p] : log[p][x] = e
    BY <1>1, <1>3 DEF TrailInv, ReachedInv, Reached
  <2>2. Before(p, c, e)
    BY <2>1, BeforeWas
  <2>3. LeftItsMark(e)
    BY <1>2, <1>3, <2>2 DEF TrailInv, NothingDroppedBehindItsOrder
  <2>4. QED
    BY <2>3, MarksStay
<1>4. CASE e \notin processed
  <2>1. ProcessEvent(e) /\ Reached(e)
    <3>1. processed' # processed
      BY <1>4
    <3>2. PICK g \in EventId : /\ ProcessEvent(g)
                               /\ Body[g].type # "OTHER" => Reached(g)
      BY <3>1, EventIsReached DEF tables
    <3>3. g = e
      BY <1>4, <3>2, EveryEventIsClaimed
    <3>4. QED
      BY <1>1, <3>2, <3>3
  <2>2. PICK x \in DOMAIN log[p] : /\ log[p][x] = e
                                   /\ \A k \in 1..(x - 1) : log[p][k] \in Handled
    BY <1>1, <2>1 DEF Reached
  <2>3. PICK i \in DOMAIN log[p] : i < x /\ log[p][i] = c
    BY <2>2, BeforeWas
  <2>4. i \in 1..(x - 1)
    <3>1. log[p] \in Seq(Message)
      BY DEF GroupInv, LogTypeOK
    <3>2. QED
      BY <2>2, <2>3, <3>1
  <2>5. c \in processed
    BY <1>2, <2>2, <2>3, <2>4 DEF Handled
  <2>6. Known(Body[e].order)
    BY <2>5 DEF TrailInv, ReachedInv
  <2>7. QED
    BY <2>1, <2>6, EventLeavesItsMark
<1>5. QED
  BY <1>3, <1>4

\* What is processed was reached, and is what the tables say of it.
LEMMA ReachedStep ==
    ASSUME StoreTypeOK, GroupInv, GroupInv', OffsetInv, AllRouted, ReachedInv,
           processed \subseteq EventId, [Next]_vars
    PROVE  ReachedInv'
<1>1. CASE UNCHANGED tables
  <2>1. \A e \in processed : Reached(e) => Reached(e)'
    BY ReachedStays
  <2>2. QED
    BY <1>1, <2>1 DEF tables, ReachedInv, Known
<1>2. ASSUME NEW g \in EventId, ProcessEvent(g), Body[g].type # "OTHER" => Reached(g)
      PROVE  ReachedInv'
  <2>1. processed' = processed \cup {g}
    BY <1>2, EveryEventIsClaimed
  <2>2. ASSUME NEW e \in processed', Body[e].type # "OTHER"
        PROVE  Reached(e)'
    BY <1>2, <2>1, <2>2, ReachedStays DEF ReachedInv
  <2>3. ASSUME NEW e \in processed', Body[e].type = "ORDER_CREATED"
        PROVE  Known(Body[e].order)'
    <3>1. CASE e = g
      <4>1. OrderCreated(g)
        BY <1>2, <2>3, <3>1 DEF ProcessEvent, StatusChanged, DroppedUnknownOrder,
           PaymentConfirmed, InvoiceIssued, DroppedUnknownType
      <4>2. QED
        BY <3>1, <4>1, OrdersStep DEF Known
    <3>2. CASE e # g
      <4>1. e \in processed /\ Known(Body[e].order) /\ Body[e].order \in OrderId
        BY <2>1, <2>3, <3>2, HomeIsAPartition DEF ReachedInv
      <4>2. QED
        BY <1>2, <4>1, OrdersOnlyAdvance
    <3>3. QED
      BY <3>1, <3>2
  <2>4. ASSUME NEW i \in DOMAIN history', NEW b, b = Body[history'[i].event]
        PROVE  b.order = history'[i].order /\ b.type # "OTHER" /\ b.fault # "no_order"
    <3>1. PICK n \in Nat : /\ DOMAIN history = 1..n /\ n = Len(history)
                           /\ DOMAIN history' \subseteq 1..n \cup {n + 1}
                           /\ \A h \in 1..n : history'[h] = history[h]
      BY OneRowMore
    <3>2. CASE i \in 1..n
      BY <2>4, <3>1, <3>2 DEF ReachedInv
    <3>3. CASE i = n + 1
      <4>1. OrderCreated(g) \/ StatusChanged(g)
        BY <1>2, <2>4, <3>1, <3>3, TrailStep
      <4>2. history'[i].event = g /\ history'[i].order = Body[g].order
        BY <3>1, <3>3, <4>1, NewRow
      <4>3. Body[g].type # "OTHER" /\ Body[g].fault # "no_order"
        BY <4>1 DEF OrderCreated, StatusChanged, Fits
      <4>4. QED
        BY <2>4, <4>2, <4>3
    <3>4. QED
      BY <2>4, <3>1, <3>2, <3>3
  <2>5. QED
    BY <2>2, <2>3, <2>4 DEF ReachedInv
<1>3. QED
  BY <1>1, <1>2, EventIsReached

\* Every step keeps all of it.
LEMMA TrailInvStep ==
    ASSUME StoreTypeOK, TrailIsChain, AppliedOnce, GroupInv, GroupInv', OffsetInv,
           AllRouted, AllRouted', TrailInv, [Next]_vars
    PROVE  TrailInv'
<1>1. processed \subseteq EventId
  BY DEF StoreTypeOK
<1>2. ReachedInv'
  BY <1>1, ReachedStep DEF TrailInv
<1>3. ASSUME NEW r \in reports'
      PROVE  Meant(r)'
  <2>1. CASE r \in reports
    <3>1. Meant(r)
      BY <2>1 DEF TrailInv
    <3>2. ASSUME r.message \in EventId, Hopeless(r.message), NEW e, e = r.message
          PROVE  Hopeless(e)'
      BY <3>2, StoreStep, HopelessStays
    <3>3. QED
      BY <3>1, <3>2 DEF Meant
  <2>2. CASE r \notin reports
    BY <1>3, <2>2, NewReport
  <2>3. QED
    BY <2>1, <2>2
<1>4. QED
  BY <1>1, <1>2, <1>3, InOrderStep, DroppedStep DEF TrailInv

\* It holds of every state the group reaches.
LEMMA TrailInvariant == Spec => []TrailInv
<1>1. Init => TrailInv
  BY DEF Init, StoreInit, TrailInv, ReachedInv, InLogOrderUnlessGivenUp,
         NothingDroppedBehindItsOrder
<1>2. /\ StoreTypeOK /\ TrailIsChain /\ AppliedOnce /\ GroupInv /\ GroupInv' /\ OffsetInv
      /\ AllRouted /\ AllRouted' /\ TrailInv /\ [Next]_vars
      => TrailInv'
  BY TrailInvStep
<1>3. QED
  BY <1>1, <1>2, GroupInvariant, EventsAreRouted, PTL DEF Spec

\* The rows of an order come in the order in which its log first has their events,
\* however the replicas share, lose and repeat its messages, but for an event that
\* the database was too long away for (handle_message, _run_in_txn) and for orders
\* whose id makes no key (receive_webhook).
THEOREM TrailFollowsTheLog == Spec => []InLogOrderUnlessGivenUp
<1>1. TrailInv => InLogOrderUnlessGivenUp
  BY DEF TrailInv
<1>2. QED
  BY <1>1, TrailInvariant, PTL

\* A status, a payment or an invoice that follows the ORDER_CREATED of its order in
\* the log is never spent on an order that is not there, for any number of replicas,
\* crashes, rebalances and replays, unless that ORDER_CREATED was given up
\* (handle_message, the UPDATE and resolve_order_id that find no row).
THEOREM NothingIsDroppedBehindItsOrder == Spec => []NothingDroppedBehindItsOrder
<1>1. TrailInv => NothingDroppedBehindItsOrder
  BY DEF TrailInv
<1>2. QED
  BY <1>1, TrailInvariant, PTL
===============================================================================
