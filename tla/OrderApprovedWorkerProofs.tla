----------------------- MODULE OrderApprovedWorkerProofs -----------------------
(*****************************************************************************)
(* Proofs about OrderApprovedWorker for any number of workers, partitions,   *)
(* messages, attempts and failures.                                          *)
(*****************************************************************************)
EXTENDS OrderApprovedWorker, FiniteSetTheorems, WellFoundedInduction, TLAPS

USE AttemptAssumption, EndAssumption, FailureAssumption, NoneAssumption

-------------------------------------------------------------------------------
(* Places in the topic and lists of them.                                    *)

\* A place is a partition and an offset of it.
LEMMA PlaceOf ==
    /\ \A p \in Partition : \A n \in 1..MaxEnd[p] : <<p, n>> \in Item
    /\ \A x \in Item : /\ x[1] \in Partition
                       /\ x[2] \in 1..MaxEnd[x[1]]
                       /\ x = <<x[1], x[2]>>
  BY DEF Item

\* A list that gets a message has that one and those that it had.
LEMMA PlacesOneMore ==
    ASSUME NEW list \in [Item -> Nat], NEW x \in Item
    PROVE  /\ OneMore(list, x) \in [Item -> Nat]
           /\ Places(OneMore(list, x)) = Places(list) \cup {x}
  BY DEF OneMore, Places

\* What was settled below the committed offsets stays so while they stay.
LEMMA SettledStays ==
    ASSUME SettledBelowCommit, committed' = committed, Settled \subseteq Settled'
    PROVE  SettledBelowCommit'
  BY DEF SettledBelowCommit, SettledUpTo

\* A worker that keeps its place and its message keeps its promise about it.
LEMMA InHandStays ==
    ASSUME NEW w \in Worker, InHand(w), pc'[w] = pc[w], item'[w] = item[w],
           Settled \subseteq Settled', end' = end
    PROVE  InHand(w)'
  BY DEF InHand

-------------------------------------------------------------------------------
(* Init and the steps.                                                       *)

\* At first nothing is committed and nobody has a message.
LEMMA InitDelivery == Init => DeliveryInv
  <1> SUFFICES ASSUME Init PROVE DeliveryInv
    OBVIOUS
  <1> USE DEF Init, WorkerInit
  <1>1. WorkerTypeOK
    BY DEF WorkerTypeOK
  <1>2. SettledBelowCommit
    BY DEF SettledBelowCommit, SettledUpTo
  <1>3. \A w \in Worker : InHand(w)
    BY DEF InHand
  <1>4. \A p \in Partition : OneAhead(p)
    BY DEF OneAhead
  <1> QED
    BY <1>1, <1>2, <1>3, <1>4 DEF DeliveryInv

\* The message of a worker that has one is a place that was sent.
LEMMA HeldItem ==
    ASSUME DeliveryInv, NEW w \in Worker, pc[w] \in {"post", "dead_letter", "commit"}
    PROVE  item[w] \in Item /\ item[w] # None /\ item[w][2] <= end[item[w][1]]
  BY DEF DeliveryInv, WorkerTypeOK, InHand

\* The producer appends an approval: nothing that is settled moves.
LEMMA PublishStep ==
    ASSUME DeliveryInv, NEW p \in Partition, Publish(p)
    PROVE  DeliveryInv'
  <1> USE DEF DeliveryInv, Publish, broker, memory, erp
  <1>1. <<p, end[p] + 1>> \in Item
    BY PlaceOf DEF WorkerTypeOK
  <1>2. \A q \in Partition : end[q] \in Nat /\ end[q] <= end'[q]
    BY DEF WorkerTypeOK
  <1>3. WorkerTypeOK'
    BY <1>1 DEF WorkerTypeOK
  <1>4. Settled' = Settled /\ SettledBelowCommit'
    BY SettledStays DEF Settled, Places
  <1>5. ASSUME NEW w \in Worker PROVE InHand(w)'
    <2>1. CASE item[w] = None
      BY <2>1, <1>4 DEF InHand
    <2>2. CASE item[w] # None
      <3>1. item[w] \in Item /\ item[w][1] \in Partition /\ item[w][2] \in Nat
        BY <2>2, PlaceOf DEF WorkerTypeOK
      <3>2. end[item[w][1]] \in Nat /\ end[item[w][1]] <= end'[item[w][1]]
            /\ end'[item[w][1]] \in Nat
        BY <3>1, <1>2, <1>3 DEF WorkerTypeOK
      <3> QED
        BY <2>2, <3>1, <3>2, <1>4 DEF InHand
    <2> QED
      BY <2>1, <2>2
  <1>6. ASSUME NEW q \in Partition PROVE OneAhead(q)'
    <2>1. committed[q] \in Nat /\ end[q] \in Nat /\ end'[q] \in Nat
      BY <1>3 DEF WorkerTypeOK
    <2> QED
      BY <2>1, <1>2 DEF OneAhead
  <1>7. \A post \in wire' : post.item[2] <= end'[post.item[1]]
    <2> SUFFICES ASSUME NEW post \in wire PROVE post.item[2] <= end'[post.item[1]]
      OBVIOUS
    <2>1. post.item \in Item
      BY DEF WorkerTypeOK
    <2>2. post.item[1] \in Partition /\ post.item[2] \in Nat
      BY <2>1, PlaceOf
    <2> QED
      BY <2>2, <1>2, <1>3 DEF WorkerTypeOK
  <1> QED
    BY <1>3, <1>4, <1>5, <1>6, <1>7

\* A process that ends loses what it has in hand and its partitions.
LEMMA HaltStep ==
    ASSUME DeliveryInv, NEW w \in Worker, Halt(w),
           UNCHANGED <<topic, erp>>,
           deadLetters' = deadLetters \/
              (deadLetters' = OneMore(deadLetters, item[w]) /\ item[w] \in Item),
           failures' \in Nat
    PROVE  DeliveryInv'
  <1> USE DEF DeliveryInv, Halt, topic, erp
  <1>0. /\ deadLetters' \in [Item -> Nat]
        /\ Places(deadLetters) \subseteq Places(deadLetters')
    <2>1. deadLetters \in [Item -> Nat]
      BY DEF WorkerTypeOK
    <2>2. CASE deadLetters' = deadLetters
      BY <2>1, <2>2
    <2>3. CASE deadLetters' = OneMore(deadLetters, item[w]) /\ item[w] \in Item
      <3>1. /\ OneMore(deadLetters, item[w]) \in [Item -> Nat]
            /\ Places(OneMore(deadLetters, item[w])) = Places(deadLetters) \cup {item[w]}
        BY <2>1, <2>3, PlacesOneMore
      <3> QED
        BY <2>3, <3>1
    <2> QED
      BY <2>2, <2>3
  <1>1. WorkerTypeOK'
    <2>1. 0 \in 0..(MaxAttempts - 1)
      OBVIOUS
    <2>2. owner' \in [Partition -> Worker \cup {None}]
      BY DEF WorkerTypeOK
    <2>3. tries' \in [Worker -> 0..(MaxAttempts - 1)]
      BY <2>1 DEF WorkerTypeOK
    <2>4. pc' \in [Worker -> {"down", "fetch", "post", "dead_letter", "commit"}]
          /\ item' \in [Worker -> Item \cup {None}]
      BY DEF WorkerTypeOK
    <2> QED
      BY <1>0, <2>2, <2>3, <2>4 DEF WorkerTypeOK
  <1>2. Settled \subseteq Settled'
    BY <1>0 DEF Settled, Places
  <1>3. SettledBelowCommit'
    BY <1>2, SettledStays
  <1>4. ASSUME NEW v \in Worker PROVE InHand(v)'
    <2>1. CASE v = w
      <3>1. pc'[v] = "down" /\ item'[v] = None
        BY <2>1 DEF WorkerTypeOK
      <3> QED
        BY <3>1 DEF InHand
    <2>2. CASE v # w
      BY <2>2, <1>2, InHandStays DEF WorkerTypeOK
    <2> QED
      BY <2>1, <2>2
  <1>5. ASSUME NEW p \in Partition PROVE OneAhead(p)'
    BY DEF OneAhead, WorkerTypeOK
  <1> QED
    BY <1>1, <1>3, <1>4, <1>5

\* A worker takes the next message of a partition of its own: it has nothing else
\* in hand, so its position was the committed offset.
LEMMA FetchStep ==
    ASSUME DeliveryInv, NEW w \in Worker, Fetch(w)
    PROVE  DeliveryInv'
  <1> USE DEF DeliveryInv, Fetch, NextItem, topic, erp
  <1>1. PICK p \in Partition : /\ NextItem(w, p)
                               /\ item' = [item EXCEPT ![w] = <<p, position[p] + 1>>]
                               /\ position' = [position EXCEPT ![p] = @ + 1]
    OBVIOUS
  <1> DEFINE x == <<p, position[p] + 1>>
  <1>2. x \in Item /\ x # None /\ x[2] <= end[p]
    BY <1>1, PlaceOf DEF WorkerTypeOK
  <1>3. item'[w] = x /\ pc'[w] = "post" /\ item[w] = None
    BY <1>1 DEF WorkerTypeOK, InHand
  <1>4. position[p] = committed[p]
    BY <1>1, <1>3 DEF OneAhead
  <1>5. WorkerTypeOK'
    BY <1>1, <1>2 DEF WorkerTypeOK
  <1>6. Settled' = Settled /\ SettledBelowCommit'
    BY SettledStays DEF Settled, Places
  <1>7. ASSUME NEW v \in Worker PROVE InHand(v)'
    <2>1. CASE v = w
      BY <2>1, <1>2, <1>3 DEF InHand
    <2>2. CASE v # w
      <3>1. pc'[v] = pc[v] /\ item'[v] = item[v]
        BY <2>2, <1>1 DEF WorkerTypeOK
      <3> QED
        BY <3>1, <1>6, InHandStays
    <2> QED
      BY <2>1, <2>2
  <1>8. ASSUME NEW q \in Partition PROVE OneAhead(q)'
    <2>1. CASE q = p
      <3>1. position'[p] = position[p] + 1 /\ owner'[p] = w
        BY <1>1 DEF WorkerTypeOK
      <3> QED
        BY <2>1, <3>1, <1>2, <1>3, <1>4 DEF OneAhead
    <2>2. CASE q # p
      <3>1. position'[q] = position[q]
        BY <2>2, <1>1 DEF WorkerTypeOK
      <3>2. owner[q] # None /\ owner[q] # w => item'[owner[q]] = item[owner[q]]
        BY <1>1 DEF WorkerTypeOK
      <3>3. owner[q] = w => position[q] = committed[q]
        BY <1>3 DEF OneAhead
      <3> QED
        BY <3>1, <3>2, <3>3 DEF OneAhead
    <2> QED
      BY <2>1, <2>2
  <1> QED
    BY <1>5, <1>6, <1>7, <1>8

\* Steps on the message in hand: the worker keeps it, the lists only grow, and
\* the worker goes to its commit only when the message is settled.
LEMMA HandStep ==
    ASSUME DeliveryInv, NEW w \in Worker,
           pc[w] \in {"post", "dead_letter"}, UNCHANGED <<topic, broker, item>>,
           NEW next \in {"post", "dead_letter", "commit"},
           pc' = [pc EXCEPT ![w] = next],
           WorkerTypeOK', Settled \subseteq Settled',
           next = "commit" => item[w] \in Settled',
           \A post \in wire' : post.item[2] <= end[post.item[1]]
    PROVE  DeliveryInv'
  <1> USE DEF DeliveryInv, topic, broker
  <1>1. SettledBelowCommit'
    BY SettledStays
  <1>2. ASSUME NEW v \in Worker PROVE InHand(v)'
    <2>1. CASE v = w
      <3>1. pc'[w] = next
        BY DEF WorkerTypeOK
      <3> QED
        BY <2>1, <3>1 DEF InHand
    <2>2. CASE v # w
      BY <2>2, InHandStays DEF WorkerTypeOK
    <2> QED
      BY <2>1, <2>2
  <1>3. ASSUME NEW p \in Partition PROVE OneAhead(p)'
    BY DEF OneAhead
  <1> QED
    BY <1>1, <1>2, <1>3

\* A failed attempt leaves the worker at the POST or sends it to the DLQ.
LEMMA FailedAttemptStep ==
    ASSUME WorkerTypeOK, NEW w \in Worker, pc[w] = "post", FailedAttempt(w)
    PROVE  /\ \E next \in {"post", "dead_letter"} : pc' = [pc EXCEPT ![w] = next]
           /\ tries' \in [Worker -> 0..(MaxAttempts - 1)]
           /\ pc' \in [Worker -> {"down", "fetch", "post", "dead_letter", "commit"}]
  <1>1. CASE tries[w] + 1 < MaxAttempts /\ UNCHANGED pc
              /\ tries' = [tries EXCEPT ![w] = @ + 1]
    <2>1. pc' = [pc EXCEPT ![w] = "post"]
      BY <1>1 DEF WorkerTypeOK
    <2>2. tries[w] + 1 \in 0..(MaxAttempts - 1)
      BY <1>1 DEF WorkerTypeOK
    <2> QED
      BY <1>1, <2>1, <2>2 DEF WorkerTypeOK
  <1>2. CASE GoOn(w, "dead_letter")
    BY <1>2 DEF GoOn, WorkerTypeOK
  <1> QED
    BY <1>1, <1>2 DEF FailedAttempt

\* A POST, whatever its answer: only the attempts and the ERP can change.
LEMMA PostStep ==
    ASSUME DeliveryInv, NEW w \in Worker, Deliver(w)
    PROVE  DeliveryInv'
  <1> USE DEF DeliveryInv, topic, broker, erp
  <1>1. pc[w] = "post"
    BY DEF Deliver, Delivered, ServerError, Rejected, NoAnswer
  <1>2. item[w] \in Item /\ item[w][2] <= end[item[w][1]]
    BY <1>1, HeldItem
  <1>3. /\ OneMore(received, item[w]) \in [Item -> Nat]
        /\ Places(OneMore(received, item[w])) = Places(received) \cup {item[w]}
    BY <1>2, PlacesOneMore DEF WorkerTypeOK
  <1>4. CASE Delivered(w)
    <2>1. WorkerTypeOK'
      BY <1>1, <1>3, <1>4 DEF Delivered, GoOn, WorkerTypeOK
    <2>2. Settled \subseteq Settled' /\ item[w] \in Settled'
      BY <1>3, <1>4 DEF Delivered, Settled
    <2> QED
      BY <1>1, <1>4, <2>1, <2>2, HandStep DEF Delivered, GoOn
  <1>5. CASE ServerError(w)
    <2>1. WorkerTypeOK'
      BY <1>1, <1>5, FailedAttemptStep DEF ServerError, WorkerTypeOK
    <2>2. Settled' = Settled
      BY <1>5 DEF ServerError, Settled, Places
    <2> QED
      BY <1>1, <1>5, <2>1, <2>2, FailedAttemptStep, HandStep DEF ServerError
  <1>6. CASE Rejected(w)
    <2>1. WorkerTypeOK'
      BY <1>1, <1>6 DEF Rejected, GoOn, WorkerTypeOK
    <2>2. Settled' = Settled
      BY <1>6 DEF Rejected, Settled, Places
    <2> QED
      BY <1>1, <1>6, <2>1, <2>2, HandStep DEF Rejected, GoOn
  <1>7. CASE NoAnswer(w)
    <2>1. received' \in [Item -> Nat] /\ Settled \subseteq Settled'
      BY <1>3, <1>7 DEF NoAnswer, Settled, Places, WorkerTypeOK
    <2>2. failures \in Nat /\ failures' \in Nat
      BY <1>7 DEF NoAnswer, Fail, WorkerTypeOK
    <2>3. \/ wire' = wire
          \/ wire' = wire \cup {[item |-> item[w], n |-> failures]}
      BY <1>7 DEF NoAnswer
    <2>4. wire' \subseteq [item: Item, n: Nat]
      BY <1>2, <2>2, <2>3 DEF WorkerTypeOK
    <2>5. \A post \in wire' : post.item[2] <= end[post.item[1]]
      BY <1>2, <2>3
    <2>6. WorkerTypeOK'
      BY <1>1, <1>7, <2>1, <2>2, <2>4, FailedAttemptStep DEF NoAnswer, WorkerTypeOK
    <2> QED
      BY <1>1, <1>7, <2>1, <2>5, <2>6, FailedAttemptStep, HandStep DEF NoAnswer
  <1> QED
    BY <1>4, <1>5, <1>6, <1>7 DEF Deliver

\* The message is in the dead-letter topic, so that its worker may commit.
LEMMA DeadLetteredStep ==
    ASSUME DeliveryInv, NEW w \in Worker, DeadLettered(w)
    PROVE  DeliveryInv'
  <1> USE DEF DeliveryInv, DeadLettered, topic, broker, erp
  <1>1. item[w] \in Item
    BY HeldItem
  <1>2. /\ deadLetters' \in [Item -> Nat]
        /\ Places(deadLetters') = Places(deadLetters) \cup {item[w]}
    BY <1>1, PlacesOneMore DEF WorkerTypeOK
  <1>3. WorkerTypeOK'
    BY <1>2 DEF WorkerTypeOK
  <1>4. Settled \subseteq Settled' /\ item[w] \in Settled'
    BY <1>2 DEF Settled, Places
  <1> QED
    BY <1>3, <1>4, HandStep

\* A commit: every position of the worker is its committed offset, or one past it
\* for the message in hand, which is settled.
LEMMA CommitStep ==
    ASSUME DeliveryInv, NEW w \in Worker, Commit(w)
    PROVE  DeliveryInv' /\ \A p \in Partition : committed'[p] >= committed[p]
  <1> USE DEF DeliveryInv, Commit, CommitPositions, topic, erp
  <1>1. item[w] \in Settled
    BY DEF InHand
  <1>2. ASSUME NEW p \in Partition
        PROVE  /\ committed'[p] = IF owner[p] = w THEN position[p] ELSE committed[p]
               /\ committed[p] \in Nat /\ committed'[p] \in Nat
               /\ \/ committed'[p] = committed[p]
                  \/ /\ committed'[p] = committed[p] + 1
                     /\ <<p, committed'[p]>> = item[w]
    BY DEF OneAhead, WorkerTypeOK
  <1>3. WorkerTypeOK'
    BY <1>2 DEF WorkerTypeOK
  <1>4. Settled' = Settled
    BY DEF Settled, Places
  <1>5. SettledBelowCommit'
    <2> SUFFICES ASSUME NEW p \in Partition, NEW i \in 1..committed'[p]
                 PROVE  <<p, i>> \in Settled'
      BY DEF SettledBelowCommit, SettledUpTo
    <2>1. CASE i \in 1..committed[p]
      BY <2>1, <1>4 DEF SettledBelowCommit, SettledUpTo
    <2>2. CASE i \notin 1..committed[p]
      <3>1. i = committed'[p] /\ <<p, committed'[p]>> = item[w]
        BY <2>2, <1>2
      <3> QED
        BY <3>1, <1>1, <1>4
    <2> QED
      BY <2>1, <2>2
  <1>6. ASSUME NEW v \in Worker PROVE InHand(v)'
    <2>1. CASE v = w
      <3>1. pc'[v] = "fetch" /\ item'[v] = None
        BY <2>1 DEF WorkerTypeOK
      <3> QED
        BY <3>1 DEF InHand
    <2>2. CASE v # w
      BY <2>2, <1>4, InHandStays DEF WorkerTypeOK
    <2> QED
      BY <2>1, <2>2
  <1>7. ASSUME NEW p \in Partition PROVE OneAhead(p)'
    <2>1. committed'[p] <= end[p]
      <3>1. item[w][2] <= end[item[w][1]]
        BY HeldItem
      <3> QED
        BY <3>1, <1>2 DEF OneAhead
    <2>2. CASE owner[p] = w
      BY <2>1, <2>2, <1>2 DEF OneAhead
    <2>3. CASE owner[p] # w
      <3>1. owner[p] # None => item'[owner[p]] = item[owner[p]]
        BY <2>3 DEF WorkerTypeOK
      <3> QED
        BY <2>1, <2>3, <3>1, <1>2 DEF OneAhead
    <2> QED
      BY <2>2, <2>3
  <1> QED
    BY <1>2, <1>3, <1>5, <1>6, <1>7

\* A partition that is given to somebody is consumed from its committed offset.
LEMMA HandOver ==
    ASSUME DeliveryInv, NEW p \in Partition, NEW w \in Worker,
           Assign(p, w) \/ Rebalance(p, w)
    PROVE  DeliveryInv'
  <1> USE DEF DeliveryInv, Assign, Rebalance, Fail, topic, memory, erp
  <1>1. WorkerTypeOK'
    BY DEF WorkerTypeOK
  <1>2. Settled' = Settled /\ SettledBelowCommit'
    BY SettledStays DEF Settled, Places
  <1>3. \A v \in Worker : InHand(v)'
    BY <1>2, InHandStays
  <1>4. ASSUME NEW q \in Partition PROVE OneAhead(q)'
    <2>1. CASE q = p
      BY <2>1 DEF OneAhead, WorkerTypeOK
    <2>2. CASE q # p
      <3>1. owner'[q] = owner[q] /\ position'[q] = position[q]
        BY <2>2 DEF WorkerTypeOK
      <3> QED
        BY <3>1 DEF OneAhead
    <2> QED
      BY <2>1, <2>2
  <1> QED
    BY <1>1, <1>2, <1>3, <1>4

\* A POST that nobody waits for any more reaches the ERP.
LEMMA LateArrivalStep ==
    ASSUME DeliveryInv, NEW post \in wire, LateArrival(post)
    PROVE  DeliveryInv'
  <1> USE DEF DeliveryInv, LateArrival, topic, broker, memory
  <1>1. post.item \in Item
    BY DEF WorkerTypeOK
  <1>2. received' \in [Item -> Nat] /\ Places(received) \subseteq Places(received')
    BY <1>1, PlacesOneMore DEF WorkerTypeOK, Places
  <1>3. WorkerTypeOK'
    BY <1>2 DEF WorkerTypeOK
  <1>4. Settled \subseteq Settled'
    BY <1>2 DEF Settled, Places
  <1>5. \A w \in Worker : InHand(w)'
    BY <1>4, InHandStays
  <1>6. \A p \in Partition : OneAhead(p)'
    BY DEF OneAhead
  <1> QED
    BY <1>3, <1>4, <1>5, <1>6, SettledStays

\* A worker that is down starts again, with nothing in hand.
LEMMA RestartStep ==
    ASSUME DeliveryInv, NEW w \in Worker, Restart(w)
    PROVE  DeliveryInv'
  <1> USE DEF DeliveryInv, Restart, topic, broker, erp
  <1>1. WorkerTypeOK'
    BY DEF WorkerTypeOK
  <1>2. Settled' = Settled /\ SettledBelowCommit'
    BY SettledStays DEF Settled, Places
  <1>3. ASSUME NEW v \in Worker PROVE InHand(v)'
    <2>1. CASE v = w
      <3>1. pc'[v] = "fetch" /\ item'[v] = None
        BY <2>1 DEF WorkerTypeOK, InHand
      <3> QED
        BY <3>1 DEF InHand
    <2>2. CASE v # w
      BY <2>2, <1>2, InHandStays DEF WorkerTypeOK
    <2> QED
      BY <2>1, <2>2
  <1>4. \A p \in Partition : OneAhead(p)'
    BY DEF OneAhead
  <1> QED
    BY <1>1, <1>2, <1>3, <1>4

\* Every way to end.
LEMMA EndStep ==
    ASSUME DeliveryInv, NEW w \in Worker,
           \/ Unparseable(w) \/ DeadLetterFailed(w) \/ CommitFailed(w) \/ Crash(w)
    PROVE  DeliveryInv' /\ committed' = committed
  <1>1. failures' \in Nat
    BY DEF Unparseable, DeadLetterFailed, CommitFailed, Crash, Fail, DeliveryInv,
           WorkerTypeOK
  <1>2. CASE DeadLetterFailed(w)
    <2>1. item[w] \in Item
      BY <1>2, HeldItem DEF DeadLetterFailed
    <2> QED
      BY <1>1, <1>2, <2>1, HaltStep DEF DeadLetterFailed, Halt
  <1>3. CASE Unparseable(w) \/ CommitFailed(w) \/ Crash(w)
    BY <1>1, <1>3, HaltStep DEF Unparseable, CommitFailed, Crash, Halt
  <1> QED
    BY <1>2, <1>3

-------------------------------------------------------------------------------
(* The specification.                                                        *)

\* Every step keeps the invariant and moves no committed offset back.
LEMMA WorkerStep ==
    ASSUME DeliveryInv, [Next]_vars
    PROVE  /\ DeliveryInv'
           /\ \A p \in Partition : committed'[p] >= committed[p]
  <1>1. \A p \in Partition : committed[p] \in Nat
    BY DEF DeliveryInv, WorkerTypeOK
  <1>2. CASE UNCHANGED vars
    BY <1>1, <1>2 DEF vars, topic, broker, memory, erp, DeliveryInv, WorkerTypeOK,
          SettledBelowCommit, SettledUpTo, Settled, Places, InHand, OneAhead
  <1>3. ASSUME NEW p \in Partition, Publish(p)
        PROVE  DeliveryInv' /\ committed' = committed
    BY <1>3, PublishStep DEF Publish, broker
  <1>4. ASSUME NEW w \in Worker, Loop(w) \/ Crash(w) \/ Restart(w)
        PROVE  DeliveryInv' /\ (committed' = committed \/ Commit(w))
    <2>1. CASE Fetch(w)
      BY <2>1, FetchStep DEF Fetch
    <2>2. CASE Deliver(w)
      BY <2>2, PostStep DEF Deliver, Delivered, ServerError, Rejected, NoAnswer, broker
    <2>3. CASE DeadLettered(w)
      BY <2>3, DeadLetteredStep DEF DeadLettered, broker
    <2>4. CASE Commit(w)
      BY <2>4, CommitStep
    <2>5. CASE Unparseable(w) \/ DeadLetterFailed(w) \/ CommitFailed(w) \/ Crash(w)
      BY <2>5, EndStep
    <2>6. CASE Restart(w)
      BY <2>6, RestartStep DEF Restart, broker
    <2> QED
      BY <1>4, <2>1, <2>2, <2>3, <2>4, <2>5, <2>6 DEF Loop
  <1>5. ASSUME NEW p \in Partition, NEW w \in Worker, Assign(p, w) \/ Rebalance(p, w)
        PROVE  DeliveryInv' /\ committed' = committed
    BY <1>5, HandOver DEF Assign, Rebalance
  <1>6. ASSUME NEW post \in wire, LateArrival(post)
        PROVE  DeliveryInv' /\ committed' = committed
    BY <1>6, LateArrivalStep DEF LateArrival, broker
  <1> QED
    BY <1>1, <1>2, <1>3, <1>4, <1>5, <1>6, CommitStep DEF Next, GroupNext

\* The invariant holds of every behaviour.
THEOREM DeliveryInvariant == Spec => []DeliveryInv
  <1>1. DeliveryInv /\ [Next]_vars => DeliveryInv'
    BY WorkerStep
  <1> QED
    BY InitDelivery, <1>1, PTL DEF Spec

\* The types of the broker, of the loop of worker.py, of the ERP and of the DLQ.
THEOREM WorkerTypes == Spec => []WorkerTypeOK
  <1>1. DeliveryInv => WorkerTypeOK
    BY DEF DeliveryInv
  <1> QED
    BY DeliveryInvariant, <1>1, PTL

\* No order is passed over: whatever a worker, the group, the ERP and the
\* dead-letter topic go through, everything below a committed offset is settled.
THEOREM NothingIsPassedOver == Spec => []SettledBelowCommit
  <1>1. DeliveryInv => SettledBelowCommit
    BY DEF DeliveryInv
  <1> QED
    BY DeliveryInvariant, <1>1, PTL

\* No commit of worker.py moves an offset back, in whatever hands the partition is.
THEOREM CommitsOnlyAdvance == Spec => CommitsMoveForward
  <1>1. DeliveryInv /\ [Next]_vars
           => [\A p \in Partition : committed'[p] >= committed[p]]_vars
    BY WorkerStep
  <1> QED
    BY DeliveryInvariant, <1>1, PTL DEF Spec, CommitsMoveForward

\* A step that hands message x, which worker w has, to the ERP or to the DLQ.
LEMMA OneSettled ==
    ASSUME DeliveryInv, NEW x \in Item, x[2] <= end[x[1]],
           received' \in {received, OneMore(received, x)},
           deadLetters' \in {deadLetters, OneMore(deadLetters, x)}
    PROVE  x \in Sent /\ (Settled' = Settled \/ Settled' = Settled \cup {x})
  <1>1. received \in [Item -> Nat] /\ deadLetters \in [Item -> Nat]
    BY DEF DeliveryInv, WorkerTypeOK
  <1>2. /\ Places(OneMore(received, x)) = Places(received) \cup {x}
        /\ Places(OneMore(deadLetters, x)) = Places(deadLetters) \cup {x}
    BY <1>1, PlacesOneMore
  <1>3. Places(received') \in {Places(received), Places(received) \cup {x}}
    BY <1>2
  <1>4. Places(deadLetters') \in {Places(deadLetters), Places(deadLetters) \cup {x}}
    BY <1>2
  <1>5. Settled' = Places(received') \cup Places(deadLetters')
    BY DEF Settled, Places
  <1> QED
    BY <1>3, <1>4, <1>5 DEF Settled, Sent

\* Steps that move neither the topic nor a committed offset settle at most one
\* message, which was sent.
LEMMA SettleStep ==
    ASSUME DeliveryInv,
           \/ \E w \in Worker : \/ Fetch(w) \/ Unparseable(w) \/ Deliver(w)
                                \/ DeadLettered(w) \/ DeadLetterFailed(w)
                                \/ CommitFailed(w) \/ Crash(w) \/ Restart(w)
           \/ \E p \in Partition, w \in Worker : Assign(p, w) \/ Rebalance(p, w)
           \/ \E post \in wire : LateArrival(post)
    PROVE  /\ end' = end /\ committed' = committed
           /\ Settled' = Settled \/ \E x \in Sent : Settled' = Settled \cup {x}
  <1> USE DEF topic, broker, erp, memory
  <1>1. ASSUME NEW w \in Worker, Deliver(w)
        PROVE  /\ end' = end /\ committed' = committed
               /\ Settled' = Settled \/ \E x \in Sent : Settled' = Settled \cup {x}
    <2>1. pc[w] = "post" /\ end' = end /\ committed' = committed
      BY <1>1 DEF Deliver, Delivered, ServerError, Rejected, NoAnswer
    <2>2. item[w] \in Item /\ item[w][2] <= end[item[w][1]]
      BY <2>1, HeldItem
    <2>3. received' \in {received, OneMore(received, item[w])} /\ deadLetters' = deadLetters
      BY <1>1 DEF Deliver, Delivered, ServerError, Rejected, NoAnswer
    <2> QED
      BY <2>1, <2>2, <2>3, OneSettled
  <1>2. ASSUME NEW w \in Worker, DeadLettered(w) \/ DeadLetterFailed(w)
        PROVE  /\ end' = end /\ committed' = committed
               /\ Settled' = Settled \/ \E x \in Sent : Settled' = Settled \cup {x}
    <2>1. pc[w] = "dead_letter" /\ end' = end /\ committed' = committed
      BY <1>2 DEF DeadLettered, DeadLetterFailed, Halt
    <2>2. item[w] \in Item /\ item[w][2] <= end[item[w][1]]
      BY <2>1, HeldItem
    <2>3. deadLetters' \in {deadLetters, OneMore(deadLetters, item[w])} /\ received' = received
      BY <1>2 DEF DeadLettered, DeadLetterFailed
    <2> QED
      BY <2>1, <2>2, <2>3, OneSettled
  <1>3. ASSUME NEW w \in Worker,
               \/ Fetch(w) \/ Unparseable(w) \/ CommitFailed(w) \/ Crash(w) \/ Restart(w)
        PROVE  end' = end /\ committed' = committed /\ Settled' = Settled
    BY <1>3 DEF Fetch, Unparseable, CommitFailed, Crash, Restart, Halt, Settled, Places
  <1>4. ASSUME NEW p \in Partition, NEW w \in Worker, Assign(p, w) \/ Rebalance(p, w)
        PROVE  end' = end /\ committed' = committed /\ Settled' = Settled
    BY <1>4 DEF Assign, Rebalance, Settled, Places
  <1>5. ASSUME NEW post \in wire, LateArrival(post)
        PROVE  /\ end' = end /\ committed' = committed
               /\ Settled' = Settled \/ \E x \in Sent : Settled' = Settled \cup {x}
    <2>1. post.item \in Item /\ post.item[2] <= end[post.item[1]]
      BY <1>5 DEF DeliveryInv, WorkerTypeOK
    <2>2. /\ received' \in {received, OneMore(received, post.item)}
          /\ deadLetters' = deadLetters /\ end' = end /\ committed' = committed
      BY <1>5 DEF LateArrival
    <2> QED
      BY <2>1, <2>2, OneSettled
  <1> QED
    BY <1>1, <1>2, <1>3, <1>4, <1>5

\* What is committed is settled.
LEMMA AckedIsSettled == DeliveryInv => Acked \subseteq Settled
  <1> SUFFICES ASSUME DeliveryInv, NEW x \in Item, x[2] <= committed[x[1]]
               PROVE  x \in Settled
    BY DEF Acked
  <1>1. x[1] \in Partition /\ x[2] \in Nat \ {0} /\ x = <<x[1], x[2]>>
    BY PlaceOf, EndAssumption
  <1>2. x[2] \in 1..committed[x[1]]
    BY <1>1 DEF DeliveryInv, WorkerTypeOK
  <1> QED
    BY <1>1, <1>2 DEF DeliveryInv, SettledBelowCommit, SettledUpTo

\* A published message is one more place that was sent.
LEMMA PublishSends ==
    ASSUME DeliveryInv, NEW p \in Partition, Publish(p)
    PROVE  /\ <<p, end[p] + 1>> \in Item
           /\ Sent' = Sent \cup {<<p, end[p] + 1>>}
  <1>1. end[p] \in Nat /\ end[p] < MaxEnd[p] /\ end' = [end EXCEPT ![p] = @ + 1]
    BY DEF Publish, DeliveryInv, WorkerTypeOK
  <1>2. end'[p] = end[p] + 1 /\ \A q \in Partition : q # p => end'[q] = end[q]
    BY <1>1 DEF DeliveryInv, WorkerTypeOK
  <1>3. <<p, end[p] + 1>> \in Item
    BY <1>1, PlaceOf
  <1>4. ASSUME NEW x \in Item
        PROVE  x[2] <= end'[x[1]] <=> x[2] <= end[x[1]] \/ x = <<p, end[p] + 1>>
    <2>1. x[1] \in Partition /\ x[2] \in Nat /\ x = <<x[1], x[2]>>
      BY PlaceOf
    <2>2. CASE x[1] = p
      <3>1. x = <<p, end[p] + 1>> <=> x[2] = end[p] + 1
        BY <2>1, <2>2
      <3> QED
        BY <1>1, <1>2, <2>1, <2>2, <3>1
    <2>3. CASE x[1] # p
      BY <1>2, <2>1, <2>3
    <2> QED
      BY <2>2, <2>3
  <1> QED
    BY <1>3, <1>4 DEF Sent

\* Whatever the group does, it settles only what was sent and acknowledges only
\* what is settled: it implements AtLeastOnce.
THEOREM WorkerDelivers == Spec => DeliversAtLeastOnce
  <1>1. Init => Promise!Init
    <2> SUFFICES ASSUME Init PROVE Promise!Init
      OBVIOUS
    <2>1. \A x \in Item : x[1] \in Partition /\ x[2] \in Nat \ {0}
      BY PlaceOf
    <2>2. Sent = {} /\ Acked = {}
      BY <2>1 DEF Init, WorkerInit, Sent, Acked
    <2>3. Settled = {}
      BY DEF Init, WorkerInit, Settled, Places
    <2> QED
      BY <2>2, <2>3 DEF Promise!Init
  <1>2. DeliveryInv /\ DeliveryInv' /\ [Next]_vars => [Promise!Next]_(Promise!promise)
    <2> SUFFICES ASSUME DeliveryInv, DeliveryInv', [Next]_vars
                 PROVE  Promise!Next \/ UNCHANGED Promise!promise
      OBVIOUS
    <2> USE DEF Promise!Next, Promise!promise
    <2>1. CASE UNCHANGED vars
      BY <2>1 DEF vars, topic, broker, memory, erp, Sent, Settled, Acked, Places
    <2>2. ASSUME NEW p \in Partition, Publish(p)
          PROVE  Promise!Next
      <3>1. Settled' = Settled /\ Acked' = Acked
        BY <2>2 DEF Publish, broker, erp, Settled, Places, Acked
      <3> QED
        BY <2>2, <3>1, PublishSends DEF Promise!Send
    <2>3. ASSUME NEW w \in Worker, Commit(w)
          PROVE  Promise!Next
      <3>1. Settled' = Settled /\ Sent' = Sent
        BY <2>3 DEF Commit, topic, erp, Settled, Places, Sent
      <3>2. Acked' \subseteq Settled'
        <4>1. (DeliveryInv => Acked \subseteq Settled)'
          BY AckedIsSettled, PTL
        <4> QED
          BY <4>1
      <3> QED
        BY <3>1, <3>2 DEF Promise!Acknowledge
    <2>4. ASSUME end' = end, committed' = committed,
                 Settled' = Settled \/ \E x \in Sent : Settled' = Settled \cup {x}
          PROVE  Promise!Next \/ UNCHANGED Promise!promise
      <3>1. Sent' = Sent /\ Acked' = Acked
        BY <2>4 DEF Sent, Acked
      <3> QED
        BY <2>4, <3>1 DEF Promise!Settle
    <2> QED
      BY <2>1, <2>2, <2>3, <2>4, SettleStep DEF Next, GroupNext, Loop
  <1> QED
    BY <1>1, <1>2, DeliveryInvariant, PTL DEF Spec, DeliversAtLeastOnce, Promise!Spec

\* So nothing is at the ERP or in the dead-letter topic that was not sent.
LEMMA SettledIsSent == Spec => [](Settled \subseteq Sent)
  <1>1. Promise!Init => Settled \subseteq Sent
    BY DEF Promise!Init
  <1>2. Settled \subseteq Sent /\ [Promise!Next]_(Promise!promise)
           => (Settled \subseteq Sent)'
    BY DEF Promise!Next, Promise!promise, Promise!Send, Promise!Settle,
           Promise!Acknowledge
  <1> QED
    BY <1>1, <1>2, WorkerDelivers, PTL DEF DeliversAtLeastOnce, Promise!Spec


-------------------------------------------------------------------------------
(* How many messages a list has: what FoldFunction adds up, by induction over *)
(* the finite sets of messages.                                              *)

\* The element that a fold takes first, and the function that FoldFunction(+, 0, _)
\* chooses.
First(s) == CHOOSE x \in s : TRUE
SumsUp(sum, list) ==
    sum = [s \in SUBSET (DOMAIN list) |->
             IF s = {} THEN 0 ELSE list[First(s)] + sum[s \ {First(s)}]]

\* One token per message and time it is in the list, for the messages of s.
Tokens(list, s) == UNION {{x} \X (1..list[x]) : x \in s}

\* How many messages a list has, repeats included.
Total(list) == FoldFunction(+, 0, list)

\* A fold applies what it chooses to all of the list.
LEMMA FoldIsSum ==
    ASSUME NEW list
    PROVE  Total(list) = (CHOOSE sum : SumsUp(sum, list))[DOMAIN list]
BY DEF Total, FoldFunction, FoldFunctionOnSet, MapThenFoldSet, SumsUp, First

\* The tokens of one message.
LEMMA TokensOfOne ==
    ASSUME NEW x, NEW n \in Nat
    PROVE  IsFiniteSet({x} \X (1..n)) /\ Cardinality({x} \X (1..n)) = n
<1>1. IsFiniteSet({x}) /\ Cardinality({x}) = 1
  BY FS_Singleton
<1>2. IsFiniteSet(1..n) /\ Cardinality(1..n) = n
  <2>1. IsFiniteSet(1..n) /\ Cardinality(1..n) = IF 1 > n THEN 0 ELSE n - 1 + 1
    BY FS_Interval
  <2>2. QED
    BY <2>1
<1>3. /\ IsFiniteSet({x} \X (1..n))
      /\ Cardinality({x} \X (1..n)) = Cardinality({x}) * Cardinality(1..n)
  BY <1>1, <1>2, FS_Product
<1>4. 1 * n = n
  OBVIOUS
<1>5. QED
  BY <1>1, <1>2, <1>3, <1>4

\* The tokens of finitely many messages are finitely many.
LEMMA TokensFinite ==
    ASSUME NEW S, IsFiniteSet(S), NEW list \in [S -> Nat], NEW s \in SUBSET S
    PROVE  IsFiniteSet(Tokens(list, s)) /\ Cardinality(Tokens(list, s)) \in Nat
<1> DEFINE f == [x \in s |-> {x} \X (1..list[x])]
           T == {{x} \X (1..list[x]) : x \in s}
<1>1. IsFiniteSet(s)
  BY FS_Subset
<1>2. f \in Surjection(s, T)
  BY DEF Surjection
<1>3. IsFiniteSet(T)
  <2> HIDE DEF f, T
  <2>1. QED
    BY <1>1, <1>2, FS_Surjection
<1>4. \A t \in T : IsFiniteSet(t)
  <2> SUFFICES ASSUME NEW x \in s
               PROVE  IsFiniteSet({x} \X (1..list[x]))
    OBVIOUS
  <2>1. list[x] \in Nat
    OBVIOUS
  <2>2. QED
    BY <2>1, TokensOfOne
<1>5. IsFiniteSet(UNION T)
  <2> HIDE DEF T
  <2>1. QED
    BY <1>3, <1>4, FS_UNION
<1>6. QED
  BY <1>5, FS_CardinalityType DEF Tokens

\* A message has as many tokens as times it is in the list.
LEMMA TokensAdd ==
    ASSUME NEW S, IsFiniteSet(S), NEW list \in [S -> Nat], NEW s \in SUBSET S,
           NEW x \in s
    PROVE  Cardinality(Tokens(list, s)) = list[x] + Cardinality(Tokens(list, s \ {x}))
<1> DEFINE one  == {x} \X (1..list[x])
           rest == Tokens(list, s \ {x})
<1>1. list[x] \in Nat
  OBVIOUS
<1>2. IsFiniteSet(one) /\ Cardinality(one) = list[x]
  BY <1>1, TokensOfOne
<1>3. IsFiniteSet(rest) /\ Cardinality(rest) \in Nat
  BY TokensFinite
<1>4. Tokens(list, s) = one \cup rest
  BY DEF Tokens
<1>5. one \cap rest = {}
  BY DEF Tokens
<1> HIDE DEF one, rest
<1>6. Cardinality(one \cup rest)
         = Cardinality(one) + Cardinality(rest) - Cardinality(one \cap rest)
  BY <1>2, <1>3, FS_Union
<1>7. Cardinality(one \cap rest) = 0
  BY <1>5, FS_EmptySet
<1>8. Cardinality(one \cup rest) = list[x] + Cardinality(rest)
  BY <1>1, <1>2, <1>3, <1>6, <1>7
<1>9. QED
  BY <1>4, <1>8 DEF rest

\* The function that a fold chooses exists.
LEMMA SumExists ==
    ASSUME NEW S, IsFiniteSet(S), NEW list \in [S -> Nat]
    PROVE  \E sum : SumsUp(sum, list)
<1> DEFINE count == [s \in SUBSET S |-> Cardinality(Tokens(list, s))]
<1>1. ASSUME NEW s \in SUBSET S, s # {}
      PROVE  count[s] = list[First(s)] + count[s \ {First(s)}]
  <2>1. First(s) \in s
    BY <1>1 DEF First
  <2>2. QED
    BY <2>1, TokensAdd
<1>2. count[{}] = 0
  <2>1. Tokens(list, {}) = {}
    BY DEF Tokens
  <2>2. QED
    BY <2>1, FS_EmptySet
<1>3. count = [s \in SUBSET S |->
                 IF s = {} THEN 0 ELSE list[First(s)] + count[s \ {First(s)}]]
  <2>1. ASSUME NEW s \in SUBSET S
        PROVE  count[s] = IF s = {} THEN 0 ELSE list[First(s)] + count[s \ {First(s)}]
    <3> HIDE DEF count
    <3>1. QED
      BY <1>1, <1>2
  <2>2. QED
    <3> DEFINE rec(s) == IF s = {} THEN 0 ELSE list[First(s)] + count[s \ {First(s)}]
    <3>1. \A s \in SUBSET S : count[s] = rec(s)
      BY <2>1
    <3>2. count = [s \in SUBSET S |-> count[s]]
      OBVIOUS
    <3> HIDE DEF count, rec
    <3>3. count = [s \in SUBSET S |-> rec(s)]
      BY <3>1, <3>2
    <3>4. QED
      BY <3>3 DEF rec
<1> HIDE DEF count
<1>4. DOMAIN list = S
  OBVIOUS
<1>5. QED
  BY <1>3, <1>4 DEF SumsUp

\* A fold with + counts the tokens.
LEMMA FoldCounts ==
    ASSUME NEW S, IsFiniteSet(S), NEW list \in [S -> Nat]
    PROVE  Total(list) = Cardinality(Tokens(list, S))
<1> DEFINE sum == CHOOSE sum : SumsUp(sum, list)
           Bad == {s \in SUBSET S : sum[s] # Cardinality(Tokens(list, s))}
<1>1. DOMAIN list = S
  OBVIOUS
<1>2. sum = [s \in SUBSET S |-> IF s = {} THEN 0 ELSE list[First(s)] + sum[s \ {First(s)}]]
  <2>1. SumsUp(sum, list)
    BY SumExists
  <2>2. QED
    BY <1>1, <2>1 DEF SumsUp
<1> HIDE DEF sum
<1>3. ASSUME Bad # {}
      PROVE  FALSE
  <2>1. IsWellFoundedOn(StrictSubsetOrdering(S), SUBSET S)
    BY FS_StrictSubsetOrderingWellFounded, FS_FiniteSubsetsOfFinite
  <2>2. Bad \subseteq SUBSET S
    OBVIOUS
  <2>3. \E s \in Bad : \A t \in Bad : ~(<<t, s>> \in StrictSubsetOrdering(S))
    <3> HIDE DEF Bad
    <3>1. QED
      BY <1>3, <2>1, <2>2, WFMin
  <2>4. PICK s \in Bad : \A t \in Bad : ~(<<t, s>> \in StrictSubsetOrdering(S))
    BY <2>3
  <2>5. s \in SUBSET S /\ sum[s] # Cardinality(Tokens(list, s))
    OBVIOUS
  <2>6. CASE s = {}
    <3>1. Tokens(list, s) = {} /\ sum[s] = 0
      BY <1>2, <2>6 DEF Tokens
    <3>2. QED
      BY <2>5, <3>1, FS_EmptySet
  <2>7. CASE s # {}
    <3> DEFINE x == First(s)
               t == s \ {x}
    <3>1. x \in s
      BY <2>7 DEF First
    <3>2. t \in SUBSET S /\ t # s /\ t \subseteq s
      BY <2>5, <3>1
    <3>3. t \notin Bad
      BY <2>4, <2>5, <3>2 DEF StrictSubsetOrdering
    <3>4. sum[t] = Cardinality(Tokens(list, t))
      BY <3>2, <3>3
    <3>5. sum[s] = list[x] + sum[t]
      BY <1>2, <2>5, <2>7
    <3>6. Cardinality(Tokens(list, s)) = list[x] + Cardinality(Tokens(list, t))
      BY <2>5, <3>1, TokensAdd
    <3>7. QED
      BY <2>5, <3>4, <3>5, <3>6
  <2>8. QED
    BY <2>6, <2>7
<1>4. sum[S] = Cardinality(Tokens(list, S))
  BY <1>3
<1>5. QED
  BY <1>1, <1>4, FoldIsSum DEF sum

\* A list with a message more is longer by one.
LEMMA OneMoreCounts ==
    ASSUME NEW S, IsFiniteSet(S), NEW list \in [S -> Nat], NEW x \in S
    PROVE  /\ Total(list) \in Nat
           /\ Total(OneMore(list, x)) = Total(list) + 1
<1> DEFINE more == OneMore(list, x)
           rest == S \ {x}
<1>1. more \in [S -> Nat] /\ more[x] = list[x] + 1 /\ \A y \in rest : more[y] = list[y]
  BY DEF OneMore
<1>2. Tokens(more, rest) = Tokens(list, rest)
  BY <1>1 DEF Tokens
<1> HIDE DEF more, rest
<1>3. Cardinality(Tokens(list, S)) = list[x] + Cardinality(Tokens(list, rest))
  BY TokensAdd DEF rest
<1>4. Cardinality(Tokens(more, S)) = more[x] + Cardinality(Tokens(more, rest))
  BY <1>1, TokensAdd DEF rest
<1>5. Cardinality(Tokens(list, rest)) \in Nat /\ list[x] \in Nat
  BY TokensFinite DEF rest
<1>6. /\ Total(list) = Cardinality(Tokens(list, S))
      /\ Total(more) = Cardinality(Tokens(more, S))
  BY <1>1, FoldCounts
<1>7. /\ Cardinality(Tokens(list, S)) \in Nat
      /\ Cardinality(Tokens(more, S)) = Cardinality(Tokens(list, S)) + 1
  BY <1>1, <1>2, <1>3, <1>4, <1>5
<1>8. QED
  BY <1>6, <1>7 DEF more

\* An empty list counts nothing.
LEMMA NoneCounts ==
    ASSUME NEW S, IsFiniteSet(S), NEW list, list = [x \in S |-> 0]
    PROVE  Total(list) = 0
<1>1. list \in [S -> Nat] /\ Tokens(list, S) = {}
  BY DEF Tokens
<1>2. QED
  BY <1>1, FoldCounts, FS_EmptySet

-------------------------------------------------------------------------------
(* What is delivered again has a cause.                                      *)

\* A worker that has a message to post or to dead-letter.
Handing(w) == pc[w] \in {"post", "dead_letter"}

\* It is not the one that the broker's offsets wait for, or the message is
\* settled already: what it hands over comes on top.
Stray(w) == /\ Handing(w)
            /\ \/ owner[item[w][1]] # w
               \/ position[item[w][1]] # item[w][2]
               \/ item[w] \in Settled

\* The next message to be read of the partition is settled: it is read again.
Again(p) == /\ <<p, committed[p] + 1>> \in Settled
            /\ owner[p] = None \/ position[p] = committed[p]

\* Repeats to come, each of which a failure has caused already.
Debts == {<<"hand", w>> : w \in {v \in Worker : Stray(v)}}
         \cup {<<"read", p>> : p \in {q \in Partition : Again(q)}}
         \cup {<<"wire", post>> : post \in wire}

\* Nothing that is settled, in hand or on the wire is further than one message
\* past the committed offset.
Near(x) == x[2] <= committed[x[1]] + 1
AllNear == /\ \A x \in Settled : Near(x)
           /\ \A w \in Worker : item[w] # None => Near(item[w])
           /\ \A post \in wire : Near(post.item)

\* The repeats that happened and those to come are paid for.
Paid == /\ IsFiniteSet(Debts)
        /\ Total(received) + Total(deadLetters) + Cardinality(Debts)
              <= Cardinality(Settled) + failures

\* The partitions of a topic are finitely many, and so are its places.
LEMMA ItemsFinite == IsFiniteSet(Item)
<1> DEFINE f == [p \in Partition |-> {p} \X (1..MaxEnd[p])]
           T == {{p} \X (1..MaxEnd[p]) : p \in Partition}
<1>1. f \in Surjection(Partition, T)
  BY DEF Surjection
<1>2. IsFiniteSet(T)
  <2> HIDE DEF f, T
  <2>1. QED
    BY <1>1, PartitionAssumption, FS_Surjection
<1>3. \A t \in T : IsFiniteSet(t)
  <2> SUFFICES ASSUME NEW p \in Partition
               PROVE  IsFiniteSet({p} \X (1..MaxEnd[p]))
    OBVIOUS
  <2>1. MaxEnd[p] \in Nat
    OBVIOUS
  <2>2. QED
    BY <2>1, TokensOfOne
<1>4. IsFiniteSet(UNION T)
  <2> HIDE DEF T
  <2>1. QED
    BY <1>2, <1>3, FS_UNION
<1>5. QED
  BY <1>4 DEF Item

\* The numbers that Paid compares are numbers.
LEMMA PaidTypes ==
    ASSUME DeliveryInv
    PROVE  /\ Total(received) \in Nat /\ Total(deadLetters) \in Nat
           /\ \A x \in Item : /\ Total(OneMore(received, x)) = Total(received) + 1
                              /\ Total(OneMore(deadLetters, x)) = Total(deadLetters) + 1
           /\ IsFiniteSet(Settled) /\ Cardinality(Settled) \in Nat
           /\ failures \in Nat
<1>1. received \in [Item -> Nat] /\ deadLetters \in [Item -> Nat] /\ failures \in Nat
  BY DEF DeliveryInv, WorkerTypeOK
<1>2. Total(received) \in Nat /\ Total(deadLetters) \in Nat
  BY <1>1, ItemsFinite, TokensFinite, FoldCounts
<1>3. \A x \in Item : /\ Total(OneMore(received, x)) = Total(received) + 1
                      /\ Total(OneMore(deadLetters, x)) = Total(deadLetters) + 1
  BY <1>1, ItemsFinite, OneMoreCounts
<1>4. Settled \subseteq Item
  BY DEF Settled, Places
<1>5. IsFiniteSet(Settled) /\ Cardinality(Settled) \in Nat
  BY <1>4, ItemsFinite, FS_Subset, FS_CardinalityType
<1>6. QED
  BY <1>1, <1>2, <1>3, <1>5

\* What a set may gain and lose, in numbers.
LEMMA Exchange ==
    ASSUME NEW L, IsFiniteSet(L), NEW M
    PROVE  /\ Cardinality(L) \in Nat
           /\ M \subseteq L =>
                 /\ IsFiniteSet(M) /\ Cardinality(M) \in Nat
                 /\ Cardinality(M) <= Cardinality(L)
           /\ \A b : M \subseteq L \cup {b} =>
                 /\ IsFiniteSet(M) /\ Cardinality(M) \in Nat
                 /\ Cardinality(M) <= Cardinality(L) + 1
           /\ \A a \in L : M \subseteq L \ {a} =>
                 /\ IsFiniteSet(M) /\ Cardinality(M) \in Nat
                 /\ Cardinality(M) + 1 <= Cardinality(L)
           /\ \A a \in L : \A b : M \subseteq (L \ {a}) \cup {b} =>
                 /\ IsFiniteSet(M) /\ Cardinality(M) \in Nat
                 /\ Cardinality(M) <= Cardinality(L)
<1>1. Cardinality(L) \in Nat
  BY FS_CardinalityType
<1>2. ASSUME NEW N, IsFiniteSet(N), M \subseteq N
      PROVE  /\ IsFiniteSet(M) /\ Cardinality(M) \in Nat /\ Cardinality(N) \in Nat
             /\ Cardinality(M) <= Cardinality(N)
  BY <1>2, FS_Subset, FS_CardinalityType
<1>3. ASSUME NEW N, IsFiniteSet(N), NEW b
      PROVE  /\ IsFiniteSet(N \cup {b})
             /\ Cardinality(N \cup {b}) \in {Cardinality(N), Cardinality(N) + 1}
  BY <1>3, FS_AddElement
<1>4. ASSUME NEW a \in L
      PROVE  /\ IsFiniteSet(L \ {a}) /\ Cardinality(L \ {a}) \in Nat
             /\ Cardinality(L \ {a}) + 1 = Cardinality(L)
  <2>1. IsFiniteSet(L \ {a}) /\ Cardinality(L \ {a}) = Cardinality(L) - 1
    BY FS_RemoveElement
  <2>2. Cardinality(L \ {a}) \in Nat
    BY <2>1, FS_CardinalityType
  <2>3. QED
    BY <1>1, <2>1, <2>2
<1>5. ASSUME M \subseteq L
      PROVE  /\ IsFiniteSet(M) /\ Cardinality(M) \in Nat
             /\ Cardinality(M) <= Cardinality(L)
  BY <1>2, <1>5
<1>6. ASSUME NEW b, M \subseteq L \cup {b}
      PROVE  /\ IsFiniteSet(M) /\ Cardinality(M) \in Nat
             /\ Cardinality(M) <= Cardinality(L) + 1
  <2>1. /\ IsFiniteSet(L \cup {b})
        /\ Cardinality(L \cup {b}) \in {Cardinality(L), Cardinality(L) + 1}
    BY <1>3
  <2>2. /\ IsFiniteSet(M) /\ Cardinality(M) \in Nat
        /\ Cardinality(M) <= Cardinality(L \cup {b})
    BY <1>2, <1>6, <2>1
  <2>3. QED
    BY <1>1, <2>1, <2>2
<1>7. ASSUME NEW a \in L, M \subseteq L \ {a}
      PROVE  /\ IsFiniteSet(M) /\ Cardinality(M) \in Nat
             /\ Cardinality(M) + 1 <= Cardinality(L)
  <2>1. /\ IsFiniteSet(L \ {a}) /\ Cardinality(L \ {a}) \in Nat
        /\ Cardinality(L \ {a}) + 1 = Cardinality(L)
    BY <1>4
  <2>2. /\ IsFiniteSet(M) /\ Cardinality(M) \in Nat
        /\ Cardinality(M) <= Cardinality(L \ {a})
    BY <1>2, <1>7, <2>1
  <2>3. QED
    BY <1>1, <2>1, <2>2
<1>8. ASSUME NEW a \in L, NEW b, M \subseteq (L \ {a}) \cup {b}
      PROVE  /\ IsFiniteSet(M) /\ Cardinality(M) \in Nat
             /\ Cardinality(M) <= Cardinality(L)
  <2> DEFINE N == L \ {a}
  <2>1. /\ IsFiniteSet(N) /\ Cardinality(N) \in Nat
        /\ Cardinality(N) + 1 = Cardinality(L)
    BY <1>4
  <2> HIDE DEF N
  <2>2. /\ IsFiniteSet(N \cup {b})
        /\ Cardinality(N \cup {b}) \in {Cardinality(N), Cardinality(N) + 1}
    BY <1>3, <2>1
  <2>3. /\ IsFiniteSet(M) /\ Cardinality(M) \in Nat
        /\ Cardinality(M) <= Cardinality(N \cup {b})
    BY <1>2, <1>8, <2>2 DEF N
  <2>4. QED
    BY <1>1, <2>1, <2>2, <2>3
<1>9. QED
  BY <1>1, <1>5, <1>6, <1>7, <1>8

\* Debts by their kind.
LEMMA DebtKinds ==
    /\ \A w \in Worker : Stray(w) <=> <<"hand", w>> \in Debts
    /\ \A p \in Partition : Again(p) <=> <<"read", p>> \in Debts
    /\ \A post \in wire : <<"wire", post>> \in Debts
BY DEF Debts

\* What the debts after a step are among.
LEMMA DebtsAmong ==
    ASSUME NEW X,
           \A w \in Worker : Stray(w)' => <<"hand", w>> \in X,
           \A p \in Partition : Again(p)' => <<"read", p>> \in X,
           \A post \in wire' : <<"wire", post>> \in X
    PROVE  Debts' \subseteq X
BY DEF Debts

\* A step that hands nothing over makes a debt only by a failure.
LEMMA NothingHandedOver ==
    ASSUME DeliveryInv, DeliveryInv', Paid,
           UNCHANGED <<received, deadLetters>>,
           \/ /\ failures' = failures
              /\ \/ Debts' \subseteq Debts
                 \/ \E a \in Debts : \E b : Debts' \subseteq (Debts \ {a}) \cup {b}
           \/ /\ failures' = failures + 1
              /\ \E b : Debts' \subseteq Debts \cup {b}
    PROVE  Paid'
<1> DEFINE D == Debts
           E == Debts'
           n == Total(received) + Total(deadLetters)
           s == Cardinality(Settled)
<1>1. IsFiniteSet(D) /\ n + Cardinality(D) <= s + failures
  BY DEF Paid
<1>2. n \in Nat /\ s \in Nat /\ failures \in Nat
  BY PaidTypes
<1>3. Settled' = Settled
  BY DEF Settled, Places
<1> HIDE DEF D, E, n, s
<1>4. /\ Cardinality(D) \in Nat /\ Cardinality(E) \in Nat /\ IsFiniteSet(E)
      /\ Cardinality(E) + failures <= Cardinality(D) + failures'
  <2>1. Cardinality(D) \in Nat
    BY <1>1, Exchange
  <2>2. CASE failures' = failures /\ E \subseteq D
    BY <1>1, <1>2, <2>2, Exchange
  <2>3. CASE failures' = failures /\ \E a \in D : \E b : E \subseteq (D \ {a}) \cup {b}
    <3>1. IsFiniteSet(E) /\ Cardinality(E) \in Nat /\ Cardinality(E) <= Cardinality(D)
      BY <1>1, <2>3, Exchange
    <3>2. QED
      BY <1>2, <2>1, <2>3, <3>1
  <2>4. CASE failures' = failures + 1 /\ \E b : E \subseteq D \cup {b}
    <3>1. /\ IsFiniteSet(E) /\ Cardinality(E) \in Nat
          /\ Cardinality(E) <= Cardinality(D) + 1
      BY <1>1, <2>4, Exchange
    <3>2. QED
      BY <1>2, <2>1, <2>4, <3>1
  <2>5. QED
    BY <2>2, <2>3, <2>4 DEF D, E
<1>5. failures' \in Nat
  BY <1>2
<1>6. n + Cardinality(E) <= s + failures'
  BY <1>1, <1>2, <1>4, <1>5
<1>7. QED
  BY <1>3, <1>4, <1>6 DEF Paid, E, n, s

\* The ERP or the DLQ gets message x, once.
HandsOver(x) ==
    \/ received' = OneMore(received, x) /\ UNCHANGED deadLetters
    \/ deadLetters' = OneMore(deadLetters, x) /\ UNCHANGED received

\* It is settled from then on.
LEMMA HandedOver ==
    ASSUME DeliveryInv, NEW x \in Item, HandsOver(x)
    PROVE  /\ Settled' = Settled \cup {x}
           /\ Total(received)' + Total(deadLetters)'
                 = Total(received) + Total(deadLetters) + 1
           /\ Cardinality(Settled') =
                 Cardinality(Settled) + IF x \in Settled THEN 0 ELSE 1
<1>1. received \in [Item -> Nat] /\ deadLetters \in [Item -> Nat]
  BY DEF DeliveryInv, WorkerTypeOK
<1>2. /\ Places(OneMore(received, x)) = Places(received) \cup {x}
      /\ Places(OneMore(deadLetters, x)) = Places(deadLetters) \cup {x}
  BY <1>1, PlacesOneMore
<1>3. Settled' = Places(received') \cup Places(deadLetters')
  BY DEF Settled, Places
<1>4. Settled' = Settled \cup {x}
  BY <1>2, <1>3 DEF Settled, HandsOver
<1>5. Total(received)' = Total(received') /\ Total(deadLetters)' = Total(deadLetters')
  BY DEF Total, FoldFunction, FoldFunctionOnSet, MapThenFoldSet
<1>6. Total(received') + Total(deadLetters') = Total(received) + Total(deadLetters) + 1
  <2>1. /\ Total(received) \in Nat /\ Total(deadLetters) \in Nat
        /\ Total(OneMore(received, x)) = Total(received) + 1
        /\ Total(OneMore(deadLetters, x)) = Total(deadLetters) + 1
    BY PaidTypes
  <2>2. CASE received' = OneMore(received, x) /\ deadLetters' = deadLetters
    BY <2>1, <2>2
  <2>3. CASE deadLetters' = OneMore(deadLetters, x) /\ received' = received
    BY <2>1, <2>3
  <2>4. QED
    BY <2>2, <2>3 DEF HandsOver
<1>7. Cardinality(Settled') = Cardinality(Settled) + IF x \in Settled THEN 0 ELSE 1
  <2>1. IsFiniteSet(Settled) /\ Cardinality(Settled) \in Nat
    BY PaidTypes
  <2>2. Cardinality(Settled \cup {x}) =
           IF x \in Settled THEN Cardinality(Settled) ELSE Cardinality(Settled) + 1
    BY <2>1, FS_AddElement
  <2>3. QED
    BY <1>4, <2>1, <2>2
<1>8. QED
  BY <1>4, <1>5, <1>6, <1>7

\* A message that is settled is handed over again to pay a debt, or by a failure.
LEMMA HandedOverAgain ==
    ASSUME DeliveryInv, DeliveryInv', Paid,
           NEW x \in Item, HandsOver(x), x \in Settled,
           \/ /\ failures' = failures
              /\ \E a \in Debts : Debts' \subseteq Debts \ {a}
           \/ /\ failures' = failures + 1
              /\ \/ Debts' \subseteq Debts
                 \/ \E a \in Debts : \E b : Debts' \subseteq (Debts \ {a}) \cup {b}
    PROVE  Paid'
<1> DEFINE D == Debts
           E == Debts'
           n == Total(received) + Total(deadLetters)
           m == Total(received)' + Total(deadLetters)'
           s == Cardinality(Settled)
<1>1. IsFiniteSet(D) /\ n + Cardinality(D) <= s + failures
  BY DEF Paid
<1>2. n \in Nat /\ s \in Nat /\ failures \in Nat
  BY PaidTypes
<1>3. m = n + 1 /\ Cardinality(Settled') = s
  BY <1>2, HandedOver
<1> HIDE DEF D, E, n, m, s
<1>4. /\ Cardinality(D) \in Nat /\ Cardinality(E) \in Nat /\ IsFiniteSet(E)
      /\ Cardinality(E) + 1 + failures <= Cardinality(D) + failures'
  <2>1. Cardinality(D) \in Nat
    BY <1>1, Exchange
  <2>2. CASE failures' = failures /\ \E a \in D : E \subseteq D \ {a}
    <3>1. IsFiniteSet(E) /\ Cardinality(E) \in Nat
          /\ Cardinality(E) + 1 <= Cardinality(D)
      BY <1>1, <2>2, Exchange
    <3>2. QED
      BY <1>2, <2>1, <2>2, <3>1
  <2>3. CASE /\ failures' = failures + 1
             /\ \/ E \subseteq D
                \/ \E a \in D : \E b : E \subseteq (D \ {a}) \cup {b}
    <3>1. IsFiniteSet(E) /\ Cardinality(E) \in Nat /\ Cardinality(E) <= Cardinality(D)
      <4>1. CASE E \subseteq D
        BY <1>1, <4>1, Exchange
      <4>2. CASE \E a \in D : \E b : E \subseteq (D \ {a}) \cup {b}
        BY <1>1, <4>2, Exchange
      <4>3. QED
        BY <2>3, <4>1, <4>2
    <3>2. QED
      BY <1>2, <2>1, <2>3, <3>1
  <2>4. QED
    BY <2>2, <2>3 DEF D, E
<1>5. failures' \in Nat
  BY DEF DeliveryInv, WorkerTypeOK
<1>6. m + Cardinality(E) <= s + failures'
  BY <1>1, <1>2, <1>3, <1>4, <1>5
<1>7. QED
  BY <1>3, <1>4, <1>6 DEF Paid, E, m, s

\* A message that is not settled is handed over; one more debt than before needs
\* a failure.
LEMMA HandedOverFirst ==
    ASSUME DeliveryInv, DeliveryInv', Paid,
           NEW x \in Item, HandsOver(x), x \notin Settled,
           \/ /\ failures' = failures
              /\ \/ Debts' \subseteq Debts
                 \/ \E a \in Debts : \E b : Debts' \subseteq (Debts \ {a}) \cup {b}
           \/ /\ failures' = failures + 1
              /\ \E b : Debts' \subseteq Debts \cup {b}
    PROVE  Paid'
<1> DEFINE D == Debts
           E == Debts'
           n == Total(received) + Total(deadLetters)
           m == Total(received)' + Total(deadLetters)'
           s == Cardinality(Settled)
<1>1. IsFiniteSet(D) /\ n + Cardinality(D) <= s + failures
  BY DEF Paid
<1>2. n \in Nat /\ s \in Nat /\ failures \in Nat
  BY PaidTypes
<1>3. m = n + 1 /\ Cardinality(Settled') = s + 1
  BY <1>2, HandedOver
<1> HIDE DEF D, E, n, m, s
<1>4. /\ Cardinality(D) \in Nat /\ Cardinality(E) \in Nat /\ IsFiniteSet(E)
      /\ Cardinality(E) + failures <= Cardinality(D) + failures'
  <2>1. Cardinality(D) \in Nat
    BY <1>1, Exchange
  <2>2. CASE /\ failures' = failures
             /\ \/ E \subseteq D
                \/ \E a \in D : \E b : E \subseteq (D \ {a}) \cup {b}
    <3>1. IsFiniteSet(E) /\ Cardinality(E) \in Nat /\ Cardinality(E) <= Cardinality(D)
      <4>1. CASE E \subseteq D
        BY <1>1, <4>1, Exchange
      <4>2. CASE \E a \in D : \E b : E \subseteq (D \ {a}) \cup {b}
        BY <1>1, <4>2, Exchange
      <4>3. QED
        BY <2>2, <4>1, <4>2
    <3>2. QED
      BY <1>2, <2>1, <2>2, <3>1
  <2>3. CASE failures' = failures + 1 /\ \E b : E \subseteq D \cup {b}
    <3>1. /\ IsFiniteSet(E) /\ Cardinality(E) \in Nat
          /\ Cardinality(E) <= Cardinality(D) + 1
      BY <1>1, <2>3, Exchange
    <3>2. QED
      BY <1>2, <2>1, <2>3, <3>1
  <2>4. QED
    BY <2>2, <2>3 DEF D, E
<1>5. failures' \in Nat
  BY DEF DeliveryInv, WorkerTypeOK
<1>6. m + Cardinality(E) <= s + 1 + failures'
  BY <1>1, <1>2, <1>3, <1>4, <1>5
<1>7. QED
  BY <1>3, <1>4, <1>6 DEF Paid, E, m, s

\* Who brings message x if the offsets wait for it: the owner that has it in hand,
\* or whoever reads the partition next.
Carrier(x) == IF owner[x[1]] # None /\ position[x[1]] = x[2]
              THEN <<"hand", owner[x[1]]>>
              ELSE <<"read", x[1]>>

\* Who hands a message over makes a repeat of at most one that is to come.
LEMMA OneCarrier ==
    ASSUME DeliveryInv, NEW x \in Item,
           Settled' = Settled \cup {x}, UNCHANGED broker
    PROVE  /\ \A v \in Worker :
                 Handing(v) /\ item'[v] = item[v] /\ Stray(v)' =>
                    \/ Stray(v)
                    \/ x \notin Settled /\ <<"hand", v>> = Carrier(x)
           /\ \A p \in Partition : Again(p)' =>
                    \/ Again(p)
                    \/ x \notin Settled /\ <<"read", p>> = Carrier(x)
<1>1. UNCHANGED <<owner, committed, position>>
  BY DEF broker
<1>2. ASSUME NEW v \in Worker, Handing(v), item'[v] = item[v], Stray(v)', ~Stray(v)
      PROVE  x \notin Settled /\ <<"hand", v>> = Carrier(x)
  <2>1. /\ owner[item[v][1]] = v /\ position[item[v][1]] = item[v][2]
        /\ item[v] \notin Settled
    BY <1>2 DEF Stray
  <2>2. item[v] \in Settled'
    BY <1>1, <1>2, <2>1 DEF Stray
  <2>3. item[v] = x
    BY <2>1, <2>2
  <2>4. v # None
    BY NoneAssumption
  <2>5. QED
    BY <2>1, <2>3, <2>4 DEF Carrier
<1>3. ASSUME NEW p \in Partition, Again(p)', ~Again(p)
      PROVE  x \notin Settled /\ <<"read", p>> = Carrier(x)
  <2>1. /\ <<p, committed[p] + 1>> \in Settled'
        /\ owner[p] = None \/ position[p] = committed[p]
    BY <1>1, <1>3 DEF Again
  <2>2. <<p, committed[p] + 1>> \notin Settled
    BY <1>3, <2>1 DEF Again
  <2>3. x = <<p, committed[p] + 1>>
    BY <2>1, <2>2
  <2>4. x[1] = p /\ x[2] = committed[p] + 1
    BY <2>3
  <2>5. owner[p] = None \/ position[p] # x[2]
    BY <2>1, <2>4 DEF DeliveryInv, WorkerTypeOK
  <2>6. QED
    BY <2>2, <2>3, <2>4, <2>5 DEF Carrier
<1>4. QED
  BY <1>2, <1>3

\* Delivered, DeadLettered: the worker hands its message over and is done with it.
LEMMA HandingDone ==
    ASSUME DeliveryInv, DeliveryInv', Paid, NEW w \in Worker,
           Delivered(w) \/ DeadLettered(w)
    PROVE  Paid'
<1> DEFINE x == item[w]
<1>1. Handing(w) /\ x \in Item
  BY HeldItem DEF Delivered, DeadLettered, Handing
<1>2. /\ HandsOver(x) /\ UNCHANGED <<broker, item, wire, failures>>
      /\ ~Handing(w)'
      /\ \A v \in Worker : v # w => pc'[v] = pc[v]
  <2>1. pc \in [Worker -> {"down", "fetch", "post", "dead_letter", "commit"}]
    BY DEF DeliveryInv, WorkerTypeOK
  <2>2. QED
    BY <2>1 DEF Delivered, DeadLettered, GoOn, HandsOver, Handing, erp
<1>3. Settled' = Settled \cup {x}
  BY <1>1, <1>2, HandedOver
<1>4. \A v \in Worker : Stray(v)' => v # w /\ Handing(v) /\ item'[v] = item[v]
  BY <1>2 DEF Stray, Handing
<1>5. CASE x \in Settled
  <2> DEFINE a == <<"hand", w>>
  <2>1. a \in Debts
    BY <1>1, <1>5, DebtKinds DEF Stray
  <2>2. \A v \in Worker : Stray(v)' => <<"hand", v>> \in Debts \ {a}
    BY <1>1, <1>2, <1>3, <1>4, <1>5, OneCarrier, DebtKinds
  <2>3. \A p \in Partition : Again(p)' => <<"read", p>> \in Debts \ {a}
    BY <1>1, <1>2, <1>3, <1>5, OneCarrier, DebtKinds
  <2>4. \A post \in wire' : <<"wire", post>> \in Debts \ {a}
    BY <1>2, DebtKinds
  <2> HIDE DEF a
  <2>5. Debts' \subseteq Debts \ {a}
    BY <2>2, <2>3, <2>4, DebtsAmong
  <2> HIDE DEF x
  <2>6. QED
    BY <1>1, <1>2, <1>5, <2>1, <2>5, HandedOverAgain
<1>6. CASE x \notin Settled
  <2> DEFINE a == <<"hand", w>>
             b == Carrier(x)
  <2>1. \A v \in Worker : Stray(v)' => <<"hand", v>> \in (Debts \ {a}) \cup {b}
    BY <1>1, <1>2, <1>3, <1>4, OneCarrier, DebtKinds
  <2>2. \A p \in Partition : Again(p)' => <<"read", p>> \in (Debts \ {a}) \cup {b}
    BY <1>1, <1>2, <1>3, OneCarrier, DebtKinds
  <2>3. \A post \in wire' : <<"wire", post>> \in (Debts \ {a}) \cup {b}
    BY <1>2, DebtKinds
  <2>4. a \in Debts \/ a = b
    BY <1>1, <1>6, DebtKinds, NoneAssumption DEF Stray, Carrier
  <2>5. CASE a \in Debts
    <3> HIDE DEF a, b
    <3>1. Debts' \subseteq (Debts \ {a}) \cup {b}
      BY <2>1, <2>2, <2>3, DebtsAmong
    <3> HIDE DEF x
    <3>2. QED
      BY <1>1, <1>2, <1>6, <2>5, <3>1, HandedOverFirst
  <2>6. CASE a = b
    <3>1. \A v \in Worker : Stray(v)' => <<"hand", v>> \in Debts
      BY <1>4, <2>1, <2>6
    <3>2. \A p \in Partition : Again(p)' => <<"read", p>> \in Debts
      BY <2>2, <2>6
    <3>3. \A post \in wire' : <<"wire", post>> \in Debts
      BY <1>2, DebtKinds
    <3>4. Debts' \subseteq Debts
      BY <3>1, <3>2, <3>3, DebtsAmong
    <3> HIDE DEF x
    <3>5. QED
      BY <1>1, <1>2, <1>6, <3>4, HandedOverFirst
  <2>7. QED
    BY <2>4, <2>5, <2>6
<1>7. QED
  BY <1>5, <1>6

\* A step that keeps the debts of hands, partitions and the wire keeps them all.
LEMMA DebtsStay ==
    ASSUME \A v \in Worker : Stray(v)' => Stray(v),
           \A p \in Partition : Again(p)' => Again(p),
           wire' \subseteq wire
    PROVE  Debts' \subseteq Debts
BY DebtKinds, DebtsAmong

\* ServerError, Rejected: nothing is handed over, and the worker goes on.
LEMMA AttemptFailed ==
    ASSUME DeliveryInv, DeliveryInv', Paid, NEW w \in Worker,
           ServerError(w) \/ Rejected(w)
    PROVE  Paid'
<1>1. /\ UNCHANGED <<owner, committed, position, item, received, wire, deadLetters, failures>>
      /\ \A v \in Worker : Handing(v)' => Handing(v)
  BY DEF ServerError, Rejected, FailedAttempt, GoOn, Handing, broker, erp, DeliveryInv,
         WorkerTypeOK
<1>2. Settled' = Settled
  BY <1>1 DEF Settled, Places
<1>3. Debts' \subseteq Debts
  BY <1>1, <1>2, DebtsStay DEF Stray, Again
<1>4. QED
  BY <1>1, <1>3, NothingHandedOver

\* NoAnswer: a failure pays for what may come of the POST.
LEMMA Unanswered ==
    ASSUME DeliveryInv, DeliveryInv', Paid, NEW w \in Worker, NoAnswer(w)
    PROVE  Paid'
<1> DEFINE x == item[w]
<1>1. x \in Item
  BY HeldItem DEF NoAnswer
<1>2. /\ failures' = failures + 1 /\ UNCHANGED <<broker, item, deadLetters>>
      /\ UNCHANGED <<owner, committed, position>>
      /\ \A v \in Worker : Handing(v)' => Handing(v)
  BY DEF NoAnswer, Fail, FailedAttempt, GoOn, Handing, broker, DeliveryInv, WorkerTypeOK
<1>3. CASE received' = OneMore(received, x) /\ UNCHANGED wire
  <2>1. HandsOver(x)
    BY <1>2, <1>3 DEF HandsOver
  <2>2. Settled' = Settled \cup {x}
    BY <1>1, <2>1, HandedOver
  <2>3. \A v \in Worker : Stray(v)' => Handing(v) /\ item'[v] = item[v]
    BY <1>2 DEF Stray
  <2>4. CASE x \in Settled
    <3>1. Debts' \subseteq Debts
      BY <1>1, <1>2, <1>3, <2>2, <2>3, <2>4, OneCarrier, DebtsStay
    <3> HIDE DEF x
    <3>2. QED
      BY <1>1, <1>2, <2>1, <2>4, <3>1, HandedOverAgain
  <2>5. CASE x \notin Settled
    <3> DEFINE b == Carrier(x)
    <3>1. \A v \in Worker : Stray(v)' => <<"hand", v>> \in Debts \cup {b}
      BY <1>1, <1>2, <2>2, <2>3, OneCarrier, DebtKinds
    <3>2. \A p \in Partition : Again(p)' => <<"read", p>> \in Debts \cup {b}
      BY <1>1, <1>2, <2>2, OneCarrier, DebtKinds
    <3>3. \A post \in wire' : <<"wire", post>> \in Debts \cup {b}
      BY <1>3, DebtKinds
    <3> HIDE DEF b, x
    <3>4. Debts' \subseteq Debts \cup {b}
      BY <3>1, <3>2, <3>3, DebtsAmong
    <3>5. QED
      BY <1>1, <1>2, <2>1, <2>5, <3>4, HandedOverFirst
  <2>6. QED
    BY <2>4, <2>5
<1>4. CASE received' = received /\ \E post : wire' \subseteq wire \cup {post}
  <2>1. PICK post : wire' \subseteq wire \cup {post}
    BY <1>4
  <2>2. Settled' = Settled
    BY <1>2, <1>4 DEF Settled, Places
  <2> DEFINE b == <<"wire", post>>
  <2>3. \A v \in Worker : Stray(v)' => <<"hand", v>> \in Debts \cup {b}
    BY <1>2, <2>2, DebtKinds DEF Stray
  <2>4. \A p \in Partition : Again(p)' => <<"read", p>> \in Debts \cup {b}
    BY <1>2, <2>2, DebtKinds DEF Again
  <2>5. \A q \in wire' : <<"wire", q>> \in Debts \cup {b}
    BY <2>1, DebtKinds
  <2> HIDE DEF b
  <2>6. Debts' \subseteq Debts \cup {b}
    BY <2>3, <2>4, <2>5, DebtsAmong
  <2>7. QED
    BY <1>2, <1>4, <2>6, NothingHandedOver
<1>5. QED
  BY <1>3, <1>4 DEF NoAnswer, erp

\* LateArrival: the debt of the POST is paid.
LEMMA LateArrivalPaid ==
    ASSUME DeliveryInv, DeliveryInv', Paid, NEW post \in wire, LateArrival(post)
    PROVE  Paid'
<1> DEFINE x == post.item
           a == <<"wire", post>>
<1>1. x \in Item /\ a \in Debts
  BY DebtKinds DEF DeliveryInv, WorkerTypeOK
<1>2. /\ UNCHANGED <<broker, pc, item, deadLetters, failures>>
      /\ UNCHANGED <<owner, committed, position>>
      /\ wire' = wire \ {post}
  BY DEF LateArrival, broker, memory
<1>3. CASE received' = received
  <2>1. Settled' = Settled
    BY <1>2, <1>3 DEF Settled, Places
  <2>2. Debts' \subseteq Debts
    BY <1>2, <2>1, DebtsStay DEF Stray, Again, Handing
  <2>3. QED
    BY <1>2, <1>3, <2>2, NothingHandedOver
<1>4. CASE received' = OneMore(received, x)
  <2>1. HandsOver(x)
    BY <1>2, <1>4 DEF HandsOver
  <2>2. Settled' = Settled \cup {x}
    BY <1>1, <2>1, HandedOver
  <2>3. \A v \in Worker : Stray(v)' => Handing(v) /\ item'[v] = item[v]
    BY <1>2 DEF Stray, Handing
  <2>4. \A q \in wire' : <<"wire", q>> \in Debts \ {a}
    BY <1>2, DebtKinds
  <2>5. CASE x \in Settled
    <3>1. \A v \in Worker : Stray(v)' => <<"hand", v>> \in Debts \ {a}
      BY <1>1, <1>2, <2>2, <2>3, <2>5, OneCarrier, DebtKinds
    <3>2. \A p \in Partition : Again(p)' => <<"read", p>> \in Debts \ {a}
      BY <1>1, <1>2, <2>2, <2>5, OneCarrier, DebtKinds
    <3> HIDE DEF a, x
    <3>3. Debts' \subseteq Debts \ {a}
      BY <2>4, <3>1, <3>2, DebtsAmong
    <3>4. QED
      BY <1>1, <1>2, <2>1, <2>5, <3>3, HandedOverAgain
  <2>6. CASE x \notin Settled
    <3> DEFINE b == Carrier(x)
    <3>1. \A v \in Worker : Stray(v)' => <<"hand", v>> \in (Debts \ {a}) \cup {b}
      BY <1>1, <1>2, <2>2, <2>3, OneCarrier, DebtKinds
    <3>2. \A p \in Partition : Again(p)' => <<"read", p>> \in (Debts \ {a}) \cup {b}
      BY <1>1, <1>2, <2>2, OneCarrier, DebtKinds
    <3> HIDE DEF a, b, x
    <3>3. Debts' \subseteq (Debts \ {a}) \cup {b}
      BY <2>4, <3>1, <3>2, DebtsAmong
    <3>4. QED
      BY <1>1, <1>2, <2>1, <2>6, <3>3, HandedOverFirst
  <2>7. QED
    BY <2>5, <2>6
<1>5. QED
  BY <1>3, <1>4 DEF LateArrival

\* The partition of worker w whose offset is not committed yet is the one that its
\* message came from.
LEMMA AheadInHand ==
    ASSUME DeliveryInv, NEW w \in Worker, NEW p \in Partition, owner[p] = w
    PROVE  \/ position[p] = committed[p]
           \/ /\ item[w] = <<p, committed[p] + 1>>
              /\ position[p] = committed[p] + 1
              /\ pc[w] \in {"post", "dead_letter", "commit"}
BY NoneAssumption DEF DeliveryInv, OneAhead, InHand

\* What is not settled is past the committed offset.
LEMMA UnsettledIsAhead ==
    ASSUME DeliveryInv, NEW x \in Item, x \notin Settled
    PROVE  x[2] > committed[x[1]]
<1>1. x[1] \in Partition /\ x[2] \in Nat \ {0} /\ x = <<x[1], x[2]>>
  BY PlaceOf
<1>2. committed[x[1]] \in Nat
  BY <1>1 DEF DeliveryInv, WorkerTypeOK
<1>3. ASSUME x[2] <= committed[x[1]]
      PROVE  FALSE
  BY <1>1, <1>2, <1>3 DEF DeliveryInv, SettledBelowCommit, SettledUpTo
<1>4. QED
  BY <1>1, <1>2, <1>3

\* A worker that ends takes its debt along and leaves one at most, for the message
\* that it has in hand.
LEMMA HaltDebts ==
    ASSUME DeliveryInv, NEW w \in Worker, Halt(w), wire' = wire
    PROVE  /\ ~Stray(w)'
           /\ \A v \in Worker : v # w /\ Stray(v)' =>
                 \/ Stray(v)
                 \/ item[v] \notin Settled /\ item[v] \in Settled' /\ owner[item[v][1]] = v
           /\ \A p \in Partition : Again(p)' =>
                 \/ Again(p)
                 \/ /\ owner[p] = w /\ item[w] = <<p, committed[p] + 1>>
                    /\ position[p] = committed[p] + 1
                    /\ pc[w] \in {"post", "dead_letter", "commit"}
                 \/ /\ <<p, committed[p] + 1>> \notin Settled
                    /\ <<p, committed[p] + 1>> \in Settled'
                    /\ owner[p] = None \/ position[p] = committed[p]
<1>1. /\ pc'[w] = "down" /\ UNCHANGED <<committed, position>>
      /\ \A v \in Worker : v # w => pc'[v] = pc[v] /\ item'[v] = item[v]
      /\ \A p \in Partition : owner'[p] = IF owner[p] = w THEN None ELSE owner[p]
  BY DEF Halt, DeliveryInv, WorkerTypeOK
<1>2. ~Stray(w)'
  BY <1>1 DEF Stray, Handing
<1>3. ASSUME NEW v \in Worker, v # w, Stray(v)', ~Stray(v)
      PROVE  item[v] \notin Settled /\ item[v] \in Settled' /\ owner[item[v][1]] = v
  <2>1. Handing(v)
    BY <1>1, <1>3 DEF Stray, Handing
  <2>2. /\ owner[item[v][1]] = v /\ position[item[v][1]] = item[v][2]
        /\ item[v] \notin Settled
    BY <1>3, <2>1 DEF Stray
  <2>3. item[v] \in Item /\ item[v][1] \in Partition
    BY <2>1, HeldItem, PlaceOf DEF Handing
  <2>4. owner'[item[v][1]] = v /\ position'[item[v][1]] = item[v][2]
    BY <1>1, <1>3, <2>2, <2>3
  <2>5. item'[v] = item[v]
    BY <1>1, <1>3
  <2>6. item'[v] \in Settled'
    BY <1>3, <2>4, <2>5 DEF Stray
  <2>7. QED
    BY <2>2, <2>5, <2>6
<1>4. ASSUME NEW p \in Partition, Again(p)', ~Again(p)
      PROVE  \/ /\ owner[p] = w /\ item[w] = <<p, committed[p] + 1>>
                /\ position[p] = committed[p] + 1
                /\ pc[w] \in {"post", "dead_letter", "commit"}
             \/ /\ <<p, committed[p] + 1>> \notin Settled
                /\ <<p, committed[p] + 1>> \in Settled'
                /\ owner[p] = None \/ position[p] = committed[p]
  <2>1. <<p, committed[p] + 1>> \in Settled'
        /\ (owner'[p] = None \/ position[p] = committed[p])
    BY <1>1, <1>4 DEF Again
  <2>2. CASE owner[p] = w /\ position[p] # committed[p]
    BY <2>2, AheadInHand
  <2>3. CASE owner[p] = None \/ position[p] = committed[p]
    BY <1>4, <2>1, <2>3 DEF Again
  <2>4. QED
    BY <1>1, <2>1, <2>2, <2>3
<1>5. QED
  BY <1>2, <1>3, <1>4

\* Unparseable, CommitFailed, Crash: the worker hands nothing over.
LEMMA EndPaid ==
    ASSUME DeliveryInv, DeliveryInv', Paid, NEW w \in Worker,
           Unparseable(w) \/ CommitFailed(w) \/ Crash(w)
    PROVE  Paid'
<1>1. Halt(w) /\ UNCHANGED <<received, wire, deadLetters>>
  BY DEF Unparseable, CommitFailed, Crash, erp
<1>2. Settled' = Settled
  BY <1>1 DEF Settled, Places
<1>3. \A v \in Worker : Stray(v)' => Stray(v)
  BY <1>1, <1>2, HaltDebts
<1>4. CASE Unparseable(w)
  <2>1. \A p \in Partition : Again(p)' => Again(p)
    BY <1>1, <1>2, <1>4, HaltDebts DEF Unparseable
  <2>2. Debts' \subseteq Debts
    BY <1>1, <1>3, <2>1, DebtsStay
  <2>3. QED
    BY <1>1, <1>4, <2>2, NothingHandedOver DEF Unparseable
<1>5. CASE CommitFailed(w) \/ Crash(w)
  <2> DEFINE b == <<"read", item[w][1]>>
  <2>1. \A p \in Partition : Again(p)' => <<"read", p>> \in Debts \cup {b}
    <3> SUFFICES ASSUME NEW p \in Partition, Again(p)', ~Again(p)
                 PROVE  <<"read", p>> = b
      BY DebtKinds
    <3>1. item[w] = <<p, committed[p] + 1>>
      BY <1>1, <1>2, HaltDebts
    <3>2. QED
      BY <3>1
  <2>2. \A v \in Worker : Stray(v)' => <<"hand", v>> \in Debts \cup {b}
    BY <1>3, DebtKinds
  <2>3. \A post \in wire' : <<"wire", post>> \in Debts \cup {b}
    BY <1>1, DebtKinds
  <2> HIDE DEF b
  <2>4. Debts' \subseteq Debts \cup {b}
    BY <2>1, <2>2, <2>3, DebtsAmong
  <2>5. QED
    BY <1>1, <1>5, <2>4, NothingHandedOver DEF CommitFailed, Crash, Fail
<1>6. QED
  BY <1>4, <1>5

\* DeadLetterFailed: the failure pays for the message that may have got there.
LEMMA DeadLetterFailedPaid ==
    ASSUME DeliveryInv, DeliveryInv', Paid, NEW w \in Worker, DeadLetterFailed(w)
    PROVE  Paid'
<1> DEFINE x == item[w]
           b == <<"read", x[1]>>
<1>1. /\ Halt(w) /\ failures' = failures + 1 /\ UNCHANGED <<received, wire>>
      /\ Handing(w) /\ x \in Item
  BY HeldItem DEF DeadLetterFailed, Fail, erp, Handing
<1>2. CASE deadLetters' = deadLetters
  <2>1. Settled' = Settled
    BY <1>1, <1>2 DEF Settled, Places
  <2>2. \A v \in Worker : Stray(v)' => <<"hand", v>> \in Debts \cup {b}
    BY <1>1, <2>1, HaltDebts, DebtKinds
  <2>3. \A p \in Partition : Again(p)' => <<"read", p>> \in Debts \cup {b}
    <3> SUFFICES ASSUME NEW p \in Partition, Again(p)', ~Again(p)
                 PROVE  <<"read", p>> = b
      BY DebtKinds
    <3>1. item[w] = <<p, committed[p] + 1>>
      BY <1>1, <2>1, HaltDebts
    <3>2. QED
      BY <3>1
  <2>4. \A post \in wire' : <<"wire", post>> \in Debts \cup {b}
    BY <1>1, DebtKinds
  <2> HIDE DEF b
  <2>5. Debts' \subseteq Debts \cup {b}
    BY <2>2, <2>3, <2>4, DebtsAmong
  <2>6. QED
    BY <1>1, <1>2, <2>5, NothingHandedOver
<1>3. CASE deadLetters' = OneMore(deadLetters, x)
  <2>1. HandsOver(x)
    BY <1>1, <1>3 DEF HandsOver
  <2>2. Settled' = Settled \cup {x}
    BY <1>1, <2>1, HandedOver
  <2>3. CASE x \in Settled
    <3> DEFINE a == <<"hand", w>>
    <3>1. a \in Debts
      BY <1>1, <2>3, DebtKinds DEF Stray
    <3>2. \A v \in Worker : Stray(v)' => <<"hand", v>> \in (Debts \ {a}) \cup {b}
      BY <1>1, <2>2, <2>3, HaltDebts, DebtKinds
    <3>3. \A p \in Partition : Again(p)' => <<"read", p>> \in (Debts \ {a}) \cup {b}
      <4> SUFFICES ASSUME NEW p \in Partition, Again(p)', ~Again(p)
                   PROVE  <<"read", p>> = b
        BY DebtKinds
      <4>1. item[w] = <<p, committed[p] + 1>>
        BY <1>1, <2>2, <2>3, HaltDebts
      <4>2. QED
        BY <4>1
    <3>4. \A post \in wire' : <<"wire", post>> \in (Debts \ {a}) \cup {b}
      BY <1>1, DebtKinds
    <3> HIDE DEF a, b
    <3>5. Debts' \subseteq (Debts \ {a}) \cup {b}
      BY <3>2, <3>3, <3>4, DebtsAmong
    <3> HIDE DEF x
    <3>6. QED
      BY <1>1, <2>1, <2>3, <3>1, <3>5, HandedOverAgain
  <2>4. CASE x \notin Settled
    <3> DEFINE d == IF Carrier(x) = <<"hand", w>> THEN b ELSE Carrier(x)
    <3>1. x[1] \in Partition /\ x[2] \in Nat /\ x = <<x[1], x[2]>>
      BY <1>1, PlaceOf
    <3>2. ASSUME NEW v \in Worker, Stray(v)', ~Stray(v)
          PROVE  <<"hand", v>> = d
      <4>1. v # w /\ item[v] = x /\ owner[x[1]] = v
        BY <1>1, <2>2, <3>2, HaltDebts
      <4>2. Handing(v) /\ position[x[1]] = x[2]
        <5>1. Handing(v)
          BY <1>1, <3>2, <4>1 DEF Stray, Handing, Halt, DeliveryInv, WorkerTypeOK
        <5>2. QED
          BY <3>2, <4>1, <5>1 DEF Stray
      <4>3. Carrier(x) = <<"hand", v>>
        BY <4>1, <4>2, NoneAssumption DEF Carrier
      <4>4. QED
        BY <4>1, <4>3
    <3>3. ASSUME NEW p \in Partition, Again(p)', ~Again(p)
          PROVE  <<"read", p>> = d
      <4>1. CASE owner[p] = w /\ x = <<p, committed[p] + 1>> /\ position[p] = committed[p] + 1
        <5>1. Carrier(x) = <<"hand", w>>
          BY <4>1, NoneAssumption DEF Carrier
        <5>2. QED
          BY <4>1, <5>1
      <4>2. CASE /\ x = <<p, committed[p] + 1>>
                 /\ owner[p] = None \/ position[p] = committed[p]
        <5>1. committed[p] \in Nat
          BY DEF DeliveryInv, WorkerTypeOK
        <5>2. Carrier(x) = <<"read", p>>
          BY <4>2, <5>1 DEF Carrier
        <5>3. QED
          BY <5>2
      <4>3. QED
        BY <1>1, <2>2, <3>3, <4>1, <4>2, HaltDebts
    <3> HIDE DEF d
    <3>4. Debts' \subseteq Debts \cup {d}
      <4>1. \A v \in Worker : Stray(v)' => <<"hand", v>> \in Debts \cup {d}
        BY <3>2, DebtKinds
      <4>2. \A p \in Partition : Again(p)' => <<"read", p>> \in Debts \cup {d}
        BY <3>3, DebtKinds
      <4>3. \A post \in wire' : <<"wire", post>> \in Debts \cup {d}
        BY <1>1, DebtKinds
      <4>4. QED
        BY <4>1, <4>2, <4>3, DebtsAmong
    <3> HIDE DEF x
    <3>5. QED
      BY <1>1, <2>1, <2>4, <3>4, HandedOverFirst
  <2>5. QED
    BY <2>3, <2>4
<1>4. QED
  BY <1>2, <1>3 DEF DeadLetterFailed

\* Fetch: who reads a settled message again takes over the debt of the partition.
LEMMA FetchPaid ==
    ASSUME DeliveryInv, DeliveryInv', Paid, NEW w \in Worker, Fetch(w)
    PROVE  Paid'
<1>1. PICK p \in Partition :
          /\ NextItem(w, p)
          /\ item' = [item EXCEPT ![w] = <<p, position[p] + 1>>]
          /\ position' = [position EXCEPT ![p] = @ + 1]
  BY DEF Fetch
<1>2. /\ pc[w] = "fetch" /\ pc' = [pc EXCEPT ![w] = "post"]
      /\ UNCHANGED <<owner, committed, received, wire, deadLetters, failures>>
  BY DEF Fetch, erp
<1>3. Settled' = Settled
  BY <1>2 DEF Settled, Places
<1> DEFINE x == <<p, committed[p] + 1>>
<1>4. owner[p] = w /\ position[p] = committed[p] /\ committed[p] \in Nat
  BY <1>1, <1>2, AheadInHand DEF NextItem, DeliveryInv, WorkerTypeOK
<1>5. /\ item'[w] = x /\ position'[p] = committed[p] + 1
      /\ \A v \in Worker : v # w => item'[v] = item[v] /\ pc'[v] = pc[v]
      /\ \A q \in Partition : q # p => position'[q] = position[q]
  BY <1>1, <1>2, <1>4 DEF DeliveryInv, WorkerTypeOK
<1>6. ASSUME NEW v \in Worker, v # w, Stray(v)'
      PROVE  Stray(v)
  <2>1. Handing(v) /\ item'[v] = item[v]
    BY <1>5, <1>6 DEF Stray, Handing
  <2>2. item[v] \in Item /\ item[v][1] \in Partition
    BY <2>1, HeldItem, PlaceOf DEF Handing
  <2>3. CASE item[v][1] = p
    BY <1>4, <1>6, <2>1, <2>3 DEF Stray
  <2>4. CASE item[v][1] # p
    BY <1>2, <1>3, <1>5, <1>6, <2>1, <2>2, <2>4 DEF Stray
  <2>5. QED
    BY <2>3, <2>4
<1>7. ASSUME NEW q \in Partition, Again(q)'
      PROVE  q # p /\ Again(q)
  <2>1. q # p
    BY <1>2, <1>4, <1>5, <1>7, NoneAssumption DEF Again
  <2>2. QED
    BY <1>2, <1>3, <1>5, <1>7, <2>1 DEF Again
<1>8. CASE x \in Settled
  <2> DEFINE a == <<"read", p>>
             b == <<"hand", w>>
  <2>1. a \in Debts
    BY <1>4, <1>8, DebtKinds DEF Again
  <2>2. \A v \in Worker : Stray(v)' => <<"hand", v>> \in (Debts \ {a}) \cup {b}
    BY <1>6, DebtKinds
  <2>3. \A q \in Partition : Again(q)' => <<"read", q>> \in (Debts \ {a}) \cup {b}
    BY <1>7, DebtKinds
  <2>4. \A post \in wire' : <<"wire", post>> \in (Debts \ {a}) \cup {b}
    BY <1>2, DebtKinds
  <2> HIDE DEF a, b
  <2>5. Debts' \subseteq (Debts \ {a}) \cup {b}
    BY <2>2, <2>3, <2>4, DebtsAmong
  <2>6. QED
    BY <1>2, <2>1, <2>5, NothingHandedOver
<1>9. CASE x \notin Settled
  <2>1. ~Stray(w)'
    BY <1>2, <1>3, <1>4, <1>5, <1>9 DEF Stray
  <2>2. Debts' \subseteq Debts
    BY <1>2, <1>6, <1>7, <2>1, DebtsStay
  <2>3. QED
    BY <1>2, <2>2, NothingHandedOver
<1>10. QED
  BY <1>8, <1>9

\* Commit: the next message of the partition is not settled yet.
LEMMA CommitPaid ==
    ASSUME DeliveryInv, DeliveryInv', AllNear, Paid, NEW w \in Worker, Commit(w)
    PROVE  Paid'
<1>1. /\ pc[w] = "commit" /\ pc' = [pc EXCEPT ![w] = "fetch"]
      /\ item' = [item EXCEPT ![w] = None]
      /\ committed' = [p \in Partition |-> IF owner[p] = w THEN position[p]
                                                          ELSE committed[p]]
      /\ UNCHANGED <<owner, position, received, wire, deadLetters, failures>>
  BY DEF Commit, CommitPositions, erp
<1>2. Settled' = Settled
  BY <1>1 DEF Settled, Places
<1>3. ASSUME NEW v \in Worker, Stray(v)'
      PROVE  Stray(v)
  <2>1. /\ pc'[w] = "fetch"
        /\ \A u \in Worker : u # w => pc'[u] = pc[u] /\ item'[u] = item[u]
    BY <1>1 DEF DeliveryInv, WorkerTypeOK
  <2>2. v # w
    BY <1>3, <2>1 DEF Stray, Handing
  <2>3. QED
    BY <1>1, <1>2, <1>3, <2>1, <2>2 DEF Stray, Handing
<1>4. ASSUME NEW p \in Partition, Again(p)'
      PROVE  Again(p)
  <2>1. committed[p] \in Nat
    BY DEF DeliveryInv, WorkerTypeOK
  <2>2. <<p, committed'[p] + 1>> \in Settled
    BY <1>2, <1>4 DEF Again
  <2>3. CASE committed'[p] = committed[p]
    BY <1>1, <1>4, <2>2, <2>3 DEF Again
  <2>4. CASE committed'[p] # committed[p]
    <3>1. owner[p] = w /\ committed'[p] = position[p]
      BY <1>1, <2>4
    <3>2. committed'[p] = committed[p] + 1
      BY <2>4, <3>1, AheadInHand
    <3>3. Near(<<p, committed[p] + 2>>)
      BY <2>1, <2>2, <3>2 DEF AllNear
    <3>4. QED
      BY <2>1, <3>3 DEF Near
  <2>5. QED
    BY <2>3, <2>4
<1>5. Debts' \subseteq Debts
  BY <1>1, <1>3, <1>4, DebtsStay
<1>6. QED
  BY <1>1, <1>5, NothingHandedOver

\* Assign, Rebalance: the owner that loses a message that is not settled, or the
\* partition whose next message is settled, makes one debt.
LEMMA HandOverPaid ==
    ASSUME DeliveryInv, DeliveryInv', Paid, NEW p \in Partition, NEW w \in Worker,
           Assign(p, w) \/ Rebalance(p, w)
    PROVE  Paid'
<1>1. /\ UNCHANGED <<committed, pc, item, received, wire, deadLetters>>
      /\ owner'[p] = w /\ position'[p] = committed[p]
      /\ \A q \in Partition : q # p => owner'[q] = owner[q] /\ position'[q] = position[q]
  BY DEF Assign, Rebalance, memory, erp, DeliveryInv, WorkerTypeOK
<1>2. Settled' = Settled
  BY <1>1 DEF Settled, Places
<1>3. \A v \in Worker : Stray(v)' =>
         Stray(v) \/ (owner[p] = v /\ item[v][1] = p /\ item[v] \notin Settled
                      /\ position[p] = item[v][2] /\ Handing(v))
  <2> SUFFICES ASSUME NEW v \in Worker, Stray(v)', ~Stray(v)
               PROVE  owner[p] = v /\ item[v][1] = p /\ item[v] \notin Settled
                      /\ position[p] = item[v][2] /\ Handing(v)
    OBVIOUS
  <2>1. Handing(v)
    BY <1>1 DEF Stray, Handing
  <2>2. /\ owner[item[v][1]] = v /\ position[item[v][1]] = item[v][2]
        /\ item[v] \notin Settled
    BY <2>1 DEF Stray
  <2>3. item[v][1] \in Partition
    BY <2>1, HeldItem, PlaceOf DEF Handing
  <2>4. item[v][1] = p
    BY <1>1, <1>2, <2>2, <2>3 DEF Stray
  <2>5. QED
    BY <2>1, <2>2, <2>4
<1>4. \A q \in Partition : Again(q)' =>
         \/ Again(q)
         \/ /\ q = p /\ owner[p] # None /\ position[p] # committed[p]
            /\ <<p, committed[p] + 1>> \in Settled
  BY <1>1, <1>2 DEF Again
<1>5. \A v \in Worker : Stray(v)' =>
         Stray(v) \/ (owner[p] = v /\ item[v] = <<p, committed[p] + 1>>
                      /\ item[v] \notin Settled)
  <2> SUFFICES ASSUME NEW v \in Worker, Stray(v)', ~Stray(v)
               PROVE  item[v] = <<p, committed[p] + 1>>
    BY <1>3
  <2>1. /\ owner[p] = v /\ item[v][1] = p /\ item[v] \notin Settled
        /\ position[p] = item[v][2] /\ Handing(v)
    BY <1>3
  <2>2. item[v] \in Item
    BY <2>1, HeldItem DEF Handing
  <2>3. item[v][2] > committed[p] /\ committed[p] \in Nat
    BY <2>1, <2>2, UnsettledIsAhead DEF DeliveryInv, WorkerTypeOK
  <2>4. position[p] # committed[p]
    BY <2>1, <2>3
  <2>5. QED
    BY <2>1, <2>4, AheadInHand
<1>6. CASE Assign(p, w)
  <2>1. owner[p] = None /\ failures' = failures
    BY <1>6 DEF Assign
  <2>2. Debts' \subseteq Debts
    BY <1>1, <1>4, <1>5, <2>1, DebtsStay, NoneAssumption
  <2>3. QED
    BY <1>1, <2>1, <2>2, NothingHandedOver
<1>7. CASE Rebalance(p, w)
  <2> DEFINE x == <<p, committed[p] + 1>>
             b == IF x \in Settled THEN <<"read", p>> ELSE <<"hand", owner[p]>>
  <2>1. failures' = failures + 1
    BY <1>7 DEF Rebalance, Fail
  <2>2. \A v \in Worker : Stray(v)' => <<"hand", v>> \in Debts \cup {b}
    BY <1>5, DebtKinds
  <2>3. \A q \in Partition : Again(q)' => <<"read", q>> \in Debts \cup {b}
    BY <1>4, DebtKinds
  <2>4. \A post \in wire' : <<"wire", post>> \in Debts \cup {b}
    BY <1>1, DebtKinds
  <2> HIDE DEF b
  <2>5. Debts' \subseteq Debts \cup {b}
    BY <2>2, <2>3, <2>4, DebtsAmong
  <2>6. QED
    BY <1>1, <2>1, <2>5, NothingHandedOver
<1>8. QED
  BY <1>6, <1>7

\* Restart, Publish: neither touches a message that was sent.
LEMMA OutsidePaid ==
    ASSUME DeliveryInv, DeliveryInv', Paid,
           \/ \E w \in Worker : Restart(w)
           \/ \E p \in Partition : Publish(p)
           \/ UNCHANGED vars
    PROVE  Paid'
<1>1. /\ UNCHANGED <<owner, committed, position, item, received, wire, deadLetters, failures>>
      /\ \A v \in Worker : Handing(v)' => Handing(v)
  BY DEF Restart, Publish, vars, broker, memory, erp, Handing, DeliveryInv, WorkerTypeOK
<1>2. Settled' = Settled
  BY <1>1 DEF Settled, Places
<1>3. Debts' \subseteq Debts
  BY <1>1, <1>2, DebtsStay DEF Stray, Again
<1>4. QED
  BY <1>1, <1>3, NothingHandedOver

\* Nothing gets further ahead: a message is read after the one before it is
\* committed, and what is settled was in a hand or on the wire.
LEMMA NearStep ==
    ASSUME DeliveryInv, DeliveryInv', AllNear, [Next]_vars
    PROVE  AllNear'
<1>1. \A p \in Partition : /\ committed[p] \in Nat /\ committed'[p] \in Nat
                           /\ committed'[p] >= committed[p]
  BY WorkerStep DEF DeliveryInv, WorkerTypeOK
<1>2. \A x \in Item : Near(x) => Near(x)'
  <2> SUFFICES ASSUME NEW x \in Item, Near(x)
               PROVE  Near(x)'
    OBVIOUS
  <2>1. x[1] \in Partition /\ x[2] \in Nat
    BY PlaceOf
  <2>2. QED
    BY <1>1, <2>1 DEF Near
<1>3. /\ Settled \subseteq Item
      /\ \A w \in Worker : item[w] # None => item[w] \in Item
      /\ \A post \in wire : post.item \in Item
  BY DEF Settled, Places, DeliveryInv, WorkerTypeOK
<1>4. /\ \A w \in Worker : item'[w] # None =>
            \/ item'[w] = item[w]
            \/ \E p \in Partition : item'[w] = <<p, committed'[p] + 1>>
      /\ \A post \in wire' : \/ post \in wire
                             \/ \E w \in Worker : item[w] # None /\ post.item = item[w]
      /\ \A x \in Settled' : \/ x \in Settled
                             \/ \E w \in Worker : item[w] # None /\ x = item[w]
                             \/ \E post \in wire : x = post.item
  <2> USE DEF topic, broker, memory, erp
  <2>1. ASSUME NEW w \in Worker, Fetch(w)
        PROVE  /\ \A v \in Worker :
                     \/ item'[v] = item[v]
                     \/ \E p \in Partition : item'[v] = <<p, committed'[p] + 1>>
               /\ wire' = wire /\ Settled' = Settled
    <3>1. PICK p \in Partition :
             /\ NextItem(w, p)
             /\ item' = [item EXCEPT ![w] = <<p, position[p] + 1>>]
      BY <2>1 DEF Fetch
    <3>2. position[p] = committed[p] /\ committed' = committed
      BY <2>1, <3>1, AheadInHand DEF Fetch, NextItem
    <3>3. item'[w] = <<p, committed'[p] + 1>>
      BY <3>1, <3>2 DEF DeliveryInv, WorkerTypeOK
    <3>4. QED
      BY <2>1, <3>1, <3>3 DEF Fetch, Settled, Places, DeliveryInv, WorkerTypeOK
  <2>2. ASSUME NEW w \in Worker, Deliver(w) \/ DeadLettered(w) \/ DeadLetterFailed(w)
        PROVE  /\ \A v \in Worker : item'[v] # None => item'[v] = item[v]
               /\ item[w] # None
               /\ \A post \in wire' : post \in wire \/ post.item = item[w]
               /\ \A x \in Settled' : x \in Settled \/ x = item[w]
    <3>1. item[w] \in Item /\ item[w] # None
      BY <2>2, HeldItem DEF Deliver, Delivered, ServerError, Rejected, NoAnswer,
                            DeadLettered, DeadLetterFailed
    <3>2. Places(OneMore(received, item[w])) = Places(received) \cup {item[w]}
          /\ Places(OneMore(deadLetters, item[w])) = Places(deadLetters) \cup {item[w]}
      BY <3>1, PlacesOneMore DEF DeliveryInv, WorkerTypeOK
    <3>3. /\ received' \in {received, OneMore(received, item[w])}
          /\ deadLetters' \in {deadLetters, OneMore(deadLetters, item[w])}
      BY <2>2 DEF Deliver, Delivered, ServerError, Rejected, NoAnswer, DeadLettered,
                  DeadLetterFailed
    <3>4. /\ Places(received') \subseteq Places(received) \cup {item[w]}
          /\ Places(deadLetters') \subseteq Places(deadLetters) \cup {item[w]}
      BY <3>2, <3>3
    <3>5. Settled' = Places(received') \cup Places(deadLetters')
      BY DEF Settled, Places
    <3>6. \A x \in Settled' : x \in Settled \/ x = item[w]
      BY <3>4, <3>5 DEF Settled
    <3>7. /\ \A v \in Worker : item'[v] # None => item'[v] = item[v]
          /\ \A post \in wire' : post \in wire \/ post.item = item[w]
      BY <2>2 DEF Deliver, Delivered, ServerError, Rejected, NoAnswer, DeadLettered,
                  DeadLetterFailed, Halt, DeliveryInv, WorkerTypeOK
    <3>8. QED
      BY <3>1, <3>6, <3>7
  <2>3. ASSUME NEW w \in Worker,
               \/ Unparseable(w) \/ Commit(w) \/ CommitFailed(w) \/ Crash(w) \/ Restart(w)
        PROVE  /\ \A v \in Worker : item'[v] # None => item'[v] = item[v]
               /\ wire' = wire /\ Settled' = Settled
    BY <2>3 DEF Unparseable, Commit, CommitFailed, Crash, Restart, Halt, Settled, Places,
                DeliveryInv, WorkerTypeOK
  <2>4. CASE \/ \E p \in Partition, w \in Worker : Assign(p, w) \/ Rebalance(p, w)
             \/ \E p \in Partition : Publish(p)
             \/ UNCHANGED vars
    BY <2>4 DEF Assign, Rebalance, Publish, vars, Settled, Places
  <2>5. ASSUME NEW post \in wire, LateArrival(post)
        PROVE  /\ item' = item /\ wire' \subseteq wire
               /\ \A x \in Settled' : x \in Settled \/ x = post.item
    <3>1. post.item \in Item
      BY <1>3
    <3>2. Places(OneMore(received, post.item)) = Places(received) \cup {post.item}
      BY <3>1, PlacesOneMore DEF DeliveryInv, WorkerTypeOK
    <3>3. Settled' = Places(received') \cup Places(deadLetters)
      BY <2>5 DEF LateArrival, Settled, Places
    <3>4. QED
      BY <2>5, <3>2, <3>3 DEF LateArrival, Settled
  <2>6. QED
    BY <2>1, <2>2, <2>3, <2>4, <2>5 DEF Next, GroupNext, Loop
<1>5. \A x \in Settled' : Near(x)'
  BY <1>2, <1>3, <1>4 DEF AllNear
<1>6. \A post \in wire' : Near(post.item)'
  BY <1>2, <1>3, <1>4 DEF AllNear
<1>7. ASSUME NEW w \in Worker, NEW x, x = item'[w], x # None
      PROVE  Near(x)'
  <2>1. CASE x = item[w]
    BY <1>2, <1>3, <1>7, <2>1 DEF AllNear
  <2>2. CASE \E p \in Partition : x = <<p, committed'[p] + 1>>
    BY <1>1, <2>2 DEF Near
  <2>3. QED
    BY <1>4, <1>7, <2>1, <2>2
<1>8. QED
  BY <1>5, <1>6, <1>7 DEF AllNear, Near

\* Every step pays for the repeats that it makes.
LEMMA PaidStep ==
    ASSUME DeliveryInv, DeliveryInv', AllNear, Paid, [Next]_vars
    PROVE  Paid'
<1>1. ASSUME NEW w \in Worker, Loop(w) \/ Crash(w) \/ Restart(w)
      PROVE  Paid'
  <2>1. CASE Fetch(w)
    BY <2>1, FetchPaid
  <2>2. CASE Delivered(w) \/ DeadLettered(w)
    BY <2>2, HandingDone
  <2>3. CASE ServerError(w) \/ Rejected(w)
    BY <2>3, AttemptFailed
  <2>4. CASE NoAnswer(w)
    BY <2>4, Unanswered
  <2>5. CASE DeadLetterFailed(w)
    BY <2>5, DeadLetterFailedPaid
  <2>6. CASE Commit(w)
    BY <2>6, CommitPaid
  <2>7. CASE Unparseable(w) \/ CommitFailed(w) \/ Crash(w)
    BY <2>7, EndPaid
  <2>8. CASE Restart(w)
    BY <2>8, OutsidePaid
  <2>9. QED
    BY <1>1, <2>1, <2>2, <2>3, <2>4, <2>5, <2>6, <2>7, <2>8 DEF Loop, Deliver
<1>2. ASSUME NEW p \in Partition, NEW w \in Worker, Assign(p, w) \/ Rebalance(p, w)
      PROVE  Paid'
  BY <1>2, HandOverPaid
<1>3. ASSUME NEW post \in wire, LateArrival(post)
      PROVE  Paid'
  BY <1>3, LateArrivalPaid
<1>4. CASE (\E p \in Partition : Publish(p)) \/ UNCHANGED vars
  BY <1>4, OutsidePaid
<1>5. QED
  BY <1>1, <1>2, <1>3, <1>4 DEF Next, GroupNext

\* At first there is nothing to pay for.
LEMMA InitPaid == Init => AllNear /\ Paid
<1> SUFFICES ASSUME Init
             PROVE  AllNear /\ Paid
  OBVIOUS
<1>1. Settled = {}
  BY DEF Init, WorkerInit, Settled, Places
<1>2. AllNear
  BY <1>1 DEF Init, WorkerInit, AllNear
<1>3. Debts = {}
  BY <1>1 DEF Init, WorkerInit, Debts, Stray, Handing, Again
<1>4. Total(received) = 0 /\ Total(deadLetters) = 0
  BY ItemsFinite, NoneCounts DEF Init, WorkerInit
<1>5. IsFiniteSet(Debts) /\ Cardinality(Debts) = 0 /\ Cardinality(Settled) = 0
  BY <1>1, <1>3, FS_EmptySet
<1>6. failures = 0
  BY DEF Init, WorkerInit
<1>7. QED
  BY <1>2, <1>4, <1>5, <1>6 DEF Paid

\* The ERP and the dead-letter topic have an order more than once only as often as
\* something failed: each repeat, at the latest when it is to come, stands against
\* a POST without an answer, a crash, a rebalance or a failed send or commit.
THEOREM RepeatsHaveCauses == Spec => []RepeatsAreCaused
<1>1. DeliveryInv /\ DeliveryInv' /\ AllNear /\ Paid /\ [Next]_vars => AllNear' /\ Paid'
  BY NearStep, PaidStep
<1>2. DeliveryInv /\ Paid => RepeatsAreCaused
  <2> SUFFICES ASSUME DeliveryInv, Paid
               PROVE  RepeatsAreCaused
    OBVIOUS
  <2>1. Cardinality(Debts) \in Nat
    BY FS_CardinalityType DEF Paid
  <2>2. /\ Total(received) \in Nat /\ Total(deadLetters) \in Nat
        /\ Cardinality(Settled) \in Nat /\ failures \in Nat
    BY PaidTypes
  <2>3. Total(received) + Total(deadLetters) <= Cardinality(Settled) + failures
    BY <2>1, <2>2 DEF Paid
  <2>4. QED
    BY <2>3 DEF RepeatsAreCaused, Total
<1>3. Spec => [](AllNear /\ Paid)
  BY InitPaid, <1>1, DeliveryInvariant, PTL DEF Spec
<1>4. QED
  BY <1>2, <1>3, DeliveryInvariant, PTL
===============================================================================
