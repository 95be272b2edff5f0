-------------------------- MODULE OrderApprovedWorker --------------------------
(*****************************************************************************)
(* The consumer group "order-approved-worker"                                *)
(* (services/order_approved_worker/app/worker.py), run by any number of      *)
(* workers, between the topic order-approved, the ERP that                   *)
(* services/mock_external_api/app/main.py stands for, and the dead-letter    *)
(* topic.  A worker never looks into an order, so a message is its place in  *)
(* the topic.                                                                *)
(*                                                                           *)
(* A step is one message fetched, one POST with what came of it, one message *)
(* dead-lettered, or one commit of offsets.  A POST that gets no answer may  *)
(* still be on the wire and arrive later.                                    *)
(*****************************************************************************)
EXTENDS Naturals, FiniteSets, Functions

CONSTANTS
    Partition,    \* the partitions of order-approved
    Worker,       \* replicas of the service
    MaxAttempts,  \* stop_after_attempt of deliver
    MaxEnd,       \* bound: how long a run lets a partition become
    MaxFailures,  \* bound: how many failures of any kind a run looks at
    None

\* A place in the topic.
Item == UNION {{p} \X (1..MaxEnd[p]) : p \in Partition}

ASSUME PartitionAssumption == IsFiniteSet(Partition)
ASSUME AttemptAssumption == MaxAttempts \in Nat \ {0}
ASSUME EndAssumption     == MaxEnd \in [Partition -> Nat]
ASSUME FailureAssumption == MaxFailures \in Nat
ASSUME NoneAssumption    == None \notin Worker \cup Item

VARIABLES
    end,          \* end[p]: how many messages partition p has
    poison,       \* those of them that are not JSON
    \* The broker: who owns a partition, the committed offset, and how far the
    \* owner has consumed.
    owner, committed, position,
    \* A worker: where main stands, the message in hand, and how many attempts
    \* of deliver failed.
    pc, item, tries,
    received,     \* how often the ERP's list has an order
    deadLetters,  \* how often the topic order-approved-dlq has it
    wire,         \* POSTs without an answer that may still reach the ERP
    failures      \* crashes, rebalances, POSTs without an answer, sends and
                  \* commits that raise, so far

topic  == <<end, poison>>
broker == <<owner, committed, position>>
memory == <<pc, item, tries>>
erp    == <<received, wire>>
vars   == <<topic, broker, memory, erp, deadLetters, failures>>

WorkerInit ==
    /\ owner       = [p \in Partition |-> None]
    /\ committed   = [p \in Partition |-> 0]      \* auto_offset_reset earliest
    /\ position    = [p \in Partition |-> 0]
    /\ pc          = [w \in Worker |-> "down"]
    /\ item        = [w \in Worker |-> None]
    /\ tries       = [w \in Worker |-> 0]
    /\ received    = [x \in Item |-> 0]
    /\ deadLetters = [x \in Item |-> 0]
    /\ wire        = {}
    /\ failures    = 0

Init == WorkerInit /\ end = [p \in Partition |-> 0] /\ poison = {}

-------------------------------------------------------------------------------
(* The topic.  It is read here, and written by whoever publishes approvals.  *)

Publish(p) ==
    /\ end[p] < MaxEnd[p]
    /\ end' = [end EXCEPT ![p] = @ + 1]
    /\ poison' \in {poison, poison \cup {<<p, end[p] + 1>>}}
    /\ UNCHANGED <<broker, memory, erp, deadLetters, failures>>

-------------------------------------------------------------------------------
(* main                                                                      *)

\* The list, or the topic, with message x once more.
OneMore(list, x) == [list EXCEPT ![x] = @ + 1]

\* Something outside of the loop fails, if the bound has room for it.
Fail == /\ failures < MaxFailures
        /\ failures' = failures + 1

\* The process is gone: finally stops the consumer, which commits nothing.
Halt(w) ==
    /\ pc'    = [pc EXCEPT ![w] = "down"]
    /\ item'  = [item EXCEPT ![w] = None]
    /\ tries' = [tries EXCEPT ![w] = 0]
    /\ owner' = [p \in Partition |-> IF owner[p] = w THEN None ELSE owner[p]]
    /\ UNCHANGED <<committed, position>>

\* restart: unless-stopped, then consumer.start and producer.start.
Restart(w) ==
    /\ pc[w] = "down"
    /\ pc' = [pc EXCEPT ![w] = "fetch"]
    /\ UNCHANGED <<topic, broker, item, tries, erp, deadLetters, failures>>

\* The next message of a partition that worker w owns.
NextItem(w, p) == /\ owner[p] = w
                  /\ position[p] < end[p]

\* async for msg in consumer: the position is past the message from here on.
Fetch(w) ==
    /\ pc[w] = "fetch"
    /\ \E p \in Partition :
          /\ NextItem(w, p)
          /\ <<p, position[p] + 1>> \notin poison
          /\ item' = [item EXCEPT ![w] = <<p, position[p] + 1>>]
          /\ position' = [position EXCEPT ![p] = @ + 1]
    /\ pc' = [pc EXCEPT ![w] = "post"]
    /\ UNCHANGED <<topic, owner, committed, tries, erp, deadLetters, failures>>

\* orjson.loads raises outside of the try: the worker stops, and the message
\* stops the next one too.
Unparseable(w) ==
    /\ pc[w] = "fetch"
    /\ \E p \in Partition : /\ NextItem(w, p)
                            /\ <<p, position[p] + 1>> \in poison
    /\ Halt(w)
    /\ UNCHANGED <<topic, erp, deadLetters, failures>>

\* deliver is through with the message, well or badly.
\* Variant: a message that cannot be delivered is dropped.
DropFailed(w, next) ==
    /\ pc' = [pc EXCEPT ![w] = "commit"]
    /\ tries' = [tries EXCEPT ![w] = 0]
GoOn(w, next) ==
    /\ pc' = [pc EXCEPT ![w] = next]
    /\ tries' = [tries EXCEPT ![w] = 0]

\* TransientDeliveryError: the next attempt, or the dead-letter topic.
\* Variants: one attempt more than five; attempts without an end.
OneAttemptMore(w) ==
    \/ /\ tries[w] + 1 <= MaxAttempts
       /\ tries' = [tries EXCEPT ![w] = @ + 1]
       /\ UNCHANGED pc
    \/ /\ tries[w] + 1 > MaxAttempts
       /\ GoOn(w, "dead_letter")
RetryForever(w) == /\ tries' = [tries EXCEPT ![w] = (@ + 1) % MaxAttempts]
                   /\ UNCHANGED pc
FailedAttempt(w) ==
    \/ /\ tries[w] + 1 < MaxAttempts
       /\ tries' = [tries EXCEPT ![w] = @ + 1]
       /\ UNCHANGED pc
    \/ /\ tries[w] + 1 = MaxAttempts
       /\ GoOn(w, "dead_letter")

\* deliver: the ERP takes the order and says so.
\* Variant: the worker forgets to leave the retry loop after a success.
PostTwice(w) ==
    /\ pc[w] = "post"
    /\ received' = OneMore(received, item[w])
    /\ FailedAttempt(w)
    /\ UNCHANGED <<topic, broker, item, wire, deadLetters, failures>>
Delivered(w) ==
    /\ pc[w] = "post"
    /\ received' = OneMore(received, item[w])
    /\ GoOn(w, "commit")
    /\ UNCHANGED <<topic, broker, item, wire, deadLetters, failures>>

\* It answers 5xx, having stored nothing.
ServerError(w) ==
    /\ pc[w] = "post"
    /\ FailedAttempt(w)
    /\ UNCHANGED <<topic, broker, item, erp, deadLetters, failures>>

\* It answers 4xx: raise_for_status, which is not retried.
\* Variant: and not dead-lettered either.
RejectionDropped(w) ==
    /\ pc[w] = "post"
    /\ GoOn(w, "commit")
    /\ UNCHANGED <<topic, broker, item, erp, deadLetters, failures>>
Rejected(w) ==
    /\ pc[w] = "post"
    /\ GoOn(w, "dead_letter")
    /\ UNCHANGED <<topic, broker, item, erp, deadLetters, failures>>

\* No answer in time: the ERP has the order, will have it, or never sees it.
NoAnswer(w) ==
    /\ pc[w] = "post"
    /\ Fail
    /\ \/ received' = OneMore(received, item[w]) /\ UNCHANGED wire
       \/ /\ wire' = wire \cup {[item |-> item[w], n |-> failures]}
          /\ UNCHANGED received
       \/ UNCHANGED erp
    /\ FailedAttempt(w)
    /\ UNCHANGED <<topic, broker, item, deadLetters>>

\* A POST that nobody waits for any more reaches the ERP, which may store it.
LateArrival(post) ==
    /\ post \in wire
    /\ wire' = wire \ {post}
    /\ received' \in {received, OneMore(received, post.item)}
    /\ UNCHANGED <<topic, broker, memory, deadLetters, failures>>

\* send_and_wait to the dead-letter topic.
DeadLettered(w) ==
    /\ pc[w] = "dead_letter"
    /\ deadLetters' = OneMore(deadLetters, item[w])
    /\ pc' = [pc EXCEPT ![w] = "commit"]
    /\ UNCHANGED <<topic, broker, item, tries, erp, failures>>

\* It raises, whether or not the broker has the message, and nothing catches it.
\* Variant: it is caught, and the loop goes on.
DeadLetterSwallowed(w) ==
    /\ pc[w] = "dead_letter"
    /\ Fail
    /\ deadLetters' \in {deadLetters, OneMore(deadLetters, item[w])}
    /\ pc' = [pc EXCEPT ![w] = "commit"]
    /\ UNCHANGED <<topic, broker, item, tries, erp>>
DeadLetterFailed(w) ==
    /\ pc[w] = "dead_letter"
    /\ Fail
    /\ deadLetters' \in {deadLetters, OneMore(deadLetters, item[w])}
    /\ Halt(w)
    /\ UNCHANGED <<topic, erp>>

\* commit without an argument: the positions of the partitions that w owns now,
\* whether or not the message in hand came from one of them.
\* Variant: the offset of that message, whoever owns its partition.
CommitMessage(w) ==
    committed' = [committed EXCEPT ![item[w][1]] = item[w][2]]
CommitPositions(w) ==
    committed' = [p \in Partition |-> IF owner[p] = w THEN position[p]
                                                      ELSE committed[p]]
Commit(w) ==
    /\ pc[w] = "commit"
    /\ CommitPositions(w)
    /\ pc' = [pc EXCEPT ![w] = "fetch"]
    /\ item' = [item EXCEPT ![w] = None]
    /\ UNCHANGED <<topic, owner, position, tries, erp, deadLetters, failures>>

\* It raises, for a group that is being rebalanced or a broker that is away;
\* nothing catches it.
CommitFailed(w) ==
    /\ pc[w] = "commit"
    /\ Fail
    /\ Halt(w)
    /\ UNCHANGED <<topic, erp, deadLetters>>

\* The same end at any moment.
Crash(w) ==
    /\ pc[w] # "down"
    /\ Fail
    /\ Halt(w)
    /\ UNCHANGED <<topic, erp, deadLetters>>

-------------------------------------------------------------------------------
(* The group coordinator.  Who is given a partition, be it again, consumes it *)
(* from the committed offset, and drops nothing that he has in hand.          *)

Assign(p, w) ==
    /\ owner[p] = None
    /\ pc[w] # "down"
    /\ owner' = [owner EXCEPT ![p] = w]
    /\ position' = [position EXCEPT ![p] = committed[p]]
    /\ UNCHANGED <<topic, committed, memory, erp, deadLetters, failures>>

Rebalance(p, w) ==
    /\ owner[p] # None
    /\ pc[w] # "down"
    /\ Fail
    /\ owner' = [owner EXCEPT ![p] = w]
    /\ position' = [position EXCEPT ![p] = committed[p]]
    /\ UNCHANGED <<topic, committed, memory, erp, deadLetters>>

-------------------------------------------------------------------------------

Deliver(w) == \/ Delivered(w) \/ ServerError(w) \/ Rejected(w) \/ NoAnswer(w)

Loop(w) == \/ Fetch(w) \/ Unparseable(w) \/ Deliver(w) \/ DeadLettered(w)
           \/ DeadLetterFailed(w) \/ Commit(w) \/ CommitFailed(w)

GroupNext ==
    \/ \E w \in Worker : Loop(w) \/ Crash(w) \/ Restart(w)
    \/ \E p \in Partition, w \in Worker : Assign(p, w) \/ Rebalance(p, w)
    \/ \E post \in wire : LateArrival(post)

Next == GroupNext \/ \E p \in Partition : Publish(p)

Spec == Init /\ [][Next]_vars

\* A running worker keeps taking steps, docker restarts a stopped one, and the
\* broker does not leave a partition without an owner while somebody could read.
Fairness ==
    /\ \A w \in Worker : WF_vars(Loop(w)) /\ WF_vars(Restart(w))
    /\ \A p \in Partition : WF_vars(\E w \in Worker : Assign(p, w))

FairSpec == Spec /\ Fairness

-------------------------------------------------------------------------------
(* What the group promises.                                                  *)

Places(list) == {x \in Item : list[x] > 0}

\* The messages that the ERP has, or that wait in the dead-letter topic.
Settled == Places(received) \cup Places(deadLetters)
Sent    == {x \in Item : x[2] <= end[x[1]]}
Acked   == {x \in Item : x[2] <= committed[x[1]]}

\* What the broker, the loop of main, deliver, the ERP and the DLQ hold.
WorkerTypeOK ==
    /\ end \in [Partition -> Nat]
    /\ \A p \in Partition : end[p] <= MaxEnd[p]
    /\ poison \subseteq Item
    /\ owner \in [Partition -> Worker \cup {None}]
    /\ committed \in [Partition -> Nat]
    /\ position \in [Partition -> Nat]
    /\ pc \in [Worker -> {"down", "fetch", "post", "dead_letter", "commit"}]
    /\ item \in [Worker -> Item \cup {None}]
    /\ tries \in [Worker -> 0..(MaxAttempts - 1)]
    /\ received \in [Item -> Nat]
    /\ deadLetters \in [Item -> Nat]
    /\ wire \subseteq [item: Item, n: Nat]
    /\ failures \in Nat

\* The messages of a partition that are settled from the first on.
SettledUpTo(p, n) == \A i \in 1..n : <<p, i>> \in Settled

\* No order is passed over: below a committed offset the ERP or the dead-letter
\* topic has every message, although a commit names no offset and a worker may
\* have lost, or lost and regained, the partition of the message it just handled
\* (worker.py, "instead of being dropped").
SettledBelowCommit == \A p \in Partition : SettledUpTo(p, committed[p])

\* Why: the owner of a partition is at most one message past its committed
\* offset, the one it has in hand, and commits only when that one is settled.
InHand(w) ==
    /\ pc[w] \in {"post", "dead_letter", "commit"} <=> item[w] # None
    /\ item[w] # None => item[w][2] <= end[item[w][1]]
    /\ pc[w] = "commit" => item[w] \in Settled
OneAhead(p) ==
    /\ committed[p] <= end[p]
    /\ owner[p] # None =>
          \/ position[p] = committed[p]
          \/ /\ position[p] = committed[p] + 1
             /\ item[owner[p]] # None
             /\ item[owner[p]] = <<p, position[p]>>

DeliveryInv ==
    /\ WorkerTypeOK
    /\ SettledBelowCommit
    /\ \A w \in Worker : InHand(w)
    /\ \A p \in Partition : OneAhead(p)
    /\ \A post \in wire : post.item[2] <= end[post.item[1]]

\* A committed offset never goes back, not even with two workers on a partition:
\* an order that is behind it is not delivered again (consumer.commit of worker.py).
CommitsMoveForward ==
    [][\A p \in Partition : committed'[p] >= committed[p]]_vars

\* The ERP and the dead-letter topic get an order once, and once more at most for
\* each POST without an answer, crash, rebalance, failed commit or failed send to
\* the dead-letter topic: five attempts alone never deliver twice (deliver, which
\* retries only what did not succeed).
RepeatsAreCaused ==
    FoldFunction(+, 0, received) + FoldFunction(+, 0, deadLetters)
       <= Cardinality(Settled) + failures

\* The group implements the promise of AtLeastOnce: what is committed was settled,
\* what is settled was sent, and nothing is ever unsent or unsettled.
Promise == INSTANCE AtLeastOnce WITH
              sent <- Sent, settled <- Settled, acked <- Acked

DeliversAtLeastOnce == Promise!Spec

\* An approved order reaches the ERP or the dead-letter topic in spite of crashes,
\* rebalances and an ERP that fails, unless a message that is not JSON stops the
\* workers for good (worker.py, "instead of being dropped or blocking the partition").
EventuallySettled ==
    \A x \in Item :
       x \in Sent ~> x \in Settled \/ poison # {}

===============================================================================
