---------------------------- MODULE WebhookReceiver ----------------------------
(*****************************************************************************)
(* The webhook receiver (services/webhook_receiver/app/main.py) and the topic *)
(* webhook-events it writes.  A partition of the topic is a sequence that only *)
(* grows; who has read it up to where is the consumer's business.            *)
(*****************************************************************************)
EXTENDS Naturals, Sequences, WebhookEvents

CONSTANTS
    Partition,    \* the partitions of webhook-events
    Falsy,        \* order ids that Python's "or" passes over: "" and null
    ClientKey,    \* ClientKey[e]: data.external_client_id of e, or None
    PartitionOf,  \* the broker client's hash, from keys to partitions
    Poison,       \* messages that are not JSON or carry no event_id
    MaxLog        \* bound: the longest partition a run looks at

Message == EventId \cup Poison

ASSUME KeyAssumption ==
    Falsy \subseteq OrderId /\ ClientKey \in [EventId -> ClientId \cup {None}]
ASSUME PartitionAssumption ==
    PartitionOf \in [OrderId \cup ClientId \cup EventId -> Partition]
ASSUME PoisonAssumption    == Poison \cap EventId = {}
ASSUME MaxLogAssumption    == MaxLog \in Nat

VARIABLE log    \* log[p]: the messages of partition p

Publish(p, m) ==
    /\ Len(log[p]) < MaxLog
    /\ log' = [log EXCEPT ![p] = Append(@, m)]

\* partition_key: the id of the order, else that of the client, else the event_id.
HasOrderKey(e) == Body[e].fault # "no_order" /\ Body[e].order \notin Falsy
RoutingKey(e) == IF HasOrderKey(e) THEN Body[e].order
                 ELSE IF ClientKey[e] # None THEN ClientKey[e] ELSE e

\* Variant: no key, and the broker client spreads the messages as it likes.
AnyPartition(e) == Partition
PartitionsFor(e) == {PartitionOf[RoutingKey(e)]}

\* receive_webhook: the envelope admits four types (else 422) and the message is
\* published.  The partner may send an event any number of times: it repeats one
\* that got 503, and a 503 does not tell that the broker refused the message.
\* A refusal changes nothing here.
Receive(e) ==
    /\ Body[e].type # "OTHER"
    /\ \E p \in PartitionsFor(e) : Publish(p, e)

\* Another producer writes to the topic what the receiver would have refused.
ForeignMessage(p) ==
    \E m \in Poison \cup {e \in EventId : Body[e].type = "OTHER"} : Publish(p, m)

ReceiverInit == log = [p \in Partition |-> <<>>]

ReceiverNext == \/ \E e \in EventId : Receive(e)
                \/ \E p \in Partition : ForeignMessage(p)

-------------------------------------------------------------------------------

\* The topic holds events and foreign messages.
LogTypeOK == log \in [Partition -> Seq(Message)]

\* Partition p has message e, and message m before the first e.
Before(p, m, e) ==
    \E i, j \in DOMAIN log[p] : /\ i < j
                               /\ log[p][i] = m
                               /\ log[p][j] = e
                               /\ \A k \in 1..i : log[p][k] # e

===============================================================================
