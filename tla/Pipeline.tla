------------------------------ MODULE Pipeline ------------------------------
(***************************************************************************)
(* The way of an approved order through the whole pipeline: webhook-       *)
(* receiver, ingestion-consumer, the topic order-approved, order-approved- *)
(* worker and the ERP (docker-compose.yml wires them so).  The two groups  *)
(* share nothing but the topic: what ingestion-consumer appends to         *)
(* `approved` is what the worker's partition ends at.  Its only producer   *)
(* dumps JSON, so none of its messages is poison.                          *)
(***************************************************************************)
EXTENDS IngestionConsumer

CONSTANTS
    OrderApproved,     \* the one partition of the topic
    Worker,            \* replicas of order-approved-worker
    DeliverAttempts,   \* stop_after_attempt of its deliver
    MaxApprovals,      \* bound: approvals published
    MaxWorkerFailures  \* bound: failures on the worker's side

ASSUME WorkerAssumption ==
    /\ DeliverAttempts \in Nat \ {0}
    /\ MaxApprovals \in Nat /\ MaxWorkerFailures \in Nat
    /\ None \notin Worker \cup ({OrderApproved} \X (1..MaxApprovals))

\* The events that approve an order; each is published once at most.
ApprovalEvent == {e \in EventId : /\ Body[e].type = "ORDER_STATUS_CHANGED"
                                  /\ Body[e].new_status = "APPROVED"}

\* The bound on the topic has room for all of them.
ASSUME RoomAssumption == /\ IsFiniteSet(ApprovalEvent)
                         /\ Cardinality(ApprovalEvent) <= MaxApprovals

VARIABLES wOwner, wCommitted, wPosition, wPc, wItem, wTries,
          received, deadLetters, wire, wFailures

workerVars == <<wOwner, wCommitted, wPosition, wPc, wItem, wTries,
                received, deadLetters, wire, wFailures>>

W == INSTANCE OrderApprovedWorker WITH
        Partition   <- {OrderApproved},
        MaxAttempts <- DeliverAttempts,
        MaxEnd      <- [p \in {OrderApproved} |-> MaxApprovals],
        MaxFailures <- MaxWorkerFailures,
        end         <- [p \in {OrderApproved} |-> Len(approved)],
        poison      <- {},
        owner       <- wOwner,
        committed   <- wCommitted,
        position    <- wPosition,
        pc          <- wPc,
        item        <- wItem,
        tries       <- wTries,
        failures    <- wFailures

PipelineInit == Init /\ W!WorkerInit

Ingest  == Next /\ UNCHANGED workerVars
Deliver == UNCHANGED vars /\ W!GroupNext

PipelineNext == Ingest \/ Deliver

all == <<vars, workerVars>>

PipelineSpec == PipelineInit /\ [][PipelineNext]_all

\* Each group has the fairness it has by itself.
PipelineFairness ==
    /\ \A c \in Consumer : /\ WF_all(Replica(c) /\ UNCHANGED workerVars)
                           /\ WF_all(Restart(c) /\ UNCHANGED workerVars)
    /\ \A p \in Partition :
          WF_all((\E c \in Consumer : Assign(p, c)) /\ UNCHANGED workerVars)
    /\ \A w \in Worker : /\ WF_all(UNCHANGED vars /\ W!Loop(w))
                         /\ WF_all(UNCHANGED vars /\ W!Restart(w))
    /\ WF_all(UNCHANGED vars /\ \E w \in Worker : W!Assign(OrderApproved, w))

PipelineFairSpec == PipelineSpec /\ PipelineFairness

-----------------------------------------------------------------------------
(***************************************************************************)
(* Properties                                                              *)
(***************************************************************************)

\* The approvals that the tables have committed, by their event.
Approvals == {history[h].event : h \in {i \in DOMAIN history :
                                            history[i].status = "APPROVED"}}

Places(e)  == {i \in DOMAIN approved : approved[i].event = e}
Arrived(e) == \E i \in Places(e) : <<OrderApproved, i>> \in W!Settled
Waiting(e) == \E i \in Places(e) : i > wCommitted[OrderApproved]
InOutbox(e) == \E c \in Consumer : outbox[c] # None /\ outbox[c].event = e
Unpublished(e) == \E r \in reports : r.message = e /\ r.outcome = "publish_failed"

\* Every approval that the database committed can be found: it is at the ERP or
\* dead-lettered, in order-approved ahead of the worker's offset, about to be
\* published, or reported as not published.  No more are missing than
\* ingestion-consumer crashed or lost the answer to a COMMIT; nothing that goes
\* wrong on the worker's side costs one.
ApprovalsAccountedFor ==
    Cardinality({e \in Approvals :
                   ~(Arrived(e) \/ Waiting(e) \/ InOutbox(e) \/ Unpublished(e))})
       <= spent["crash"] + spent["ack"]

\* An approval that is committed reaches the ERP or the dead-letter topic,
\* through whatever either group has to repeat, unless its publication is
\* reported as failed or a crash of ingestion-consumer fell before it (README,
\* the flow from the webhook to the ERP).
ApprovalsArrive ==
    \A e \in EventId :
       e \in Approvals ~>
          Arrived(e) \/ Unpublished(e) \/ spent["crash"] + spent["ack"] > 0
=============================================================================
