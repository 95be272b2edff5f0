----------------------------- MODULE MCPipeline -----------------------------
(* One order that is created and approved twice, by two events, one replica of  *)
(* each service, for TLC: two approvals are behind one another in both topics,  *)
(* and either service may fail between any two steps.                           *)
EXTENDS Pipeline

CONSTANTS o1, k1, a1, profile, home, items, create1, approve1, approve2,
          p1, r1, w1

MCEventId   == {create1, approve1, approve2}
MCOrderId   == {o1}
MCClientId  == {k1}
MCAddressId == {a1}
MCProfile   == {profile}
MCPlace     == {home}
MCItems     == {items}
MCPartition == {p1}
MCConsumer  == {r1}
MCWorker    == {w1}

MCClientKey   == [e \in EventId |-> None]
MCPartitionOf == [key \in MCOrderId \cup MCClientId \cup EventId |-> p1]

MCBody ==
    [e \in EventId |->
       IF e = create1
       THEN [type |-> "ORDER_CREATED", order |-> o1, client |-> k1,
             profile |-> profile, address |-> a1, place |-> home,
             items |-> items, fault |-> "none"]
       ELSE [type |-> "ORDER_STATUS_CHANGED", order |-> o1,
             new_status |-> "APPROVED", fault |-> "none"]]

\* How many failures of each kind the run looks at.
MCBudget == [crash |-> 1, rebalance |-> 0, db |-> 0, ack |-> 1, log |-> 0, send |-> 1]

=============================================================================
