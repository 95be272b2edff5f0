----------------------------- MODULE MCIngestion ------------------------------
(* Two replicas and two partitions, for TLC.  Order o1 is created at home and   *)
(* approved; order o2 of the same client moves it.  The id of o2 is falsy: its  *)
(* creation goes where the client's key does, the other partition, its approval *)
(* where that of o1 does.  A message that is no event, one the schema refuses   *)
(* and one without a field may be among them.                                   *)
EXTENDS IngestionConsumer, TLC

CONSTANTS o1, o2, k1, a1, profile, home, moved, items, create1, create2,
          approve1, approve2, ship1, badValue, noField, poison, p1, p2, r1, r2

CoreEventId == {create1, create2, approve1, approve2}
ShipEventId == {create1, approve1, ship1}
LiveEventId == {create1, approve1, ship1, badValue, noField}
MCOrderId   == {o1, o2}
MCClientId  == {k1}
MCAddressId == {a1}
MCProfile   == {profile}
MCPlace     == {home, moved}
MCItems     == {items}
MCPoison    == {poison}
MCPartition == {p1, p2}
OnePartition == {p1}
MCConsumer  == {r1, r2}
OneConsumer == {r1}

MCFalsy     == {o2}
MCClientKey == [e \in EventId |-> IF e = create2 THEN k1 ELSE None]
MCPartitionOf ==
    [key \in MCOrderId \cup MCClientId \cup EventId |->
       IF key = k1 /\ Partition # {p1} THEN p2 ELSE p1]

Created(o, place, fault) ==
    [type |-> "ORDER_CREATED", order |-> o, client |-> k1, profile |-> profile,
     address |-> a1, place |-> place, items |-> items, fault |-> fault]

MCBody ==
    [e \in EventId |->
       CASE e = create1  -> Created(o1, home, "none")
         [] e = create2  -> Created(o2, moved, "none")
         [] e = badValue -> Created(o1, home, "bad_value")
         [] e = noField  -> Created(o1, home, "missing_field")
         [] e = approve1 -> [type |-> "ORDER_STATUS_CHANGED", order |-> o1,
                             new_status |-> "APPROVED", fault |-> "none"]
         [] e = approve2 -> [type |-> "ORDER_STATUS_CHANGED", order |-> o2,
                             new_status |-> "APPROVED", fault |-> "none"]
         [] e = ship1    -> [type |-> "ORDER_STATUS_CHANGED", order |-> o1,
                             new_status |-> "SHIPPED", fault |-> "none"]]

\* How many failures of each kind the run looks at.
CONSTANTS Crashes, Rebalances, DbFailures, LostAcks, LostRows, FailedSends
MCBudget == [crash |-> Crashes, rebalance |-> Rebalances, db |-> DbFailures,
             ack |-> LostAcks, log |-> LostRows, send |-> FailedSends]

\* At most MaxFailures of all kinds together, and MaxMessages in all partitions.
CONSTANTS MaxFailures, MaxMessages
Bounded ==
    /\ spent["crash"] + spent["rebalance"] + spent["db"] + spent["ack"]
          + spent["log"] + spent["send"] <= MaxFailures
    /\ Cardinality({x \in Partition \X (1..MaxLog) : x[2] <= Len(log[x[1]])})
          <= MaxMessages

\* Replicas are interchangeable: nothing chooses one by name.
Symmetry == Permutations(MCConsumer)
===============================================================================
