------------------------------- MODULE MCWorker -------------------------------
(* Two workers and two partitions of order-approved, for TLC.                 *)
EXTENDS OrderApprovedWorker

CONSTANTS q1, q2, w1, w2

MCPartition == {q1, q2}
MCWorkers   == {w1, w2}
MCMaxEnd    == [p \in MCPartition |-> IF p = q1 THEN 2 ELSE 1]
===============================================================================
