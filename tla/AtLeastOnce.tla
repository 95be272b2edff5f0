------------------------------ MODULE AtLeastOnce ------------------------------
(*****************************************************************************)
(* What a consumer of this pipeline promises about a topic, whoever runs it  *)
(* and whatever fails: it settles messages that were sent, as often as it    *)
(* likes, and acknowledges none that is not settled.  The two consumer loops *)
(* (services/ingestion_consumer/app/consumer.py and                          *)
(* services/order_approved_worker/app/worker.py) implement it.               *)
(*****************************************************************************)
CONSTANT Item   \* the places in the topic

VARIABLES
    sent,       \* the places that hold a message
    settled,    \* those that somebody is done with
    acked       \* those that a restarted consumer does not see again

promise == <<sent, settled, acked>>

Init == sent = {} /\ settled = {} /\ acked = {}

Send == /\ \E x \in Item : sent' = sent \cup {x}
        /\ UNCHANGED <<settled, acked>>

Settle == /\ \E x \in sent : settled' = settled \cup {x}
          /\ UNCHANGED <<sent, acked>>

\* An acknowledgement may also be withdrawn: then the message comes again.
Acknowledge == /\ acked' \in SUBSET settled
               /\ UNCHANGED <<sent, settled>>

Next == Send \/ Settle \/ Acknowledge

Spec == Init /\ [][Next]_promise

===============================================================================
