--------------------------------- MODULE MCTxn ---------------------------------
(* Two transactions at a time, for TLC: two orders of a new client at two       *)
(* versions of one address, one of them created twice and one by an event that  *)
(* may write no new version, two statuses and one that does not exist, an       *)
(* invoice and one that is refused, two payments under one id, one that may not *)
(* be the first, one without a field and one without its order.                 *)
EXTENDS IngestionTxn

CONSTANTS o1, o2, k1, a1, x1, v1, profile, home, moved, items, sum,
          c1, c1again, c2, approve, ship, pay1, pay2, noField,
          c2null, payNew, noOrder, invoice, badValue, badStatus, s1, s2

MCEventId   == {c1, c1again, c2, approve, ship, pay1, pay2, noField,
                c2null, payNew, noOrder, invoice, badValue, badStatus}
RaceEventId == {c1, c2}
MCOrderId   == {o1, o2}
MCClientId  == {k1}
MCAddressId == {a1}
MCPaymentId == {x1}
MCInvoiceId == {v1}
MCProfile   == {profile}
MCPlace     == {home, moved}
MCItems     == {items}
MCCharge    == {sum}
MCSession   == {s1, s2}

Created(o, place, fault) ==
    [type |-> "ORDER_CREATED", order |-> o, client |-> k1, profile |-> profile,
     address |-> a1, place |-> place, items |-> items, fault |-> fault]
Payment(o, fault) ==
    [type |-> "PAYMENT_CONFIRMED", order |-> o, payment |-> x1, charge |-> sum,
     fault |-> fault]
Invoice(o, fault) ==
    [type |-> "INVOICE_ISSUED", order |-> o, invoice |-> v1, charge |-> sum,
     fault |-> fault]

MCBody ==
    [e \in EventId |->
       CASE e = c1         -> Created(o1, home, "none")
         [] e = c1again    -> Created(o1, moved, "none")
         [] e = c2         -> Created(o2, moved, "none")
         [] e = c2null     -> Created(o2, home, "bad_new_row")
         [] e = approve    -> [type |-> "ORDER_STATUS_CHANGED", order |-> o1,
                               new_status |-> "APPROVED", fault |-> "none"]
         [] e = ship       -> [type |-> "ORDER_STATUS_CHANGED", order |-> o1,
                               new_status |-> "SHIPPED", fault |-> "none"]
         [] e = badStatus  -> [type |-> "ORDER_STATUS_CHANGED", order |-> o1,
                               new_status |-> "APPROVED", fault |-> "bad_value"]
         [] e = pay1       -> Payment(o1, "none")
         [] e = pay2       -> Payment(o1, "none")
         [] e = noField    -> Payment(o1, "missing_field")
         [] e = noOrder    -> Payment(o1, "no_order")
         [] e = payNew     -> Payment(o1, "bad_new_row")
         [] e = invoice    -> Invoice(o1, "none")
         [] e = badValue   -> Invoice(o1, "bad_value")]
===============================================================================
