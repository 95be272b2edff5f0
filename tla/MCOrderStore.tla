----------------------------- MODULE MCOrderStore -----------------------------
(* Fourteen events of three orders of one client, for TLC: an order created     *)
(* twice, an address that changes and may change back, a status that follows a  *)
(* terminal one, a payment and an invoice that may come before their order, a   *)
(* payment id that two orders claim, values the schema refuses, in every row or *)
(* in a new one only, and a type that nobody handles.                           *)
EXTENDS OrderStore

CONSTANTS o1, o2, o3, k1, a1, x1, v1, profile, other, home, moved, items, sum,
          c1, c1again, c2, c3, c3null, ship, deliver, bad, payBad,
          payNew, pay1, pay2, invoice, unknown

MCEventId   == {c1, c1again, c2, c3, c3null, ship, deliver, bad, payBad,
                payNew, pay1, pay2, invoice, unknown}
MCOrderId   == {o1, o2, o3}
MCClientId  == {k1}
MCAddressId == {a1}
MCPaymentId == {x1}
MCInvoiceId == {v1}
MCProfile   == {profile, other}
MCPlace     == {home, moved}
MCItems     == {items}
MCCharge    == {sum}

Created(o, p, place, fault) ==
    [type |-> "ORDER_CREATED", order |-> o, client |-> k1, profile |-> p,
     address |-> a1, place |-> place, items |-> items, fault |-> fault]
StatusTo(o, s, fault) ==
    [type |-> "ORDER_STATUS_CHANGED", order |-> o, new_status |-> s, fault |-> fault]
Payment(o, fault) ==
    [type |-> "PAYMENT_CONFIRMED", order |-> o, payment |-> x1, charge |-> sum,
     fault |-> fault]
Invoice(o, fault) ==
    [type |-> "INVOICE_ISSUED", order |-> o, invoice |-> v1, charge |-> sum,
     fault |-> fault]

MCBody ==
    [e \in MCEventId |->
       CASE e = c1      -> Created(o1, profile, home, "none")
         [] e = c1again -> Created(o1, other, home, "none")
         [] e = c2      -> Created(o2, other, moved, "none")
         [] e = c3      -> Created(o3, profile, home, "none")
         [] e = c3null  -> Created(o3, profile, home, "bad_new_row")
         [] e = ship    -> StatusTo(o1, "SHIPPED", "none")
         [] e = deliver -> StatusTo(o1, "DELIVERED", "none")
         [] e = payBad  -> Payment(o1, "bad_value")
         [] e = payNew  -> Payment(o1, "bad_new_row")
         [] e = bad     -> StatusTo(o1, "CANCELLED", "bad_value")
         [] e = pay1    -> Payment(o1, "none")
         [] e = pay2    -> Payment(o2, "none")
         [] e = invoice -> Invoice(o2, "none")
         [] e = unknown -> [type |-> "OTHER", order |-> o1]]
===============================================================================
