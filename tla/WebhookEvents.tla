----------------------------- MODULE WebhookEvents -----------------------------
(*****************************************************************************)
(* The partner's webhooks: an event_id and what it says.  The envelope is    *)
(* that of services/webhook_receiver/app/main.py; the fields of each body    *)
(* are those that process_event reads.                                       *)
(*****************************************************************************)
CONSTANTS
    EventId,    \* the partner's event_id values
    OrderId,    \* external_order_id values; order_id is in one-to-one relation
    ClientId,   \* external_client_id values; client_id likewise
    AddressId,  \* external_address_id values
    PaymentId,  \* external_payment_id values
    InvoiceId,  \* external_invoice_id values
    Profile,    \* a client's name, email and document
    Place,      \* the eight fields that tell two address versions apart
    Items,      \* the list of items of an order
    Charge,     \* the status, amount and date of a payment or of an invoice
    Body,       \* Body[e]: the type and data that event e carries
    None        \* SQL NULL, and the row that is not there

Status   == {"PENDING", "APPROVED", "SHIPPED", "DELIVERED", "CANCELLED", "CLOSED"}

(*****************************************************************************)
(* fault is what is wrong with the data: nothing; no external_order_id, or    *)
(* another field that is not there and raises KeyError; a value that a       *)
(* column, a CHECK constraint or a NOT NULL refuses, in whatever row it is    *)
(* written; or one that only the INSERT of a row meets.  Of the last kind    *)
(* are the method of a payment, the number and the date of an invoice, which *)
(* the UPDATE of an existing row leaves alone, and a field of an address     *)
(* that is NULL, where the current version has the empty string.             *)
(*****************************************************************************)
Fault == {"none", "no_order", "missing_field", "bad_value", "bad_new_row"}

CreatedBody == [type: {"ORDER_CREATED"}, order: OrderId, client: ClientId,
                profile: Profile, address: AddressId, place: Place,
                items: Items, fault: Fault]
StatusBody  == [type: {"ORDER_STATUS_CHANGED"}, order: OrderId,
                new_status: Status, fault: Fault \ {"bad_new_row"}]
PaymentBody == [type: {"PAYMENT_CONFIRMED"}, order: OrderId,
                payment: PaymentId, charge: Charge, fault: Fault]
InvoiceBody == [type: {"INVOICE_ISSUED"}, order: OrderId,
                invoice: InvoiceId, charge: Charge, fault: Fault]
OtherBody   == [type: {"OTHER"}, order: OrderId]

ASSUME BodyAssumption ==
    Body \in [EventId -> CreatedBody \cup StatusBody \cup PaymentBody
                           \cup InvoiceBody \cup OtherBody]
ASSUME NoneAssumption ==
    None \notin Status \cup Profile \cup EventId

===============================================================================
