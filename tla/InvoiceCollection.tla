-------------------------- MODULE InvoiceCollection --------------------------
(***************************************************************************)
(* The MongoDB collection "invoices" as the service sees it through         *)
(* infra/db/invoice_repository.go.  The only unique index is the one on     *)
(* _id: nothing in the program creates another one, so two documents may    *)
(* carry the same invoice_number, the same booking or the same idempotency  *)
(* key, and FindOne and UpdateOne act on ANY one document of those that     *)
(* match their filter.                                                      *)
(*                                                                          *)
(* Of a document the model keeps the fields the program decides on.         *)
(* "booking" stands for what is copied from the platform's message and      *)
(* identifies it: booking_id, payer.document_number and idempotency_id.     *)
(*                                                                          *)
(* Definitions marked "Slip" (here and in the other modules) are mistakes a *)
(* programmer could make in the definition they stand before.  No           *)
(* specification uses them: each is substituted for its definition to see   *)
(* that a property notices.                                                 *)
(***************************************************************************)
CONSTANTS Doc,            \* object ids (_id)
          InvoiceNumber,  \* values GenerateHumanFriendlyId can return
          Booking

VARIABLE invoices         \* the documents, a function whose domain is the ids in use

InvoiceStatus == {"pending", "paid"}

Invoice == [number : InvoiceNumber, booking : Booking, status : InvoiceStatus]

InvoicesOK == /\ DOMAIN invoices \subseteq Doc
              /\ invoices \in [DOMAIN invoices -> Invoice]

(* NewInvoiceFromProtoMessage on a message that passes its checks.           *)
NewInvoice(n, b) == [number |-> n, booking |-> b, status |-> "pending"]

(* FindOne / UpdateOne with filter {invoice_number: n}. *)
WithNumber(n) == {d \in DOMAIN invoices : invoices[d].number = n}

(* FindOne with filter {booking_id, payer.document_number}. *)
WithBooking(b) == {d \in DOMAIN invoices : invoices[d].booking = b}

(* Slip: an upsert, which replaces the document that has the id. *)
UpsertInvoice(d, inv) ==
    invoices' = [e \in DOMAIN invoices \cup {d} |->
                    IF e = d THEN inv ELSE invoices[e]]

(* InsertOne of a document under an id that is not in use. *)
InsertInvoice(d, inv) ==
    /\ d \in Doc \ DOMAIN invoices
    /\ invoices' = [e \in DOMAIN invoices \cup {d} |->
                        IF e = d THEN inv ELSE invoices[e]]

(* Slip: a paid invoice is taken out of the collection. *)
ArchivePaid(d) == invoices' = [e \in DOMAIN invoices \ {d} |-> invoices[e]]

(* Slips: only updated_at is set; the status is written in capitals. *)
TouchInvoice(d) == d \in DOMAIN invoices /\ invoices' = invoices
SetPaidInCapitals(d) == invoices' = [invoices EXCEPT ![d].status = "PAID"]

(* UpdateOne {$set: {status: "paid"}}: whatever the status was before. *)
SetPaid(d) == invoices' = [invoices EXCEPT ![d].status = "paid"]

IsPaid(d) == invoices[d].status = "paid"

SomePaid(n) == \E d \in WithNumber(n) : IsPaid(d)

(* What GenerateHumanFriendlyId makes likely and nothing enforces. *)
UniqueNumbers == \A d, e \in DOMAIN invoices :
                    invoices[d].number = invoices[e].number => d = e
==============================================================================
