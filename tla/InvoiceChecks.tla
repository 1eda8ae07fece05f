----------------------------- MODULE InvoiceChecks -----------------------------
(***************************************************************************)
(* What the chain of checks makes of one invoice-generation message:        *)
(* unmarshalRequest, NewInvoiceFromProtoMessage, invoiceRepo.Add,           *)
(* buildPaymentRequest and validatePaymentRequest, each refusing with an    *)
(* error that wraps others, and processInvoiceDelivery, which settles the   *)
(* message by the types it finds in that chain.  InvoiceProcessing has the  *)
(* rest of the life of a message and takes from here its kind.              *)
(***************************************************************************)
EXTENDS Validation

CONSTANT Messages   \* the contents that occur

Text   == {"idempotency_key", "booking_id", "payer_id", "payer.name", "payer.email",
           "payer.document_number", "payer.billing_address", "booking.cottage_name",
           "value_per_night.currency", "total.currency", "tax_total.currency",
           "discount_total.currency"}
Number == {"booking.nights", "booking.number_of_guests", "value_per_night.amount",
           "total.amount"}
Part   == {"payer", "booking", "value_per_night", "total", "tax_total", "discount_total"}
Time   == {"issued_at", "due_at"}
Field  == Text \cup Number \cup Part \cup Time

Values(f) == CASE f \in Text   -> TextValue
               [] f \in Number -> NumberValue
               [] f \in Part   -> PartValue
               [] f \in Time   -> TimeValue

Content == {m \in [Field -> TextValue \cup NumberValue \cup TimeValue] :
               \A f \in Field : m[f] \in Values(f)}

ASSUME MessagesAssumption == Messages \subseteq Content

VARIABLES
    contentType,  \* the header of the delivery
    body,         \* the encoding of its body
    message,      \* what the body says
    stage,        \* the next call of processInvoiceDelivery
    error,        \* the types in the chain of the error it returned
    failed,       \* history: the dependency that failed, or "none"
    outcome       \* how the message was settled

checksVars == <<contentType, body, message, stage, error, failed, outcome>>

AppError  == {"app.corrupted", "app.alreadyExists", "app.unexpected", "app.publish"}
DbError   == {"db.alreadyExists", "db.unexpected"}
MqError   == {"mq.unexpected"}
ErrorType == AppError \cup DbError \cup MqError \cup {"validation", "clock"}

ChecksTypeOK ==
    /\ contentType \in {"none", "protobuf", "json", "other"}
    /\ body \in {"protobuf", "json", "garbage"}
    /\ message \in Content
    /\ stage \in {"unmarshal", "generate", "save", "publish", "done"}
    /\ error \subseteq ErrorType
    /\ failed \in {"none", "clock", "duplicate", "insert", "publish"}
    /\ outcome \in {"none", "ack", "drop", "requeue"}

ChecksInit ==
    /\ contentType \in {"none", "protobuf", "json", "other"}
    /\ body \in {"protobuf", "json", "garbage"}
    /\ message \in Messages
    /\ stage = "unmarshal" /\ error = {} /\ failed = "none" /\ outcome = "none"

----------------------------------------------------------------------------
(* The parts a field lies in: a getter on a nil part returns a zero value.   *)
Parts(f) ==
    CASE f \in {"payer.name", "payer.email", "payer.document_number",
                "payer.billing_address"}               -> {"payer"}
      [] f \in {"booking.cottage_name", "booking.nights",
                "booking.number_of_guests", "value_per_night"} -> {"booking"}
      [] f \in {"value_per_night.amount",
                "value_per_night.currency"}            -> {"booking", "value_per_night"}
      [] f \in {"total.amount", "total.currency"}      -> {"total"}
      [] f = "tax_total.currency"                      -> {"tax_total"}
      [] f = "discount_total.currency"                 -> {"discount_total"}
      [] OTHER                                         -> {}

Got == [f \in Field |-> IF \A p \in Parts(f) : message[p] = "good" THEN message[f] ELSE "zero"]

InOrder == ValidPrecedence(AsTime(Got["issued_at"]), AsTime(Got["due_at"]))

Proceed(next) == /\ stage' = next
                 /\ UNCHANGED <<contentType, body, message, error, outcome>>

(* Nack, and return the error. *)
Refuse(types, verdict) == /\ stage' = "done"
                          /\ error' = types
                          /\ outcome' = verdict
                          /\ UNCHANGED <<contentType, body, message>>

(* unmarshalRequest: a content type that names an encoding is believed, any  *)
(* other one makes both be tried.                                            *)
Decodable == \/ body = "protobuf" /\ contentType # "json"
             \/ body = "json" /\ contentType # "protobuf"

Unmarshal ==
    /\ stage = "unmarshal"
    /\ IF Decodable THEN Proceed("generate") ELSE Refuse({"app.corrupted"}, "drop")
    /\ UNCHANGED failed

(* Slip: the payer's e-mail address is not asked for.                        *)
InvoiceAcceptedWithoutEmail ==
    Violations(Got, Text \ {"payer.email"}, Part \cup Time, Number) = {} /\ InOrder

(* The checks of NewInvoiceFromProtoMessage. *)
InvoiceAccepted == Violations(Got, Text, Part \cup Time, Number) = {} /\ InOrder

(* Lines 91-96: whatever the error, the message is dropped. *)
Generate ==
    /\ stage = "generate"
    /\ \/ InvoiceAccepted /\ Proceed("save") /\ UNCHANGED failed
       \/ ~InvoiceAccepted /\ Refuse({"app.corrupted", "validation"}, "drop")
          /\ UNCHANGED failed
       \/ Refuse({"app.unexpected", "clock"}, "drop") /\ failed' = "clock"

(* The checks of invoiceRepo.Add on the document; its number and status are  *)
(* the program's own.                                                        *)
DocumentAccepted ==
    /\ Violations(Got, {"idempotency_key", "booking_id", "payer_id", "payer.document_number",
                        "total.currency"}, {}, {"total.amount"}) = {}
    /\ \A f \in Time : NotZeroTime(AsTime(Got[f]))

(* Slip: every error of the repository is taken for a duplicate. *)
AddErrorDuplicate(types) == {"app.alreadyExists"} \cup types

(* saveInvoice: the error it wraps the repository's in. *)
AddError(types) ==
    types \cup (IF "db.alreadyExists" \in types THEN {"app.alreadyExists"} ELSE {"app.unexpected"})

(* Lines 98-109. *)
RefuseSave(types) ==
    Refuse(AddError(types), IF "app.alreadyExists" \in AddError(types) THEN "drop" ELSE "requeue")

Save ==
    /\ stage = "save"
    /\ \/ ~DocumentAccepted /\ RefuseSave({"validation"}) /\ UNCHANGED failed
       \/ /\ DocumentAccepted
          /\ \/ Proceed("publish") /\ UNCHANGED failed
             \/ RefuseSave({"db.alreadyExists"}) /\ failed' = "duplicate"
             \/ RefuseSave({"db.unexpected"}) /\ failed' = "insert"

(* What buildPaymentRequest takes over from the document. *)
RequestPart   == {"total", "booking", "payer"}
RequestText   == {"total.currency", "booking.cottage_name", "payer.name", "payer.email"}
RequestNumber == {"total.amount", "booking.nights", "booking.number_of_guests"}

(* validatePaymentRequest on what buildPaymentRequest makes of the document; *)
(* the number and the one payment option are the program's own, and the      *)
(* timestamps it makes are never nil.                                        *)
RequestAccepted ==
    /\ Violations(Got, RequestText, RequestPart, RequestNumber) = {}
    /\ InOrder

(* Lines 112-121. *)
RefusePublish(types) == Refuse(types, IF "validation" \in types THEN "drop" ELSE "requeue")

Publish ==
    /\ stage = "publish"
    /\ \/ ~RequestAccepted /\ RefusePublish({"validation"}) /\ UNCHANGED failed
       \/ /\ RequestAccepted
          /\ RefusePublish({"app.publish", "mq.unexpected"})
          /\ failed' = "publish"
       \/ /\ RequestAccepted
          /\ stage' = "done" /\ outcome' = "ack"
          /\ UNCHANGED <<contentType, body, message, error, failed>>

ChecksNext == Unmarshal \/ Generate \/ Save \/ Publish

ChecksSpec == ChecksInit /\ [][ChecksNext]_checksVars

----------------------------------------------------------------------------
(* Properties                                                                *)

(* The kinds of InvoiceProcessing, said of the message alone. *)
Complete == \A f \in Text \cup Number \cup Part : message[f] = "good"
Dated    == /\ message["issued_at"] # "zero" /\ message["due_at"] # "zero"
            /\ Rank[message["issued_at"]] < Rank[message["due_at"]]

Kind == CASE ~Decodable                      -> "corrupt"
          [] Decodable /\ ~(Complete /\ Dated) -> "invalid"
          [] Decodable /\ Complete /\ Dated
                /\ message["issued_at"] = "year1" -> "undated"
          [] OTHER                            -> "valid"

(* A message that no dependency failed on is settled by its kind alone, as   *)
(* InvoiceProcessing has it: the checks of three functions written apart     *)
(* agree on every message but the undated one, which the first accepts and   *)
(* the second refuses with an error that line 101 does not know (the message *)
(* is requeued, and the next attempt does the same).                         *)
KindDecides ==
    stage = "done" /\ failed = "none" =>
        outcome = CASE Kind = "valid"   -> "ack"
                    [] Kind = "undated" -> "requeue"
                    [] OTHER            -> "drop"

(* An invoice that was stored can always be asked for: validatePaymentRequest *)
(* refuses nothing that NewInvoiceFromProtoMessage has accepted, so line 116  *)
(* never drops a message whose invoice is in the collection.                  *)
StoredCanBeRequested == stage = "publish" => RequestAccepted

(* README.md:104: a failing insert or publish is told apart from everything  *)
(* else in the chain of errors and keeps its message.                        *)
FailureKeepsMessage == failed \in {"insert", "publish"} => outcome = "requeue"
==============================================================================
