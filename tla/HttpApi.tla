-------------------------------- MODULE HttpApi --------------------------------
(***************************************************************************)
(* One HTTP call on its way through the mux, the generated gateway, the     *)
(* checks of the service behind it and back as an HTTP status: what the     *)
(* caller is told, and what has happened to the invoice by then.  The       *)
(* concurrency of the calls is in PaymentMaking and PaymentReissue, which   *)
(* take the kinds of card and the codes from here.                          *)
(***************************************************************************)
EXTENDS Validation

CONSTANT Calls   \* the calls that occur

Pay     == "/v1/payments/invoice/{invoice_number}"
Reissue == "/v1/payments/payment_request/reissue"
Gateway == {Pay, Reissue}

CardField == {"number", "exp_month", "exp_year", "cvv", "holder_name", "brand"}
AskField  == {"booking_number", "document_number"}
Field     == CardField \cup AskField \cup {"invoice_number"}

(***************************************************************************)
(* Of a card number the last four bytes matter: there are fewer than four   *)
(* ("short"), they are spaces ("endsBlank"), or they begin inside a         *)
(* character that takes several bytes ("cutsRune").  A segment of the path  *)
(* may be an escaped space; it is not empty.                                *)
(***************************************************************************)
FieldValue(f) ==
    CASE f = "number"                  -> TextValue \cup {"short", "endsBlank", "cutsRune"}
      [] f \in {"exp_month", "exp_year"} -> {"good", "zero"}
      [] f = "invoice_number"          -> {"good", "blank"}
      [] OTHER                         -> TextValue

AnyValue == UNION {FieldValue(f) : f \in Field}

Call == {c \in [path : Gateway \cup {"/healthz", "/elsewhere"}, method : {"POST", "GET"},
                body : {"json", "empty", "malformed"}, value : [Field -> AnyValue]] :
            \A f \in Field : c.value[f] \in FieldValue(f)}

ASSUME CallsAssumption == Calls \subseteq Call

VARIABLES
    req,      \* the call
    stage,    \* the next thing that happens to it
    status,   \* the HTTP status, 0 before, -1 when the connection is dropped
    charged,  \* has this call marked the invoice paid?
    receipt,  \* what became of its receipt
    failed    \* history: did a dependency fail?

httpVars == <<req, stage, status, charged, receipt, failed>>

HttpTypeOK ==
    /\ req \in Calls
    /\ stage \in {"route", "decode", "check", "load", "update", "buildFailed", "build",
                  "forward", "record", "done"}
    /\ status \in {-1, 0, 200, 400, 404, 500, 501}
    /\ charged \in BOOLEAN
    /\ receipt \in {"none", "stored", "refused", "lost"}
    /\ failed \in BOOLEAN

HttpInit ==
    /\ req \in Calls
    /\ stage = "route" /\ status = 0
    /\ charged = FALSE /\ receipt = "none" /\ failed = FALSE

----------------------------------------------------------------------------
(* The gateway's error handler; an error that is no status is Unknown.       *)
StatusOf(code) == CASE code \in {"InvalidArgument", "FailedPrecondition"} -> 400
                    [] code = "NotFound"                                  -> 404
                    [] code = "Unimplemented"                             -> 501
                    [] code \in {"Internal", "Unknown"}                   -> 500

Proceed(next) == stage' = next /\ UNCHANGED status
Refuse(code)  == stage' = "done" /\ status' = StatusOf(code)

(* net/http recovers a handler that panics and drops the connection.         *)
Panic == stage' = "done" /\ status' = -1

(* The mux and the gateway's routes, which are registered for POST.          *)
Route ==
    /\ stage = "route"
    /\ \/ req.path \in Gateway /\ req.method = "POST" /\ Proceed("decode")
       \/ req.path \in Gateway /\ req.method # "POST" /\ Refuse("Unimplemented")
       \/ req.path = "/healthz" /\ stage' = "done" /\ status' = 200
       \/ req.path = "/elsewhere" /\ Refuse("NotFound")
    /\ UNCHANGED <<req, charged, receipt, failed>>

(* local_request_...: an empty body is io.EOF and leaves a nil message.      *)
Decode(path) ==
    /\ stage = "decode" /\ req.path = path
    /\ IF req.body = "malformed" THEN Refuse("InvalidArgument") ELSE Proceed("check")
    /\ UNCHANGED <<req, charged, receipt, failed>>

DecodePayWithCard == Decode(Pay)
DecodeReissue     == Decode(Reissue)

(* A getter of the request; those of a nil card return zero values.          *)
Given(f) == IF req.body = "empty" /\ f # "invoice_number" THEN "zero" ELSE req.value[f]

GivenValues == [f \in Field |-> Given(f)]

(* Slip: only what the body brings is checked.                               *)
PayAcceptedBodyOnly ==
    /\ Violations(GivenValues, {"number", "cvv", "holder_name"}, {}, {}) = {}
    /\ NotZeroValue(Given("exp_month")) /\ NotZeroValue(Given("exp_year"))

PayAccepted ==
    /\ Violations(GivenValues, {"invoice_number", "number", "cvv", "holder_name"}, {}, {}) = {}
    /\ NotZeroValue(Given("exp_month")) /\ NotZeroValue(Given("exp_year"))

ReissueAccepted == Violations(GivenValues, AskField, {}, {}) = {}

Check ==
    /\ stage = "check"
    /\ \/ req.path = Pay /\ PayAccepted /\ Proceed("load")
       \/ req.path = Pay /\ ~PayAccepted /\ Refuse("InvalidArgument")
       \/ req.path = Reissue /\ ReissueAccepted /\ Proceed("load")
       \/ req.path = Reissue /\ ~ReissueAccepted /\ Refuse("InvalidArgument")
    /\ UNCHANGED <<req, charged, receipt, failed>>

(* The clock (of a payment) and the search for the invoice: mapError, the    *)
(* paid check and the draw against the fail chance.                          *)
Load ==
    /\ stage = "load"
    /\ \/ req.path = Pay /\ (Proceed("update") \/ Proceed("buildFailed")) /\ UNCHANGED failed
       \/ req.path = Reissue /\ Proceed("forward") /\ UNCHANGED failed
       \/ (Refuse("NotFound") \/ Refuse("FailedPrecondition")) /\ UNCHANGED failed
       \/ Refuse("Internal") /\ failed' = TRUE
    /\ UNCHANGED <<req, charged, receipt>>

(* UpdateStatus may time out after MongoDB has applied it.                   *)
Update ==
    /\ stage = "update"
    /\ \/ Proceed("build") /\ charged' = TRUE /\ UNCHANGED failed
       \/ Refuse("NotFound") /\ UNCHANGED <<charged, failed>>
       \/ Refuse("Internal") /\ charged' \in BOOLEAN /\ failed' = TRUE
    /\ UNCHANGED <<req, receipt>>

(* Slip: the response insists on the brand that lines 69-75 did not check.   *)
BuildChecked ==
    /\ stage = "build"
    /\ IF Given("brand") # "good" THEN Refuse("InvalidArgument") ELSE Proceed("forward")
    /\ UNCHANGED <<req, charged, receipt, failed>>

(* Line 173 slices the last four bytes; then a receipt number is drawn.      *)
Build ==
    /\ stage = "build"
    /\ \/ Given("number") = "short" /\ Panic /\ UNCHANGED failed
       \/ Given("number") # "short" /\ Proceed("forward") /\ UNCHANGED failed
       \/ Given("number") # "short" /\ Refuse("Internal") /\ failed' = TRUE
    /\ UNCHANGED <<req, charged, receipt>>

(* Line 104 returns the same response's error as it is.                      *)
BuildFailed ==
    /\ stage = "buildFailed"
    /\ \/ Given("number") = "short" /\ Panic /\ UNCHANGED failed
       \/ Given("number") # "short" /\ Proceed("forward") /\ UNCHANGED failed
       \/ Given("number") # "short" /\ Refuse("Unknown") /\ failed' = TRUE
    /\ UNCHANGED <<req, charged, receipt>>

(* ForwardResponseMessage: JSON has no form for half a character.            *)
Forward ==
    /\ stage = "forward"
    /\ stage' = IF charged THEN "record" ELSE "done"
    /\ status' = IF req.path = Pay /\ Given("number") = "cutsRune" THEN StatusOf("Unknown") ELSE 200
    /\ UNCHANGED <<req, charged, receipt, failed>>

(* The checks of NewReceiptFromProtMessage, which receiptRepo.Add repeats.   *)
ReceiptAccepted ==
    /\ Violations(GivenValues, {"invoice_number", "brand"}, {}, {}) = {}
    /\ Given("number") # "endsBlank"

(* Slip: the receipt is waited for, and its error returned.                  *)
RecordAndTell ==
    /\ stage = "record" /\ stage' = "done"
    /\ \/ ReceiptAccepted /\ receipt' = "stored" /\ UNCHANGED status
       \/ ~ReceiptAccepted /\ receipt' = "refused" /\ status' = StatusOf("Internal")
    /\ UNCHANGED <<req, charged, failed>>

(* The background goroutine's saveReceipt.  Whether MongoDB takes a string   *)
(* that is not UTF-8 is left open.                                           *)
Record ==
    /\ stage = "record" /\ Proceed("done")
    /\ \/ ReceiptAccepted /\ receipt' = "stored" /\ UNCHANGED failed
       \/ ~ReceiptAccepted /\ receipt' = "refused" /\ UNCHANGED failed
       \/ ReceiptAccepted /\ Given("number") = "cutsRune" /\ receipt' = "lost" /\ UNCHANGED failed
       \/ ReceiptAccepted /\ receipt' = "lost" /\ failed' = TRUE
    /\ UNCHANGED <<req, charged>>

HttpNext == \/ Route \/ DecodePayWithCard \/ DecodeReissue \/ Check \/ Load \/ Update
            \/ Build \/ BuildFailed \/ Forward \/ Record

HttpSpec == HttpInit /\ [][HttpNext]_httpVars

----------------------------------------------------------------------------
(* Properties                                                                *)

(* A caller who is told that the call is at fault has not paid: no check is  *)
(* made, and no code of this class returned, once UpdateStatus has run.      *)
RefusedIsNotCharged == status \in 400..499 => ~charged

(* A charge is recorded when nothing fails, whatever the call looked like,   *)
(* but for the three kinds of card that the checks of lines 69-75 let        *)
(* through and the receipt does not bear: PaymentMaking's "noBrand" and      *)
(* "short".                                                                  *)
ChargedIsRecorded ==
    stage = "done" /\ charged /\ ~failed =>
        \/ receipt = "stored"
        \/ ~NotBlank(Given("brand"))
        \/ Given("number") \in {"short", "endsBlank", "cutsRune"}

(* A caller who was charged is told 200 when nothing fails, but for a number *)
(* that is sliced out of bounds or through a character: this caller is told  *)
(* nothing, or 500, and pays again.                                          *)
ChargedIsTold ==
    stage = "done" /\ charged /\ ~failed =>
        status = 200 \/ Given("number") \in {"short", "cutsRune"}
==============================================================================
