---------------------------- MODULE PaymentMaking ----------------------------
(***************************************************************************)
(* app/payment_making_service.go: PayWithCard requests, each handled by its *)
(* own goroutine, and the background work each successful one starts (save  *)
(* the receipt, publish the confirmation).  One action per call the code    *)
(* makes to the clock, to MongoDB or to RabbitMQ; between two of them any   *)
(* other request, the invoice consumer or a crash may run.                  *)
(***************************************************************************)
EXTENDS InvoiceCollection, Naturals

CONSTANTS Request,        \* PayWithCard calls
          ReceiptNumber,  \* values GenerateHumanFriendlyId("RCPT") can return
          Cards,          \* kinds of card the callers present
          FailChance,     \* PAYMENT_SIMULATOR fail chance (config.FailChance)
          Faults,         \* which dependencies may fail
          None

(***************************************************************************)
(* invalid:  one of the checks of lines 69-75 fails                         *)
(* complete: every field is filled in                                       *)
(* noBrand:  as complete with a blank brand, which lines 69-75 do not check *)
(*           (a number that ends in four blanks has the same effect)        *)
(* short:    as complete with a number of less than four characters         *)
(***************************************************************************)
CardKind  == {"invalid", "complete", "noBrand", "short"}
FaultKind == {"clock", "find", "update", "id", "insert", "publish", "lost", "crash"}

ASSUME PaymentAssumption ==
    /\ Cards \subseteq CardKind
    /\ Faults \subseteq FaultKind
    /\ FailChance \in Nat
    /\ None \notin ReceiptNumber \cup Booking

VARIABLES
    receipts,       \* MongoDB collection "receipts"
    confirmations,  \* confirmation messages the exchange has accepted
    pc,             \* where each handler is
    input,          \* the request each handler got
    receiptNo,      \* the receipt number in the response it built
    answer,         \* the response (sent once pc = "done")
    post,           \* where each background goroutine is
    readBooking,    \* the booking the background goroutine has read
    arrivedPaid     \* history: was the invoice paid when the request arrived?

handlerVars == <<pc, input, receiptNo, answer, arrivedPaid>>
postVars    == <<post, readBooking>>
storeVars   == <<invoices, receipts, confirmations>>
vars        == <<storeVars, handlerVars, postVars>>

(* Receipt and confirmation ids (NewObjectID, uuid.New) are drawn once per  *)
(* request and never collide: the request stands for them.                  *)
Receipt      == [id : Request, number : ReceiptNumber, invoice : InvoiceNumber]
Confirmation == [id : Request, receipt : ReceiptNumber, invoice : InvoiceNumber,
                 booking : Booking]

HandlerAt  == {"idle", "clock", "load", "update", "buildFailed", "build", "return", "done"}
Refusal    == {"InvalidArgument", "NotFound", "FailedPrecondition", "Internal", "Unknown"}
Answer     == Refusal \cup {"SUCCEEDED", "FAILED", "aborted", "none"}
PostAt     == {"none", "save", "find", "publish", "confirmed", "failed", "killed"}
PostRuns   == {"save", "find", "publish"}

TypeOK ==
    /\ InvoicesOK
    /\ receipts \subseteq Receipt
    /\ confirmations \subseteq Confirmation
    /\ pc \in [Request -> HandlerAt]
    /\ input \in [Request -> [number : InvoiceNumber, card : Cards] \cup {None}]
    /\ receiptNo \in [Request -> ReceiptNumber \cup {None}]
    /\ answer \in [Request -> Answer]
    /\ post \in [Request -> PostAt]
    /\ readBooking \in [Request -> Booking \cup {None}]
    /\ arrivedPaid \in [Request -> BOOLEAN]

PaymentInit ==
    /\ receipts = {}
    /\ confirmations = {}
    /\ pc = [r \in Request |-> "idle"]
    /\ input = [r \in Request |-> None]
    /\ receiptNo = [r \in Request |-> None]
    /\ answer = [r \in Request |-> "none"]
    /\ post = [r \in Request |-> "none"]
    /\ readBooking = [r \in Request |-> None]
    /\ arrivedPaid = [r \in Request |-> FALSE]

Init == PaymentInit /\ \E D \in SUBSET Doc : invoices \in [D -> Invoice]

----------------------------------------------------------------------------
(* The handler computes its answer; SendAnswer hands it to the caller. *)
Return(r, a) ==
    /\ pc' = [pc EXCEPT ![r] = "return"]
    /\ answer' = [answer EXCEPT ![r] = a]

GoTo(r, at) == pc' = [pc EXCEPT ![r] = at] /\ UNCHANGED answer

Number(r) == input[r].number

(* Lines 61-79: the request arrives and its fields are checked. *)
ReceiveRequest(r) ==
    /\ pc[r] = "idle"
    /\ \E n \in InvoiceNumber, c \in Cards :
          /\ input' = [input EXCEPT ![r] = [number |-> n, card |-> c]]
          /\ arrivedPaid' = [arrivedPaid EXCEPT ![r] = SomePaid(n)]
          /\ IF c = "invalid" THEN Return(r, "InvalidArgument") ELSE GoTo(r, "clock")
    /\ UNCHANGED <<storeVars, receiptNo, postVars>>

(* Lines 81-86. *)
ReadClock(r) ==
    /\ pc[r] = "clock"
    /\ \/ GoTo(r, "load")
       \/ "clock" \in Faults /\ Return(r, "Internal")
    /\ UNCHANGED <<storeVars, input, receiptNo, arrivedPaid, postVars>>

(* Slip: the status of the loaded invoice is not looked at. *)
LoadInvoiceUnchecked(r) ==
    /\ pc[r] = "load"
    /\ \/ WithNumber(Number(r)) # {} /\ GoTo(r, "update")
       \/ WithNumber(Number(r)) = {} /\ Return(r, "NotFound")
    /\ UNCHANGED <<storeVars, input, receiptNo, arrivedPaid, postVars>>

(* Lines 88-105: FindByInvoiceNumber, the paid check on the copy it returned, *)
(* then rand.Int() < failChance, which is impossible for a zero fail chance.  *)
LoadInvoice(r) ==
    /\ pc[r] = "load"
    /\ \/ \E d \in WithNumber(Number(r)) :
             \/ IsPaid(d) /\ Return(r, "FailedPrecondition")
             \/ ~IsPaid(d) /\ FailChance > 0 /\ GoTo(r, "buildFailed")
             \/ ~IsPaid(d) /\ GoTo(r, "update")
       \/ WithNumber(Number(r)) = {} /\ Return(r, "NotFound")
       \/ "find" \in Faults /\ Return(r, "Internal")
    /\ UNCHANGED <<storeVars, input, receiptNo, arrivedPaid, postVars>>

(* Slip: the filter also asks for a status, one that no document has. *)
UpdateNothing(r) ==
    /\ pc[r] = "update"
    /\ Return(r, "Internal")
    /\ UNCHANGED <<storeVars, input, receiptNo, arrivedPaid, postVars>>

(* Lines 107-117.  The update does not look at the status it replaces.  An    *)
(* error (time-out, cancelled request) may reach the handler although MongoDB *)
(* has applied the update.  The documents are never deleted, so the update    *)
(* always finds the one that was loaded, or another one of its number.        *)
UpdateInvoiceStatus(r) ==
    /\ pc[r] = "update"
    /\ \/ \E d \in WithNumber(Number(r)) :
             /\ SetPaid(d)
             /\ \/ GoTo(r, "build")
                \/ "update" \in Faults /\ Return(r, "Internal")
       \/ "update" \in Faults /\ Return(r, "Internal") /\ UNCHANGED invoices
    /\ UNCHANGED <<receipts, confirmations, input, receiptNo, arrivedPaid, postVars>>

(* Slip: the background work is started for a FAILED payment too. *)
BuildFailedAndRecord(r) ==
    /\ pc[r] = "buildFailed"
    /\ \E x \in ReceiptNumber : receiptNo' = [receiptNo EXCEPT ![r] = x]
    /\ post' = [post EXCEPT ![r] = "save"]
    /\ Return(r, "FAILED")
    /\ UNCHANGED <<storeVars, input, arrivedPaid, readBooking>>

(* buildResponse, lines 165-194.  Slicing the last four digits of a shorter   *)
(* card number panics: net/http recovers, drops the connection and the        *)
(* handler is gone.  Line 104 returns the error of the id generation as it    *)
(* is, line 123 turns it into Internal.                                       *)
BuildFailedResponse(r) ==
    /\ pc[r] = "buildFailed"
    /\ IF input[r].card = "short"
       THEN /\ Return(r, "aborted")
            /\ UNCHANGED receiptNo
       ELSE \/ \E x \in ReceiptNumber :
                  /\ receiptNo' = [receiptNo EXCEPT ![r] = x]
                  /\ Return(r, "FAILED")
            \/ "id" \in Faults /\ Return(r, "Unknown") /\ UNCHANGED receiptNo
    /\ UNCHANGED <<storeVars, input, arrivedPaid, postVars>>

(* Lines 119-148: the response is built and the background work started. *)
BuildResponse(r) ==
    /\ pc[r] = "build"
    /\ IF input[r].card = "short"
       THEN /\ Return(r, "aborted")
            /\ UNCHANGED <<receiptNo, post>>
       ELSE \/ \E x \in ReceiptNumber :
                  /\ receiptNo' = [receiptNo EXCEPT ![r] = x]
                  /\ post' = [post EXCEPT ![r] = "save"]
                  /\ Return(r, "SUCCEEDED")
            \/ "id" \in Faults /\ Return(r, "Internal") /\ UNCHANGED <<receiptNo, post>>
    /\ UNCHANGED <<storeVars, input, arrivedPaid, readBooking>>

SendAnswer(r) ==
    /\ pc[r] = "return"
    /\ GoTo(r, "done")
    /\ UNCHANGED <<storeVars, input, receiptNo, arrivedPaid, postVars>>

----------------------------------------------------------------------------
(* The background goroutine, lines 126-146: it has ten seconds, retries       *)
(* nothing and only logs its errors.                                          *)

PostGoTo(r, at) == post' = [post EXCEPT ![r] = at]

(* NewReceiptFromProtMessage, and again receiptRepo.Add, refuse a blank brand. *)
ReceiptIsComplete(r) == input[r].card # "noBrand"

ReceiptOf(r) == [id |-> r, number |-> receiptNo[r], invoice |-> Number(r)]

(* InsertOne.  No two receipts have the same _id; nothing else is unique.     *)
InsertReceipt(r) == receipts' = receipts \cup {ReceiptOf(r)}

(* Slip: the error of saveReceipt is logged, and the goroutine goes on. *)
SaveReceiptGoingOn(r) ==
    /\ post[r] = "save"
    /\ InsertReceipt(r) \/ UNCHANGED receipts
    /\ PostGoTo(r, "find")
    /\ UNCHANGED <<invoices, confirmations, readBooking, handlerVars>>

(* Slip: one receipt per invoice number (a unique index on it). *)
SaveFirstReceipt(r) ==
    /\ post[r] = "save"
    /\ IF \E rc \in receipts : rc.invoice = Number(r)
       THEN PostGoTo(r, "failed") /\ UNCHANGED receipts
       ELSE InsertReceipt(r) /\ PostGoTo(r, "find")
    /\ UNCHANGED <<invoices, confirmations, readBooking, handlerVars>>

(* saveReceipt, lines 196-228.  An error of the insert may come after it was  *)
(* applied; the goroutine then stops.                                         *)
SaveReceipt(r) ==
    /\ post[r] = "save"
    /\ \/ /\ ReceiptIsComplete(r)
          /\ InsertReceipt(r)
          /\ \/ PostGoTo(r, "find")
             \/ "insert" \in Faults /\ PostGoTo(r, "failed")
       \/ /\ ~ReceiptIsComplete(r) \/ "insert" \in Faults
          /\ PostGoTo(r, "failed")
          /\ UNCHANGED receipts
    /\ UNCHANGED <<invoices, confirmations, readBooking, handlerVars>>

(* Slip: the filter names a field that the documents do not have. *)
FindAnyForConfirmation(r) ==
    /\ post[r] = "find"
    /\ \E d \in DOMAIN invoices :
          /\ readBooking' = [readBooking EXCEPT ![r] = invoices[d].booking]
          /\ PostGoTo(r, "publish")
    /\ UNCHANGED <<storeVars, handlerVars>>

(* sendConfirmationMessage, lines 237-251: the invoice is read again, by its  *)
(* number, for the booking to confirm.                                        *)
FindForConfirmation(r) ==
    /\ post[r] = "find"
    /\ \/ \E d \in WithNumber(Number(r)) :
             /\ readBooking' = [readBooking EXCEPT ![r] = invoices[d].booking]
             /\ PostGoTo(r, "publish")
       \/ "find" \in Faults /\ PostGoTo(r, "failed") /\ UNCHANGED readBooking
    /\ UNCHANGED <<storeVars, handlerVars>>

(* sendConfirmationMessage, lines 253-271.  Without publisher confirms a nil  *)
(* error says that the frames were written, not that the broker has them.     *)
PublishConfirmation(r) ==
    /\ post[r] = "publish"
    /\ \/ /\ confirmations' = confirmations \cup
                {[id |-> r, receipt |-> receiptNo[r], invoice |-> Number(r),
                  booking |-> readBooking[r]]}
          /\ PostGoTo(r, "confirmed")
       \/ "lost" \in Faults /\ PostGoTo(r, "confirmed") /\ UNCHANGED confirmations
       \/ "publish" \in Faults /\ PostGoTo(r, "failed") /\ UNCHANGED confirmations
    /\ UNCHANGED <<invoices, receipts, readBooking, handlerVars>>

----------------------------------------------------------------------------
(* The invoice consumer stores another invoice (InvoiceProcessing models how). *)
AddInvoice ==
    /\ \E d \in Doc, n \in InvoiceNumber, b \in Booking : InsertInvoice(d, NewInvoice(n, b))
    /\ UNCHANGED <<receipts, confirmations, handlerVars, postVars>>

InFlight(r) == pc[r] \notin {"idle", "done"}
Busy == \E r \in Request : InFlight(r) \/ post[r] \in PostRuns

(* The process dies and is started again: handlers and goroutines are gone,   *)
(* what MongoDB and the broker hold stays.                                    *)
Crash ==
    /\ "crash" \in Faults
    /\ Busy
    /\ pc' = [r \in Request |-> IF InFlight(r) THEN "done" ELSE pc[r]]
    /\ answer' = [r \in Request |-> IF InFlight(r) THEN "aborted" ELSE answer[r]]
    /\ post' = [r \in Request |-> IF post[r] \in PostRuns THEN "killed" ELSE post[r]]
    /\ UNCHANGED <<storeVars, input, receiptNo, arrivedPaid, readBooking>>

HandlerStep(r) ==
    \/ ReadClock(r)
    \/ LoadInvoice(r)
    \/ UpdateInvoiceStatus(r)
    \/ BuildFailedResponse(r)
    \/ BuildResponse(r)
    \/ SendAnswer(r)

PostStep(r) ==
    \/ SaveReceipt(r)
    \/ FindForConfirmation(r)
    \/ PublishConfirmation(r)

Next ==
    \/ \E r \in Request : ReceiveRequest(r) \/ HandlerStep(r) \/ PostStep(r)
    \/ AddInvoice
    \/ Crash

Spec == Init /\ [][Next]_vars

(* Every call to a dependency returns (with an error at worst) and the Go     *)
(* scheduler runs every goroutine that can run.  Requests need not come.      *)
FairSpec == Spec /\ \A r \in Request : WF_vars(HandlerStep(r)) /\ WF_vars(PostStep(r))

----------------------------------------------------------------------------
(* Properties                                                                *)

(* A receipt in the collection belongs to an invoice that is paid, and to a  *)
(* request whose card was charged: the caller was told, or will be unless    *)
(* the process dies first, SUCCEEDED with this very receipt number.  The     *)
(* goroutine of lines 126-146 runs while the answer is still on its way.     *)
ReceiptBacked ==
    \A rc \in receipts :
        /\ SomePaid(rc.invoice)
        /\ answer[rc.id] \in {"SUCCEEDED", "aborted"}
        /\ rc.number = receiptNo[rc.id]
        /\ rc.invoice = Number(rc.id)

(* The platform never hears of a payment whose receipt was not stored first, *)
(* and the confirmation carries the number and the invoice of that receipt   *)
(* (lines 136-141: publish only after saveReceipt has returned without an    *)
(* error).                                                                   *)
ConfirmationHasReceipt ==
    \A c \in confirmations :
        [id |-> c.id, number |-> c.receipt, invoice |-> c.invoice] \in receipts

(* As long as no two invoices were given the same number, the booking that   *)
(* is confirmed is one whose own invoice is paid, although lines 237 and 255 *)
(* read the booking again, by number, after the payment.                     *)
ConfirmedBookingIsPaid ==
    UniqueNumbers =>
        \A c \in confirmations :
            \E d \in WithNumber(c.invoice) : IsPaid(d) /\ invoices[d].booking = c.booking

(* As long as no two invoices were given the same number, a request that     *)
(* arrives when its invoice is paid already is never charged:                *)
(* it is not answered SUCCEEDED or FAILED, and neither a receipt nor a       *)
(* confirmation of it ever exists (lines 97-100, whatever other requests,    *)
(* crashes and ambiguous updates came before).                               *)
PaidInvoiceIsNotChargedAgain ==
    UniqueNumbers => \A r \in Request :
        arrivedPaid[r] =>
            /\ answer[r] \notin {"SUCCEEDED", "FAILED"}
            /\ \A rc \in receipts : rc.id # r
            /\ \A c \in confirmations : c.id # r

(* The caller of a FAILED payment holds a receipt number (line 104 builds    *)
(* the same response as a success does), but a payment that failed or was    *)
(* refused leaves nothing behind: no receipt, no confirmation, no background *)
(* work.                                                                     *)
OnlySuccessLeavesTrace ==
    \A r \in Request :
        (pc[r] = "done" /\ answer[r] \in Refusal \cup {"FAILED"}) =>
            /\ post[r] = "none"
            /\ \A rc \in receipts : rc.id # r
            /\ \A c \in confirmations : c.id # r

(* Seen from an invoice number, this is the promise of InvoiceLifecycle: a   *)
(* number never leaves "paid" (line 111 writes whatever was there before), a  *)
(* request gets one receipt at most, against a paid number, and only a        *)
(* recorded payment is confirmed, once.                                       *)
NumberStatus == [n \in InvoiceNumber |->
                    IF SomePaid(n) THEN "paid"
                    ELSE IF WithNumber(n) # {} THEN "pending" ELSE "absent"]

Lifecycle == INSTANCE InvoiceLifecycle WITH
    status    <- NumberStatus,
    recorded  <- {[id |-> rc.id, invoice |-> rc.invoice] : rc \in receipts},
    confirmed <- {[id |-> c.id, invoice |-> c.invoice] : c \in confirmations}

ImplementsLifecycle == Lifecycle!Spec

(* When no dependency fails and the card is complete, a SUCCEEDED payment is *)
(* followed by its receipt and its confirmation.                             *)
SucceededIsConfirmed ==
    \A r \in Request :
        answer[r] = "SUCCEEDED" ~> \E c \in confirmations : c.id = r

(* "does not pay again after invoice is paid"                                *)
(* (integration_test/reissue_already_paid_test.go:66): no two payments of    *)
(* one invoice are answered SUCCEEDED.  Two requests that both load the      *)
(* invoice before either updates it (lines 91 and 111) both succeed.         *)
DoesNotPayAgain ==
    UniqueNumbers =>
        \A r, s \in Request :
            (answer[r] = "SUCCEEDED" /\ answer[s] = "SUCCEEDED" /\ Number(r) = Number(s)) => r = s
==============================================================================
