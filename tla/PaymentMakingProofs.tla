------------------------- MODULE PaymentMakingProofs -------------------------
(***************************************************************************)
(* Theorems about PaymentMaking for every set of requests, documents,       *)
(* numbers, cards and faults.                                               *)
(***************************************************************************)
EXTENDS PaymentMaking, InvoiceCollectionProofs

(***************************************************************************)
(* The inductive invariant, request by request.                             *)
(***************************************************************************)
HasInput(r) == input[r] \in [number : InvoiceNumber, card : Cards]

ControlInv(r) ==
    /\ pc[r] # "idle" => HasInput(r)
    /\ pc[r] \notin {"return", "done"} => answer[r] = "none" /\ post[r] = "none"
    /\ pc[r] = "build" => SomePaid(Number(r))
    /\ pc[r] \in {"return", "done"} =>
          answer[r] \in Refusal \cup {"FAILED", "aborted", "SUCCEEDED"}
    /\ answer[r] = "SUCCEEDED" => post[r] # "none"
    /\ post[r] # "none" => /\ answer[r] \in {"SUCCEEDED", "aborted"}
                           /\ receiptNo[r] \in ReceiptNumber
                           /\ SomePaid(Number(r))

WorkInv(r) ==
    /\ \A rc \in receipts : rc.id = r =>
          /\ post[r] \notin {"none", "save"}
          /\ rc.number = receiptNo[r]
          /\ rc.invoice = Number(r)
    /\ post[r] \in {"find", "publish", "confirmed"} =>
          [id |-> r, number |-> receiptNo[r], invoice |-> Number(r)] \in receipts
    /\ post[r] \in {"publish", "confirmed"} => /\ readBooking[r] \in Booking
                                               /\ HasBooking(Number(r), readBooking[r])
    /\ \A c \in confirmations : c.id = r =>
          /\ post[r] = "confirmed"
          /\ c.receipt = receiptNo[r]
          /\ c.invoice = Number(r)
          /\ c.booking = readBooking[r]

PaidBeforeInv(r) ==
    arrivedPaid[r] /\ UniqueNumbers =>
        /\ SomePaid(Number(r))
        /\ pc[r] \in {"clock", "load", "return", "done"}
        /\ answer[r] \notin {"SUCCEEDED", "FAILED"}
        /\ post[r] = "none"

RequestInv(r) == ControlInv(r) /\ WorkInv(r) /\ PaidBeforeInv(r)

IInv == TypeOK /\ \A r \in Request : RequestInv(r)

----------------------------------------------------------------------------
(* A request that a step does not concern keeps its invariant.               *)
Untouched(r) ==
    /\ pc'[r] = pc[r] /\ input'[r] = input[r] /\ receiptNo'[r] = receiptNo[r]
    /\ answer'[r] = answer[r] /\ post'[r] = post[r] /\ readBooking'[r] = readBooking[r]
    /\ arrivedPaid'[r] = arrivedPaid[r]

(* A step of one request keeps the invariant of another: the collections     *)
(* only grow, and nothing with its id is added.                              *)
LEMMA Frame ==
    ASSUME InvoicesGrow, NEW r \in Request, RequestInv(r), Untouched(r),
           receipts \subseteq receipts', \A rc \in receipts' : rc.id = r => rc \in receipts,
           \A c \in confirmations' : c.id = r => c \in confirmations
    PROVE  RequestInv(r)'
<1>1. ControlInv(r)'
    BY SomePaidStays DEF RequestInv, ControlInv, HasInput, Number, Untouched
<1>2. WorkInv(r)'
    BY HasBookingStays DEF RequestInv, WorkInv, Number, Untouched
<1>3. PaidBeforeInv(r)'
    BY SomePaidStays, UniqueBefore DEF RequestInv, PaidBeforeInv, Number, Untouched
<1> QED
    BY <1>1, <1>2, <1>3 DEF RequestInv

(* What a step of request r may touch: its own entries only.                 *)
OnlyTouches(r) ==
    /\ \A s \in Request \ {r} : Untouched(s)
    /\ receipts \subseteq receipts'
    /\ \A rc \in receipts' : rc \in receipts \/ rc.id = r
    /\ \A c \in confirmations' : c \in confirmations \/ c.id = r

(* To keep the invariant, a step of request r has to keep the types and the  *)
(* invariant of r alone.                                                     *)
LEMMA OneRequest ==
    ASSUME IInv, NEW r \in Request, InvoicesGrow, TypeOK', OnlyTouches(r), RequestInv(r)'
    PROVE  IInv'
<1>1. ASSUME NEW s \in Request, s # r PROVE RequestInv(s)'
    BY <1>1, Frame DEF IInv, OnlyTouches
<1> QED
    BY <1>1 DEF IInv

----------------------------------------------------------------------------
(* The steps of a handler.                                                   *)

(* Lines 61-79: the arriving request records whether its invoice is paid     *)
(* already.                                                                  *)
LEMMA ReceiveRequestStep ==
    ASSUME IInv, NEW r \in Request, ReceiveRequest(r)
    PROVE  IInv'
<1> USE DEF IInv, ReceiveRequest, Return, GoTo, storeVars, postVars
<1>1. InvoicesGrow
    BY SameInvoicesGrow
<1>2. TypeOK'
    BY DEF TypeOK, InvoicesOK, HandlerAt, Answer, Refusal, SomePaid
<1>3. OnlyTouches(r)
    BY DEF OnlyTouches, Untouched, TypeOK
<1>4. RequestInv(r)'
  <2>1. PICK n \in InvoiceNumber, c \in Cards : input'[r] = [number |-> n, card |-> c]
                                           /\ arrivedPaid'[r] = SomePaid(n)
      BY DEF TypeOK
  <2>2. /\ pc[r] = "idle" /\ pc'[r] \in {"return", "clock"}
        /\ answer'[r] = IF pc'[r] = "return" THEN "InvalidArgument" ELSE answer[r]
        /\ post'[r] = post[r]
      BY DEF TypeOK
  <2>3. ControlInv(r)'
      BY <2>1, <2>2 DEF RequestInv, ControlInv, HasInput, Refusal
  <2>4. WorkInv(r)'
      BY <2>2 DEF RequestInv, WorkInv, ControlInv
  <2>5. PaidBeforeInv(r)'
    <3>1. SomePaid(n) => SomePaid(n)'
        BY <1>1, SomePaidStays
    <3> QED
        BY <2>1, <2>2, <3>1 DEF RequestInv, ControlInv, PaidBeforeInv, Number
  <2> QED
      BY <2>3, <2>4, <2>5 DEF RequestInv
<1> QED
    BY <1>1, <1>2, <1>3, <1>4, OneRequest

(* Lines 81-86: the clock answers or the request is refused.                 *)
LEMMA ReadClockStep ==
    ASSUME IInv, NEW r \in Request, ReadClock(r)
    PROVE  IInv'
<1> USE DEF IInv, ReadClock, Return, GoTo, storeVars, postVars
<1>1. InvoicesGrow
    BY SameInvoicesGrow
<1>2. TypeOK'
    BY DEF TypeOK, InvoicesOK, HandlerAt, Answer, Refusal
<1>3. OnlyTouches(r)
    BY DEF OnlyTouches, Untouched, TypeOK
<1>4. ControlInv(r)'
    BY DEF RequestInv, ControlInv, HasInput, Refusal, TypeOK
<1>5. WorkInv(r)'
    BY DEF RequestInv, WorkInv, ControlInv, Number
<1>6. PaidBeforeInv(r)'
    BY <1>1, SomePaidStays, UniqueBefore
    DEF RequestInv, ControlInv, PaidBeforeInv, Number, TypeOK
<1> QED
    BY <1>1, <1>2, <1>3, <1>4, <1>5, <1>6, OneRequest DEF RequestInv

(* Lines 88-105: a request that arrived on a paid, unique number goes no     *)
(* further.                                                                  *)
LEMMA LoadInvoiceStep ==
    ASSUME IInv, NEW r \in Request, LoadInvoice(r)
    PROVE  IInv'
<1> USE DEF IInv, LoadInvoice, Return, GoTo, storeVars, postVars
<1>1. InvoicesGrow
    BY SameInvoicesGrow
<1>2. TypeOK'
    BY DEF TypeOK, InvoicesOK, HandlerAt, Answer, Refusal
<1>3. OnlyTouches(r)
    BY DEF OnlyTouches, Untouched, TypeOK
<1>4. ControlInv(r)'
    BY DEF RequestInv, ControlInv, HasInput, Refusal, TypeOK
<1>5. WorkInv(r)'
    BY DEF RequestInv, WorkInv, ControlInv, Number
<1>6. PaidBeforeInv(r)'
  <2>1. ASSUME UniqueNumbers, SomePaid(Number(r)), NEW d \in WithNumber(Number(r))
        PROVE  IsPaid(d)
      BY <2>1 DEF UniqueNumbers, SomePaid, WithNumber
  <2> QED
      BY <1>1, <2>1, SomePaidStays, UniqueBefore
      DEF RequestInv, ControlInv, PaidBeforeInv, Number, TypeOK
<1> QED
    BY <1>1, <1>2, <1>3, <1>4, <1>5, <1>6, OneRequest DEF RequestInv

(* Lines 107-117: after an update without an error the number is paid.       *)
LEMMA UpdateInvoiceStatusStep ==
    ASSUME IInv, NEW r \in Request, UpdateInvoiceStatus(r)
    PROVE  IInv'
<1> USE DEF IInv, UpdateInvoiceStatus, Return, GoTo, postVars
<1>1. InvoicesGrow /\ InvoicesOK' /\ (pc'[r] = "build" => SomePaid(Number(r))')
  <2>1. ASSUME UNCHANGED invoices PROVE InvoicesGrow /\ InvoicesOK'
      BY <2>1, SameInvoicesGrow DEF TypeOK, InvoicesOK
  <2>2. ASSUME NEW d \in WithNumber(Number(r)), SetPaid(d)
        PROVE  InvoicesGrow /\ InvoicesOK' /\ SomePaid(Number(r))'
    <3>1. d \in DOMAIN invoices /\ invoices[d].number = Number(r)
        BY DEF WithNumber
    <3>2. InvoicesGrow /\ InvoicesOK' /\ invoices'[d].status = "paid"
        BY <2>2, <3>1, SetPaidStep DEF TypeOK
    <3> QED
        BY <3>1, <3>2 DEF InvoicesGrow, SomePaid, WithNumber, IsPaid, Number
  <2>3. \/ \E d \in WithNumber(Number(r)) : SetPaid(d)
        \/ UNCHANGED invoices /\ pc'[r] # "build"
      BY DEF TypeOK
  <2> QED
      BY <2>1, <2>2, <2>3
<1>2. TypeOK'
    BY <1>1 DEF TypeOK, HandlerAt, Answer, Refusal
<1>3. OnlyTouches(r)
    BY DEF OnlyTouches, Untouched, TypeOK
<1>4. ControlInv(r)'
    BY <1>1 DEF RequestInv, ControlInv, HasInput, Refusal, TypeOK, Number
<1>5. WorkInv(r)'
    BY <1>1, HasBookingStays DEF RequestInv, WorkInv, ControlInv, Number, TypeOK
<1>6. PaidBeforeInv(r)'
    BY <1>1, UniqueBefore DEF RequestInv, PaidBeforeInv, TypeOK
<1> QED
    BY <1>1, <1>2, <1>3, <1>4, <1>5, <1>6, OneRequest DEF RequestInv

(* Line 104: a FAILED response starts no background work.                    *)
LEMMA BuildFailedResponseStep ==
    ASSUME IInv, NEW r \in Request, BuildFailedResponse(r)
    PROVE  IInv'
<1> USE DEF IInv, BuildFailedResponse, Return, GoTo, storeVars, postVars
<1>1. InvoicesGrow
    BY SameInvoicesGrow
<1>2. TypeOK'
    BY DEF TypeOK, InvoicesOK, HandlerAt, Answer, Refusal, PostAt
<1>3. OnlyTouches(r)
    BY DEF OnlyTouches, Untouched, TypeOK
<1>4. ControlInv(r)'
    BY <1>1, SomePaidStays DEF RequestInv, ControlInv, HasInput, Refusal, TypeOK, Number
<1>5. WorkInv(r)'
    BY <1>1, HasBookingStays DEF RequestInv, WorkInv, ControlInv, Number, TypeOK
<1>6. PaidBeforeInv(r)'
    BY <1>1, SomePaidStays, UniqueBefore
    DEF RequestInv, ControlInv, PaidBeforeInv, Number, TypeOK
<1> QED
    BY <1>1, <1>2, <1>3, <1>4, <1>5, <1>6, OneRequest DEF RequestInv

(* Lines 119-148: the background work starts with a receipt number and a     *)
(* paid invoice.                                                             *)
LEMMA BuildResponseStep ==
    ASSUME IInv, NEW r \in Request, BuildResponse(r)
    PROVE  IInv'
<1> USE DEF IInv, BuildResponse, Return, GoTo, storeVars
<1>1. InvoicesGrow
    BY SameInvoicesGrow
<1>2. TypeOK'
    BY DEF TypeOK, InvoicesOK, HandlerAt, Answer, Refusal, PostAt
<1>3. OnlyTouches(r)
    BY DEF OnlyTouches, Untouched, TypeOK
<1>4. ControlInv(r)'
  <2>1. pc[r] = "build" /\ SomePaid(Number(r)) /\ HasInput(r)
      BY DEF RequestInv, ControlInv
  <2>2. /\ SomePaid(Number(r))' /\ HasInput(r)'
        /\ pc'[r] = "return"
        /\ \/ answer'[r] \in {"aborted", "Internal"} /\ post'[r] = post[r]
           \/ answer'[r] = "SUCCEEDED" /\ post'[r] = "save" /\ receiptNo'[r] \in ReceiptNumber
      BY <1>1, <2>1, SomePaidStays DEF TypeOK, Number, HasInput
  <2>3. post[r] = "none"
      BY <2>1 DEF RequestInv, ControlInv
  <2> QED
      BY <2>2, <2>3 DEF ControlInv, Refusal
<1>5. WorkInv(r)'
  <2>1. pc[r] = "build" /\ post[r] = "none" /\ WorkInv(r)
      BY DEF RequestInv, ControlInv
  <2>2. post'[r] \in {"none", "save"} /\ UNCHANGED <<receipts, confirmations>>
      BY <2>1 DEF TypeOK
  <2>3. (\A rc \in receipts : rc.id # r) /\ (\A c \in confirmations : c.id # r)
      BY <2>1 DEF WorkInv
  <2> QED
      BY <2>2, <2>3 DEF WorkInv
<1>6. PaidBeforeInv(r)'
    BY <1>1, SomePaidStays, UniqueBefore
    DEF RequestInv, ControlInv, PaidBeforeInv, Number, TypeOK
<1> QED
    BY <1>1, <1>2, <1>3, <1>4, <1>5, <1>6, OneRequest DEF RequestInv

(* Sending the response changes nothing the invariant speaks of but pc.      *)
LEMMA SendAnswerStep ==
    ASSUME IInv, NEW r \in Request, SendAnswer(r)
    PROVE  IInv'
<1> USE DEF IInv, SendAnswer, GoTo, storeVars, postVars
<1>1. InvoicesGrow
    BY SameInvoicesGrow
<1>2. TypeOK'
    BY DEF TypeOK, InvoicesOK, HandlerAt, Answer, Refusal, PostAt
<1>3. OnlyTouches(r)
    BY DEF OnlyTouches, Untouched, TypeOK
<1>4. ControlInv(r)'
    BY <1>1, SomePaidStays DEF RequestInv, ControlInv, HasInput, Refusal, TypeOK, Number
<1>5. WorkInv(r)'
    BY <1>1, HasBookingStays DEF RequestInv, WorkInv, ControlInv, Number, TypeOK
<1>6. PaidBeforeInv(r)'
    BY <1>1, SomePaidStays, UniqueBefore
    DEF RequestInv, ControlInv, PaidBeforeInv, Number, TypeOK
<1> QED
    BY <1>1, <1>2, <1>3, <1>4, <1>5, <1>6, OneRequest DEF RequestInv

----------------------------------------------------------------------------
(* The steps of the background work.                                         *)

(* Lines 237-251: what is read is the booking of an invoice of the           *)
(* request's number.                                                         *)
LEMMA FindForConfirmationStep ==
    ASSUME IInv, NEW r \in Request, FindForConfirmation(r)
    PROVE  IInv'
<1> USE DEF IInv, FindForConfirmation, PostGoTo, storeVars, handlerVars
<1>1. InvoicesGrow
    BY SameInvoicesGrow
<1>2. TypeOK'
    BY DEF TypeOK, InvoicesOK, PostAt, WithNumber, Invoice
<1>3. OnlyTouches(r)
    BY DEF OnlyTouches, Untouched, TypeOK
<1>4. ControlInv(r)'
    BY <1>1, SomePaidStays DEF RequestInv, ControlInv, HasInput, Refusal, TypeOK, Number
<1>5. WorkInv(r)'
  <2>1. post'[r] = "publish" => \E d \in WithNumber(Number(r)) :
              readBooking'[r] = invoices[d].booking /\ invoices[d].booking \in Booking
      BY DEF TypeOK, InvoicesOK, WithNumber, Invoice
  <2>2. post'[r] = "publish" =>
            readBooking'[r] \in Booking /\ HasBooking(Number(r), readBooking[r])'
      BY <2>1 DEF HasBooking, WithNumber, Number
  <2>3. /\ post'[r] \in {"publish", "failed"} /\ post[r] = "find"
        /\ UNCHANGED <<receipts, confirmations, input, receiptNo>>
      BY DEF TypeOK
  <2> QED
      BY <2>2, <2>3 DEF RequestInv, WorkInv, Number
<1>6. PaidBeforeInv(r)'
    BY <1>1, SomePaidStays, UniqueBefore
    DEF RequestInv, ControlInv, PaidBeforeInv, Number, TypeOK
<1> QED
    BY <1>1, <1>2, <1>3, <1>4, <1>5, <1>6, OneRequest DEF RequestInv

(* Lines 196-228: the goroutine goes on only if its receipt is stored.       *)
LEMMA SaveReceiptStep ==
    ASSUME IInv, NEW r \in Request, SaveReceipt(r)
    PROVE  IInv'
<1> USE DEF IInv, SaveReceipt, InsertReceipt, ReceiptOf, PostGoTo, handlerVars
<1>1. InvoicesGrow
    BY SameInvoicesGrow
<1>2. TypeOK'
    BY DEF TypeOK, InvoicesOK, PostAt, Receipt, Number, HasInput, RequestInv, ControlInv
<1>3. OnlyTouches(r)
    BY DEF OnlyTouches, Untouched, TypeOK
<1>4. ControlInv(r)'
    BY <1>1, SomePaidStays DEF RequestInv, ControlInv, HasInput, Refusal, TypeOK, Number
<1>5. WorkInv(r)'
    BY <1>1, HasBookingStays DEF RequestInv, WorkInv, ControlInv, Number, TypeOK
<1>6. PaidBeforeInv(r)'
    BY <1>1, SomePaidStays, UniqueBefore
    DEF RequestInv, ControlInv, PaidBeforeInv, Number, TypeOK
<1> QED
    BY <1>1, <1>2, <1>3, <1>4, <1>5, <1>6, OneRequest DEF RequestInv

(* Lines 253-272: the confirmation repeats the stored receipt and the        *)
(* booking read.                                                             *)
LEMMA PublishConfirmationStep ==
    ASSUME IInv, NEW r \in Request, PublishConfirmation(r)
    PROVE  IInv'
<1> USE DEF IInv, PublishConfirmation, PostGoTo, handlerVars
<1>1. InvoicesGrow
    BY SameInvoicesGrow
<1>2. TypeOK'
  <2>1. receiptNo[r] \in ReceiptNumber /\ Number(r) \in InvoiceNumber
      BY DEF RequestInv, ControlInv, HasInput, Number
  <2>2. readBooking[r] \in Booking
      BY DEF RequestInv, WorkInv
  <2>3. confirmations' \subseteq Confirmation
      BY <2>1, <2>2 DEF TypeOK, Confirmation
  <2> QED
      BY <2>3 DEF TypeOK, InvoicesOK, PostAt
<1>3. OnlyTouches(r)
    BY DEF OnlyTouches, Untouched, TypeOK
<1>4. ControlInv(r)'
    BY <1>1, SomePaidStays DEF RequestInv, ControlInv, HasInput, Refusal, TypeOK, Number
<1>5. WorkInv(r)'
    BY <1>1, HasBookingStays DEF RequestInv, WorkInv, ControlInv, Number, TypeOK
<1>6. PaidBeforeInv(r)'
    BY <1>1, SomePaidStays, UniqueBefore
    DEF RequestInv, ControlInv, PaidBeforeInv, Number, TypeOK
<1> QED
    BY <1>1, <1>2, <1>3, <1>4, <1>5, <1>6, OneRequest DEF RequestInv

----------------------------------------------------------------------------
(* The steps of the surroundings.                                            *)

(* An invoice the consumer stores disturbs no payment.                       *)
LEMMA AddInvoiceStep ==
    ASSUME IInv, AddInvoice
    PROVE  IInv'
<1> USE DEF IInv, AddInvoice, handlerVars, postVars
<1>1. InvoicesGrow /\ InvoicesOK'
    BY InsertStep DEF TypeOK, InsertInvoice
<1>2. TypeOK'
    BY <1>1 DEF TypeOK
<1>3. ASSUME NEW r \in Request PROVE RequestInv(r)'
    BY <1>1, Frame DEF Untouched
<1> QED
    BY <1>2, <1>3

(* A crash cuts handlers and goroutines off and leaves the collections as    *)
(* they were.                                                                *)
LEMMA CrashStep ==
    ASSUME IInv, Crash
    PROVE  IInv'
<1> USE DEF IInv, Crash, Busy, storeVars
<1>1. InvoicesGrow
    BY SameInvoicesGrow
<1>2. TypeOK'
    BY DEF TypeOK, InvoicesOK, HandlerAt, Answer, PostAt, InFlight
<1>3. ASSUME NEW r \in Request PROVE RequestInv(r)'
  <2>1. /\ pc'[r] = IF InFlight(r) THEN "done" ELSE pc[r]
        /\ answer'[r] = IF InFlight(r) THEN "aborted" ELSE answer[r]
        /\ post'[r] = IF post[r] \in PostRuns THEN "killed" ELSE post[r]
      OBVIOUS
  <2>2. ControlInv(r)'
      BY <1>1, <2>1, SomePaidStays
      DEF RequestInv, ControlInv, HasInput, Number, InFlight, PostRuns, TypeOK, HandlerAt
  <2>3. WorkInv(r)'
      BY <1>1, <2>1, HasBookingStays DEF RequestInv, WorkInv, Number, PostRuns
  <2>4. PaidBeforeInv(r)'
      BY <1>1, <2>1, SomePaidStays, UniqueBefore
      DEF RequestInv, PaidBeforeInv, Number, InFlight, PostRuns
  <2> QED
      BY <2>2, <2>3, <2>4 DEF RequestInv
<1> QED
    BY <1>2, <1>3

(* A step that changes nothing keeps the invariant.                          *)
LEMMA StutterStep == IInv /\ UNCHANGED vars => IInv'
<1> SUFFICES ASSUME IInv, UNCHANGED vars PROVE IInv'
    OBVIOUS
<1> USE DEF IInv, vars, storeVars, handlerVars, postVars
<1>1. InvoicesGrow
    BY SameInvoicesGrow
<1>2. TypeOK'
    BY DEF TypeOK, InvoicesOK
<1>3. ASSUME NEW r \in Request PROVE RequestInv(r)'
    BY <1>1, Frame DEF Untouched
<1> QED
    BY <1>2, <1>3

(* A process that has no request yet satisfies the invariant, whatever       *)
(* MongoDB holds.                                                            *)
LEMMA InvInit == Init => IInv
<1> SUFFICES ASSUME Init PROVE IInv
    OBVIOUS
<1>1. TypeOK
    BY DEF Init, PaymentInit, TypeOK, InvoicesOK, HandlerAt, Answer, PostAt
<1>2. ASSUME NEW r \in Request PROVE RequestInv(r)
    BY DEF Init, PaymentInit, RequestInv, ControlInv, WorkInv, PaidBeforeInv
<1> QED
    BY <1>1, <1>2 DEF IInv

(* Every step of every request, of the consumer and of a crash keeps the     *)
(* invariant.                                                                *)
LEMMA InvStep == IInv /\ [Next]_vars => IInv'
<1> SUFFICES ASSUME IInv, [Next]_vars PROVE IInv'
    OBVIOUS
<1>1. ASSUME NEW r \in Request, ReceiveRequest(r) PROVE IInv'
    BY <1>1, ReceiveRequestStep
<1>2. ASSUME NEW r \in Request, HandlerStep(r) PROVE IInv'
    BY <1>2, ReadClockStep, LoadInvoiceStep, UpdateInvoiceStatusStep, BuildFailedResponseStep,
       BuildResponseStep, SendAnswerStep DEF HandlerStep
<1>3. ASSUME NEW r \in Request, PostStep(r) PROVE IInv'
    BY <1>3, SaveReceiptStep, FindForConfirmationStep, PublishConfirmationStep DEF PostStep
<1> QED
    BY <1>1, <1>2, <1>3, AddInvoiceStep, CrashStep, StutterStep DEF Next

(* The invariant holds in every state that payments, the invoice consumer    *)
(* and crashes can reach.                                                    *)
THEOREM Invariance == Spec => []IInv
    BY InvInit, InvStep, PTL DEF Spec

----------------------------------------------------------------------------
(* Every variable of the payment handlers keeps its type.                    *)
THEOREM TypeCorrect == Spec => []TypeOK
<1>1. IInv => TypeOK
    BY DEF IInv
<1> QED
    BY <1>1, Invariance, PTL

(* A stored receipt is always one of a paid invoice, with the number that    *)
(* the caller was given.                                                     *)
THEOREM ReceiptsAreBacked == Spec => []ReceiptBacked
<1>1. ASSUME IInv, NEW rc \in receipts
      PROVE  /\ SomePaid(rc.invoice)
             /\ answer[rc.id] \in {"SUCCEEDED", "aborted"}
             /\ rc.number = receiptNo[rc.id]
             /\ rc.invoice = Number(rc.id)
  <2>1. rc.id \in Request
      BY <1>1 DEF IInv, TypeOK, Receipt
  <2>2. ControlInv(rc.id) /\ WorkInv(rc.id)
      BY <1>1, <2>1 DEF IInv, RequestInv
  <2>3. post[rc.id] # "none" /\ rc.number = receiptNo[rc.id] /\ rc.invoice = Number(rc.id)
      BY <1>1, <2>2 DEF WorkInv
  <2> QED
      BY <2>2, <2>3 DEF ControlInv
<1>2. IInv => ReceiptBacked
    BY <1>1 DEF ReceiptBacked
<1> QED
    BY <1>2, Invariance, PTL

(* A confirmation is never published before its receipt is stored.           *)
THEOREM ConfirmationsHaveReceipts == Spec => []ConfirmationHasReceipt
<1>1. ASSUME IInv, NEW c \in confirmations
      PROVE  [id |-> c.id, number |-> c.receipt, invoice |-> c.invoice] \in receipts
  <2>1. c.id \in Request
      BY <1>1 DEF IInv, TypeOK, Confirmation
  <2> QED
      BY <1>1, <2>1 DEF IInv, RequestInv, WorkInv
<1>2. IInv => ConfirmationHasReceipt
    BY <1>1 DEF ConfirmationHasReceipt
<1> QED
    BY <1>2, Invariance, PTL

(* With unique invoice numbers the confirmed booking is the one that was     *)
(* paid for, although the invoice is looked up again after the payment.      *)
THEOREM ConfirmedBookingsArePaid == Spec => []ConfirmedBookingIsPaid
<1>1. ASSUME IInv, UniqueNumbers, NEW c \in confirmations
      PROVE  \E d \in WithNumber(c.invoice) : IsPaid(d) /\ invoices[d].booking = c.booking
  <2>1. c.id \in Request
      BY <1>1 DEF IInv, TypeOK, Confirmation
  <2>2. ControlInv(c.id) /\ WorkInv(c.id)
      BY <1>1, <2>1 DEF IInv, RequestInv
  <2>3. /\ post[c.id] = "confirmed"
        /\ c.invoice = Number(c.id) /\ c.booking = readBooking[c.id]
      BY <1>1, <2>2 DEF WorkInv
  <2>4. SomePaid(c.invoice) /\ HasBooking(c.invoice, c.booking)
      BY <2>2, <2>3 DEF ControlInv, WorkInv
  <2> QED
      BY <1>1, <2>4 DEF SomePaid, HasBooking, WithNumber, UniqueNumbers
<1>2. IInv => ConfirmedBookingIsPaid
    BY <1>1 DEF ConfirmedBookingIsPaid
<1> QED
    BY <1>2, Invariance, PTL

(* With unique invoice numbers a payment that starts after the invoice was   *)
(* paid never succeeds, and leaves no receipt and no confirmation.           *)
THEOREM PaidInvoicesAreNotChargedAgain == Spec => []PaidInvoiceIsNotChargedAgain
<1>1. IInv => PaidInvoiceIsNotChargedAgain
    BY DEF IInv, RequestInv, WorkInv, PaidBeforeInv, PaidInvoiceIsNotChargedAgain
<1> QED
    BY <1>1, Invariance, PTL

(* A payment that was refused or FAILED leaves nothing behind.               *)
THEOREM OnlySuccessesLeaveTraces == Spec => []OnlySuccessLeavesTrace
<1>1. IInv => OnlySuccessLeavesTrace
    BY DEF IInv, RequestInv, ControlInv, WorkInv, OnlySuccessLeavesTrace, Refusal
<1> QED
    BY <1>1, Invariance, PTL

----------------------------------------------------------------------------
(* The refinement: what each step is in terms of invoice numbers.            *)

(* Only a write to the invoices changes the status of a number.              *)
LEMMA NumberStatusDependsOnInvoices ==
    ASSUME UNCHANGED invoices PROVE UNCHANGED NumberStatus
    BY DEF NumberStatus, SomePaid, WithNumber, IsPaid

(* UpdateStatus settles the number it was asked for, if it was not settled,  *)
(* and no other.                                                             *)
LEMMA SetPaidSettles ==
    ASSUME InvoicesOK, NEW n \in InvoiceNumber, NEW d \in WithNumber(n), SetPaid(d)
    PROVE  \/ UNCHANGED NumberStatus
           \/ /\ NumberStatus[n] = "pending"
              /\ NumberStatus' = [NumberStatus EXCEPT ![n] = "paid"]
<1>1. d \in DOMAIN invoices /\ invoices[d].number = n
    BY DEF WithNumber
<1>2. DOMAIN invoices' = DOMAIN invoices
    BY DEF SetPaid
<1>8. \A e \in DOMAIN invoices : invoices'[e].number = invoices[e].number
    BY SetPaidStep, <1>1 DEF InvoicesGrow
<1>9. \A e \in DOMAIN invoices : e # d => invoices'[e] = invoices[e]
    BY DEF SetPaid
<1>10. invoices'[d].status = "paid"
    BY <1>1, SetPaidStep
<1>3. \A m \in InvoiceNumber : WithNumber(m)' = WithNumber(m)
    BY <1>2, <1>8 DEF WithNumber
<1>4. SomePaid(n)'
    BY <1>1, <1>2, <1>8, <1>10 DEF SomePaid, WithNumber, IsPaid
<1>5. ASSUME NEW m \in InvoiceNumber, m # n PROVE NumberStatus'[m] = NumberStatus[m]
  <2>1. \A e \in WithNumber(m) : invoices'[e] = invoices[e]
      BY <1>1, <1>5, <1>9 DEF WithNumber
  <2>2. SomePaid(m)' <=> SomePaid(m)
      BY <1>3, <2>1 DEF SomePaid, IsPaid
  <2> QED
      BY <1>3, <2>2 DEF NumberStatus
<1>6. NumberStatus'[n] = "paid" /\ NumberStatus[n] \in {"pending", "paid"}
    BY <1>1, <1>4 DEF NumberStatus, WithNumber
<1> QED
    BY <1>5, <1>6 DEF NumberStatus

(* Add issues the number of the new invoice, if it was absent, and changes   *)
(* no other: a pending duplicate of a paid number leaves it paid.            *)
LEMMA InsertIssues ==
    ASSUME InvoicesOK, NEW d \in Doc, NEW n \in InvoiceNumber, NEW b \in Booking,
           InsertInvoice(d, NewInvoice(n, b))
    PROVE  \/ UNCHANGED NumberStatus
           \/ /\ NumberStatus[n] = "absent"
              /\ NumberStatus' = [NumberStatus EXCEPT ![n] = "pending"]
<1>1. /\ d \notin DOMAIN invoices
      /\ DOMAIN invoices' = DOMAIN invoices \cup {d}
      /\ \A e \in DOMAIN invoices : invoices'[e] = invoices[e]
      /\ invoices'[d].number = n /\ invoices'[d].status = "pending"
    BY DEF InsertInvoice, NewInvoice
<1>2. ASSUME NEW m \in InvoiceNumber
      PROVE  /\ WithNumber(m)' = IF m = n THEN WithNumber(m) \cup {d} ELSE WithNumber(m)
             /\ SomePaid(m)' <=> SomePaid(m)
  <2>1. WithNumber(m)' = IF m = n THEN WithNumber(m) \cup {d} ELSE WithNumber(m)
      BY <1>1 DEF WithNumber
  <2>2. \A e \in WithNumber(m) : IsPaid(e)' <=> IsPaid(e)
      BY <1>1 DEF WithNumber, IsPaid
  <2>3. ~IsPaid(d)'
      BY <1>1 DEF IsPaid
  <2> QED
      BY <2>1, <2>2, <2>3 DEF SomePaid
<1>3. \A m \in InvoiceNumber : m # n => NumberStatus'[m] = NumberStatus[m]
    BY <1>2 DEF NumberStatus
<1>4. \/ NumberStatus'[n] = NumberStatus[n]
      \/ NumberStatus[n] = "absent" /\ NumberStatus'[n] = "pending"
    BY <1>2 DEF NumberStatus
<1> QED
    BY <1>3, <1>4 DEF NumberStatus

Recorded == {[id |-> rc.id, invoice |-> rc.invoice] : rc \in receipts}
Told     == {[id |-> c.id, invoice |-> c.invoice] : c \in confirmations}

(* The ids and invoices of a set with one more element.                      *)
LEMMA ImageOfInsertion ==
    ASSUME NEW S, NEW x
    PROVE  {[id |-> y.id, invoice |-> y.invoice] : y \in S \cup {x}}
             = {[id |-> y.id, invoice |-> y.invoice] : y \in S}
               \cup {[id |-> x.id, invoice |-> x.invoice]}
    BY Zenon

(* Saving a receipt records one payment, against a paid number, that had no  *)
(* receipt yet, or does nothing.                                             *)
LEMMA SaveRecords ==
    ASSUME IInv, NEW r \in Request, SaveReceipt(r)
    PROVE  [Lifecycle!Next]_(Lifecycle!vars)
<1>0. PICK p : p = [id |-> r, invoice |-> Number(r)]
    OBVIOUS
<1>1. UNCHANGED <<NumberStatus, Told>>
    BY NumberStatusDependsOnInvoices DEF SaveReceipt, Told
<1>2. CASE UNCHANGED receipts
    BY <1>1, <1>2 DEF Lifecycle!vars, Told
<1>3. CASE receipts' = receipts \cup {[id |-> r, number |-> receiptNo[r], invoice |-> Number(r)]}
  <2>1. ControlInv(r) /\ WorkInv(r) /\ post[r] = "save"
      BY DEF IInv, RequestInv, SaveReceipt
  <2>2. Recorded' = Recorded \cup {p}
      BY <1>0, <1>3, ImageOfInsertion DEF Recorded
  <2>3. \A q \in Recorded : q.id # r
      BY <2>1 DEF Recorded, WorkInv
  <2>4. Number(r) \in InvoiceNumber /\ SomePaid(Number(r))
      BY <2>1 DEF ControlInv, HasInput, Number
  <2>5. NumberStatus[Number(r)] = "paid"
      BY <2>4 DEF NumberStatus
  <2>6. p \in Lifecycle!Payment
      BY <1>0, <2>4 DEF Lifecycle!Payment
  <2>7. Lifecycle!Record(p)
      BY <1>0, <1>1, <2>2, <2>3, <2>5 DEF Lifecycle!Record, Recorded, Told
  <2> QED
      BY <2>6, <2>7 DEF Lifecycle!Next
<1> QED
    BY <1>2, <1>3 DEF SaveReceipt, InsertReceipt, ReceiptOf

(* Publishing confirms one recorded payment that was not confirmed yet, or   *)
(* does nothing.                                                             *)
LEMMA PublishConfirms ==
    ASSUME IInv, NEW r \in Request, PublishConfirmation(r)
    PROVE  [Lifecycle!Next]_(Lifecycle!vars)
<1> DEFINE m == [id |-> r, receipt |-> receiptNo[r], invoice |-> Number(r),
                 booking |-> readBooking[r]]
<1>0. PICK p : p = [id |-> r, invoice |-> Number(r)]
    OBVIOUS
<1>1. UNCHANGED <<NumberStatus, Recorded>>
    BY NumberStatusDependsOnInvoices DEF PublishConfirmation, Recorded
<1>2. CASE UNCHANGED confirmations
    BY <1>1, <1>2 DEF Lifecycle!vars, Recorded
<1>3. CASE confirmations' = confirmations \cup {m}
  <2>1. ControlInv(r) /\ WorkInv(r) /\ post[r] = "publish"
      BY DEF IInv, RequestInv, PublishConfirmation
  <2>2. Told' = Told \cup {p}
      BY <1>0, <1>3, ImageOfInsertion DEF Told
  <2>3. p \notin Told
      BY <1>0, <2>1 DEF Told, WorkInv
  <2>4. p \in Recorded
      BY <1>0, <2>1 DEF Recorded, WorkInv
  <2>5. p \in Lifecycle!Payment
      BY <1>0, <2>1 DEF ControlInv, HasInput, Number, Lifecycle!Payment
  <2>6. Lifecycle!Confirm(p)
      BY <1>1, <2>2, <2>3, <2>4 DEF Lifecycle!Confirm, Recorded, Told
  <2> QED
      BY <2>5, <2>6 DEF Lifecycle!Next
<1> QED
    BY <1>2, <1>3 DEF PublishConfirmation

(* Every step of the payments is a step of the lifecycle of an invoice       *)
(* number, or invisible.                                                     *)
LEMMA LifecycleStep == IInv /\ [Next]_vars => [Lifecycle!Next]_(Lifecycle!vars)
<1> SUFFICES ASSUME IInv, [Next]_vars PROVE [Lifecycle!Next]_(Lifecycle!vars)
    OBVIOUS
<1>1. ASSUME UNCHANGED storeVars PROVE UNCHANGED Lifecycle!vars
    BY <1>1, NumberStatusDependsOnInvoices DEF storeVars, Lifecycle!vars
<1>2. ASSUME NEW r \in Request, UpdateInvoiceStatus(r) PROVE [Lifecycle!Next]_(Lifecycle!vars)
  <2>1. Number(r) \in InvoiceNumber /\ InvoicesOK
      BY <1>2 DEF IInv, TypeOK, RequestInv, ControlInv, HasInput, Number, UpdateInvoiceStatus
  <2>2. UNCHANGED <<receipts, confirmations>>
      BY <1>2 DEF UpdateInvoiceStatus
  <2>3. CASE UNCHANGED invoices
      BY <1>1, <2>2, <2>3 DEF storeVars
  <2>4. ASSUME NEW d \in WithNumber(Number(r)), SetPaid(d)
        PROVE  [Lifecycle!Next]_(Lifecycle!vars)
      BY <2>1, <2>2, <2>4, SetPaidSettles DEF Lifecycle!Next, Lifecycle!Settle, Lifecycle!vars
  <2> QED
      BY <1>2, <2>3, <2>4 DEF UpdateInvoiceStatus
<1>3. ASSUME AddInvoice PROVE [Lifecycle!Next]_(Lifecycle!vars)
  <2>1. PICK d \in Doc, n \in InvoiceNumber, b \in Booking : InsertInvoice(d, NewInvoice(n, b))
      BY <1>3 DEF AddInvoice
  <2>2. InvoicesOK /\ UNCHANGED <<receipts, confirmations>>
      BY <1>3 DEF IInv, TypeOK, AddInvoice
  <2> QED
      BY <2>1, <2>2, InsertIssues DEF Lifecycle!Next, Lifecycle!Issue, Lifecycle!vars
<1>4. CASE \E r \in Request : ReceiveRequest(r) \/ ReadClock(r) \/ LoadInvoice(r)
            \/ BuildFailedResponse(r) \/ BuildResponse(r) \/ SendAnswer(r)
            \/ FindForConfirmation(r)
    BY <1>1, <1>4 DEF ReceiveRequest, ReadClock, LoadInvoice, BuildFailedResponse, BuildResponse,
       SendAnswer, FindForConfirmation, storeVars
<1>5. CASE Crash \/ UNCHANGED vars
    BY <1>1, <1>5 DEF Crash, vars, storeVars
<1> QED
    BY <1>2, <1>3, <1>4, <1>5, SaveRecords, PublishConfirms DEF Next, HandlerStep, PostStep

(* Payments, with all their interleavings, faults and crashes, do to an      *)
(* invoice number nothing but what InvoiceLifecycle allows.                  *)
THEOREM PaymentsFollowLifecycle == Spec => ImplementsLifecycle
<1>1. Init => Lifecycle!Init
    BY DEF Init, PaymentInit, Lifecycle!Init, NumberStatus
<1> QED
    BY <1>1, LifecycleStep, Invariance, PTL DEF Spec, ImplementsLifecycle, Lifecycle!Spec
==============================================================================
