---------------------------- MODULE PaymentReissue ----------------------------
(***************************************************************************)
(* app/payment_reissue_service.go: a guest who has lost the payment request *)
(* asks for it again by booking and document number.  The answer is made    *)
(* from the copy of the invoice that FindOne has returned; payments and the *)
(* consumer go on while it is on its way.                                   *)
(***************************************************************************)
EXTENDS InvoiceCollection

CONSTANTS Query,   \* Reissue calls
          Blank,   \* a blank booking or document number
          Faults,  \* {"find"}: MongoDB may fail or return corrupted data
          None

ASSUME ReissueAssumption == None \notin InvoiceNumber /\ Blank \notin Booking

VARIABLES
    step,          \* where each call is
    asked,         \* the booking it asks about
    offer,         \* the number in the payment request of its answer, or None
    verdict,       \* the code of its answer
    paidOnArrival  \* history: the paid invoices of that booking when it came

reissueVars == <<step, asked, offer, verdict, paidOnArrival>>
vars        == <<invoices, reissueVars>>

ReissueCode == {"none", "OK", "InvalidArgument", "NotFound", "FailedPrecondition", "Internal"}

TypeOK ==
    /\ InvoicesOK
    /\ step \in [Query -> {"idle", "find", "return", "done"}]
    /\ asked \in [Query -> Booking \cup {Blank, None}]
    /\ offer \in [Query -> InvoiceNumber \cup {None}]
    /\ verdict \in [Query -> ReissueCode]
    /\ paidOnArrival \in [Query -> SUBSET Doc]

ReissueInit ==
    /\ step = [q \in Query |-> "idle"]
    /\ asked = [q \in Query |-> None]
    /\ offer = [q \in Query |-> None]
    /\ verdict = [q \in Query |-> "none"]
    /\ paidOnArrival = [q \in Query |-> {}]

Init == ReissueInit /\ \E D \in SUBSET Doc : invoices \in [D -> Invoice]

Reply(q, code) == /\ step' = [step EXCEPT ![q] = "return"]
                  /\ verdict' = [verdict EXCEPT ![q] = code]

PaidInvoices(b) == {d \in WithBooking(b) : IsPaid(d)}

(* Lines 40-53. *)
ReceiveQuery(q) ==
    /\ step[q] = "idle"
    /\ \E b \in Booking \cup {Blank} :
          /\ asked' = [asked EXCEPT ![q] = b]
          /\ paidOnArrival' = [paidOnArrival EXCEPT ![q] = PaidInvoices(b)]
          /\ IF b = Blank
             THEN Reply(q, "InvalidArgument")
             ELSE step' = [step EXCEPT ![q] = "find"] /\ UNCHANGED verdict
    /\ UNCHANGED <<invoices, offer>>

(* buildPaymentRequest: of what it copies the number is what a guest pays by. *)
OfferInvoice(q, d) ==
    /\ offer' = [offer EXCEPT ![q] = invoices[d].number]
    /\ Reply(q, "OK")

(* Slip: the status of the found invoice is not looked at. *)
FindAndOffer(q) ==
    /\ step[q] = "find"
    /\ \/ \E d \in WithBooking(asked[q]) : OfferInvoice(q, d)
       \/ WithBooking(asked[q]) = {} /\ Reply(q, "NotFound") /\ UNCHANGED offer
    /\ UNCHANGED <<invoices, asked, paidOnArrival>>

(* Slip: any error of the repository is taken for a missing invoice. *)
FindOrNotFound(q) ==
    /\ step[q] = "find"
    /\ \/ \E d \in WithBooking(asked[q]) :
             IF IsPaid(d) THEN Reply(q, "FailedPrecondition") /\ UNCHANGED offer
                          ELSE OfferInvoice(q, d)
       \/ /\ WithBooking(asked[q]) = {} \/ "find" \in Faults
          /\ Reply(q, "NotFound") /\ UNCHANGED offer
    /\ UNCHANGED <<invoices, asked, paidOnArrival>>

(* Lines 55-75: FindByBookingNumberAndDocumentNumber returns any one invoice  *)
(* of the booking, and that one decides.                                      *)
FindInvoice(q) ==
    /\ step[q] = "find"
    /\ \/ \E d \in WithBooking(asked[q]) :
             IF IsPaid(d) THEN Reply(q, "FailedPrecondition") /\ UNCHANGED offer
                          ELSE OfferInvoice(q, d)
       \/ WithBooking(asked[q]) = {} /\ Reply(q, "NotFound") /\ UNCHANGED offer
       \/ "find" \in Faults /\ Reply(q, "Internal") /\ UNCHANGED offer
    /\ UNCHANGED <<invoices, asked, paidOnArrival>>

(* Line 77: the answer leaves. *)
SendReply(q) ==
    /\ step[q] = "return"
    /\ step' = [step EXCEPT ![q] = "done"]
    /\ UNCHANGED <<invoices, asked, offer, verdict, paidOnArrival>>

QueryStep(q) == FindInvoice(q) \/ SendReply(q)

(* What the payments and the consumer do to the collection meanwhile.         *)
OthersWrite ==
    /\ \/ \E d \in DOMAIN invoices : SetPaid(d)
       \/ \E d \in Doc, n \in InvoiceNumber, b \in Booking : InsertInvoice(d, NewInvoice(n, b))
    /\ UNCHANGED reissueVars

(* The process dies under the calls. *)
CutOff ==
    /\ step' = [q \in Query |-> IF step[q] = "idle" THEN "idle" ELSE "done"]
    /\ UNCHANGED <<invoices, asked, offer, verdict, paidOnArrival>>

Next ==
    \/ \E q \in Query : ReceiveQuery(q) \/ QueryStep(q)
    \/ OthersWrite
    \/ CutOff

Spec == Init /\ [][Next]_vars

----------------------------------------------------------------------------
(* Properties                                                                *)

(* The payment request that Reissue answers with names a stored invoice of   *)
(* the booking that was asked about, and never an invoice that was paid when *)
(* the call came (lines 70-73): only one paid since, while the answer was    *)
(* being made.                                                               *)
OfferWasOpen ==
    \A q \in Query : offer[q] # None =>
        \E d \in WithBooking(asked[q]) \ paidOnArrival[q] : invoices[d].number = offer[q]

(* Refusals are right: FailedPrecondition is answered only for a booking     *)
(* with a paid invoice, and a booking that has a paid invoice on arrival is  *)
(* never answered NotFound.                                                  *)
RefusalIsRight ==
    \A q \in Query :
        /\ verdict[q] = "FailedPrecondition" => PaidInvoices(asked[q]) # {}
        /\ verdict[q] = "NotFound" => paidOnArrival[q] = {}
==============================================================================
