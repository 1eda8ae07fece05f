--------------------------- MODULE PaymentSimulator ---------------------------
(***************************************************************************)
(* The service as a whole: the invoice consumer, the card payments and the  *)
(* reissuing of payment requests over one collection of invoices, one       *)
(* RabbitMQ connection and one process that is stopped, killed and started  *)
(* again.  What the other two modules leave to an environment is here the   *)
(* program itself.                                                          *)
(***************************************************************************)
EXTENDS InvoiceCollection, Naturals

CONSTANTS Message, KindOf, BookingOf, UniqueKeys,    \* see InvoiceProcessing
          Request, ReceiptNumber, Cards, FailChance, \* see PaymentMaking
          Query, Blank,                              \* see PaymentReissue
          Faults, None

VARIABLES at, buffer, loop, current, number, link, ctxDone, requests, saved,
          receipts, confirmations, pc, input, receiptNo, answer, post, readBooking,
          arrivedPaid,
          step, asked, offer, verdict, paidOnArrival

(* MongoDB and the clock fail for all of them alike; the consumer neither     *)
(* searches nor updates.  A payment's publish and its process fail for a     *)
(* reason that PublishConfirmation and Restart give below.                   *)
Consumer == INSTANCE InvoiceProcessing WITH Faults <- Faults \ {"find", "update", "id"}
Payments == INSTANCE PaymentMaking WITH Faults <- (Faults \ {"consume", "connection", "shutdown"})
                                                      \cup {"publish", "crash"}
Reissues == INSTANCE PaymentReissue

ASSUME SimulatorAssumption ==
    /\ KindOf \in [Message -> Consumer!MessageKind]
    /\ BookingOf \in [Message -> Booking]
    /\ UniqueKeys \in BOOLEAN
    /\ Cards \subseteq Payments!CardKind
    /\ FailChance \in Nat
    /\ Faults \subseteq Consumer!FaultKind \cup Payments!FaultKind
    /\ None \notin Message \cup InvoiceNumber \cup ReceiptNumber \cup Booking
    /\ Blank \notin Booking

consumerVars == <<at, buffer, loop, current, number, link, ctxDone, requests, saved>>
paymentVars  == <<receipts, confirmations, pc, input, receiptNo, answer, post, readBooking,
                  arrivedPaid>>
reissueVars  == <<step, asked, offer, verdict, paidOnArrival>>
vars         == <<invoices, consumerVars, paymentVars, reissueVars>>

Init == /\ Consumer!Init
        /\ Payments!PaymentInit
        /\ Reissues!ReissueInit

(* infra/init.go gives all producers one connection, which CloseConnection   *)
(* (main.go:70) closes for good; before that a publish fails only by itself. *)
PublishConfirmation(r) ==
    /\ Payments!PublishConfirmation(r)
    /\ IF link = "closed" THEN post'[r] = "failed"
                          ELSE post'[r] = "failed" => "publish" \in Faults

(* One process: what ends it ends every handler, goroutine and loop.          *)
Restart ==
    /\ Consumer!Restart
    /\ Reissues!CutOff
    /\ Payments!Crash \/ (~Payments!Busy /\ UNCHANGED paymentVars)

ConsumerLoopStep     == Consumer!LoopStep /\ UNCHANGED <<paymentVars, reissueVars>>
ConsumerDelivery(m)  == Consumer!Deliver(m) /\ UNCHANGED <<paymentVars, reissueVars>>
ConsumerEnvironment  == /\ \/ \E m \in Message : Consumer!Send(m)
                           \/ Consumer!LoseConnection
                           \/ Consumer!Shutdown
                           \/ Consumer!CloseConnection
                        /\ UNCHANGED <<paymentVars, reissueVars>>
PaymentHandlerStep(r) == Payments!HandlerStep(r) /\ UNCHANGED <<consumerVars, reissueVars>>
PaymentArrives(r)     == Payments!ReceiveRequest(r) /\ UNCHANGED <<consumerVars, reissueVars>>
PaymentPostStep(r) ==
    /\ \/ Payments!SaveReceipt(r)
       \/ Payments!FindForConfirmation(r)
       \/ PublishConfirmation(r)
    /\ UNCHANGED <<consumerVars, reissueVars>>
ReissueStep(q) ==
    /\ Reissues!ReceiveQuery(q) \/ Reissues!QueryStep(q)
    /\ UNCHANGED <<consumerVars, paymentVars>>

Next ==
    \/ ConsumerEnvironment
    \/ \E m \in Message : ConsumerDelivery(m)
    \/ ConsumerLoopStep
    \/ \E r \in Request : PaymentArrives(r) \/ PaymentHandlerStep(r) \/ PaymentPostStep(r)
    \/ \E q \in Query : ReissueStep(q)
    \/ Restart

Spec == Init /\ [][Next]_vars

(* The process and the broker as in the parts' own FairSpecs, and guests who  *)
(* pay what they were asked for: the number of a payment request, with a      *)
(* complete card.  A guest who was asked pays some day.                       *)
AskedNumbers == {q.number : q \in requests}

GuestPays(r) == /\ PaymentArrives(r)
                /\ input'[r].number \in AskedNumbers
                /\ input'[r].card = "complete"

PoliteGuests == \A r \in Request : input'[r] # input[r] =>
                    input'[r].number \in AskedNumbers /\ input'[r].card = "complete"

FairSpec ==
    /\ Init
    /\ [][Next /\ PoliteGuests]_vars
    /\ WF_vars(ConsumerLoopStep)
    /\ \A m \in Message : /\ WF_vars(ConsumerDelivery(m))
                         /\ SF_vars(ConsumerLoopStep /\ loop = "waiting" /\ current' = m)
    /\ \A r \in Request : /\ WF_vars(GuestPays(r))
                         /\ WF_vars(PaymentHandlerStep(r))
                         /\ WF_vars(PaymentPostStep(r))

----------------------------------------------------------------------------
(* Properties                                                                *)

(* The collection as the consumer knows it: it never looks at a status.      *)
Unpaid == [d \in DOMAIN invoices |-> [invoices[d] EXCEPT !.status = "pending"]]

ConsumerPromise == INSTANCE InvoiceProcessing WITH invoices <- Unpaid,
                                                   Faults <- Faults \ {"find", "update", "id"}

(* Whatever payments and reissues do to the collection, the consumer keeps   *)
(* behaving as InvoiceProcessing says; whatever the consumer stores and      *)
(* whenever the process dies with it, the payments keep behaving as          *)
(* PaymentMaking says, and the reissues as PaymentReissue says.  What is     *)
(* proved of the three therefore holds of the whole.                         *)
ImplementsParts == ConsumerPromise!Spec /\ Payments!Spec /\ Reissues!Spec

(* The platform is never told of a payment it did not ask for: a confirmed   *)
(* invoice number and booking are those of an invoice that was made from a   *)
(* message about this booking (sendConfirmationMessage reads the booking     *)
(* from whatever invoice it finds under the number it was paid by).          *)
ConfirmedWasBilled ==
    \A c \in confirmations : \E s \in saved :
        /\ BookingOf[s.message] = c.booking
        /\ invoices[s.doc].number = c.invoice

(* "does not reissue after invoice is paid"                                  *)
(* (integration_test/reissue_already_paid_test.go:53): a Reissue call that   *)
(* comes when the booking has a paid invoice is not answered with a payment  *)
(* request.                                                                  *)
DoesNotReissuePaid == \A q \in Query : paidOnArrival[q] # {} => offer[q] = None

(* Seen from the bookings, the whole is BookingLifecycle: whatever fails, is  *)
(* redelivered or raced for, a guest is asked (by the consumer or by Reissue) *)
(* only for what was billed, and a payment is confirmed once, for a booking   *)
(* that was billed under a number that is paid.                               *)
BillOf(d) == [number |-> invoices[d].number, booking |-> invoices[d].booking]
Offered   == {q \in Query : offer[q] # None}
Bookings == INSTANCE BookingLifecycle WITH
    UniqueBills <- UniqueKeys,
    billed      <- {BillOf(d) : d \in DOMAIN invoices},
    requested   <- {[number |-> q.number, booking |-> q.booking] : q \in requests}
                   \cup {[number |-> offer[q], booking |-> asked[q]] : q \in Offered},
    settled     <- {BillOf(d) : d \in {e \in DOMAIN invoices : IsPaid(e)}},
    confirmed   <- {[id |-> c.id, bill |-> [number |-> c.invoice, booking |-> c.booking]] :
                       c \in confirmations}

ImplementsBookings == Bookings!Spec

(* When nothing fails, a valid message ends in a confirmation: stored,       *)
(* requested, paid by the guest, recorded and confirmed to the platform that *)
(* sent it, past duplicates that the index refuses.                          *)
BookingIsConfirmed ==
    \A m \in Message :
        (at[m] = "ready" /\ KindOf[m] = "valid") ~>
            \E c \in confirmations : c.booking = BookingOf[m]

(* README.md:16, "publishes payment-confirmation events back to the          *)
(* platform": a payment that was answered SUCCEEDED is confirmed.            *)
SucceededIsConfirmed == Payments!SucceededIsConfirmed

(* README.md:103-105: when nothing fails, every message leaves the queue for *)
(* good, be it valid, corrupt or the repetition of one that came before.     *)
EveryMessageSettles == Consumer!EveryMessageSettles
==============================================================================
