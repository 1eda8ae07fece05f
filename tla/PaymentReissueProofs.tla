------------------------- MODULE PaymentReissueProofs -------------------------
(***************************************************************************)
(* Proofs about the module PaymentReissue, for any calls, documents, numbers *)
(* and bookings.                                                            *)
(***************************************************************************)
EXTENDS PaymentReissue, InvoiceCollectionProofs

(* A call that has not looked for its invoice has no answer; what was paid    *)
(* when it came is a paid invoice of its booking still.                       *)
Unanswered == \A q \in Query : step[q] \in {"idle", "find"} => offer[q] = None /\ verdict[q] = "none"
StillPaid  == \A q \in Query : paidOnArrival[q] \subseteq PaidInvoices(asked[q])

Inv == TypeOK /\ Unanswered /\ StillPaid /\ OfferWasOpen /\ RefusalIsRight

(* Before the first call the invariant holds, whatever is stored.             *)
LEMMA InvInit == Init => Inv
<1> SUFFICES ASSUME Init PROVE Inv
  OBVIOUS
<1>1. InvoicesOK
  <2>1. PICK D \in SUBSET Doc : invoices \in [D -> Invoice]
    BY DEF Init
  <2> QED
    BY <2>1 DEF InvoicesOK
<1> QED
  BY <1>1 DEF Init, ReissueInit, Inv, TypeOK, ReissueCode, Unanswered, StillPaid, OfferWasOpen,
              RefusalIsRight

(* What the payments and the consumer write takes no invoice of a booking     *)
(* away, changes no number and makes no paid invoice pending.                 *)
LEMMA OthersWriteStep == ASSUME Inv, OthersWrite PROVE Inv'
<1>1. InvoicesOK' /\ InvoicesGrow
  BY SetPaidStep, InsertStep DEF OthersWrite, Inv, TypeOK
<1>2. UNCHANGED <<step, asked, offer, verdict, paidOnArrival>>
  BY DEF OthersWrite, reissueVars
<1>3. \A b : WithBooking(b) \subseteq WithBooking(b)' /\ PaidInvoices(b) \subseteq PaidInvoices(b)'
  BY <1>1 DEF InvoicesGrow, WithBooking, PaidInvoices, IsPaid
<1>4. TypeOK'
  BY <1>1, <1>2 DEF Inv, TypeOK
<1>5. OfferWasOpen'
  <2> SUFFICES ASSUME NEW q \in Query, offer[q] # None
               PROVE  \E d \in WithBooking(asked[q])' \ paidOnArrival[q] : invoices'[d].number = offer[q]
    BY <1>2 DEF OfferWasOpen
  <2>1. PICK d \in WithBooking(asked[q]) \ paidOnArrival[q] : invoices[d].number = offer[q]
    BY DEF Inv, OfferWasOpen
  <2>2. d \in WithBooking(asked[q])'
    BY <1>2, <1>3
  <2>3. invoices'[d].number = invoices[d].number
    BY <1>1 DEF InvoicesGrow, WithBooking
  <2> QED
    BY <2>1, <2>2, <2>3
<1>6. Unanswered' /\ StillPaid'
  BY <1>2, <1>3 DEF Inv, Unanswered, StillPaid
<1>7. RefusalIsRight'
  BY <1>2, <1>3 DEF Inv, RefusalIsRight
<1> QED
  BY <1>4, <1>5, <1>6, <1>7 DEF Inv

(* Lines 40-53: a call records what is paid when it comes.                    *)
LEMMA ReceiveQueryStep == ASSUME Inv, NEW q \in Query, ReceiveQuery(q) PROVE Inv'
<1>1. PICK b \in Booking \cup {Blank} :
          /\ asked' = [asked EXCEPT ![q] = b]
          /\ paidOnArrival' = [paidOnArrival EXCEPT ![q] = PaidInvoices(b)]
          /\ \/ b = Blank /\ Reply(q, "InvalidArgument")
             \/ step' = [step EXCEPT ![q] = "find"] /\ UNCHANGED verdict
  BY DEF ReceiveQuery
<1>2. UNCHANGED <<invoices, offer>> /\ offer[q] = None /\ verdict[q] = "none"
  BY DEF ReceiveQuery, Inv, Unanswered
<1>3. PaidInvoices(b) \subseteq Doc
  BY DEF PaidInvoices, WithBooking, Inv, TypeOK, InvoicesOK
<1>4. TypeOK'
  BY <1>1, <1>2, <1>3 DEF Reply, Inv, TypeOK, ReissueCode, InvoicesOK
<1>5. \A p \in Query : p # q =>
          /\ asked'[p] = asked[p] /\ paidOnArrival'[p] = paidOnArrival[p]
          /\ step'[p] = step[p] /\ verdict'[p] = verdict[p]
  BY <1>1 DEF Reply, Inv, TypeOK
<1>6. /\ asked'[q] = b /\ paidOnArrival'[q] = PaidInvoices(b)
      /\ verdict'[q] \in {"none", "InvalidArgument"}
      /\ step'[q] = "return" \/ (step'[q] = "find" /\ verdict'[q] = "none")
  BY <1>1, <1>2 DEF Reply, Inv, TypeOK
<1>7. \A c : PaidInvoices(c)' = PaidInvoices(c) /\ WithBooking(c)' = WithBooking(c)
  BY <1>2 DEF PaidInvoices, WithBooking, IsPaid
<1>8. Unanswered' /\ StillPaid'
  BY <1>2, <1>5, <1>6, <1>7 DEF Inv, Unanswered, StillPaid
<1>9. OfferWasOpen'
  BY <1>2, <1>5, <1>7 DEF Inv, OfferWasOpen
<1>10. RefusalIsRight'
  BY <1>5, <1>6, <1>7 DEF Inv, RefusalIsRight
<1> QED
  BY <1>4, <1>8, <1>9, <1>10 DEF Inv

(* Lines 55-75: an invoice that is offered is not paid now, so it was not     *)
(* when the call came; a booking without invoices had no paid one then.       *)
LEMMA FindInvoiceStep == ASSUME Inv, NEW q \in Query, FindInvoice(q) PROVE Inv'
<1>1. /\ UNCHANGED <<invoices, asked, paidOnArrival>>
      /\ step' = [step EXCEPT ![q] = "return"]
      /\ step[q] = "find" /\ offer[q] = None
  BY DEF FindInvoice, OfferInvoice, Reply, Inv, Unanswered
<1>2. \/ \E d \in WithBooking(asked[q]) : ~IsPaid(d) /\ OfferInvoice(q, d)
      \/ /\ UNCHANGED offer
         /\ \/ PaidInvoices(asked[q]) # {} /\ Reply(q, "FailedPrecondition")
            \/ WithBooking(asked[q]) = {} /\ Reply(q, "NotFound")
            \/ Reply(q, "Internal")
  BY DEF FindInvoice, PaidInvoices
<1>3. \A c : PaidInvoices(c)' = PaidInvoices(c) /\ WithBooking(c)' = WithBooking(c)
  BY <1>1 DEF PaidInvoices, WithBooking, IsPaid
<1>4. \A p \in Query : p # q =>
          step'[p] = step[p] /\ verdict'[p] = verdict[p] /\ offer'[p] = offer[p]
  BY <1>1, <1>2 DEF OfferInvoice, Reply, Inv, TypeOK
<1>5. step'[q] = "return"
  BY <1>1 DEF Inv, TypeOK
<1>6. Unanswered' /\ StillPaid'
  BY <1>1, <1>3, <1>4, <1>5 DEF Inv, Unanswered, StillPaid
<1>7. CASE \E d \in WithBooking(asked[q]) : ~IsPaid(d) /\ OfferInvoice(q, d)
  <2>1. PICK d \in WithBooking(asked[q]) : ~IsPaid(d) /\ OfferInvoice(q, d)
    BY <1>7
  <2>2. d \notin paidOnArrival[q]
    BY <2>1 DEF Inv, StillPaid, PaidInvoices
  <2>3. offer'[q] = invoices[d].number /\ verdict'[q] = "OK"
    BY <2>1 DEF OfferInvoice, Reply, Inv, TypeOK
  <2>4. invoices[d].number \in InvoiceNumber
    BY DEF Inv, TypeOK, InvoicesOK, WithBooking, Invoice
  <2>5. TypeOK'
    BY <1>1, <2>1, <2>4 DEF OfferInvoice, Reply, Inv, TypeOK, InvoicesOK, ReissueCode
  <2>6. OfferWasOpen'
    BY <1>1, <1>3, <1>4, <2>2, <2>3 DEF Inv, OfferWasOpen
  <2>7. RefusalIsRight'
    BY <1>1, <1>3, <1>4, <2>3 DEF Inv, RefusalIsRight
  <2> QED
    BY <1>6, <2>5, <2>6, <2>7 DEF Inv
<1>8. CASE UNCHANGED offer /\ (\/ PaidInvoices(asked[q]) # {} /\ Reply(q, "FailedPrecondition")
                               \/ WithBooking(asked[q]) = {} /\ Reply(q, "NotFound")
                               \/ Reply(q, "Internal"))
  <2>1. TypeOK'
    BY <1>1, <1>8 DEF Reply, Inv, TypeOK, InvoicesOK, ReissueCode
  <2>2. OfferWasOpen'
    BY <1>1, <1>3, <1>8 DEF Inv, OfferWasOpen
  <2>3. \/ verdict'[q] = "FailedPrecondition" /\ PaidInvoices(asked[q]) # {}
        \/ verdict'[q] = "NotFound" /\ PaidInvoices(asked[q]) = {}
        \/ verdict'[q] = "Internal"
    BY <1>8 DEF Reply, Inv, TypeOK, PaidInvoices
  <2>4. RefusalIsRight'
    BY <1>1, <1>3, <1>4, <2>3 DEF Inv, RefusalIsRight, StillPaid
  <2> QED
    BY <1>6, <2>1, <2>2, <2>4 DEF Inv
<1> QED
  BY <1>2, <1>7, <1>8

(* Line 77 and the end of the process change nothing but where the calls are. *)
LEMMA EndStep == ASSUME Inv, (\E q \in Query : SendReply(q)) \/ CutOff PROVE Inv'
<1>1. UNCHANGED <<invoices, asked, offer, verdict, paidOnArrival>>
  BY DEF SendReply, CutOff
<1>2. /\ step' \in [Query -> {"idle", "find", "return", "done"}]
      /\ \A q \in Query : step'[q] = step[q] \/ step'[q] = "done"
  BY DEF SendReply, CutOff, Inv, TypeOK
<1>3. TypeOK' /\ Unanswered'
  BY <1>1, <1>2 DEF Inv, TypeOK, InvoicesOK, Unanswered
<1>4. StillPaid' /\ OfferWasOpen' /\ RefusalIsRight'
  BY <1>1 DEF Inv, StillPaid, OfferWasOpen, RefusalIsRight, PaidInvoices, WithBooking, IsPaid
<1> QED
  BY <1>3, <1>4 DEF Inv

(* Every step of the calls, of the writers and of a crash keeps the invariant. *)
LEMMA InvStep == Inv /\ [Next]_vars => Inv'
<1> SUFFICES ASSUME Inv, [Next]_vars PROVE Inv'
  OBVIOUS
<1>1. CASE UNCHANGED vars
  BY <1>1 DEF vars, reissueVars, Inv, TypeOK, InvoicesOK, Unanswered, StillPaid, OfferWasOpen,
              RefusalIsRight, PaidInvoices, WithBooking, IsPaid
<1> QED
  BY <1>1, OthersWriteStep, ReceiveQueryStep, FindInvoiceStep, EndStep DEF Next, QueryStep

(* The inductive invariant holds in every reachable state.                    *)
THEOREM Invariance == Spec => []Inv
BY InvInit, InvStep, PTL DEF Spec

(* Type correctness of the Reissue calls.                                     *)
THEOREM TypeCorrect == Spec => []TypeOK
<1>1. Inv => TypeOK
  BY DEF Inv
<1> QED
  BY <1>1, Invariance, PTL

(* Lines 70-75: what is offered was open when the call came.                  *)
THEOREM OffersWereOpen == Spec => []OfferWasOpen
<1>1. Inv => OfferWasOpen
  BY DEF Inv
<1> QED
  BY <1>1, Invariance, PTL

(* Lines 55-73: the refusals tell the truth about the booking.                *)
THEOREM RefusalsAreRight == Spec => []RefusalIsRight
<1>1. Inv => RefusalIsRight
  BY DEF Inv
<1> QED
  BY <1>1, Invariance, PTL

(* reissue_already_paid_test.go:53: as long as a booking has one invoice, one *)
(* that was paid when the call came is not reissued.                          *)
THEOREM PaidBookingsAreNotReissued ==
    Spec => [](UniqueBookings => \A q \in Query : paidOnArrival[q] # {} => offer[q] = None)
<1>1. Inv => (UniqueBookings => \A q \in Query : paidOnArrival[q] # {} => offer[q] = None)
  <2> SUFFICES ASSUME Inv, UniqueBookings, NEW q \in Query, NEW e \in paidOnArrival[q],
                      offer[q] # None
               PROVE  FALSE
    OBVIOUS
  <2>1. PICK d \in WithBooking(asked[q]) \ paidOnArrival[q] : invoices[d].number = offer[q]
    BY DEF Inv, OfferWasOpen
  <2>2. e \in WithBooking(asked[q])
    BY DEF Inv, StillPaid, PaidInvoices
  <2> QED
    BY <2>1, <2>2 DEF UniqueBookings, WithBooking
<1> QED
  BY <1>1, Invariance, PTL
==============================================================================
