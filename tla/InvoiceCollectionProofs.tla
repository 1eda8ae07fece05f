----------------------- MODULE InvoiceCollectionProofs -----------------------
(***************************************************************************)
(* What the operations on the collection of invoices preserve.              *)
(***************************************************************************)
EXTENDS InvoiceCollection, TLAPS

(* The collection only grows: UpdateStatus and Add keep the number and the   *)
(* booking of every document, and a paid one stays paid.                     *)
InvoicesGrow ==
    \A d \in DOMAIN invoices :
        /\ d \in DOMAIN invoices'
        /\ invoices'[d].number = invoices[d].number
        /\ invoices'[d].booking = invoices[d].booking
        /\ IsPaid(d) => invoices'[d].status = "paid"

(* Some document of number n is about booking b.                             *)
HasBooking(n, b) == \E d \in WithNumber(n) : invoices[d].booking = b

(* What a unique index on the idempotency key would see to.                  *)
UniqueBookings == \A d, e \in DOMAIN invoices : invoices[d].booking = invoices[e].booking => d = e

(* UpdateStatus keeps the documents well formed, loses none of them, and     *)
(* leaves the one it matched paid.                                           *)
LEMMA SetPaidStep ==
    ASSUME InvoicesOK, NEW d \in DOMAIN invoices, SetPaid(d)
    PROVE  InvoicesOK' /\ InvoicesGrow /\ invoices'[d].status = "paid"
    BY DEF InvoicesOK, SetPaid, InvoicesGrow, Invoice, InvoiceStatus, IsPaid

(* Add keeps the documents well formed and changes none that was there.      *)
LEMMA InsertStep ==
    ASSUME InvoicesOK, NEW d \in Doc, NEW n \in InvoiceNumber, NEW b \in Booking,
           InsertInvoice(d, NewInvoice(n, b))
    PROVE  InvoicesOK' /\ InvoicesGrow
    BY DEF InvoicesOK, InsertInvoice, NewInvoice, InvoicesGrow, Invoice, InvoiceStatus, IsPaid

(* Steps that write no invoice keep every document (trivially).              *)
LEMMA SameInvoicesGrow == ASSUME UNCHANGED invoices PROVE InvoicesGrow
    BY DEF InvoicesGrow, IsPaid

(* A number with a paid invoice keeps one, whatever Add and UpdateStatus     *)
(* do.                                                                       *)
LEMMA SomePaidStays ==
    ASSUME InvoicesGrow, NEW n
    PROVE  SomePaid(n) => SomePaid(n)'
    BY DEF InvoicesGrow, SomePaid, WithNumber, IsPaid

(* A number under which a booking was found keeps that booking.              *)
LEMMA HasBookingStays ==
    ASSUME InvoicesGrow, NEW n, NEW b
    PROVE  HasBooking(n, b) => HasBooking(n, b)'
    BY DEF InvoicesGrow, HasBooking, WithNumber

(* Numbers that are unique after a step were unique before it: Add can only  *)
(* spoil this.                                                               *)
LEMMA UniqueBefore == ASSUME InvoicesGrow PROVE UniqueNumbers' => UniqueNumbers
    BY DEF InvoicesGrow, UniqueNumbers
==============================================================================
