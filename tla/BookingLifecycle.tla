--------------------------- MODULE BookingLifecycle ---------------------------
(***************************************************************************)
(* What the service promises the platform and its guests, with no queue, no *)
(* handlers and no database (README.md:10-16): a booking is billed, once if *)
(* the bills are unique; the guest is only asked to pay what was billed,    *)
(* however often; a bill is settled for good; and a payment is confirmed    *)
(* once, for a bill, when one of its number is settled.                     *)
(***************************************************************************)
CONSTANTS InvoiceNumber, Booking,
          Request,     \* payments
          UniqueBills  \* is a booking billed only once?

VARIABLES billed,     \* the bills made
          requested,  \* the bills a guest was asked to pay
          settled,    \* the bills paid
          confirmed   \* payments the platform was told of, each with its bill

vars == <<billed, requested, settled, confirmed>>

Bill == [number : InvoiceNumber, booking : Booking]

Init == billed = {} /\ requested = {} /\ settled = {} /\ confirmed = {}

Issue(b) ==
    /\ UniqueBills => \A a \in billed : a.booking # b.booking
    /\ billed' = billed \cup {b}
    /\ UNCHANGED <<requested, settled, confirmed>>

Ask(b) ==
    /\ b \in billed
    /\ requested' = requested \cup {b}
    /\ UNCHANGED <<billed, settled, confirmed>>

Settle(b) ==
    /\ b \in billed
    /\ settled' = settled \cup {b}
    /\ UNCHANGED <<billed, requested, confirmed>>

Confirm(r, b) ==
    /\ b \in billed
    /\ \E s \in settled : s.number = b.number
    /\ \A c \in confirmed : c.id # r
    /\ confirmed' = confirmed \cup {[id |-> r, bill |-> b]}
    /\ UNCHANGED <<billed, requested, settled>>

Next == \E b \in Bill : \/ Issue(b) \/ Ask(b) \/ Settle(b)
                        \/ \E r \in Request : Confirm(r, b)

Spec == Init /\ [][Next]_vars
==============================================================================
