--------------------------- MODULE InvoiceLifecycle ---------------------------
(***************************************************************************)
(* What the service promises about an invoice number, with no handlers, no  *)
(* database and no broker: the number is issued, it turns from pending to   *)
(* paid once and for ever, a payment request is recorded (gets a receipt)   *)
(* at most once and only against a paid number, and only a recorded payment *)
(* is confirmed, at most once, for the number it paid.                      *)
(***************************************************************************)
CONSTANTS InvoiceNumber, Request

VARIABLES status,     \* of every invoice number
          recorded,   \* payments with a receipt
          confirmed   \* payments the platform was told about

vars == <<status, recorded, confirmed>>

Payment == [id : Request, invoice : InvoiceNumber]

Init ==
    /\ status \in [InvoiceNumber -> {"absent", "pending", "paid"}]
    /\ recorded = {}
    /\ confirmed = {}

Issue(n) ==
    /\ status[n] = "absent"
    /\ status' = [status EXCEPT ![n] = "pending"]
    /\ UNCHANGED <<recorded, confirmed>>

Settle(n) ==
    /\ status[n] = "pending"
    /\ status' = [status EXCEPT ![n] = "paid"]
    /\ UNCHANGED <<recorded, confirmed>>

Record(p) ==
    /\ status[p.invoice] = "paid"
    /\ \A q \in recorded : q.id # p.id
    /\ recorded' = recorded \cup {p}
    /\ UNCHANGED <<status, confirmed>>

Confirm(p) ==
    /\ p \in recorded \ confirmed
    /\ confirmed' = confirmed \cup {p}
    /\ UNCHANGED <<status, recorded>>

Next ==
    \/ \E n \in InvoiceNumber : Issue(n) \/ Settle(n)
    \/ \E p \in Payment : Record(p) \/ Confirm(p)

Spec == Init /\ [][Next]_vars
==============================================================================
