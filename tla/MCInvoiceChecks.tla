---------------------------- MODULE MCInvoiceChecks ----------------------------
(* Messages with at most two fields that are not as they should be.          *)
EXTENDS InvoiceChecks

Good == [f \in Field |-> CASE f = "issued_at" -> "now" [] f = "due_at" -> "due" [] OTHER -> "good"]

TwoFieldsOff ==
    UNION {{[Good EXCEPT ![f] = v, ![g] = w] : v \in Values(f), w \in Values(g)} :
              f \in Field, g \in Field}
==============================================================================
