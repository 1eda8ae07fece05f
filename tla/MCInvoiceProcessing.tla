------------------------- MODULE MCInvoiceProcessing -------------------------
(* Small instances of InvoiceProcessing for TLC. *)
EXTENDS InvoiceProcessing, TLC

CONSTANTS m1, m2, m3, m4, m5, b1, b2

(* Two messages about one booking (the platform repeats itself), and one     *)
(* message of every other kind.                                              *)
MCKindOf    == m1 :> "valid" @@ m2 :> "valid" @@ m3 :> "corrupt" @@ m4 :> "invalid"
                 @@ m5 :> "undated"
DuplicateKind == m1 :> "valid" @@ m2 :> "valid"
UndatedKind == m1 :> "valid" @@ m5 :> "undated"
MCBookingOf == [m \in Message |-> IF m = m3 THEN b2 ELSE b1]

NoFaults       == {}
ClockWorks     == {"insert", "publish", "consume", "connection", "shutdown", "crash"}
ShutdownOnly   == {"shutdown"}
ConnectionOnly == {"connection"}

DocSymmetry == Permutations(Doc)
==============================================================================
