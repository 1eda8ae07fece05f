-------------------------- MODULE MCPaymentSimulator --------------------------
(* Small instances of PaymentSimulator for TLC. *)
EXTENDS PaymentSimulator, TLC

CONSTANTS m1, m2, m3, b1, b2

(* The platform repeats itself: the first two messages are about one booking. *)
MCKindOf     == [m \in Message |-> "valid"]
CorruptThird == [m \in Message |-> IF m = m3 THEN "corrupt" ELSE "valid"]
MCBookingOf  == [m \in Message |-> IF m = m3 THEN b2 ELSE b1]

SomeFaults   == {"publish", "lost", "crash", "shutdown"}
NoFaults     == {}
ShutdownOnly == {"shutdown"}
AnyCard      == {"complete"}

(* Documents and numbers are alike, and so are the two bookings with their   *)
(* messages, taken together.                                                 *)
ExchangeBookings  == m1 :> m3 @@ m3 :> m1 @@ b1 :> b2 @@ b2 :> b1
SimulatorSymmetry == Permutations(Doc) \cup Permutations(InvoiceNumber) \cup {ExchangeBookings}
==============================================================================
