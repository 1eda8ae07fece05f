--------------------------- MODULE MCPaymentMaking ---------------------------
(* Small instances of PaymentMaking for TLC. *)
EXTENDS PaymentMaking, TLC

AllFaults == FaultKind
NoFaults  == {}

AllCards      == CardKind
CompleteCards == {"complete", "invalid"}

RequestSymmetry == Permutations(Request)
==============================================================================
