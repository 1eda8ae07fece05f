--------------------------- MODULE MCPaymentReissue ---------------------------
(* Small instances of PaymentReissue for TLC. *)
EXTENDS PaymentReissue, TLC

DocSymmetry == Permutations(Doc)
==============================================================================
