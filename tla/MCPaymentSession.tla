--------------------------- MODULE MCPaymentSession ---------------------------
(* References and webhook requests are interchangeable.                    *)
EXTENDS PaymentSession, TLC

Interchangeable == Permutations(Ref) \cup Permutations(Hook)
=============================================================================
