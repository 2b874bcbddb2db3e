--------------------------- MODULE MCOrderPayments ---------------------------
(* Small instances of OrderPayments.  A dollar: 33 cents to Stripe, 10 to  *)
(* the platform, 57 for two photographers; or all of it for the second     *)
(* when the first has left the event.                                      *)
EXTENDS OrderPayments, TLC

TwoSplits == {<<38, 19>>, <<0, 57>>}
AnyAdmin == Permutations(Admins)
=============================================================================
