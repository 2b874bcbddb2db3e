------------------------------ MODULE MCPayouts ------------------------------
(* A small instance of Payouts. *)
EXTENDS Payouts, TLC
=============================================================================
