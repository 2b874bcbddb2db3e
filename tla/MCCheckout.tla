----------------------------- MODULE MCCheckout -----------------------------
(* A small instance of Checkout: a photo and a bundle. *)
EXTENDS Checkout, TLC

CONSTANTS photo, bundle
Prices == photo :> 5 @@ bundle :> 20
=============================================================================
