----------------------------- MODULE MCBilling ------------------------------
(* Billing on small sets: model values for requests and checkouts.          *)
EXTENDS Billing
=============================================================================
