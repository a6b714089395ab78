-------------------------- MODULE MCCustodyDelivery --------------------------
(* Model-checking instance of CustodyDelivery. *)
EXTENDS CustodyDelivery
=============================================================================
