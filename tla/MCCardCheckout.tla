--------------------------- MODULE MCCardCheckout ---------------------------
(* Instances of CardCheckout for TLC.                                      *)
EXTENDS CardCheckout
=============================================================================
