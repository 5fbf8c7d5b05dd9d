--------------------------- MODULE MCTaxiManager ----------------------------
(***************************************************************************)
(* Instances of TaxiManager for TLC.                                       *)
(***************************************************************************)
EXTENDS TaxiManager
=============================================================================
