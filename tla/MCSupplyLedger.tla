--------------------------- MODULE MCSupplyLedger ---------------------------
(* The instances of SupplyLedger that TLC checks; their bounds are in the    *)
(* configurations.                                                           *)
EXTENDS SupplyLedger
=============================================================================
