--------------------------- MODULE MCCxSourceAudit ---------------------------
(* One transaction of a user that runs a contract, which may call itself. *)
EXTENDS CxSourceAudit, TLC
=============================================================================
