------------------------ MODULE MCCrossShardSupply ------------------------
(* Bounded instances of CrossShardSupply. *)
EXTENDS CrossShardSupply

MCAmountOf == [t \in Tx |-> 2 ^ (t - 1)]
MCInitialLiquid == [s \in Active |-> 7]
===========================================================================
