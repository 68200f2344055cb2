-------------------------- MODULE MCHip30Recovery --------------------------
(* Groups of four headers, words below 20 and a chain of 16 blocks whose     *)
(* epochs cross the activation inside the second group and the rejection of  *)
(* shard 0 crosslinks inside the fourth.                                     *)
EXTENDS Hip30Recovery

MCEpoch == [n \in 0..LastHeader |-> IF n < 6 THEN 0 ELSE IF n < 14 THEN 1 ELSE 2]
MCLinks == [n \in 0..LastHeader |-> [zero |-> n % 2, other |-> n % 3]]
============================================================================
