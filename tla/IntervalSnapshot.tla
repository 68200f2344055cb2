-------------------------- MODULE IntervalSnapshot --------------------------
(***************************************************************************)
(* What an interval audit promises, whatever the chain does: the blocks it *)
(* reports are the canonical blocks Start-1 .. End of one single instant.  *)
(* The chain moves freely; the report is taken in one step, or dropped.    *)
(***************************************************************************)
EXTENDS Integers, Sequences

CONSTANTS Start, End

VARIABLES chain, snapshot

Init == snapshot = <<>>

Take == /\ chain' = chain
        /\ End <= Len(chain)
        /\ snapshot' = SubSeq(chain, Start - 1, End)

Next == Take \/ snapshot' = snapshot \/ snapshot' = <<>>

Spec == Init /\ [][Next]_<<chain, snapshot>>
=============================================================================
