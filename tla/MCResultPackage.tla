-------------------------- MODULE MCResultPackage --------------------------
(* Accounting trees for TLC: legacy and split reconciliations, with all,   *)
(* one or none of the evidence files, two of them differing in one file    *)
(* only, and the two mixes of components that the packager refuses.        *)
EXTENDS ResultPackage

Json(n) == [Absent EXCEPT !.amount = n]
Reconciled(n, label, names) ==
  [amount |-> n, label |-> label, policy |-> "current", names |-> names]
Tree(r, e1, e2, t) ==
  [f \in Results |-> CASE f = "reconciliation" -> r
                      [] f = Evidence[1] -> e1
                      [] f = Evidence[2] -> e2
                      [] f = "table" -> t]

SplitNames == {Split[1], Split[2]}
MCTrees ==
  {Tree(Reconciled(1, "payout", {Legacy}), Absent, Absent, Json(1)),
   Tree(Reconciled(2, "exposure", {Legacy}), Absent, Absent, Json(2)),
   Tree(Reconciled(2, "payout", SplitNames), Json(1), Json(1), Json(1)),
   Tree(Reconciled(2, "payout", SplitNames), Json(1), Absent, Json(1)),
   Tree(Reconciled(2, "payout", SplitNames), Absent, Absent, Json(1)),
   Tree(Reconciled(1, "payout", {Legacy, Split[1]}), Json(1), Json(1), Json(1)),
   Tree(Reconciled(1, "payout", {Split[2]}), Json(1), Json(1), Json(1)),
   Tree(Reconciled(1, "payout", {Legacy}), Json(1), Absent, Json(1)),
   Tree(Reconciled(1, "payout", {Legacy}), Absent, Absent, Absent)}

=============================================================================
