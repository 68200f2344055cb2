------------------------ MODULE MCHistoricalClosure ------------------------
(* One delegator with a pending undelegation at a sound and at a repeating *)
(* validator, and one account with liquid ONE only.                        *)
EXTENDS HistoricalClosure

MCLiquid == [d \in Delegators |-> IF d = "e" THEN 1 ELSE 0]
Stake(active, amount) ==
  [active |-> active, reward |-> 0, undelegations |-> {[epoch |-> 0, amount |-> amount]}]
MCStake == [v \in Validators |-> [d \in Delegators |->
  IF d = "e" THEN [active |-> 0, reward |-> 0, undelegations |-> {}]
  ELSE IF v \in Repeating THEN Stake(2, 2) ELSE Stake(0, 1)]]

=============================================================================
