------------------------- MODULE HistoricalClosure -------------------------
(***************************************************************************)
(* The residual chain: the chain's claims at two historical checkpoints    *)
(* and at the cutoff, compared with the issuance formula.                  *)
(*                                                                         *)
(* The chain part is external: shard 0 with liquid and staked ONE, shard 1 *)
(* with one balance, cross-shard receipts that may lack their source       *)
(* debit, and validators that pay a finished undelegation again at the end *)
(* of every epoch until the fix.  A block is an epoch here.                *)
(*                                                                         *)
(* The tools part is translated: undelegation-mint-reconcile.py,           *)
(* historical-staking-rpc.py, historical-claims-diff.py,                   *)
(* map-cx-receipt-destinations.py, historical-shard1-balance.py,           *)
(* historical-closure.py and the closure checks of                         *)
(* verify-reconciliation.py.  The tools read archived blocks, so the order *)
(* of their reads does not matter; what matters is which receipts,         *)
(* payouts and labels each of them counts.                                 *)
(***************************************************************************)
EXTENDS Integers, Sequences, FiniteSets, Functions

CONSTANTS
  Delegators, Validators,
  Trader,      \* the account that sends and receives across the shards
  Repeating,   \* the validators whose undelegations are paid again
  LockPeriod,  \* epochs before an undelegation is paid (7 in the code)
  First, Cleanup, Cutoff,   \* the blocks of the three checkpoints
  InitialLiquid, InitialShard1, InitialStake,
  BookedUnder, \* the components a curator may book a cross-shard amount under
  MaxEvents    \* bound on transfers, undelegations, rewards and recoveries

ASSUME CheckpointsAssumption ==
  /\ First \in Nat \ {0} /\ Cleanup \in Nat /\ Cutoff \in Nat /\ LockPeriod \in Nat \ {0}
  /\ First < Cleanup /\ Cleanup < Cutoff
  /\ Repeating \subseteq Validators /\ Trader \in Delegators

(* At the first block nothing is earned, and what is pending is not yet    *)
(* due.                                                                    *)
ASSUME StakeAssumption ==
  /\ IsFiniteSet(Delegators) /\ IsFiniteSet(Validators) /\ MaxEvents \in Nat
  /\ InitialLiquid \in [Delegators -> Nat] /\ InitialShard1 \in Nat
  /\ InitialStake \in [Validators -> [Delegators ->
       [active : Nat, reward : {0}, undelegations : SUBSET [epoch : {0}, amount : Nat \ {0}]]]]
  /\ \A v \in Validators, d \in Delegators : IsFiniteSet(InitialStake[v][d].undelegations)

VARIABLES
  now,       \* the current block and epoch
  liquid,    \* shard 0: [Delegators -> Nat]
  staking,   \* [Validators -> [Delegators -> delegation]]
  shard1,    \* the balance of shard 1
  acc,       \* the block reward accumulator
  minted,    \* history: payouts beyond the first one of an undelegation
  recovered, \* what HIP-30 recovery issued beside the accumulator
  receipts,  \* cross-shard receipts in the order of their blocks
  hist,      \* history: the archived states, by block
  events,
  labels,    \* source audit: label of each receipt
  mapped,    \* destination table: the receipts it lists
  derived,   \* file: derived balance of shard 1 at the checkpoints, or None
  summarized, \* file: summary of the source audit, unbacked credit at the checkpoints, or None
  published  \* components of reconciliation.json, or None

chain == <<now, liquid, staking, shard1, acc, minted, recovered, receipts, hist, events>>
files == <<derived, summarized>>
vars == <<chain, labels, mapped, files, published>>

None == <<>>
Never == 0
Blocks == 1..(Cutoff + 1)
Labels == {"valid_source_debit", "unbacked", "unclassified"}
Components == {"pre_existing", "december", "hip30", "cross_shard", "max_rate", "rounding"}
Checkpoints == {First, Cleanup, Cutoff}
Fields == Components \cup {"pre_existing_net_deficit"}

ASSUME BookedAssumption == BookedUnder \subseteq Components

Sum(f) == SumFunction(f)
(* A table has a row of every validator with a number of every delegator.  *)
SumTable(table) == Sum([v \in Validators |-> Sum(table[v])])
Pending(entries) == Sum([u \in entries |-> u.amount])
ClaimOf(delegation) ==
  delegation.active + delegation.reward + Pending(delegation.undelegations)
AmountOf(rows) == Sum([i \in rows |-> receipts[i].amount])

-----------------------------------------------------------------------------
(* The chain. *)

Sampling == labels = None   \* the tools start when the chain has passed the cutoff

Event == Sampling /\ now \in Blocks /\ events < MaxEvents /\ events' = events + 1

Undelegated(of, epoch) ==
  [of EXCEPT !.active = @ - 1, !.undelegations = @ \cup {[epoch |-> epoch, amount |-> 1]}]
Rewarded(of) == [of EXCEPT !.reward = @ + 1]

(* Undelegations of one epoch are one entry. *)
Undelegate(v, d) ==
  /\ Event
  /\ staking[v][d].active > 0
  /\ \A u \in staking[v][d].undelegations : u.epoch # now
  /\ staking' = [staking EXCEPT ![v][d] = Undelegated(@, now)]
  /\ UNCHANGED <<now, liquid, shard1, acc, minted, recovered, receipts, hist>>

(* A reward is counted by the accumulator; one that fails to persist       *)
(* credits nobody.                                                         *)
Reward(v, d, committed) ==
  /\ Event
  /\ staking[v][d].active > 0
  /\ acc' = acc + 1
  /\ staking' = IF committed THEN [staking EXCEPT ![v][d] = Rewarded(@)] ELSE staking
  /\ UNCHANGED <<now, liquid, shard1, minted, recovered, receipts, hist>>

(* HIP-30 recovery issues ONE that the accumulator does not count.         *)
Recover ==
  /\ Event
  /\ liquid' = [liquid EXCEPT ![Trader] = @ + 1]
  /\ recovered' = recovered + 1
  /\ UNCHANGED <<now, staking, shard1, acc, minted, receipts, hist>>

(* A receipt leaves a shard; its debit is undone when its frame reverts.   *)
Send(from, backed) ==
  /\ Event
  /\ receipts' = Append(receipts, [from |-> from, amount |-> 1, backed |-> backed,
                                     sent |-> now, applied |-> Never])
  /\ IF ~ backed THEN UNCHANGED <<liquid, shard1>>
     ELSE IF from = 0
     THEN liquid[Trader] > 0 /\ liquid' = [liquid EXCEPT ![Trader] = @ - 1] /\ UNCHANGED shard1
     ELSE shard1 > 0 /\ shard1' = shard1 - 1 /\ UNCHANGED liquid
  /\ UNCHANGED <<now, staking, acc, minted, recovered, hist>>

Apply(i) ==
  /\ Sampling /\ now \in Blocks
  /\ receipts[i].applied = Never
  /\ receipts' = [receipts EXCEPT ![i].applied = now]
  /\ IF receipts[i].from = 0
     THEN shard1' = shard1 + receipts[i].amount /\ UNCHANGED liquid
     ELSE liquid' = [liquid EXCEPT ![Trader] = @ + receipts[i].amount]
          /\ UNCHANGED shard1
  /\ UNCHANGED <<now, staking, acc, minted, recovered, hist, events>>

(* The end of an epoch pays every undelegation whose lock period is over   *)
(* and removes it; before the fix (the first checkpoint) a repeating       *)
(* validator keeps it, and from then on an entry already paid goes without *)
(* another payout.                                                         *)
Finished(v, d) ==
  {u \in staking[v][d].undelegations :
     IF now < First THEN u.epoch + LockPeriod <= now ELSE u.epoch + LockPeriod = now}
Kept(v, d) ==
  {u \in staking[v][d].undelegations :
     u.epoch + LockPeriod > now \/ (v \in Repeating /\ now < First)}
Paid(v, d) == Pending(Finished(v, d))
PaidAgain(v, d) == Pending({u \in Finished(v, d) : u.epoch + LockPeriod < now})
AccountAndStakingClaims ==
  Sum(liquid) + SumTable([v \in Validators |-> [d \in Delegators |-> ClaimOf(staking[v][d])]])
NextBlock ==
  /\ Sampling /\ now \in Blocks
  /\ hist' = Append(hist, [liquid |-> liquid, staking |-> staking, shard1 |-> shard1,
                           acc |-> acc, minted |-> minted, recovered |-> recovered,
                           claims |-> AccountAndStakingClaims])
  /\ liquid' = [d \in Delegators |->
                  liquid[d] + Sum([v \in Validators |-> Paid(v, d)])]
  /\ minted' = minted + SumTable([v \in Validators |-> [d \in Delegators |-> PaidAgain(v, d)]])
  /\ staking' = [v \in Validators |-> [d \in Delegators |->
                  [staking[v][d] EXCEPT !.undelegations = Kept(v, d)]]]
  /\ now' = now + 1
  /\ UNCHANGED <<shard1, acc, recovered, receipts, events>>

-----------------------------------------------------------------------------
(* undelegation-mint-reconcile.py at block t. *)

(* Mutant: the epoch still running counts as paid. *)
payouts_to_now(t, u) == t - (u.epoch + LockPeriod)
repeated_payouts(t, u) == (t - 1) - (u.epoch + LockPeriod)
repeated_mint(t, u) ==
  IF repeated_payouts(t, u) <= 0 THEN 0 ELSE u.amount * repeated_payouts(t, u)
delegator_totals(t) ==
  [d \in Delegators |->
     Sum([v \in Validators |->
            Sum([u \in hist[t].staking[v][d].undelegations |-> repeated_mint(t, u)])])]
Reconstructed(t) == Sum(delegator_totals(t))

(* historical-staking-rpc.py: the claims of a delegator over all pages of  *)
(* validators; historical-claims-diff.py: liquid differences of the listed *)
(* accounts plus the staking claims of every account of either table.      *)
StakingClaim(t, d) == Sum([v \in Validators |-> ClaimOf(hist[t].staking[v][d])])
LiquidDiff(old, new) == {d \in Delegators : hist[old].liquid[d] # hist[new].liquid[d]}
(* Mutant: only the accounts of the liquid table. *)
ListedDelta(old, new) ==
  Sum([d \in LiquidDiff(old, new) |->
         hist[new].liquid[d] - hist[old].liquid[d] + StakingClaim(new, d) - StakingClaim(old, d)])
ClaimDelta(old, new) ==
  LET staked == {d \in Delegators : StakingClaim(old, d) # 0 \/ StakingClaim(new, d) # 0}
      liquidDelta(d) == IF d \in LiquidDiff(old, new)
                        THEN hist[new].liquid[d] - hist[old].liquid[d] ELSE 0
  IN  Sum([d \in LiquidDiff(old, new) \cup staked |->
             liquidDelta(d) + StakingClaim(new, d) - StakingClaim(old, d)])

-----------------------------------------------------------------------------
(* map-cx-receipt-destinations.py: receipts to shard 1 from a minimum      *)
(* source block on; one that is not applied is listed as not found, and    *)
(* only when that is allowed.                                              *)
Selected(minimum) ==
  {i \in DOMAIN receipts : receipts[i].from = 0 /\ receipts[i].sent >= minimum}

(* historical-shard1-balance.py for a checkpoint block. *)
(* Mutant: the checkpoint block itself is later. *)
LaterInclusive(checkpoint, block) == checkpoint <= block /\ block <= Cutoff
Later(checkpoint, block) == checkpoint < block /\ block <= Cutoff
sum_later_credits(c) ==
  AmountOf({i \in mapped : receipts[i].applied # Never /\ Later(c, receipts[i].applied)})
sum_later_valid_debits(c) ==
  AmountOf({i \in DOMAIN receipts :
    receipts[i].from = 1 /\ labels[i] = "valid_source_debit" /\ Later(c, receipts[i].sent)})
derive(c) == hist[Cutoff].shard1 - sum_later_credits(c) + sum_later_valid_debits(c)

(* The summary of the source audit: the unbacked credits up to a block.    *)
(* Mutant: the same total at every checkpoint. *)
UnbackedTotal(t) ==
  AmountOf({i \in DOMAIN receipts : labels[i] = "unbacked" /\ receipts[i].applied # Never})
UnbackedCredit(t) ==
  AmountOf({i \in DOMAIN receipts : labels[i] = "unbacked" /\ receipts[i].applied \in 1..t})
Shard0Claims(t) == hist[t].claims   \* the scan of actual-supply, see SupplyLedger
Genesis ==
  InitialShard1 + Sum(InitialLiquid)
    + SumTable([v \in Validators |-> [d \in Delegators |-> ClaimOf(InitialStake[v][d])]])

(* historical-closure.py: the residual at a checkpoint after the named     *)
(* adjustments. It reads the files that were written of the labels, and    *)
(* not the labels.                                                         *)
Shard1Claims(t) == IF t = Cutoff THEN hist[Cutoff].shard1 ELSE derived[t]
FormulaGap(t) ==
  Shard0Claims(t) + Shard1Claims(t) - (Genesis + hist[t].acc)
Residual(t) == FormulaGap(t) - (hist[t].recovered + Reconstructed(First) + summarized[t])
Change(from, to) == Residual(to) - Residual(from)

-----------------------------------------------------------------------------
(* The tools in the order they are used. *)

(* The source audit labels every receipt and the destinations are mapped.  *)
Audit(minimum, allowMissing) ==
  /\ Sampling /\ now \notin Blocks
  /\ labels' \in [DOMAIN receipts -> Labels]
  /\ mapped' = Selected(minimum)
  /\ allowMissing \/ \A i \in mapped' : receipts[i].applied # Never
  /\ UNCHANGED <<chain, files, published>>

(* The files are written of the labels of the moment; a negative balance   *)
(* is an error.                                                            *)
WriteBalances ==
  /\ labels # None
  /\ \A c \in {First, Cleanup} : derive(c) >= 0
  /\ derived' = [c \in {First, Cleanup} |-> derive(c)]
  /\ UNCHANGED <<chain, labels, mapped, summarized, published>>

WriteSummaryOfAudit ==
  /\ labels # None
  /\ summarized' = [t \in Checkpoints |-> UnbackedCredit(t)]
  /\ UNCHANGED <<chain, labels, mapped, derived, published>>

(* New evidence resolves a receipt; the files and what is published stay   *)
(* as they are until they are written again.                               *)
Relabel(i) ==
  /\ published # None
  /\ labels[i] = "unclassified"
  /\ \E l \in Labels \ {"unclassified"} : labels' = [labels EXCEPT ![i] = l]
  /\ UNCHANGED <<chain, mapped, files, published>>

Computed ==
  [c \in Fields |->
     CASE c \in {"pre_existing", "pre_existing_net_deficit"} -> Residual(First)
       [] c = "december"     -> Reconstructed(First)
       [] c = "hip30"        -> hist[Cutoff].recovered
       [] c = "cross_shard"  -> summarized[Cutoff]
       [] c = "max_rate"     -> Change(First, Cleanup)
       [] c = "rounding"     -> Change(Cleanup, Cutoff)]
FilesPresent == derived # None /\ summarized # None

(* reconciliation.json is curated by hand from these figures: it may be    *)
(* right, or have a part of the cross-shard component booked elsewhere.    *)
Publish(to) ==
  /\ FilesPresent /\ published = None
  /\ published' = [[Computed EXCEPT !["cross_shard"] = @ - 1] EXCEPT ![to] = @ + 1]
  /\ UNCHANGED <<chain, labels, mapped, files>>

(* The checks of verify-reconciliation.py on the components; the residuals *)
(* are recomputed from the files as they are now. The components of the    *)
(* earlier deficit and of HIP-30 enter the sum only.                       *)
ComponentsClose == Sum([c \in Components |-> published[c]]) = FormulaGap(Cutoff)
(* Mutant: the chain of residuals is not followed to the cutoff. *)
CleanupReproduced ==
  /\ Residual(First) = published["pre_existing_net_deficit"]
  /\ Change(First, Cleanup) = published["max_rate"]
  /\ Reconstructed(First) = published["december"]
ClosureReproduced ==
  /\ Residual(First) = published["pre_existing_net_deficit"]
  /\ Change(First, Cleanup) = published["max_rate"]
  /\ Residual(Cutoff) = Residual(First) + published["max_rate"] + published["rounding"]
  /\ Reconstructed(First) = published["december"]
VerifyReconciliation == published # None /\ FilesPresent /\ ComponentsClose /\ ClosureReproduced

-----------------------------------------------------------------------------
Init ==
  /\ now = 1
  /\ liquid = InitialLiquid
  /\ staking = InitialStake
  /\ shard1 = InitialShard1
  /\ acc = 0 /\ minted = 0 /\ recovered = 0 /\ receipts = <<>> /\ hist = <<>> /\ events = 0
  /\ labels = None /\ mapped = {} /\ derived = None /\ summarized = None /\ published = None

ChainStep ==
  /\ \/ \E v \in Validators, d \in Delegators :
          \/ Undelegate(v, d)
          \/ \E committed \in BOOLEAN : Reward(v, d, committed)
     \/ \E from \in {0, 1}, backed \in BOOLEAN : Send(from, backed)
     \/ \E i \in DOMAIN receipts : Apply(i)
     \/ Recover \/ NextBlock
  /\ UNCHANGED <<labels, mapped, files, published>>

Next ==
  \/ ChainStep
  \/ \E minimum \in {0, First}, allowMissing \in BOOLEAN : Audit(minimum, allowMissing)
  \/ WriteBalances \/ WriteSummaryOfAudit
  \/ \E to \in BookedUnder : Publish(to)
  \/ \E i \in DOMAIN receipts : Relabel(i)

Spec == Init /\ [][Next]_vars

-----------------------------------------------------------------------------
(* The properties. *)

LabelledRight(i) ==
  labels[i] = IF receipts[i].backed THEN "valid_source_debit" ELSE "unbacked"
Conclusive(i) == labels[i] # "unclassified"
(* Every credit to shard 1 after a checkpoint is in the destination table. *)
DestinationsComplete(c) ==
  \A i \in DOMAIN receipts :
    receipts[i].from = 0 /\ receipts[i].applied # Never /\ Later(c, receipts[i].applied)
      => i \in mapped

(* The December reconstruction at any block up to the fix (the newest one, *)
(* while the chain grows) is what was really paid beyond the first payout: *)
(* neither that payout nor the epoch still running is counted              *)
(* (undelegation-mint-reconcile.py:49 and 74-80).                          *)
MintExact ==
  LET t == Len(hist)
  IN  Sampling /\ t \in 1..First => Reconstructed(t) = hist[t].minted

(* The claims difference between the newest block and any earlier one is   *)
(* the difference of all claims, although the liquid table lists changed   *)
(* accounts only and the staking tables only accounts with a delegation    *)
(* (historical-claims-diff.py:46-65).                                      *)
ClaimsDiffExact ==
  LET new == Len(hist)
  IN  Sampling => \A old \in 1..(new - 1) :
        ClaimDelta(old, new) = Shard0Claims(new) - Shard0Claims(old)

(* The derived balance of shard 1 is the archived one when the receipts    *)
(* sent by shard 1 are labelled right and no later credit is missing from  *)
(* the table; whatever is in flight at the checkpoint or at the cutoff is  *)
(* counted on the right side (historical-shard1-balance.py:48-94).         *)
DerivedExact ==
  labels # None /\ (\A i \in DOMAIN receipts : receipts[i].from = 1 => LabelledRight(i)) =>
    \A c \in {First, Cleanup} : DestinationsComplete(c) => derive(c) = hist[c].shard1

TrueResidual(t) ==
  Shard0Claims(t) + hist[t].shard1 - (Genesis + hist[t].acc) - hist[t].recovered - hist[First].minted
    - AmountOf({i \in DOMAIN receipts : ~ receipts[i].backed /\ receipts[i].applied \in 1..t})
Within(i, from, to) == receipts[i].applied # Never
  /\ \A b \in {receipts[i].sent, receipts[i].applied} : from < b /\ b <= to
MislabelledCredit(i) ==
  (IF labels[i] = "unbacked" THEN receipts[i].amount ELSE 0)
    - (IF receipts[i].backed THEN 0 ELSE receipts[i].amount)

(* docs/methodology.md:223-225: a wrong label of a receipt sent by shard 0 *)
(* shows in the change of the residual, one of a receipt sent by shard 1   *)
(* does not: it moves both residuals.  For receipts sent and applied       *)
(* between the two checkpoints, with a conclusive label, and files that    *)
(* were written of the labels.                                             *)
FilesCurrent ==
  /\ FilesPresent
  /\ \A c \in {First, Cleanup} : derived[c] = derive(c)
  /\ \A t \in Checkpoints : summarized[t] = UnbackedCredit(t)

ChangeBlindToShard1 ==
  FilesCurrent => \A p \in {<<First, Cleanup>>, <<Cleanup, Cutoff>>} :
    LET from == p[1]
        to == p[2]
    IN  (\A i \in DOMAIN receipts : Conclusive(i) /\ Within(i, from, to)) /\ DestinationsComplete(from) =>
          Change(from, to) - (TrueResidual(to) - TrueResidual(from))
            = - Sum([i \in {k \in DOMAIN receipts : receipts[k].from = 0} |-> MislabelledCredit(i)])

(* The types; what is published has every field the verifier reads, and no *)
(* label exists before the chain has reached the cutoff.                   *)
TypeOK ==
  /\ now \in 1..(Cutoff + 2)
  /\ liquid \in [Delegators -> Nat]
  /\ \A v \in Validators, d \in Delegators :
       /\ staking[v][d].active \in Nat /\ staking[v][d].reward \in Nat
       /\ \A u \in staking[v][d].undelegations : u.epoch \in 0..now /\ u.amount \in Nat \ {0}
  /\ shard1 \in Nat /\ acc \in Nat /\ minted \in Nat /\ recovered \in Nat
  /\ \A i \in DOMAIN receipts :
       /\ receipts[i].sent \in Blocks
       /\ receipts[i].applied # Never => receipts[i].applied >= receipts[i].sent
  /\ events \in 0..MaxEvents
  /\ labels = None \/ labels \in [DOMAIN receipts -> Labels]
  /\ mapped \subseteq DOMAIN receipts
  /\ derived = None \/ derived \in [{First, Cleanup} -> Nat]
  /\ summarized = None \/ summarized \in [Checkpoints -> Nat]
  /\ published = None \/ published \in [Fields -> Int]

(* A verified reconciliation shows the unbacked credit of the audit's      *)
(* summary, although no check compares the two figures, except for what is *)
(* booked under the two components that nothing but the sum checks: the    *)
(* earlier deficit and HIP-30. What they show beside the stated deficit    *)
(* and the recovery is exactly what the cross-shard component lacks; an    *)
(* amount moved to any other component, or a label changed and summarized  *)
(* after publication, is rejected (verify-reconciliation.py:109-121 and    *)
(* 204-235). A label changed without a new summary is not seen.            *)
(* The types hold as well.                                                 *)
CrossShardPinned ==
  /\ TypeOK
  /\ VerifyReconciliation =>
       published["cross_shard"] - summarized[Cutoff] =
         (published["pre_existing_net_deficit"] - published["pre_existing"])
           + (hist[Cutoff].recovered - published["hip30"])

=============================================================================
