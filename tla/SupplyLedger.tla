---------------------------- MODULE SupplyLedger ----------------------------
(***************************************************************************)
(* The supply at a cutoff, computed twice (docs/reproduce.md, sections 4   *)
(* to 8): account-snapshot, staking-claims and the pending receipts merged *)
(* by actual-supply-ledger.py, and actual-supply with the endpoint formula *)
(* of reconstruct-cutoff-formula.py; verify-reconciliation.py compares.    *)
(*                                                                         *)
(* Amounts of an account are keyed by its secure key.  A scanner reads the *)
(* root it is given, but the validator list and the codes are whatever the *)
(* database holds now: the list may name later validators and miss some,   *)
(* and a code may be lost or corrupt.                                      *)
(***************************************************************************)
EXTENDS StakingChain

CONSTANTS
    Discovery,      \* ways to find validators: "discover", "list", "validator-only"
    MaxLater,       \* bound: validators created after the cutoff
    MaxFaults       \* bound: codes lost or corrupt, and validators not listed

ASSUME LedgerAssumption ==
    /\ "discover" \in Discovery /\ Discovery \subseteq {"discover", "list", "validator-only"}
    /\ MaxLater \in Nat /\ MaxFaults \in Nat

VARIABLES
    phase,          \* the program that runs next
    base,           \* shard 0 at the base checkpoint
    faults,         \* codes that cannot be read at a root
    validatorList,  \* the validator-list entry of the database
    mode,           \* how each scanner finds validators
    rows,           \* published inputs of the ledger
    cursor,         \* next row of each input
    ledger,         \* rows written to the ledger
    summary,        \* published totals by component, <<>> before
    supply,         \* published result of actual-supply at the cutoff
    formula         \* published formula supply

files == <<rows, cursor, ledger, summary, supply, formula>>
vars == <<chainVars, phase, base, faults, validatorList, mode, files>>

Input == {"liquid0", "liquid1", "staking", "receipts"}
Component == {"liquid0", "liquid1", "receipts"} \cup Part
NoClaim == [c \in Component |-> 0]
Total(claim) == SumFunction(claim)

Phase == <<"snapshot0", "snapshot1", "staking", "receipts", "merge", "summary", "supply",
           "formula", "verify", "passed">>
After(p) == Phase[1 + CHOOSE i \in DOMAIN Phase : Phase[i] = p]

Init ==
    /\ ChainInit
    /\ phase = "live" /\ base = <<>>
    /\ faults = {} /\ validatorList = {}
    /\ mode = [staking |-> "discover", supply |-> "discover", base |-> "discover"]
    /\ rows = [f \in Input |-> <<>>] /\ cursor = [f \in Input |-> 1]
    /\ ledger = <<>> /\ summary = <<>> /\ supply = <<>> /\ formula = 0

Run ==
    /\ phase = "live"
    /\ ChainNext
    /\ UNCHANGED <<phase, base, faults, validatorList, mode, files>>

(* The base checkpoint, with the accumulator the node keeps for its block. *)
TakeBase ==
    /\ phase = "live" /\ base = <<>>
    /\ base' = [code |-> code, lifetime |-> lifetime, accumulator |-> accumulator]
    /\ UNCHANGED <<chainVars, phase, faults, validatorList, mode, files>>

(* The cutoff; blocks after it only add validators to the list. *)
TakeCutoff ==
    /\ phase = "live" /\ base # <<>>
    /\ phase' = Phase[1]
    /\ \E F \in SUBSET [root : {"base", "cutoff"}, key : Key, kind : {"lost", "corrupt"}],
          unlisted \in SUBSET {k \in Key : IsWrapper(k)}, later \in SUBSET {k \in Key : code[k] = "none"} :
         /\ Cardinality(later) <= MaxLater
         /\ Cardinality(F) + Cardinality(unlisted) <= MaxFaults
         /\ faults' = F
         /\ validatorList' = ({k \in Key : IsWrapper(k)} \ unlisted) \cup later
    /\ UNCHANGED <<chainVars, base, mode, files>>

Fail ==
    /\ phase' = "failed"
    /\ UNCHANGED <<chainVars, base, faults, validatorList, mode, files>>

-----------------------------------------------------------------------------
(* Validators of a root *)

CodeAt(root, k) == IF root = "base" THEN base.code[k] ELSE code[k]

(* processValidator, addValidator: the code is there and decodes to the       *)
(* wrapper of this account.                                                   *)
Decodes(root, k) ==
    /\ CodeAt(root, k) \in {"vc", "legacy"}
    /\ \A f \in faults : ~(f.root = root /\ f.key = k)

(* Code found under the validator prefix must be a wrapper; other code need   *)
(* not be one, and a code that is not found is no code.                       *)
PrefixedMismatch(root, k) ==
    /\ CodeAt(root, k) = "vc"
    /\ [root |-> root, key |-> k, kind |-> "corrupt"] \in faults
    /\ [root |-> root, key |-> k, kind |-> "lost"] \notin faults

ListFails(root) == \E k \in validatorList : ~Decodes(root, k)
ScanFails(root) == \E k \in Key : PrefixedMismatch(root, k)

StakingFails(how) == IF how = "discover" THEN ScanFails("cutoff") ELSE ListFails("cutoff")

StakingValidators(how) ==
    IF how = "discover" THEN {k \in Key : Decodes("cutoff", k)} ELSE validatorList

SupplyFails(root, how) ==
    \/ how # "discover" /\ ListFails(root)
    \/ how # "validator-only" /\ ScanFails(root)

(* Mutant: accounts are not searched for validators when there is a list. *)
ListedOnly(root, how) ==
    IF how = "discover" THEN {k \in Key : Decodes(root, k)} ELSE validatorList

(* With a list, the accounts that are not on it are searched too. *)
SupplyValidators(root, how) ==
    CASE how = "discover" -> {k \in Key : Decodes(root, k)}
      [] how = "list" -> validatorList \cup {k \in Key \ validatorList : Decodes(root, k)}
      [] how = "validator-only" -> validatorList

-----------------------------------------------------------------------------
(* The exports *)

(* The elements of a set of keys in their order. *)
Sorted(S) ==
    CHOOSE s \in [1..Cardinality(S) -> S] : \A i, j \in DOMAIN s : i < j => s[i] < s[j]

(* One row for each key with a claim, in the order of the keys. *)
Csv(claim) ==
    LET keys == Sorted({k \in Key : Total(claim[k]) # 0})
    IN  [i \in DOMAIN keys |-> [key |-> keys[i], claim |-> claim[keys[i]]]]

account_snapshot(s) ==
    Csv([k \in Key |-> [NoClaim EXCEPT ![IF s = 0 THEN "liquid0" ELSE "liquid1"] = liquid[s][k]]])

staking_claims(V) ==
    Csv([k \in Key |-> [c \in Component |->
            IF c \in Part THEN SumFunctionOnSet([v \in Key |-> stake[v][k][c]], V) ELSE 0]])

PendingAtto == SumFunction([i \in DOMAIN transit |-> transit[i].amount])

(* load_pending_receipts: one entry for each receiver, also for nothing. *)
load_pending_receipts ==
    LET keys == Sorted({transit[i].to : i \in DOMAIN transit})
        amounts == [i \in DOMAIN transit |-> transit[i].amount]
    IN  [n \in DOMAIN keys |-> [key |-> keys[n], claim |-> [NoClaim EXCEPT !["receipts"] =
            SumFunctionOnSet(amounts, {i \in DOMAIN transit : transit[i].to = keys[n]})]]]

Publish(f, csv) ==
    /\ phase' = After(phase)
    /\ rows' = [rows EXCEPT ![f] = csv]
    /\ UNCHANGED <<chainVars, base, faults, validatorList, cursor, ledger, summary, supply, formula>>

(* A scan may also stop on a key it cannot read, and publishes nothing then. *)
AccountSnapshot(s) ==
    /\ phase = IF s = 0 THEN "snapshot0" ELSE "snapshot1"
    /\ \/ UNCHANGED mode /\ Publish(IF s = 0 THEN "liquid0" ELSE "liquid1", account_snapshot(s))
       \/ Fail

StakingClaims ==
    /\ phase = "staking"
    /\ \/ \E how \in Discovery \ {"validator-only"} :
            /\ ~StakingFails(how)
            /\ mode' = [mode EXCEPT !.staking = how]
            /\ Publish("staking", staking_claims(StakingValidators(how)))
       \/ Fail

(* cross-shard-supply reports the receipts that are pending at the cutoff. *)
LoadReceipts ==
    /\ phase = "receipts"
    /\ UNCHANGED mode
    /\ Publish("receipts", load_pending_receipts)

-----------------------------------------------------------------------------
(* The ledger *)

Open == {f \in Input : cursor[f] <= Len(rows[f])}
Row(f) == rows[f][cursor[f]]
MergeKey == CHOOSE k \in {Row(f).key : f \in Open} : \A f \in Open : k <= Row(f).key

(* Mutant: of several rows with one key only one is taken at a time. *)
FirstOnly == {CHOOSE f \in Open : Row(f).key = MergeKey}

Current == {f \in Open : Row(f).key = MergeKey}

MergedClaim == [c \in Component |-> SumFunction([f \in Current |-> Row(f).claim[c]])]

NotIncreasing(f) == cursor[f] > 1 /\ rows[f][cursor[f]].key <= rows[f][cursor[f] - 1].key

MergeRow ==
    /\ phase = "merge" /\ Open # {}
    /\ IF Total(MergedClaim) = 0 \/ \E f \in Current : NotIncreasing(f)
       THEN Fail
       ELSE /\ ledger' = Append(ledger, [key |-> MergeKey, claim |-> MergedClaim])
            /\ cursor' = [f \in Input |-> IF f \in Current THEN cursor[f] + 1 ELSE cursor[f]]
            /\ UNCHANGED <<chainVars, phase, base, faults, validatorList, mode, rows, summary, supply, formula>>

PublishLedger ==
    /\ phase = "merge" /\ Open = {}
    /\ \/ /\ phase' = After(phase)
          /\ UNCHANGED <<chainVars, base, faults, validatorList, mode, files>>
       \/ Fail

PublishSummary ==
    /\ phase = "summary"
    /\ \/ /\ phase' = After(phase)
          /\ summary' = [c \in Component |->
                SumFunction([i \in DOMAIN ledger |-> ledger[i].claim[c]])]
          /\ UNCHANGED <<chainVars, base, faults, validatorList, mode, rows, cursor, ledger, supply, formula>>
       \/ Fail

-----------------------------------------------------------------------------
(* The independent sum *)

LifetimeOf(V, reward) == SumFunctionOnSet(reward, V)

actual_supply(how) ==
    LET V == SupplyValidators("cutoff", how)
    IN  [claims |-> (IF how = "validator-only" THEN 0 ELSE SumFunction(liquid[0]))
                    + SumFunctionOnSet([v \in Key |-> SumFunction([d \in Key |->
                          SumFunction(stake[v][d])])], V),
         lifetime |-> LifetimeOf(V, lifetime)]

ActualSupply ==
    /\ phase = "supply"
    /\ \/ \E how \in Discovery :
            /\ ~SupplyFails("cutoff", how)
            /\ mode' = [mode EXCEPT !.supply = how]
            /\ supply' = actual_supply(how)
            /\ phase' = After(phase)
            /\ UNCHANGED <<chainVars, base, faults, validatorList, rows, cursor, ledger, summary, formula>>
       \/ Fail

(* Mutant: all rewards of the wrappers are added to the base. *)
WholeLifetime(baseRewards, cutoffRewards) == Genesis + base.accumulator + cutoffRewards

reconstruct(baseRewards, cutoffRewards) ==
    Genesis + base.accumulator + (cutoffRewards - baseRewards)

(* actual-supply at the base, block-reward-accumulator and the formula. *)
ReconstructFormula ==
    /\ phase = "formula"
    /\ \/ \E how \in Discovery :
            LET baseRewards == LifetimeOf(SupplyValidators("base", how), base.lifetime)
            IN  /\ ~SupplyFails("base", how)
                /\ supply.lifetime >= baseRewards
                /\ mode' = [mode EXCEPT !.base = how]
                /\ formula' = reconstruct(baseRewards, supply.lifetime)
                /\ phase' = After(phase)
                /\ UNCHANGED <<chainVars, base, faults, validatorList, rows, cursor, ledger, summary, supply>>
       \/ Fail

-----------------------------------------------------------------------------
(* verify-reconciliation.py *)

ClaimGap == Total(summary) - formula

VerifyReconciliation ==
    /\ phase = "verify"
    /\ IF summary["receipts"] = PendingAtto
          /\ supply.claims + summary["liquid1"] + PendingAtto = Total(summary)
       THEN /\ phase' = "passed"
            /\ UNCHANGED <<chainVars, base, faults, validatorList, mode, files>>
       ELSE Fail

Ended == phase \in {"passed", "failed"} /\ UNCHANGED vars

Next ==
    \/ Run \/ TakeBase \/ TakeCutoff
    \/ \E s \in Shard : AccountSnapshot(s)
    \/ StakingClaims \/ LoadReceipts
    \/ MergeRow \/ PublishLedger \/ PublishSummary
    \/ ActualSupply \/ ReconstructFormula \/ VerifyReconciliation
    \/ Ended

Spec == Init /\ [][Next]_vars

-----------------------------------------------------------------------------
(* Properties *)

IsRow(r) == r.key \in Key /\ r.claim \in [Component -> Nat]
IsCsv(s) == \A i \in DOMAIN s : IsRow(s[i]) /\ (i > 1 => s[i - 1].key < s[i].key)

(* No code of the cutoff is lost without an error: the wrappers found are all *)
(* the wrappers there are.                                                    *)
AllFound == \A k \in Key : IsWrapper(k) => Decodes("cutoff", k)

(* A ledger made from the state root, with every code readable, has in each   *)
(* row all that its key owns, and its total is all the value there is: no      *)
(* claim is lost or merged twice where the four inputs meet.                  *)
LedgerExact ==
    summary # <<>> /\ mode.staking = "discover" /\ AllFound =>
        /\ Total(summary) = Supply
        /\ \A i \in DOMAIN ledger : Total(ledger[i].claim) = Owned(ledger[i].key)

(* The types of the chain and of the files: inputs and ledger are in strictly *)
(* increasing order of their keys, and no exported row is empty.              *)
TypeOK ==
    /\ liquid \in [Shard -> [Key -> Nat]]
    /\ code \in [Key -> {"none", "contract", "vc", "legacy"}]
    /\ stake \in [Key -> [Key -> [Part -> Nat]]] /\ lifetime \in [Key -> Nat]
    /\ Len(transit) <= MaxReceipts /\ accumulator \in 0..MaxReward /\ unbacked \in 0..MaxUnbacked
    /\ phase \in {"live", "failed"} \cup Range(Phase)
    /\ validatorList \subseteq Key
    /\ \A f \in Input : IsCsv(rows[f]) /\ cursor[f] \in 1..(Len(rows[f]) + 1)
    /\ \A f \in Input \ {"receipts"} : \A i \in DOMAIN rows[f] : Total(rows[f][i].claim) > 0
    /\ IsCsv(ledger)
    /\ summary = <<>> \/ summary \in [Component -> Nat]
    /\ formula \in Nat

(* What the comparison of the two sums is worth: once it has passed, the      *)
(* ledger is exact even if it was made from a list that misses validators,    *)
(* provided actual-supply visited the accounts.  Lost codes stay invisible to *)
(* it unless actual-supply read them by a list.                               *)
(* The types hold as well.                                                    *)
VerifiedExact ==
    /\ TypeOK
    /\ phase = "passed" /\ mode.supply # "validator-only"
           /\ (AllFound \/ (mode.supply = "list" /\ \A k \in Key : IsWrapper(k) => k \in validatorList))
       => Total(summary) = Supply

(* The reconstructed formula is the value issued up to the cutoff, so the     *)
(* claim gap of a passed reconciliation is the value that was never issued.   *)
FormulaExact ==
    phase = "passed" /\ AllFound /\ mode.base # "validator-only" /\ mode.supply = "discover"
        /\ (\A k \in Key : base.code[k] \in {"vc", "legacy"} => Decodes("base", k))
    => formula = Genesis + accumulator /\ ClaimGap = unbacked
=============================================================================
