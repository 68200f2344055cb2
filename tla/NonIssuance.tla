----------------------------- MODULE NonIssuance ----------------------------
(***************************************************************************)
(* Which part of each claim is not issued. Reviewers edit inventories;     *)
(* build-revert-leak-retention.py withholds what unbacked receipts         *)
(* credited; build-non-issuance-audit.py combines the inventories, the     *)
(* retained balances and the leaks; verify-reconciliation.py checks its    *)
(* report against the tables; the migration repository compiles stages     *)
(* from the same files, and migration-policy-reconciliation.py re-sums     *)
(* them. Every program reads its inputs, writes a table and then a summary,*)
(* and may die in between. A hash stands for the contents it was taken of, *)
(* so a summary holds the table itself.                                    *)
(***************************************************************************)
EXTENDS Integers, Sequences, FiniteSets, Functions

CONSTANTS Addresses, Inventories,
          ListedRows,      \* the rows [amount, claim] a reviewer may write
          Claim, Balance,  \* native claim and liquid balance at the cutoff
          Audits,          \* the rows of each source audit, in the order of its file
          AuditLists,      \* the lists of audits a reviewer may pass, in that order
          Wone,            \* WONE that is issued to an address instead of its backing
          RetainedWone,    \* WONE that is not issued
          Qualification,   \* the total of an address that the threshold is applied to
          Wallets,         \* the other addresses are genuine contracts
          Multisigs,       \* contracts that are issued in the next stage
          Active,          \* addresses with activity inside the window
          Threshold,
          MaxPaid,         \* bound: what an incident contract paid to an address
          MaxEdits         \* bound: edits of the inputs

NoFile == [missing |-> TRUE]
NoRow == NoFile
LeakClasses == {"rollback_leak", "source_debit_absent"}

At(f, a) == IF a \in DOMAIN f THEN f[a] ELSE 0

ASSUME ClaimsAssumption ==
  /\ IsFiniteSet(Addresses) /\ IsFiniteSet(Inventories)
  /\ Claim \in [Addresses -> Nat] /\ Balance \in [Addresses -> Nat]
  /\ \A a \in Addresses : Balance[a] <= Claim[a]
  /\ ListedRows \subseteq [amount : Nat, claim : Nat]
  /\ Wone \in [Addresses -> Nat] /\ RetainedWone \in Nat
  /\ Qualification \in [Addresses -> Nat] /\ Threshold \in Nat \ {0}

(* The rows of the audits: a receipt (id, to, amount), the columns that     *)
(* tell receipts apart (transaction, receipt index, destination block, each *)
(* empty when the file lacks it) and the classification.                    *)
AuditNames == DOMAIN Audits
AuditRows == UNION {{Audits[i][j] : j \in DOMAIN Audits[i]} : i \in AuditNames}

ASSUME AuditsAssumption ==
  /\ IsFiniteSet(AuditNames) /\ \A i \in AuditNames : Audits[i] \in Seq(AuditRows)
  /\ \A row \in AuditRows : row.receipt.to \in Addresses /\ row.receipt.amount \in Nat
  /\ \A list \in AuditLists : list \in Seq(AuditNames)

(* The audits have the same columns: files of outgoing-cx-scan (without     *)
(* destination_block) and of cx-replay-scan would give a receipt two keys.  *)
ASSUME KeysIdentify ==
  \A row, other \in AuditRows :
    {row.classification, other.classification} \subseteq LeakClasses =>
      (row.key = other.key <=> row.receipt = other.receipt)

ASSUME BoundAssumption == MaxPaid \in Nat /\ MaxEdits \in Nat

VARIABLES inventory, \* the reviewed inventories: a row or NoRow
          initial,   \* what an incident contract paid to an address
          edits,
          run,       \* the program at work: its result, to be written
          leakCsv, leakSummary, retainedCsv, summary, stages

inputs == <<inventory, initial, edits>>
reports == <<leakCsv, leakSummary, retainedCsv, summary>>
policyVars == <<inputs, run, reports, stages>>

Idle == [program |-> "none"]

(* A reviewer sets, changes or removes a row; the incident list is redone. *)
EditInventory(i, a, x) ==
  /\ edits < MaxEdits /\ edits' = edits + 1
  /\ inventory' = [inventory EXCEPT ![i][a] = x]
  /\ UNCHANGED <<initial, run, reports, stages>>

EditInitial(a, x) ==
  /\ edits < MaxEdits /\ edits' = edits + 1
  /\ initial' = [initial EXCEPT ![a] = x]
  /\ UNCHANGED <<inventory, run, reports, stages>>

(* The rows, and the amounts of all inventories together.                  *)
Rows(i) == {a \in Addresses : inventory[i][a] # NoRow}
Existing == [a \in UNION {Rows(i) : i \in Inventories} |->
               SumFunction([i \in {j \in Inventories : a \in Rows(j)} |-> inventory[i][a].amount])]

(* load_existing compares an amount with the claim its own row states.     *)
InventoriesValid ==
  /\ \A i \in Inventories : \A a \in Rows(i) : inventory[i][a].amount <= inventory[i][a].claim
  /\ \A i, j \in Inventories : i # j => Rows(i) \cap Rows(j) = {}

(* load_retained: what is left of what the incident contract paid.         *)
RetainedCap(a) == IF initial[a] < Balance[a] THEN initial[a] ELSE Balance[a]
Retained == [a \in {x \in Addresses : RetainedCap(x) > 0} |-> RetainedCap(a)]

(* load_leaks: the rows at place <<k, j>>, row j of the k-th audit passed. *)
Places(list) == UNION {{k} \X DOMAIN Audits[list[k]] : k \in DOMAIN list}
RowAt(list, p) == Audits[list[p[1]]][p[2]]
LeakPlaces(list) == {p \in Places(list) : RowAt(list, p).classification \in LeakClasses}
Before(p, q) == p[1] < q[1] \/ (p[1] = q[1] /\ p[2] < q[2])

(* Mutant: a row counts in every audit that holds it.                      *)
EachRow(list) == LeakPlaces(list)

(* A row whose key was seen before is passed over.                         *)
Counted(list) ==
  {p \in LeakPlaces(list) :
     ~ \E q \in LeakPlaces(list) : Before(q, p) /\ RowAt(list, q).key = RowAt(list, p).key}

AmountAt(list, p) == RowAt(list, p).receipt.amount
Credit == [list \in AuditLists |-> [a \in Addresses |->
             SumFunction([p \in {q \in Counted(list) : RowAt(list, q).receipt.to = a} |-> AmountAt(list, p)])]]

(* A counted receipt of nothing is an error.                               *)
Readable == {list \in AuditLists : \A p \in Counted(list) : AmountAt(list, p) > 0}

LeakAmount(credit, claim, prior) ==
  LET left == IF claim > prior THEN claim - prior ELSE 0
  IN  IF credit < left THEN credit ELSE left

LeakRows(list, prior) ==
  [a \in {x \in Addresses : LeakAmount(Credit[list][x], Claim[x], prior[x]) > 0} |->
     [credit |-> Credit[list][a], claim |-> Claim[a], prior |-> prior[a],
      cap |-> LeakAmount(Credit[list][a], Claim[a], prior[a])]]

Caps(rows) == [a \in DOMAIN rows |-> rows[a].cap]

(* The earlier exports are arguments, and may be left out.                 *)
StartLeak(list, withRetained) ==
  /\ run = Idle /\ list \in Readable
  /\ withRetained => retainedCsv # NoFile
  /\ LET prior == [a \in Addresses |-> At(Existing, a) + (IF withRetained THEN At(retainedCsv, a) ELSE 0)]
     IN  run' = [program |-> "leak", rows |-> LeakRows(list, prior)]
  /\ UNCHANGED <<inputs, reports, stages>>

WriteLeakCsv(replace) ==
  /\ run.program = "leak"
  /\ leakCsv = NoFile \/ replace
  /\ leakCsv' = run.rows
  /\ run' = [run EXCEPT !.program = "leak summary"]
  /\ UNCHANGED <<inputs, leakSummary, retainedCsv, summary, stages>>

WriteLeakSummary ==
  /\ run.program = "leak summary"
  /\ leakSummary' = [csv |-> leakCsv, not_issued |-> SumFunction(Caps(run.rows)),
                     positive_rows |-> Cardinality(DOMAIN run.rows)]
  /\ run' = Idle
  /\ UNCHANGED <<inputs, leakCsv, retainedCsv, summary, stages>>

(* load_revert_leak: every amount is computed again from the inventories.  *)
(* Mutant: the earlier non-issuance of a row is taken as it stands.        *)
PriorAsStated ==
  /\ leakSummary # NoFile /\ leakCsv # NoFile /\ leakSummary.csv = leakCsv
  /\ \A a \in DOMAIN leakCsv :
       leakCsv[a].cap = LeakAmount(leakCsv[a].credit, leakCsv[a].claim, leakCsv[a].prior)

LeakAccepted ==
  /\ leakSummary # NoFile /\ leakCsv # NoFile /\ leakSummary.csv = leakCsv
  /\ \A a \in DOMAIN leakCsv :
       LET row == leakCsv[a]
       IN  /\ row.prior = At(Retained, a) + At(Existing, a)
           /\ row.cap = LeakAmount(row.credit, row.claim, row.prior) /\ row.cap > 0
  /\ SumFunction(Caps(leakCsv)) = leakSummary.not_issued
  /\ Cardinality(DOMAIN leakCsv) = leakSummary.positive_rows

Gross == SumFunction(Claim)

StartNonIssuance(withLeak) ==
  LET leak == IF withLeak THEN Caps(leakCsv) ELSE <<>>
      combined == SumFunction(Existing) + SumFunction(Retained) + SumFunction(leak)
  IN  /\ run = Idle
      /\ InventoriesValid
      /\ DOMAIN Existing \cap DOMAIN Retained = {}
      /\ withLeak => LeakAccepted
      /\ combined <= Gross
      /\ run' = [program |-> "non-issuance", retained |-> Retained,
                 totals |-> [existing |-> SumFunction(Existing), retained |-> SumFunction(Retained), leak |-> SumFunction(leak),
                             hasLeak |-> withLeak, not_issued |-> combined, remaining |-> Gross - combined],
                 withheld |-> [a \in Addresses |-> At(Existing, a) + At(Retained, a) + At(leak, a)],
                 inventory |-> inventory]
      /\ UNCHANGED <<inputs, reports, stages>>

WriteRetainedCsv(replace) ==
  /\ run.program = "non-issuance"
  /\ retainedCsv = NoFile \/ replace
  /\ retainedCsv' = run.retained
  /\ run' = [run EXCEPT !.program = "non-issuance summary"]
  /\ UNCHANGED <<inputs, leakCsv, leakSummary, summary, stages>>

(* The cutoff block is that of the first row: without one the program ends *)
(* here, after it has replaced the table.                                  *)
WriteSummary ==
  /\ run.program = "non-issuance summary"
  /\ DOMAIN run.retained # {}
  /\ summary' = [totals |-> run.totals, csv |-> retainedCsv, rows |-> Cardinality(DOMAIN run.retained),
                 leak |-> IF run.totals.hasLeak THEN leakCsv ELSE NoFile,
                 withheld |-> run.withheld, inventory |-> run.inventory]
  /\ run' = Idle
  /\ UNCHANGED <<inputs, leakCsv, leakSummary, retainedCsv, stages>>

(* An error, or the end of the process, at any point.                      *)
Dies ==
  /\ run # Idle /\ run' = Idle
  /\ UNCHANGED <<inputs, reports, stages>>

(* verify-reconciliation, from the report of non-issuance on. The traced   *)
(* distributions have the same retained total.                             *)
(* Mutant: the hash of the table is not compared.                          *)
TotalsOnly ==
  /\ Cardinality(DOMAIN retainedCsv) = summary.rows
  /\ SumFunction(retainedCsv) = summary.totals.retained

RetainedConfirmed ==
  /\ retainedCsv = summary.csv
  /\ Cardinality(DOMAIN retainedCsv) = summary.rows
  /\ SumFunction(retainedCsv) = summary.totals.retained
  /\ summary.totals.retained = SumFunction(Retained)

LeakConfirmed ==
  /\ leakCsv = summary.leak
  /\ \A a \in DOMAIN leakCsv :
       leakCsv[a].cap = LeakAmount(leakCsv[a].credit, leakCsv[a].claim, leakCsv[a].prior)
  /\ SumFunction(Caps(leakCsv)) = summary.totals.leak

VerifyNonIssuance ==
  /\ summary # NoFile /\ retainedCsv # NoFile
  /\ RetainedConfirmed
  /\ summary.totals.hasLeak => LeakConfirmed
  /\ LET t == summary.totals
     IN  t.not_issued = t.existing + t.retained + t.leak /\ t.remaining + t.not_issued = Gross

(* The stages are compiled elsewhere, from the files of the moment. The row *)
(* of an address that qualifies deducts what the files withhold. The stage  *)
(* of a row, its part of the WONE backing (together a plan) and the figure  *)
(* published for deferred wallets are left open.                            *)
Historical(a) == At(retainedCsv, a) + (IF leakCsv = NoFile THEN 0 ELSE At(Caps(leakCsv), a))
Qualified == {a \in Addresses : Qualification[a] >= Threshold}
Reserve == SumFunction(Wone) + RetainedWone
Allocated(a) == Claim[a] + Wone[a]

CompileStages ==
  LET existing == [a \in Addresses |-> At(Existing, a)]
      historical == [a \in Addresses |-> Historical(a)]
  IN  /\ retainedCsv # NoFile
      /\ stages' = [inventory |-> inventory, retained |-> retainedCsv, leak |-> leakCsv,
                    existing |-> existing, historical |-> historical,
                    existingTotal |-> SumFunction(existing), historicalTotal |-> SumFunction(historical)]
      /\ UNCHANGED <<inputs, run, reports>>

StageRow(a, offset) ==
  LET left == Allocated(a) - stages.existing[a] - stages.historical[a] - offset
      contract == IF a \in Wallets \cup Multisigs THEN 0 ELSE left
  IN  [existing |-> stages.existing[a], historical |-> stages.historical[a], offset |-> offset,
       contract |-> contract, allocation |-> left - contract]

(* migration-policy-reconciliation.                                        *)
SourcesUnchanged ==
  inventory = stages.inventory /\ retainedCsv = stages.retained /\ leakCsv = stages.leak

(* Mutant: the threshold is applied to the whole claim.                    *)
MeetsBefore(a, row) == Qualification[a] >= Threshold

MeetsThreshold(a, row) == Qualification[a] - row.existing - row.historical >= Threshold

RowAccepted(a, row, stage) ==
  /\ row.existing >= 0 /\ row.historical >= 0 /\ row.offset >= 0 /\ row.contract >= 0 /\ row.allocation >= 0
  /\ Allocated(a) - row.existing - row.historical - row.offset - row.contract = row.allocation
  /\ (stage # "") = (row.allocation > 0)
  /\ a \in Wallets /\ row.allocation > 0 /\ ~MeetsThreshold(a, row) => stage = "deferred"
  /\ stage = "initial" => a \in Wallets /\ MeetsThreshold(a, row) /\ a \in Active
  /\ stage = "deferred" /\ a \in Wallets => ~(MeetsThreshold(a, row) /\ a \in Active)

(* The totals that no row enters.                                          *)
TotalsAgree ==
  /\ stages # NoFile /\ summary # NoFile
  /\ SourcesUnchanged
  /\ stages.existingTotal = summary.totals.existing
  /\ stages.historicalTotal = summary.totals.retained + summary.totals.leak
  /\ stages.existingTotal + stages.historicalTotal = summary.totals.not_issued

Staged(plan, stage) ==
  SumFunction([a \in {x \in Qualified : plan.stage[x] = stage} |-> StageRow(a, plan.offset[a]).allocation])
Frozen(plan) == SumFunction([a \in Qualified |-> StageRow(a, plan.offset[a]).contract])
MigrationTotal(plan) ==
  Gross - stages.existingTotal - stages.historicalTotal - RetainedWone - Frozen(plan)

(* Mutant: the offsets of the rows are not compared with the reserve.      *)
AnyOffset(plan) == \A a \in Qualified : RowAccepted(a, StageRow(a, plan.offset[a]), plan.stage[a])

RowsPass(plan) ==
  /\ SumFunction(plan.offset) = Reserve
  /\ \A a \in Qualified : RowAccepted(a, StageRow(a, plan.offset[a]), plan.stage[a])

(* The stages close with this figure for the deferred wallets.             *)
StagesClose(plan, deferred) ==
  Staged(plan, "initial") + Staged(plan, "next_stage") + deferred = MigrationTotal(plan)

PolicyInit ==
  /\ inventory = [i \in Inventories |-> [a \in Addresses |-> NoRow]]
  /\ initial \in [Addresses -> 0..MaxPaid]
  /\ edits = 0 /\ run = Idle
  /\ leakCsv = NoFile /\ leakSummary = NoFile /\ retainedCsv = NoFile /\ summary = NoFile
  /\ stages = NoFile

PolicyNext ==
  \/ \E i \in Inventories, a \in Addresses, x \in ListedRows \cup {NoRow} : EditInventory(i, a, x)
  \/ \E a \in Addresses, x \in 0..MaxPaid : EditInitial(a, x)
  \/ \E list \in AuditLists, b \in BOOLEAN : StartLeak(list, b)
  \/ \E b \in BOOLEAN : WriteLeakCsv(b) \/ StartNonIssuance(b) \/ WriteRetainedCsv(b)
  \/ WriteLeakSummary \/ WriteSummary \/ Dies
  \/ CompileStages

PolicySpec == PolicyInit /\ [][PolicyNext]_policyVars
-----------------------------------------------------------------------------
(* No address loses more than its claim: what a published report withholds *)
(* from it, as reviewed amount, retained balance and leak, fits its claim  *)
(* in the ledger, whatever was edited between the programs; or else fits a *)
(* larger claim that the inventory in the report states for it, which      *)
(* nothing compares with the ledger. Neither a leak nor a retained balance *)
(* comes on top of such an overstated row.                                 *)
WithheldWithinClaim ==
  summary # NoFile =>
    \A a \in Addresses :
      \/ summary.withheld[a] <= Claim[a]
      \/ \E i \in Inventories :
           /\ summary.inventory[i][a] # NoRow
           /\ summary.withheld[a] <= summary.inventory[i][a].claim

(* The receipts some audit proves unbacked, and what they credited.        *)
ProvenLeaks == {row.receipt : row \in {x \in AuditRows : x.classification \in LeakClasses}}
LeakedTo(a) == SumFunction([r \in {x \in ProvenLeaks : x.to = a} |-> r.amount])

(* What a leak withholds is at most what the unbacked receipts credited to *)
(* the address, however many audits list a receipt, in whichever order,    *)
(* and however often an audit is passed.                                   *)
LeakOnce ==
  summary # NoFile /\ summary.leak # NoFile =>
    \A a \in DOMAIN summary.leak : summary.leak[a].cap <= LeakedTo(a)

(* The types; no report withholds more than all claims, and no retained    *)
(* amount is zero or exceeds its balance.                                  *)
PolicyTypeOK ==
  /\ \A i \in Inventories : inventory[i] \in [Addresses -> ListedRows \cup {NoRow}]
  /\ edits \in 0..MaxEdits
  /\ summary # NoFile => summary.totals.not_issued \in 0..Gross
  /\ retainedCsv # NoFile => \A a \in DOMAIN retainedCsv : retainedCsv[a] \in 1..Balance[a]

(* A report that verify-reconciliation passes describes the tables beside  *)
(* it, never those of a rerun that died before its summary.                *)
(* The types hold as well.                                                 *)
VerifiedDescribesTables ==
  /\ PolicyTypeOK
  /\ VerifyNonIssuance =>
       /\ \A a \in Addresses : At(retainedCsv, a) <= summary.withheld[a]
       /\ summary.totals.not_issued = SumFunction(summary.withheld)
       /\ summary.totals.hasLeak => \A a \in DOMAIN leakCsv : leakCsv[a].cap <= summary.withheld[a]

Plans == [stage : [Qualified -> {"initial", "next_stage", "deferred", ""}],
          offset : [Qualified -> 0..Reserve]]

WithheldNow(a) == At(Existing, a) + Historical(a)

(* A passed policy gives away every claim once: the figure published for   *)
(* deferred wallets, which is compared with no row, is what the addresses  *)
(* outside the two issued stages, those below the threshold among them,    *)
(* hold after what the inventories and tables of the moment withhold, the  *)
(* WONE backing taken from its holder and the part of the contracts.       *)
PolicyCloses ==
  TotalsAgree =>
    \A plan \in Plans :
      RowsPass(plan) =>
        LET issued == {a \in Qualified : plan.stage[a] \in {"initial", "next_stage"}}
            left(a) == Allocated(a) - WithheldNow(a)
                         - (IF a \in Qualified THEN plan.offset[a] + StageRow(a, plan.offset[a]).contract ELSE 0)
            held == SumFunction([a \in Addresses \ issued |-> left(a)])
        IN  \A deferred \in 0..Gross : StagesClose(plan, deferred) => deferred = held

(* In a passed policy nobody enters the initial stage without activity and *)
(* the threshold left after every deduction, and no active wallet with the *)
(* threshold and an allocation left is deferred. (Nothing keeps such a     *)
(* wallet from the next stage: rows of that stage are not checked to be    *)
(* contracts.)                                                             *)
InitialCohortExact ==
  TotalsAgree =>
    \A plan \in Plans :
      RowsPass(plan) =>
        \A a \in Qualified :
          LET earns == a \in Wallets \cap Active /\ Qualification[a] - WithheldNow(a) >= Threshold
          IN  /\ plan.stage[a] = "initial" => earns
              /\ earns /\ Allocated(a) - WithheldNow(a) - plan.offset[a] > 0 =>
                   plan.stage[a] \in {"initial", "next_stage"}

=============================================================================
