# A TLA+ model of the Harmony supply audit

This directory is a verification development of the supply audit in this
repository: Go commands that read Harmony's LevelDB databases and its RPC,
Python scripts that merge, audit and reconcile what they found, and the shell
wrappers that ran them against an archive node. Each module is translated from
the source named in its header; `PROJECT.json` maps every definition to its
lines.

Run a model with `tlc -config X.cfg M`, check a proof module with `tlapm M.tla`.

## 1. Inventory

| Part | State | Operations | What makes it correct |
|---|---|---|---|
| `cross-shard-supply` | totals per direction and outcome | scan the receipt groups of each shard, read lookup, spent marker and canonical hash, publish | every canonical receipt up to the cutoff is applied, pending or unsupported, exactly; an incomplete index aborts |
| `wone-holders` | ranges, channels, balances, CSV, JSON | binary search of the deployment, workers over ranges, split and retry, merge, checks | every event counted once; root cause reported; no goroutine left |
| `account-snapshot`, `staking-claims`, `actual-supply` | one pass over a state root | enumerate accounts, find wrappers by list or by code, sum, publish | exports are complete; the independent sum notices if they are not |
| `actual-supply-ledger.py` | four cursors, CSV, summary | merge by secure key | one row per key with all its claims |
| `reconstruct-cutoff-formula.py`, `verify-reconciliation.py` | published figures | arithmetic and comparison | the claim gap is the value that was never issued |
| `canonical-interval-audit.py`, `verify-pending-receipts.py` | blocks read so far, two tables, a summary | read chunks by number, link them by parent hash, rename three files; look up every pending receipt | the interval is that of one instant; the receipts carried over are pending at the new cutoff |
| `historical-state-diff`, `verify-state-diff-rpc.py`, `verify-created-accounts.py` | rows of two tries, search bounds | two passes over the leaves, comparison in batches, binary search for all accounts at once | the net change is true; a transition block is one |
| `undelegation-mint-reconcile.py`, `historical-staking-rpc.py`, `historical-claims-diff.py`, `map-cx-receipt-destinations.py`, `historical-shard1-balance.py`, `historical-closure.py` | tables and figures per checkpoint | reconstruct, subtract, walk back from the cutoff, residuals and their changes | each reconstruction is the figure of the chain |
| `build-non-issuance-audit.py`, `build-revert-leak-retention.py`, `migration-policy-reconciliation.py` | inventories, two CSVs, two summaries | cap, deduct, write CSV then summary; verify | nothing withheld twice or beyond a claim |
| `package-results.py`, `update-result-index.py`, `update-results-manifest.py`, `verify-results.py` | the result files, index, manifest | relabel, write and rename one by one, index, hash, verify | a verified package is the outcome of one run |
| `hip30-recovery-issuance` | two nested loops over headers, digest | read groups of 64 headers, count crosslinks | exactly the complete groups of the range |
| `outgoing-cx-scan`, `cx-replay-scan`, `cx-lookup`, `cx-lookup-snapshot` | CSV of receipts, proofs or lookups | one pass over a key family or a block range | every canonical receipt once; replays detected |
| `cx-source-audit.py`, `summarize-cx-source-audit.py` | rows and totals by classification | RPC, trace inspection, evidence, output, summary | a verdict is what happened to the debit |
| `db-preflight`, `staking-*-target-audit`, `block-reward-accumulator` | CSV or JSON of one pass | check a database, decode transactions, read one key | complete, nothing outside the range |
| `repro/as-run` wrappers | Harmony's service, lock, files, traps | stop, wait, scan, validate, restart | published files complete and kept; Harmony comes back |
| exploit flow and blacklist exports, repository checks | files | RPC, joins, scans of the tree | see section 7 |

The commands interact through files: an output is written as `.partial`, synced
and renamed, and the next program reads it. They share the database with the
node, which is stopped while they run. Only `wone-holders` is concurrent
inside; the wrappers run concurrently with each other, with the node and with
an operator who may kill or repeat them.

What is hard here: state that rollbacks leave behind in a database; an absent
key against an unreadable one; a replay by a newer binary; lists that are newer
than the state root; inclusive cutoffs and wrapping block numbers; goroutines
that end early; crashes between two renames; a chain that moves between two RPC
calls; inputs edited between the program that used them and the one that checks
it. `PROJECT.json` lists these hazards
at their lines with the properties that cover them.

## 2. Modules

| Module | Models | State and actions |
|---|---|---|
| `ShardDatabases` | the node's databases (external) | chains, receipt groups, lookup entries, spent markers; blocks with outgoing or incoming receipts, rollbacks, the cutoff |
| `CrossShardSupply` | `cross-shard-supply/main.go` | `StartScan`, `ScanGroup`, `NextDirection`, `Publish`, `Fail`; `Verdict` is the decision of `sumReceipts` on one group, with a fault on any key it reads |
| `WoneHolders` | `wone-holders/main.go` | one action per channel operation of the producer, each worker, the closer and main; RPC calls fail and are retried; CSV, reserve check, summary |
| `ArchiveRun` | the thirteen wrappers | a wrapper is a record of its existence checks and its scanners; `Start`, `Precheck`, `ServiceStop`, `WaitStopped`, `CheckLock`, `Launch`, the scanner's file operations, `Validate`, `NextScan`, restart and health, `OnExit`, `Kill` |
| `SourceExecution` | the EVM (external) | call frames, the cross-shard precompile, returns and reverts |
| `CxSourceAudit` | `cx-source-audit.py`, `summarize-cx-source-audit.py` | a replay that repeats the execution, loses calls, fails or diverges; `StartAudit`, `AuditRow`, `RpcFails`, `WriteOutput`, `Summarize`; `inspect_trace`, `classify_replay`, `resolve_classification` keep their names |
| `StakingChain` | two shards as owners of ONE (external) | transfers, receipts, delegation, rewards, payouts, unbacked receipts |
| `SupplyLedger` | `account-snapshot`, `staking-claims`, `actual-supply`, `block-reward-accumulator`, the ledger, the formula and the comparison | one action per program, the merge row by row |
| `Hip30Recovery` | `hip30-recovery-issuance/main.go` | `Start`, `Refuse`, `ReadRewardHeader`, `CountHeader`, `EndGroup`, `Publish`, in words of any size |
| `IntervalSnapshot` | what an interval audit promises (abstract) | a report is the canonical interval of one instant, taken in one step |
| `CutoffInterval` | `canonical-interval-audit.py`, `verify-pending-receipts.py` | the node's `NewBlock`, `Readopt`, `Rollback`; `StartRun`, `ReadPredecessor`, `ReadChunk`, three renames, `RunFails`, `Kill`, files removed by hand; `StartPending`, `Lookup`, `PublishPending` |
| `StateDiff` | `historical-state-diff/main.go`, `verify-state-diff-rpc.py`, `verify-created-accounts.py` | `Forward` and `Reverse` passes, `VerifyBatch`, `StartSearch`, `SearchRound`, `PublishCreated`; any history of the accounts, roots given by hand |
| `HistoricalClosure` | the six historical scripts and the closure part of `verify-reconciliation.py` | a chain with undelegations paid again, rewards, the HIP-30 recovery and receipts both ways; after the cutoff the receipts are labelled and mapped, the balances and the audit's summary are written of the labels, the reconciliation is published and labels are revised; the scripts are operators on the recorded blocks and on those files |
| `NonIssuance` | the two address programs, the non-issuance part of `verify-reconciliation.py`, `migration-policy-reconciliation.py` | one action per write; inventories are edited and programs die in between; source audits are sequences of rows with the columns the programs compare; the compiler of the stages is external, and so is the plan of stages and WONE offsets |
| `ResultPackage` | the packaging scripts | one action per write or rename of packager, indexer and manifest; refusals, deaths, edits by hand |
| `MC*` | | constants of the instances |
| `SumTheorems` | | rules of sums over finite sets, used by the proofs |
| `CrossShardProofs` | | theorems of `CrossShardSupply` and of `CxSourceAudit` |
| `StateScanProofs` | | theorems of `Hip30Recovery` and of `StateDiff` |
| `PublicationProofs` | | theorems of `ArchiveRun` and of `ResultPackage` |
| `ReconciliationProofs` | | theorems of `NonIssuance` and of `HistoricalClosure` |
| `CutoffIntervalProofs`, `WoneHoldersProofs`, `SupplyLedgerProofs` | | theorems of the module of that name |

`CrossShardSupply` extends `ShardDatabases`, `CxSourceAudit` extends
`SourceExecution` and `SupplyLedger` extends `StakingChain`: the external module
is the world the programs look at, and the properties compare what a program
published with that world. `SupplyLedger` takes the pending receipts from the
chain, which is what `PublishedExact` promises of `cross-shard-supply`;
`HistoricalClosure` takes the sum of all claims from the chain, which is what
`SupplyLedger` shows of `actual-supply`. `CutoffInterval` implements
`IntervalSnapshot`: the mapping shows the blocks read once they are complete and
nothing before.

A proof module for two models extends both, each with its own half; the models share
no variable and no constant, and no fact about one is used for the other. The
second of the two gives its initial state, next-state relation and specification a
prefix (`AuditSpec`, `DiffSpec`, `PackageSpec`, `PolicySpec`).

Abstractions. Amounts are small numbers, addresses and hashes are model values
or numbers. Formats, hashes of files, progress output and addresses (where a
program carries them along) are left out. A scan of a state root is one step in
`SupplyLedger`: it ends with a published file or with an error and shares
nothing with other programs while it runs. Operators marked "Mutant" are not
part of the model: each is a plausible mistake that the property named in
`PROJECT.json` rejects.

## 3. Runs

| Run | Question | Bounds |
|---|---|---|
| `cx_faults` | is a published summary exact, does it conserve the supply, does a lost index entry abort it | two transactions, groups of two, three blocks beside the first ones, or two and one damaged key (`MaxChanges`) |
| `wone_scan` | events counted once, root cause, summary backed by a true CSV; do program and goroutines end | two workers, every cutoff, deployment block and range size of a small word, two attempts a call |
| `archive_reruns` | files complete and kept, Harmony up, status 0 honest; does every started wrapper end | two shells, every pair of different wrappers, three runs between them, one kill |
| `source_audit` | are the verdicts on receipts true, is the unbacked credit bracketed, no receipt twice | one transaction of up to four frames of one contract, two receipts, CALL and DELEGATECALL, two amounts, four replays, all selections and evidence; two audits of a transaction of up to three frames, one of a larger one (`MaxWork`) |
| `hip30` | complete groups, crosslinks by epoch | groups of four, every pair of flags in a word of 20, one unreadable header |
| `ledger_formula` | formula and claim gap; one row per key with all its claims | two keys, two receipts in transit, a reward before or after the base, an unbacked receipt |
| `ledger_faults` | what is the independent sum worth | every discovery mode, one lost or corrupt code or unlisted validator, one later validator |
| `cutoff_interval` | is the interval that of one instant; do tables and summary belong together; is the carried list of pending receipts true | two blocks read one by one, four blocks ever created, two runs with kills and failures, one pending receipt |
| `state_diff` | net change, transition blocks, end of the search | every history of two accounts over four blocks, absent, empty or with a balance; right and wrong roots |
| `non_issuance` | withheld once and within the claim, report beside its tables, policy closed over unchanged inputs | a wallet and a contract, two inventories with a row that states more than the claim and one that states less than its amount, three audits of which two share a receipt, in three lists, two edits, a WONE holder and retained WONE, every plan, an incident contract that paid nothing or 1 (`MaxPaid`), any deaths |
| `result_package` | is a verified package one run's, with its evidence | nine accounting trees (legacy, split, refused mixes, evidence present, partial or missing), two changes of the tree, two deaths or edits by hand |
| `historical_closure` | reconstructed mint, claims difference, derived balance, what a wrong label moves, how far a verified figure is pinned | two validators, two accounts, six blocks, two events besides payouts, every labelling, one unit of the cross-shard component left there or booked under HIP-30, the max-rate or the rounding component (`BookedUnder`) |

`cx_faults` and `hip30` check `TypeOK` by name; in the other modules the type
invariant (`TypeOK`, `AuditTypeOK`, `DiffTypeOK`, `PackageTypeOK`, `PolicyTypeOK`)
is the first conjunct of one of the properties.

Why the bounds are enough. Each verdict of `sumReceipts` looks at one group and
at most one block of each chain. Two blocks hold a sent and an applied receipt, of
which one is rolled back; a lookup entry that names an undone block at or below
the cutoff needs a third one, which emits nothing but replaces the block that
applied. A damaged key beside three blocks is left to `Exactness`, which has no
bound.
In `wone-holders` the word has ranges that end at, before and past the largest
block, with ranges left over while a worker fails and more ranges than the jobs
channel holds. Four frames hold a root, a contract, a nested contract and a
precompile call, or two calls of the precompile in different frames. A second
audit repeats the rows of the first or adds others; three frames hold two receipts
for that. The word of
20 is not a power of two but a multiple of the group size, as 2^64 is of 64, and
that is all the code relies on. Two keys give every non-empty subset of the four
inputs in one row; `MaxActivity` leaves out only the states with a reward, an
unbacked unit and two receipts in transit at once. Three runs of the wrappers are
a run, a rerun of the same wrapper and a run of another one beside them. Four
created blocks let the interval be read across a fork and back; the theorem of
section 5 has no such bound. Three blocks between the two roots let an account be
created, emptied and created again. With two edits an inventory changes between
each pair of programs that read it. In `NonIssuance` a row that
overstates the claim meets a leak, a retained balance or nothing, and a receipt
comes from both audits in either order. Two events in `HistoricalClosure` are
enough for a backed and an unbacked receipt, one beside the recovery, or one that
is in flight at a checkpoint while an undelegation is pending.

Fairness. `FairSpec` asks weak fairness of each sequential process (a goroutine,
a wrapper's shell, the search): an enabled step is taken by the Go or the
operating system scheduler. In `ArchiveRun` the node, once told to stop, is
assumed to end some time (`NodeStops`), not within the 180 seconds the wrapper
waits: the timeout may come first. RPC calls may fail but do return, because
every HTTP client sets a timeout. No step is strongly fair.

Deadlock is checked where a program always has a next step until it ends;
modules whose programs may all be over, or refuse to start, say
`CHECK_DEADLOCK FALSE`.

## 4. What the runs show

All invariants, action properties, liveness properties and the refinement hold.

The runs and the translation also showed assumptions that are needed:

* a spent marker is never lost together with the lookup entries of its group
  (`CrossShardSupply`): nothing else tells an applied group from a pending one;
* the two cutoffs are blocks of the same instant (`TakeCutoff`): the command
  takes them from its flags;
* two shells do not run the same wrapper on the same names at once
  (`ArchiveRun`): the existence checks and the renames are minutes apart;
* a replayed row without independent evidence rests on a replay that is the
  execution up to calls it lost, in frames that go on as they did (`Repeats` in
  `CxSourceAudit`). A contract that reverts where a DELEGATECALL is rejected leaves
  a completed sibling call below a failed frame, and the program publishes
  `rollback_leak` for a debit that stands; `docs/methodology.md:166` says that the
  same status does not prove the same execution. That replay is `"diverged"` in
  the model: its trace may show anything, and only evidence makes the row true;
* when the replay rejects calls that once completed, no two receipts share
  sender and payload (`Repeats` again): otherwise the call that is left vouches for
  both;
* an inventory states the claim its amounts are compared with
  (`build-non-issuance-audit.py:131`), and nothing compares the statement with the
  ledger: a row may withhold more than the address has. `WithheldWithinClaim` says
  so, and that no leak or retained balance comes on top of it;
* the source audits a leak table is made from have the same columns
  (`KeysIdentify` in `NonIssuance`): rows of a scan of sent receipts
  (`outgoing-cx-scan/main.go:119`) have no destination block, those of a replay
  scan (`cx-replay-scan/main.go:201-203`) do, and the key of
  `build-revert-leak-retention.py:107` tells them apart;
* the figure of the policy for deferred wallets is compared with no row: it stands
  for everybody outside the issued stages because the stages close (`PolicyCloses`);
* the balances and the audit's summary are written again when a label changes
  (`FilesCurrent` in `HistoricalClosure`): the verifier reads the files, and a
  label changed without them is not seen;
* with `-discover-validators`, every code of the root can be read (`AllFound` in
  `SupplyLedger`). A code that cannot be read counts as the code of a contract
  in `staking-claims` and in `actual-supply` alike, so their sums agree on too
  little; `cross-shard-supply` checks the existence of a key after a failed read
  for that reason, the staking readers do not. With a list the loss is an error;
* `actual-supply` is not run with `-validator-only` for the comparison: with no
  liquid balance on shard 0 it agrees with an incomplete staking export;
* the audited interval stays canonical until the pending receipts are looked up,
  and no receipt of it was sent by the precompile (`PendingExact`): the interval
  audit sees signed transactions only, and `verify-pending-receipts.py` reads no
  hash;
* the first hash in the interval summary is asked for after the tables are
  renamed (line 356) and may belong to another fork than they do;
* a created account has a balance or a nonce at the new block (`TransitionExact`):
  RPC does not tell an empty account from an absent one. With no created account
  at all `verify-created-accounts.py` ends in an error at its field names, and so
  does `build-non-issuance-audit.py` with no retained row;
* the destination table used for an earlier checkpoint reaches back to receipts
  in flight at it (`DestinationsComplete` in `HistoricalClosure`);
* the `pre_existing` component equals `pre_existing_net_deficit`, and the HIP-30
  component the recovery: the verifier compares the deficit with the residual and
  sums the two components without comparing them, so they can hold what the
  cross-shard component lacks (`CrossShardPinned`);
* a package has its table (`VerifiedOneRun`): the JSON files of a first packaging
  that died can be indexed, hashed and verified;
* rows of the next migration stage are not checked to be contracts
  (`InitialCohortExact` leaves that open).

One statement of the repository does not hold for every file. `repro/README.md`
line 11 says the wrappers preserve "`.partial` output and atomic rename
behavior". The block reward reader's standard output goes straight to its final
name (`run-archive-scan-batch.sh:73-76`, `run-archive-checkpoint-scan.sh:75-78`,
`read-recovery-reward.sh:48`), where an empty or cut-off file is visible while it
runs and after it failed. `RenamedComplete` is stated for the other outputs;
`SuccessComplete` covers this one once the wrapper has ended with status 0.

A wrapper killed by SIGKILL leaves Harmony stopped: `NodeUpAtEnd` says so by
leaving killed shells out.

## 5. Proofs

All theorems hold for every value of the constants that the named assumptions
allow. The assumptions say what kind of value a constant is, and besides that only
what the code relies on; each is mentioned with its module.

Sums. Most figures of these programs are sums over a set, which the community
module `Functions` defines by recursion over subsets, in an order left to `CHOOSE`.
`SumTheorems` proves the rules of such sums: one element more or less, disjoint
sets, equal terms, renamed elements, sums of sums, intervals cut in two, a table
summed by rows or by columns, a sum by classes. Induction
is stated for a set of numbers (`NatClosed`, from the least number) or a set of
subsets (`SubsetInduction`) and not for a predicate, because the provers do not
instantiate operators. The models write their sums with these operators.

### `CrossShardSupply` (in `CrossShardProofs`)

For every finite set of transactions and any amounts, retired shards and bounds
(`DatabaseAssumption`, `FaultAssumption`):

* `TypeCorrect`: `Spec => []TypeOK`;
* `Exactness`: `Spec => []PublishedExact`;
* `IndexLossAborts`: `Spec => []IncompleteIndexAborts`;
* `Conservation`: `Spec => []SupplyConserved`.

`PublishedExact` is not inductive. The invariant is `TypeOK /\ DbInv /\ ScanInv`.
`DbInv` says what a rollback cannot take back: block hashes are not reused
(`HashesUsed`), a lookup entry whose hash is still canonical was written by a
block that applied the transaction (`IndexSound`), a canonical application has
its lookup entries and its marker (`AppliedIndexed`), a transaction belongs to
one canonical group (`TxUnique`), and the cutoffs lie on the chains
(`CutReached`). `ScanInv` says that no marker is lost (`MarkersKept`), that each
counter holds only groups it describes (`TallySound`), that every claimed group
of a finished direction, or no longer to do in the current one, is in a counter
(`TallyComplete`), and that nothing is counted before the scan starts. The verdict
lemmas take one case of `sumReceipts` each and show that a verdict that is not
"abort" is the true outcome, whichever reads failed.

`IncompleteIndexAborts` adds that every receipt counted as spent was read from an
undamaged entry (`SpentIndexed`). Conservation adds that a block below a cutoff
applies only groups below the other one (`CutClosed`); then the credits are the
transactions counted as spent, the debits those of all claimed groups, and as
groups share no transaction the three counters partition the debits.

### `Hip30Recovery` (in `StateScanProofs`)

For every word size that is a multiple of the reward frequency, every chain whose
last block is below the last word and every epoch and crosslink assignment
(`Hip30Assumption`):

* `TypeCorrect`: `Spec => []TypeOK`;
* `DigestCorrect`: `Spec => []DigestExact`;
* `IssuanceCorrect`: `Spec => []IssuanceExact`.

Accepted flags begin a group and not the first one, so neither `nextRewardBlock`
nor `previousRewardBlock` wraps and the two reward blocks are whole groups apart
(`FlagsExact`). The invariant then locates both loops by arithmetic: the digest is
the consecutive headers from the start, the group count times the frequency is
its length at group boundaries, the reward block lies one group further, and the
counter is the sum over the headers digested so far (`Counted`). Multiplication by
the unknown frequency is kept in four small lemmas (`Multiples`, `MultiplesOrder`,
`MultiplesApart`, `Remainders`).

### `CutoffInterval` (in `CutoffIntervalProofs`)

For every interval, chunk size and bound (`IntervalAssumption`; `GenesisAssumption`
lets the first block exist):

* `SnapshotRefined`: `Spec => ReadsOneChain`, the refinement of `IntervalSnapshot`;
* `SummaryMatchesTables`: `Spec => []SummaryDescribesTables`;
* `PendingCarriedOver`: `Spec => []PendingExact`.

A hash names one block (`CreatedSound`), the chain and the blocks read are
numbered and linked by their parents (`ChainSound`, `SegSound`), and where a block
that was read is canonical, so are all blocks read before it (`LinkedPrefix`). The
last part takes the place of an induction over the chain: it is kept by every
step, because a block that extends the chain, new or adopted again, names the last
block as its parent, and because a chunk is only accepted when its first block
names the last one read.

For the files, `FilesOfRun` says at each place of a run which of the three files
are its own and in which state; a complete set of another run cannot appear,
because a run that finds any of the files refuses to start. For the pending
receipts, `Canonical` says that while nothing below the end is undone a whole
reading is still the canonical interval, a count of no cross-shard transactions is
right about it, and a receipt that was looked up stays unconsumed.

### `StateDiff` (in `StateScanProofs`)

For every pair of blocks, every finite set of accounts and every history
(`DiffAssumption`):

* `TransitionCorrect`: `DiffSpec => []TransitionExact`;
* `NetDeltaCorrect`: `DiffSpec => []NetDeltaExact`.

The invariant of the search is the bracket of each account: it exists at the upper
bound and not just below the lower one. Nothing is said of the blocks between, so
nothing has to be monotone. For the net change, what was summed and what the
unchecked rows still hold is always the sum over the table (`NetInv`), and the table
has one row for each account that differs, from one pass or the other.

### `ArchiveRun` (in `PublicationProofs`)

For any number of shells, runs and kills and any manifest with distinct labels that
are none of the wrappers' own (`ManifestAssumption`, `RunAssumption`):

* `RenamedAlwaysComplete`: `Spec => []RenamedComplete`;
* `SuccessIsComplete`: `Spec => []SuccessComplete`;
* `PublishedStays`: `Spec => PublishedKept`, an action property;
* `NodeComesUp`: `Spec => []NodeUpAtEnd`.

Every output belongs to one scan of one wrapper (`Owner`), and the wrapper asks for
it to be absent: the table of thirteen wrappers is checked entry by entry. A step
of a shell therefore disturbs only the outputs of the scan it is at (`Confined`,
`WriteKeeps`). The invariant says that two shells do not run one wrapper
(`OneShellEach`), that what is renamed is complete (`Renamed`) and, shell by shell,
that the scans behind it are complete, those ahead untouched, and how far the
current one is (`Progress`). Independently, while nothing was killed a node that is
not up is owed a start by a shell that has not ended (`NodeOwed`).

### `WoneHolders` (in `WoneHoldersProofs`)

For any number of workers, holders, events, ranges and attempts and any word size
(`WoneAssumption`):

* `BalancesCorrect`: `Spec => []BalancesExact`;
* `RootCause`: `Spec => []RootCauseReported`;
* `SummaryIsBacked`: `Spec => []SummaryBacked`.

The invariant counts what is under way. As long as no error was offered to the
error channel, the balances merged so far, the results queued, the logs and open
ranges of every worker, the jobs queued and the blocks the producer has not cut
yet add up to every event once (`Conserved`), and the ranges in the same places to
the initial number of ranges modulo the word (`Counted`). A split or a retry moves a
range inside one worker; a job, a result and a merge move it on. When the results
are closed, every worker has returned and all places but the balances are empty
(`Drained`), so without an error the balances are complete. `Errors` says that a
cancellation is only ever observed behind an error in the channel, so the channel
never holds a cancellation. The deployment search keeps a bracket around the true
block (`Searching`).

### `SupplyLedger` (in `SupplyLedgerProofs`)

For any number of keys, any genesis and any bounds on receipts, rewards, unbacked
value and activity (`ChainAssumption`), and any kinds of discovery that include the
state root and any number of unreadable codes (`LedgerAssumption`):

* `LedgerIsExact`: `Spec => []LedgerExact`;
* `VerifiedIsExact`: `Spec => []VerifiedExact`, which includes `TypeOK`;
* `FormulaIsExact`: `Spec => []FormulaExact`.

The invariant `IInv` has three parts. The chain: what is liquid, staked and in
transit is genesis, rewards and unbacked receipts (`Conserved`), only wrappers hold
stakes (`OnlyWrappers`) and the accumulator is the sum of the lifetimes of the
wrappers (`Rewarded`). The base checkpoint satisfied the same (`BaseInv`). The
files: an export gives every key its share of its components and leaves out only
keys without one (`Exported`, which needs that a finite set of keys can be sorted),
the keys behind the merge are in the ledger and those ahead are larger (`Merging`).

So the least open key is merged from all inputs that have it and its row is the
whole claim (`LedgerRight`), and when no input is open no key with a claim is
missing (`Covered`). The published totals are then sums over all keys
(`SummaryRight`). What is left is arithmetic about the chain: delegations by
delegator are delegations by wrapper, which is the table summed the other way, and
receipts by receiver are all receipts. Both are lemmas of `SumTheorems`. A list or a
code that cannot be read makes the set of wrappers smaller, and every sum above is
stated for the set that the mode finds; the premises of the three properties are
needed only in the last step, to make that set complete. For `VerifiedExact` it is
the set of `actual-supply` that is complete: its sum is then the supply of the chain,
and the comparison says that the ledger's total is the same sum. The formula needs
complete sets at both roots, because it subtracts two sums of lifetimes.

### `CxSourceAudit` (in `CrossShardProofs`)

For every set of contracts, call types and amounts, any number of frames, audits and
steps of an audit (`ExecutionAssumption`, `AuditAssumption`):

* `ReplayIsSound`: `AuditSpec => []ReplaySound`;
* `FailedIsNeverResolved`: `AuditSpec => []FailedNeverResolved`;
* `UnbackedIsBracketed`: `AuditSpec => []UnbackedBracketed`.

`CxAuditInvariant` proves the invariant `AuditIInv`. Its part about the execution,
`ExecInv`, numbers the frames in the order they were entered (`ParentsSound`,
`Nested`), says that a debit stands if and only if no frame above it failed
(`DebitsSound`) and that the completed calls of the precompile emitted one receipt
each (`EmittedSound`). A failing frame undoes the debits of all frames entered after
it; that these are those below it is `StackSound`. `inspect_trace` finds the sender
of a call and a failure above it by recursion over the frames; both are recursive
functions of the model, and `SendersSound` and `DebitsSound` are the same relations
stated without recursion. That a recursion from callers to calls has one solution is
shown by the least frame at which two could differ. The call the audit matches to a
receipt is then that of the receipt if sender and payload identify it, and the
classification follows case by case. Of a replay that diverged the trace is
arbitrary. A row keeps
what it said when it was written (`RowSound`): with evidence, its class is the
replay's verdict, which the evidence then does not contradict, or the evidence
itself, so true evidence makes the class true whatever the replay was. For the bracket, rows of the
classes "rollback_leak" and "source_debit_absent" are of receipts without a standing
debit, a row without one is of these two classes or unclassified, and the amounts of
a subset of the rows are at most those of all of them.

### `ResultPackage` (in `PublicationProofs`)

For every set of accounting trees and any number of edits and failures
(`TreesAssumption`, `BoundAssumption`):

* `VerifiedIsOneRun`: `PackageSpec => []VerifiedOneRun`;
* `EvidenceIsShipped`: `PackageSpec => []EvidenceShipped`.

`PackageInvariant` proves `PackageInv`. While the packager writes, the tree stays as
it is, and the entries behind it and the mappings ahead of it together are the files
of that tree (`RunUnderWay`). An index that lists the table was written by a
packager that reached its end, because the indexer refuses tables, so its entries are
those of one tree of one run (`TableIndexed`). A verified package has the contents
its index lists, and relabelling a result (`Packaged`) keeps its figure and its
components. The manifest needs no invariant: the verifier compares it with the files.

### `NonIssuance` (in `ReconciliationProofs`)

For every finite set of addresses and inventories, any claims that contain the
balance, any rows a reviewer may list, any finite audits whose columns identify a
receipt, any WONE, threshold and bounds (`ClaimsAssumption`, `AuditsAssumption`,
`KeysIdentify`, `BoundAssumption`):

* `WithheldFitsClaim`: `PolicySpec => []WithheldWithinClaim`;
* `LeakIsOnce`: `PolicySpec => []LeakOnce`;
* `VerifiedIsOfTables`: `PolicySpec => []VerifiedDescribesTables`;
* `PolicyIsClosed`: `PolicySpec => []PolicyCloses`;
* `CohortIsExact`: `PolicySpec => []InitialCohortExact`.

`NonIssuanceInvariant` proves `PolicyInv`, which speaks of each file by itself,
because edits and deaths may separate any two of them. A leak table caps an address
by its counted rows. Counted rows of one list have different keys and therefore name
different receipts, so their amounts are at most those of all receipts that some
audit calls a leak (`CreditBounded`, `TablesSound`); a report adds up to what is
withheld, which is within the claim or within what the inventory in the report
states, and at least what the tables it was made from withhold (`SummarySound`); the
stages repeat the sources they were compiled from (`StagesSound`). `PolicyIsClosed`
is then the sum of the rows' equations: the rows that qualify and the ones that do
not, the issued stages and the others, the offsets that add up to the reserve. A program at work holds what it will write, and between its two
writes the first file is its own (`RunIs`). The properties compare these files only
where the verifier accepted them or where the inputs are still those of the stages.

### `HistoricalClosure` (in `ReconciliationProofs`)

For every finite set of validators and delegators, any stakes and balances at the
first block, any checkpoints, lock period and number of events
(`CheckpointsAssumption`, `StakeAssumption`):

* `MintIsExact`: `Spec => []MintExact`;
* `ClaimsDiffIsExact`: `Spec => []ClaimsDiffExact`;
* `DerivedIsExact`: `Spec => []DerivedExact`;
* `ChangeIsBlind`: `Spec => []ChangeBlindToShard1`;
* `CrossShardIsPinned`: `Spec => []CrossShardPinned`.

`ClosureInvariant` proves `IInv`. The balance of shard 1 at a block is the initial
one, plus the receipts of shard 0 applied by then, less the backed receipts sent by
then (`Shard1Is`): `historical-shard1-balance.py` walks the same sum back from the
cutoff, and what a wrong label moves is the amounts of the rows it mislabels. Up to
the fix, what was minted is what the pending entries tell (`MintedIs`): an entry paid
again stays with its first epoch, and only the validators that repeat payouts hold an
entry that is overdue (`Holdings`). The claims of each archived state are liquid
balances and the claims of all delegations (`Archived`), so the difference of two
states is the sum of the rows that `historical-claims-diff.py` writes. The files
only need their types: the pinning is an equation between what the verifier
accepts, six components that add up to the gap and residuals that reproduce four of
them. The theorems then are linear equations between sums over finite sets of rows.

### Only model-checked

The liveness properties `WrapperEnds` (`ArchiveRun`), `Ends` (`WoneHolders`) and
`SearchEnds` (`StateDiff`): the provers handle neither fairness nor `ENABLED`. Every
invariant and action property and the refinement that a run checks are also theorems.

## 6. State of the work

The parts with state of their own are modelled, and their safety properties are
proved. An extension would start where section 7 says that something is left out of
a model, first with two runs of one Python program on the same names at once, which
`ArchiveRun` shows how to model.

## 7. Not modelled

Decoding (RLP, ABI, bech32, JSON, CSV) and hashing; the RPC server; the trie and
LevelDB themselves. Of the Go commands, `outgoing-cx-scan` is modelled by its
result only and `cx-replay-scan`, `cx-lookup` and `cx-lookup-snapshot` not at all:
they are single passes that read the keys `CrossShardSupply` reads and decide
nothing. `cx-replay-scan` remembers proofs inside one interval only (line 267).
`db-preflight` prints what it finds; the staking target audits decode transactions
and keep no state beyond counters. `historical-exploit-flow-export.py` and
`blacklisted-address-audit.py` are exports over named addresses. The source
manifest, provenance, embargo and package checks read the tree once and pass or
fail; tests and build scripts are drivers.

Two runs of one Python program on the same output names at once are left out: the
error handlers remove `.partial` files by name, also those of the other run
(`actual-supply-ledger.py:271`, `canonical-interval-audit.py:380`). The CSV of
`cx-source-audit.py` is written in place (line 632), so a program that dies half
way leaves a shorter one that the summary accepts; in the model it is one step. A
ledger interrupted between its two renames (`actual-supply-ledger.py:248`) has no
summary and blocks its rerun; the same happens to the interval audit, where it is
modelled. `historical-staking-rpc.py` stops paging at the first empty page
(line 98), which the model takes for the end of the list, and an undelegation entry that was partly redelegated after its payout
is outside `undelegation-mint-reconcile.py` and the model alike.
In `NonIssuance` the counts by category, group and treatment, the split of a claim
into wallet and staked parts and the routing of contracts are left out. Negative
amounts in an inventory, which the program rejects, are not among the rows. In
`HistoricalClosure` the expected values of a configuration and the formats are left
out, and the balances of the two checkpoints are written together.

Two hazards have no property, and `PROJECT.json` says why: two runs of one wrapper,
or of one Python program, started together, and a validator code that cannot be read
while validators are discovered, at one root or at both. Nothing in the scripts
prevents or notices them.
`PROJECT.json` gives the reason for each part.
