-------------------------- MODULE CrossShardSupply --------------------------
(***************************************************************************)
(* toolkit/cmd/cross-shard-supply: classifies every receipt group of both  *)
(* source shards as spent, pending or unsupported at the cutoffs, over     *)
(* databases whose keys may be missing, malformed or unreadable, and       *)
(* publishes one summary or nothing.                                       *)
(***************************************************************************)
EXTENDS ShardDatabases

CONSTANTS
    MaxFaults,      \* bound: damaged keys
    MaxChanges      \* bound: damaged keys and blocks created together

ASSUME FaultAssumption == MaxFaults \in Nat /\ MaxChanges \in Nat

VARIABLES
    pc,         \* "live" node running, "cold" node stopped, "scan", "published", "fatal"
    fault,      \* what is wrong with each key of the cold databases
    dir,        \* source shard of the sumReceipts call in progress
    todo,       \* receipt keys its iterator has not returned yet
    tally       \* groups counted under each outcome, both directions

scanVars == <<pc, fault, dir, todo, tally>>
vars == <<chain, groups, lookup, marker, created, cut, pc, fault, dir, todo, tally>>

Outcome == {"empty", "after", "noncanonical", "unsupported", "spent", "pending"}

HashKey == {"hash"} \X Active \X (1..MaxHeight)
LookupKey == {"lookup"} \X Active \X Tx
SpentKey == {"spent"} \X Active \X (1..MaxHeight)    \* destination; source is 1 - destination
GroupKey == {"group"} \X Active \X (1..MaxHeight)    \* the groups of a source block
Key == HashKey \cup LookupKey \cup SpentKey \cup GroupKey

(* "get": Get fails; "io": Get and Has fail; "missing": the key is gone;     *)
(* "empty": present without a value; "garbled": an undecodable value (or an  *)
(* all-zero hash, or a receipt whose identity does not fit its key).         *)
FaultKind == {"none", "get", "io", "missing", "empty", "garbled"}

(* Faults the scanner can meet: the incomplete lookup index of a node that   *)
(* still has its spent markers; a lost marker would not be noticed.  A group *)
(* value comes from the iterator, not from Get.                              *)
Damage(k) ==
    CASE k \in GroupKey -> {"garbled"}
      [] k \in SpentKey -> FaultKind \ {"none", "missing"}
      [] OTHER -> FaultKind \ {"none"}

Init ==
    /\ DbInit
    /\ pc = "live"
    /\ fault = [k \in Key |-> "none"]
    /\ dir = 0
    /\ todo = {}
    /\ tally = [o \in Outcome |-> {}]

-----------------------------------------------------------------------------
(* Reads *)

Stored(k, present) == fault[k] \in {"empty", "garbled"} \/ (present /\ fault[k] # "missing")

readOptional(k, present) ==
    LET value == Stored(k, present)
        getErr == fault[k] \in {"get", "io"}
    IN  IF value /\ ~getErr /\ fault[k] # "empty"
        THEN IF fault[k] = "garbled" THEN "garbled" ELSE "found"
        ELSE IF fault[k] = "io" THEN "error"          \* Has fails too
        ELSE IF ~value THEN "absent"
        ELSE IF getErr THEN "error" ELSE "empty"

readCanonicalHash(s, n) ==
    LET r == readOptional(<<"hash", s, n>>, n \in DOMAIN chain[s])
    IN  IF r \in {"empty", "garbled"} THEN "error" ELSE r

(* A canonical hash read that must succeed and name the block of hash h. *)
CanonicalCheck(s, n, h) ==
    IF readCanonicalHash(s, n) # "found" THEN "abort"
    ELSE IF chain[s][n].hash # h THEN "noncanonical" ELSE "canonical"

-----------------------------------------------------------------------------
(* The loop over the receipts of a group of a supported destination. *)

(* Mutant: no lookup entry means not applied. *)
PendingWithoutMarker(g) == "pending"

(* Without a lookup entry only an absent spent marker proves it pending: an  *)
(* unreadable or malformed marker aborts, a good one tells of a lost entry.  *)
MissingLookup(g) ==
    IF readOptional(<<"spent", g.dst, g.num>>, <<g.src, g.num>> \in marker[g.dst]) = "absent"
    THEN "pending" ELSE "abort"

(* Mutant: an application in the cutoff block itself is left out. *)
CutoffBlockExcluded(g, i) ==
    LET e == lookup[g.dst][g.txs[i]]
        r == readOptional(<<"lookup", g.dst, g.txs[i]>>, e # Absent)
        c == CanonicalCheck(g.dst, e.num, e.hash)
    IN  IF r = "absent" THEN MissingLookup(g)
        ELSE IF r # "found" THEN "abort"
        ELSE IF e.num >= cut[g.dst] THEN "pending"
        ELSE IF c = "canonical" THEN "spent" ELSE "abort"

(* Mutant: a lookup entry counts although its block was rolled back. *)
StaleLookupSpent(g, i) ==
    LET e == lookup[g.dst][g.txs[i]]
        r == readOptional(<<"lookup", g.dst, g.txs[i]>>, e # Absent)
    IN  IF r = "absent" THEN MissingLookup(g)
        ELSE IF r # "found" THEN "abort"
        ELSE IF e.num > cut[g.dst] THEN "pending" ELSE "spent"

(* What receipt i decides, once all earlier receipts were found spent. *)
ReceiptVerdict(g, i) ==
    LET e == lookup[g.dst][g.txs[i]]
        r == readOptional(<<"lookup", g.dst, g.txs[i]>>, e # Absent)
        c == CanonicalCheck(g.dst, e.num, e.hash)
    IN  IF r = "absent" THEN MissingLookup(g)
        ELSE IF r # "found" THEN "abort"
        ELSE IF e.num > cut[g.dst] THEN "pending"
        ELSE IF c = "abort" THEN "abort"
        ELSE IF c = "noncanonical" THEN "pending"
        ELSE IF i > 1 /\ e.num # lookup[g.dst][g.txs[i - 1]].num
             THEN "abort"       \* the group is split across destination blocks
             ELSE "spent"

SpentVerdict(g) ==
    LET Reached(i) == \A j \in 1..(i - 1) : ReceiptVerdict(g, j) = "spent"
    IN  IF \A i \in DOMAIN g.txs : ReceiptVerdict(g, i) = "spent" THEN "spent"
        ELSE IF \E i \in DOMAIN g.txs : Reached(i) /\ ReceiptVerdict(g, i) = "pending"
             THEN "pending" ELSE "abort"

(* Mutant: groups emitted after the source cutoff are classified too. *)
SourceCutoffIgnored(g) ==
    LET c == CanonicalCheck(g.src, g.num, g.hash)
    IN  IF g.txs = <<>> THEN "empty"
        ELSE IF c # "canonical" THEN c
        ELSE IF g.dst \in Active THEN SpentVerdict(g) ELSE "unsupported"

(* One iteration of the scan loop: the counter a group goes to, or "abort". *)
Verdict(g) ==
    LET c == CanonicalCheck(g.src, g.num, g.hash)
        garbled == fault[<<"group", g.src, g.num>>] = "garbled"
    IN  IF g.txs = <<>> /\ ~garbled THEN "empty"
        ELSE IF g.num > cut[g.src] THEN "after"
        ELSE IF c # "canonical" THEN c
        ELSE IF garbled THEN "abort"
        ELSE IF g.dst \in Active THEN SpentVerdict(g) ELSE "unsupported"

-----------------------------------------------------------------------------
(* Steps *)

(* Harmony is stopped and the scanners read a cold database. *)
StopNode ==
    /\ pc = "live" /\ \A s \in Active : cut[s] # 0
    /\ pc' = "cold"
    /\ UNCHANGED <<dbVars, fault, dir, todo, tally>>

DamageKey(k, f) ==
    /\ pc = "cold"
    /\ fault[k] = "none"
    /\ LET damaged == Cardinality({j \in Key : fault[j] # "none"})
       IN  damaged < MaxFaults /\ created + damaged <= MaxChanges
    /\ fault' = [fault EXCEPT ![k] = f]
    /\ UNCHANGED <<dbVars, pc, dir, todo, tally>>

StartScan ==
    /\ pc = "cold"
    /\ pc' = "scan"
    /\ dir' = 0
    /\ todo' = groups[0]
    /\ UNCHANGED <<dbVars, fault, tally>>

Fail ==
    /\ pc' = "fatal"
    /\ todo' = {}
    /\ tally' = [o \in Outcome |-> {}]
    /\ UNCHANGED <<dbVars, fault, dir>>

(* The iterator returns keys in the order of their bytes. *)
KeyBefore(g, h) ==
    \/ g.dst < h.dst
    \/ g.dst = h.dst /\ g.num < h.num
    \/ g.dst = h.dst /\ g.num = h.num /\ g.hash < h.hash

ScanGroup(g) ==
    /\ pc = "scan" /\ g \in todo
    /\ \A h \in todo \ {g} : KeyBefore(g, h)
    /\ \/ /\ Verdict(g) = "abort"
          /\ Fail
       \/ /\ Verdict(g) # "abort"
          /\ tally' = [tally EXCEPT ![Verdict(g)] = @ \cup {g}]
          /\ todo' = todo \ {g}
          /\ UNCHANGED <<dbVars, pc, fault, dir>>

(* The iterator stops early: Next is false and Error reports why.  Opening  *)
(* or writing the output can fail in the same way.                          *)
IteratorError ==
    /\ pc = "scan"
    /\ Fail

(* Mutant: the second direction iterates the first source again. *)
SameSourceTwice ==
    /\ pc = "scan" /\ dir = 0 /\ todo = {}
    /\ dir' = 1
    /\ todo' = groups[0]
    /\ UNCHANGED <<dbVars, pc, fault, tally>>

NextDirection ==
    /\ pc = "scan" /\ dir = 0 /\ todo = {}
    /\ dir' = 1
    /\ todo' = groups[1]
    /\ UNCHANGED <<dbVars, pc, fault, tally>>

Publish ==
    /\ pc = "scan" /\ dir = 1 /\ todo = {}
    /\ pc' = "published"
    /\ UNCHANGED <<dbVars, fault, dir, todo, tally>>

Ended == pc \in {"published", "fatal"} /\ UNCHANGED vars

ScanStep == (\E g \in todo : ScanGroup(g)) \/ NextDirection \/ Publish

Next ==
    \/ pc = "live" /\ DbNext /\ UNCHANGED scanVars
    \/ StopNode
    \/ \E k \in Key : \E f \in Damage(k) : DamageKey(k, f)
    \/ StartScan
    \/ ScanStep
    \/ IteratorError
    \/ Ended

Spec == Init /\ [][Next]_vars

PendingActiveAtto == AmountOfGroups(tally["pending"])
UnsupportedPendingAtto == AmountOfGroups(tally["unsupported"])
-----------------------------------------------------------------------------
(* Properties *)

(* The groups the totals are about: canonical, not empty, within the source *)
(* cutoff.                                                                  *)
Claimed(s) ==
    {g \in groups[s] : g.txs # <<>> /\ Canonical(g) /\ g.num <= cut[s]}

AllClaimed == Claimed(0) \cup Claimed(1)

(* The types of the databases and of the scanner: what is left to scan is of  *)
(* the source being scanned.                                                  *)
TypeOK ==
    /\ chain \in [Active -> Seq(Block)]
    /\ \A s \in Active : Len(chain[s]) \in 1..MaxHeight
    /\ groups \in [Active -> SUBSET Group]
    /\ lookup \in [Active -> [Tx -> Entry]]
    /\ marker \in [Active -> SUBSET (Active \X Nat)]
    /\ created \in Nat
    /\ cut \in [Active -> Nat]
    /\ pc \in {"live", "cold", "scan", "published", "fatal"}
    /\ fault \in [Key -> FaultKind]
    /\ dir \in Active
    /\ todo \subseteq groups[dir]
    /\ tally \in [Outcome -> SUBSET Group]

(* Every published total is exact, whatever rollbacks left in the databases  *)
(* and whatever keys are damaged: a group of an active destination is pending*)
(* exactly when no canonical destination block up to the cutoff applied it,  *)
(* spent otherwise, and a group to a retired shard is kept apart.            *)
PublishedExact ==
    pc = "published" =>
        /\ tally["pending"] = {g \in AllClaimed : g.dst \in Active /\ ~AppliedByCutoff(g)}
        /\ tally["spent"] = {g \in AllClaimed : g.dst \in Active /\ AppliedByCutoff(g)}
        /\ tally["unsupported"] = {g \in AllClaimed : g.dst \notin Active}

(* No ONE is lost or counted twice between the shards: liquid balances at the *)
(* two cutoffs, pending receipts and receipts to retired shards add up to     *)
(* what the shards started with.                                              *)
SupplyConserved ==
    pc = "published" =>
        Liquid(0, cut[0]) + Liquid(1, cut[1]) + PendingActiveAtto + UnsupportedPendingAtto
            = InitialLiquid[0] + InitialLiquid[1]

(* A lookup index that lost the entry of a receipt applied by the cutoff is  *)
(* never taken for a pending receipt: the scan publishes nothing.            *)
IncompleteIndexAborts ==
    pc = "published" =>
        \A g \in tally["spent"] \cup tally["pending"] : AppliedByCutoff(g) =>
            \A t \in TxsOf(g) : fault[<<"lookup", g.dst, t>>] = "none"
=============================================================================
