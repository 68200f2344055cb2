--------------------------- MODULE ResultPackage ---------------------------
(***************************************************************************)
(* Packaging of one compact result set (scripts/package-results.py), the   *)
(* index that scripts/update-result-index.py builds for a set without a    *)
(* packager, the manifest of scripts/update-results-manifest.py, and the   *)
(* verdict of scripts/verify-results.py over all of them.  Every file is   *)
(* written as a .partial file and renamed; no program removes a .partial   *)
(* file, so one that dies leaves it behind and the next run is refused.    *)
(* A content stands for its SHA-256: two files have one hash only when     *)
(* they have one content.                                                  *)
(***************************************************************************)
EXTENDS Naturals, Sequences

CONSTANTS
  Trees,      \* the accounting trees that may be packaged
  MaxEdits,   \* bound on the edits of the accounting tree
  MaxFaults   \* bound on deaths of a program and changes of the set by hand

(* Components of reconciliation.json about cross-shard receipts. *)
Legacy == "proven_cross_shard_rollback_leakage"
Split == <<"trace_proven", "state_proven_debit_absence">>
Components == {Legacy} \cup {Split[i] : i \in DOMAIN Split}

(* reconciliation.json; the two evidence files; a CSV table; a JSON file   *)
(* without provenance that somebody put into the result set.               *)
Evidence == <<"source-audit-summary", "source-audit-verification">>
Results == {"reconciliation", "table"} \cup {Evidence[i] : i \in DOMAIN Evidence}
Stray == "stray"
Names == Results \cup {Stray}
Index == "index"

Absent == [amount |-> 0, label |-> "none", policy |-> "none", names |-> {}]
Contents == [amount : 0..2, label : {"none", "payout", "exposure"},
             policy : {"none", "current", "superseded"}, names : SUBSET Components]
StrayContent == [Absent EXCEPT !.amount = 1]

ASSUME TreesAssumption == Trees \subseteq [Results -> Contents]
ASSUME BoundAssumption == MaxEdits \in Nat /\ MaxFaults \in Nat

VARIABLES
  tree,      \* the accounting tree: [Results -> Contents]
  dir,       \* the files of the result set: [Names -> Contents]
  partial,   \* the names of which a .partial file exists
  index,     \* index.json: hash of each entry, or the empty function
  manifest,  \* manifests/results.sha256: files and index, or the empty function
  rowsPartial, \* a manifest .partial exists
  at, overwrite, mapping, entries,
  ran,       \* history: the trees that runs have packaged
  edits, faults

packageVars == <<tree, dir, partial, index, manifest, rowsPartial, at, overwrite,
          mapping, entries, ran, edits, faults>>
run == <<at, overwrite, mapping, entries>>

None == <<>>
Present == {f \in Names : dir[f] # Absent}

-----------------------------------------------------------------------------
(* What the packager does to one file. *)

(* The component names that the labels use: the legacy one, or both of the *)
(* split.  The empty sequence stands for the ValueError of every other mix.*)
cross_shard_component_names(names) ==
  IF names = {Legacy} THEN <<Legacy>>
  ELSE IF names = Components \ {Legacy} THEN Split
  ELSE <<>>

(* The renamed keys keep their figure; the "includes" lists are rewritten  *)
(* from the component names (names here).                                  *)
correct_max_rate_labels(value, f) ==
  IF f # "reconciliation" THEN value
  ELSE LET components == cross_shard_component_names(value.names)
       IN  [value EXCEPT !.label = "exposure",
                         !.names = {components[i] : i \in DOMAIN components}]
correct_migration_policy_labels(value, f) ==
  IF f # "reconciliation" THEN value
  ELSE [value EXCEPT !.policy = "superseded"]

(* CSV files are copied, JSON files corrected. *)
Packaged(t, f) ==
  IF f = "table" THEN t[f]
  ELSE correct_migration_policy_labels(correct_max_rate_labels(t[f], f), f)

(* The evidence files are packaged with a split reconciliation, and        *)
(* whenever one of them exists; then both must exist.                      *)
EvidenceExists(t, i) == t[Evidence[i]] # Absent
(* Mutant: the components do not ask for evidence. *)
EvidenceIfAny(t) == \E i \in DOMAIN Evidence : EvidenceExists(t, i)
EvidenceWanted(t) ==
  \/ cross_shard_component_names(t["reconciliation"].names) # <<Legacy>>
  \/ \E i \in DOMAIN Evidence : EvidenceExists(t, i)
EvidenceComplete(t) == \A i \in DOMAIN Evidence : EvidenceExists(t, i)
Accepted(t) ==
  /\ cross_shard_component_names(t["reconciliation"].names) # <<>>
  /\ EvidenceWanted(t) => EvidenceComplete(t)
Mappings(t) ==
  <<"reconciliation">> \o (IF EvidenceWanted(t) THEN Evidence ELSE <<>>) \o <<"table">>

-----------------------------------------------------------------------------
(* package-results.py *)

(* A program ends, normally or not: its local variables are gone. *)
PackageEnded ==
  /\ at' = "idle" /\ overwrite' = FALSE /\ mapping' = <<>> /\ entries' = None

StartPackage ==
  /\ at = "idle"
  /\ tree["reconciliation"] # Absent
  /\ Accepted(tree)
  /\ at' = "write"
  /\ overwrite' \in BOOLEAN
  /\ mapping' = Mappings(tree)
  /\ entries' = None
  /\ ran' = ran \cup {tree}
  /\ UNCHANGED <<tree, dir, partial, index, manifest, rowsPartial, edits, faults>>

(* The run goes on with the next file, or is refused. *)
MayWrite(f) ==
  /\ tree[f] # Absent
  /\ dir[f] = Absent \/ overwrite
  /\ f \notin partial

WritePartial ==
  /\ at = "write" /\ mapping # <<>>
  /\ MayWrite(Head(mapping))
  /\ partial' = partial \cup {Head(mapping)}
  /\ at' = "replace"
  /\ UNCHANGED <<tree, dir, index, manifest, rowsPartial, overwrite, mapping,
                 entries, ran, edits, faults>>

ReplaceTarget ==
  /\ at = "replace"
  /\ LET f == Head(mapping)
     IN  /\ dir' = [dir EXCEPT ![f] = Packaged(tree, f)]
         /\ partial' = partial \ {f}
         /\ entries' = [g \in DOMAIN entries \cup {f} |->
                        IF g = f THEN dir'[f] ELSE entries[g]]
  /\ mapping' = Tail(mapping)
  /\ at' = "write"
  /\ UNCHANGED <<tree, index, manifest, rowsPartial, overwrite, ran, edits, faults>>

WriteIndexPartial ==
  /\ at = "write" /\ mapping = <<>>
  /\ Index \notin partial
  /\ partial' = partial \cup {Index}
  /\ at' = "index"
  /\ UNCHANGED <<tree, dir, index, manifest, rowsPartial, overwrite, mapping,
                 entries, ran, edits, faults>>

ReplaceIndex ==
  /\ at = "index"
  /\ partial' = partial \ {Index}
  /\ index' = entries
  /\ PackageEnded
  /\ UNCHANGED <<tree, dir, manifest, rowsPartial, ran, edits, faults>>

Refused ==
  /\ at = "write"
  /\ IF mapping = <<>> THEN Index \in partial ELSE ~ MayWrite(Head(mapping))
  /\ PackageEnded
  /\ UNCHANGED <<tree, dir, partial, index, manifest, rowsPartial, ran, edits,
                 faults>>

-----------------------------------------------------------------------------
(* update-result-index.py: every file must be JSON with a classification   *)
(* of its provenance; a CSV, a .partial or an unclassified file is an      *)
(* error.  Nothing says that the set belongs to one packaging.             *)
(* Mutant: tables are indexed without a classification. *)
IndexableWithTables(f) == f # Stray
Indexable(f) == f \notin {"table", Stray}
StartIndex ==
  /\ at = "idle"
  /\ partial = {}
  /\ \A f \in Present : Indexable(f)
  /\ entries' = [f \in Present |-> dir[f]]
  /\ partial' = {Index}
  /\ at' = "index"
  /\ UNCHANGED <<tree, dir, index, manifest, rowsPartial, overwrite, mapping,
                 ran, edits, faults>>

(* update-results-manifest.py: the entries' files as they are now, hashed  *)
(* again, and the index itself.                                            *)
StartManifest ==
  /\ at = "idle"
  /\ index # None
  /\ DOMAIN index \subseteq Present
  /\ ~ rowsPartial
  /\ entries' = [f \in DOMAIN index |-> dir[f]]
  /\ rowsPartial' = TRUE
  /\ at' = "manifest"
  /\ UNCHANGED <<tree, dir, partial, index, manifest, overwrite, mapping, ran,
                 edits, faults>>
ReplaceManifest ==
  /\ at = "manifest"
  /\ manifest' = [files |-> entries, index |-> index]
  /\ rowsPartial' = FALSE
  /\ PackageEnded
  /\ UNCHANGED <<tree, dir, partial, index, ran, edits, faults>>

(* verify-results.py, read as a predicate of the files: it writes nothing. *)
IndexAgrees ==
  /\ \A f \in DOMAIN index : dir[f] = index[f]
  /\ Present \subseteq DOMAIN index
  /\ partial = {}
ManifestAgrees ==
  /\ DOMAIN manifest.files = DOMAIN index
  /\ \A f \in DOMAIN manifest.files : dir[f] = manifest.files[f]
  /\ manifest.index = index
VerifyResults ==
  /\ index # None
  /\ IndexAgrees
  /\ manifest # None
  /\ ManifestAgrees

-----------------------------------------------------------------------------
(* The operator, and what goes wrong. *)

(* A program dies; what it has renamed stays, and so does its .partial. *)
Dies ==
  /\ at # "idle"
  /\ faults < MaxFaults
  /\ faults' = faults + 1
  /\ PackageEnded
  /\ UNCHANGED <<tree, dir, partial, index, manifest, rowsPartial, ran, edits>>

(* The accounting tree changes between runs. *)
EditTree ==
  /\ at = "idle"
  /\ edits < MaxEdits
  /\ edits' = edits + 1
  /\ tree' \in Trees \ {tree}
  /\ UNCHANGED <<dir, partial, index, manifest, rowsPartial, run, ran, faults>>

RemovePartials ==
  /\ at = "idle"
  /\ partial # {} \/ rowsPartial
  /\ partial' = {}
  /\ rowsPartial' = FALSE
  /\ UNCHANGED <<tree, dir, index, manifest, run, ran, edits, faults>>

PutByHand ==
  /\ at = "idle"
  /\ faults < MaxFaults
  /\ faults' = faults + 1
  /\ dir' = [dir EXCEPT ![Stray] = StrayContent]
  /\ UNCHANGED <<tree, partial, index, manifest, rowsPartial, run, ran, edits>>

RemoveByHand ==
  /\ at = "idle"
  /\ faults < MaxFaults
  /\ faults' = faults + 1
  /\ \E f \in Present : dir' = [dir EXCEPT ![f] = Absent]
  /\ UNCHANGED <<tree, partial, index, manifest, rowsPartial, run, ran, edits>>

PackageInit ==
  /\ tree \in Trees
  /\ dir = [f \in Names |-> Absent]
  /\ partial = {} /\ rowsPartial = FALSE
  /\ index = None /\ manifest = None
  /\ at = "idle" /\ overwrite = FALSE /\ mapping = <<>> /\ entries = None
  /\ ran = {}
  /\ edits = 0 /\ faults = 0

PackageNext ==
  \/ StartPackage \/ WritePartial \/ ReplaceTarget \/ WriteIndexPartial
  \/ ReplaceIndex \/ Refused \/ StartIndex \/ StartManifest \/ ReplaceManifest
  \/ Dies \/ EditTree \/ RemovePartials \/ PutByHand \/ RemoveByHand

PackageSpec == PackageInit /\ [][PackageNext]_packageVars

-----------------------------------------------------------------------------
(* The types; an index and a manifest name results only, never a file that *)
(* somebody put into the set.                                              *)
PackageTypeOK ==
  /\ tree \in Trees
  /\ dir \in [Names -> Contents]
  /\ partial \subseteq Results \cup {Index}
  /\ index = None \/ \E S \in SUBSET Results : index \in [S -> Contents]
  /\ manifest = None \/ \E S \in SUBSET Results : manifest.files \in [S -> Contents]
  /\ rowsPartial \in BOOLEAN
  /\ at \in {"idle", "write", "replace", "index", "manifest"}
  /\ overwrite \in BOOLEAN
  /\ mapping \in Seq(Results) /\ Len(mapping) <= 4
  /\ \E S \in SUBSET Results : entries \in [S -> Contents]
  /\ ran \subseteq Trees
  /\ edits \in 0..MaxEdits
  /\ faults \in 0..MaxFaults

(* A verified set that holds the table is the package of one accounting    *)
(* tree: exactly the files this tree has, each with its figure and its     *)
(* components.  An overwriting run that dies half way, a file left from an *)
(* earlier package, a file put in by hand and an index rebuilt over such a *)
(* mixture are all rejected (verify-results.py:61-78,                      *)
(* update-result-index.py:43-59).                                          *)
(* The types hold as well.                                                 *)
VerifiedOneRun ==
  /\ PackageTypeOK
  /\ VerifyResults /\ "table" \in Present =>
       \E t \in ran :
         /\ Present = {f \in Results : t[f] # Absent}
         /\ \A f \in Present : /\ dir[f].amount = t[f].amount
                               /\ dir[f].names = t[f].names

(* A verified set whose reconciliation splits the cross-shard component    *)
(* carries both evidence files and names both components                   *)
(* (package-results.py:62-82 and 413-431).                                 *)
EvidenceShipped ==
  VerifyResults /\ {"reconciliation", "table"} \subseteq Present
    /\ Legacy \notin dir["reconciliation"].names =>
    /\ \A i \in DOMAIN Evidence : Evidence[i] \in Present
    /\ \A i \in DOMAIN Split : Split[i] \in dir["reconciliation"].names

=============================================================================
