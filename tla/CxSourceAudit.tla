---------------------------- MODULE CxSourceAudit ----------------------------
(***************************************************************************)
(* toolkit/scripts/forensics/cx-source-audit.py decides, for every receipt *)
(* a source transaction emitted, whether the debit behind it stood, from   *)
(* the stored receipt, a replayed call trace and independent evidence;     *)
(* summarize-cx-source-audit.py adds the published audits up.              *)
(*                                                                         *)
(* The replay is run by a current binary.  It may repeat the execution,    *)
(* reject precompile calls made through DELEGATECALL that once completed   *)
(* (docs/reproduce.md, section 12) while the contracts go on as they did,  *)
(* fail as a whole, or diverge: a contract that sees a call rejected may   *)
(* revert, leave out calls or make others, although the transaction has    *)
(* the same status in the end (docs/methodology.md:166).                   *)
(***************************************************************************)
EXTENDS SourceExecution

CONSTANTS
    MaxAudits,      \* bound: audits published
    MaxWork         \* bound: frames of the transaction and published audits together

ASSUME AuditAssumption == MaxAudits \in Nat /\ MaxWork \in Nat

VARIABLES
    phase,      \* "execute", "ready", "audit", "summary", "failed"
    direct,     \* the transaction is itself a cross-shard transfer
    replay,     \* how the replay relates to the execution
    selected,   \* receipts the filters select
    evidence,   \* independent evidence supplied for each receipt
    done,       \* receipts audited so far
    rows,       \* output rows of the audit in progress
    published,  \* rows of the published audits
    summary     \* totals by final classification, <<>> before

auditVars == <<direct, replay, selected, evidence, done, rows, published, summary>>
sourceVars == <<execVars, phase, auditVars>>

Replay == {"same", "delegate_rejected", "root_failed", "diverged"}
EvidenceStatus == {"none", "absent", "persisted"}
FinalClassification == {"rollback_leak", "source_debit_absent", "valid_source_debit", "unclassified"}
ReplayClassification ==
    {"rollback_leak", "valid_source_debit", "replay_incompatible", "receipt_inconsistent",
     "unclassified", "not_traced"}

Receipt == DOMAIN emitted
AmountSent(i) == frames[emitted[i]].amount

(* receipt_identity: what a receipt shares with a call of the precompile. *)
Identity(i) == [from |-> frames[emitted[i]].sender, amount |-> AmountSent(i)]

(* The stored status of the source transaction. *)
receipt_status == ~frames[1].err

-----------------------------------------------------------------------------
(* The trace *)

TraceError(f) ==
    \/ frames[f].err
    \/ replay = "delegate_rejected" /\ frames[f].pre /\ frames[f].type = "DELEGATECALL"
    \/ replay = "root_failed" /\ f = 1

(* The sender inspect_trace carries down to each call. *)
context_sender ==
    LET sender[f \in DOMAIN frames] ==
            IF f > 1 /\ frames[f].type = "DELEGATECALL" THEN sender[frames[f].parent]
            ELSE frames[f].from
    IN  sender

(* A frame other than the root failed above the call. *)
failed_nonroot_ancestor ==
    LET failed[f \in DOMAIN frames] ==
            f > 1 /\ \/ failed[frames[f].parent]
                     \/ frames[f].parent # 1 /\ TraceError(frames[f].parent)
    IN  failed

payload_matches(f, i) ==
    frames[f].amount = Identity(i).amount /\ context_sender[f] = Identity(i).from

inspect_trace(i) ==
    LET completed == {f \in DOMAIN frames : frames[f].pre /\ ~TraceError(f)}
        matching == {f \in completed : payload_matches(f, i)}
    IN  [completed |-> Cardinality(completed), matching |-> Cardinality(matching),
         failedMatching |-> Cardinality({f \in matching : failed_nonroot_ancestor[f]})]

(* What the trace may show for receipt i.  Of a replay that diverged nothing  *)
(* is known; counts beyond two decide like two.                               *)
Inspections(i) ==
    IF replay # "diverged" THEN {inspect_trace(i)}
    ELSE {found \in [completed : 0..2, matching : 0..2, failedMatching : 0..2] :
             found.failedMatching <= found.matching /\ found.matching <= found.completed}

(* Mutant: one matching call is enough. *)
AnyMatchingCall(found) ==
    IF ~receipt_status THEN "receipt_inconsistent"
    ELSE IF TraceError(1) THEN "replay_incompatible"
    ELSE IF found.matching = 0 THEN "unclassified"
    ELSE IF found.failedMatching >= 1 THEN "rollback_leak" ELSE "valid_source_debit"

classify_replay(found) ==
    IF ~receipt_status THEN "receipt_inconsistent"
    ELSE IF TraceError(1) THEN "replay_incompatible"
    ELSE IF found.completed # 1 \/ found.matching # 1 THEN "unclassified"
    ELSE IF found.failedMatching = 1 THEN "rollback_leak" ELSE "valid_source_debit"

direct_classification == IF direct /\ receipt_status THEN "valid_source_debit" ELSE "none"

replay_classification(found) ==
    IF ~direct THEN classify_replay(found)
    ELSE IF receipt_status THEN "not_traced" ELSE "receipt_inconsistent"

-----------------------------------------------------------------------------
(* resolve_classification *)

replay_final(found) ==
    IF direct_classification # "none" THEN direct_classification ELSE replay_classification(found)

Conflict(i, found) ==
    \/ replay_final(found) = "valid_source_debit" /\ evidence[i] = "absent"
    \/ replay_final(found) = "rollback_leak" /\ evidence[i] = "persisted"

EvidenceClassification(i) ==
    CASE evidence[i] = "absent" -> "source_debit_absent"
      [] evidence[i] = "persisted" -> "valid_source_debit"
      [] OTHER -> "unclassified"

resolve_classification(i, found) ==
    IF replay_final(found) \in {"rollback_leak", "valid_source_debit"}
    THEN replay_final(found) ELSE EvidenceClassification(i)

(* Mutant: evidence on a failed source transaction is accepted. *)
ConflictOnly(i, found) == Conflict(i, found)

(* A row that ends the program: evidence cannot override a failed receipt. *)
Rejected(i, found) == (evidence[i] # "none" /\ ~receipt_status) \/ Conflict(i, found)

OutputRow(i, found) ==
    [receipt |-> i, amount |-> AmountSent(i), class |-> resolve_classification(i, found),
     replayClass |-> replay_classification(found), evidence |-> evidence[i], replay |-> replay]

-----------------------------------------------------------------------------
(* The programs *)

AuditInit ==
    /\ ExecInit
    /\ phase = "execute"
    /\ direct = FALSE
    /\ replay = "same"
    /\ selected = {} /\ evidence = <<>>
    /\ done = 0 /\ rows = {}
    /\ published = <<>> /\ summary = <<>>

Execute ==
    /\ phase = "execute"
    /\ ExecNext
    /\ UNCHANGED <<phase, auditVars>>

(* The canonical receipts of the transaction are exported.  A transfer sent   *)
(* by a plain transaction has one call of the precompile and nothing else.    *)
ExportReceipts ==
    /\ phase = "execute" /\ Executed /\ emitted # <<>>
    /\ phase' = "ready"
    /\ direct' \in {b \in BOOLEAN : b => Len(frames) = 2}
    /\ UNCHANGED <<execVars, replay, selected, evidence, done, rows, published, summary>>

(* load_independent_evidence, the selection of rows and the check that none   *)
(* of them is there twice.                                                    *)
StartAudit(S, e, r) ==
    /\ phase = "ready"
    /\ Len(published) < MaxAudits /\ Len(frames) + Len(published) <= MaxWork
    /\ phase' = "audit"
    /\ selected' = S /\ evidence' = e /\ replay' = r
    /\ done' = 0 /\ rows' = {}
    /\ UNCHANGED <<execVars, direct, published, summary>>

AuditOver ==
    /\ selected' = {} /\ evidence' = <<>>
    /\ done' = 0 /\ rows' = {}
    /\ replay' = "same"

AuditFails ==
    /\ phase' = "failed"
    /\ AuditOver
    /\ UNCHANGED <<execVars, direct, published, summary>>

AuditRow ==
    /\ phase = "audit" /\ done < Len(emitted)
    /\ \E found \in Inspections(done + 1) :
          \/ /\ done + 1 \in selected => ~Rejected(done + 1, found)
             /\ rows' = IF done + 1 \in selected THEN rows \cup {OutputRow(done + 1, found)} ELSE rows
             /\ done' = done + 1
             /\ UNCHANGED <<execVars, phase, direct, replay, selected, evidence, published, summary>>
          \/ /\ done + 1 \in selected /\ Rejected(done + 1, found)
             /\ AuditFails

(* An RPC call fails five times, or its answer is not the transaction's. *)
RpcFails ==
    /\ phase = "audit" /\ done < Len(emitted)
    /\ AuditFails

(* Evidence for a receipt that was not selected stands for all evidence that *)
(* matches no selected one (whichever status it has).                        *)
UnusedEvidence == \E i \in Receipt \ selected : evidence[i] # "none"

(* The output is created, not replaced: an existing file fails too. *)
WriteOutput ==
    /\ phase = "audit" /\ done = Len(emitted)
    /\ \/ /\ ~UnusedEvidence
          /\ phase' = "ready"
          /\ published' = Append(published, rows)
          /\ AuditOver
          /\ UNCHANGED <<execVars, direct, summary>>
       \/ AuditFails

Total(R) == SumFunction([row \in R |-> row.amount])

AllRows == UNION {published[k] : k \in DOMAIN published}

(* Mutant: a receipt in two audits is added twice. *)
SummarizeAll ==
    /\ phase = "ready" /\ published # <<>>
    /\ summary' = [c \in FinalClassification |->
            SumFunction([k \in DOMAIN published |-> Total({row \in published[k] : row.class = c})])]
    /\ phase' = "summary"
    /\ UNCHANGED <<execVars, direct, replay, selected, evidence, done, rows, published>>

Duplicate == \E j, k \in DOMAIN published : j < k /\
    {row.receipt : row \in published[j]} \cap {row.receipt : row \in published[k]} # {}

(* summarize-cx-source-audit.py: classify. *)
Summarize ==
    /\ phase = "ready" /\ published # <<>>
    /\ IF Duplicate THEN AuditFails
       ELSE /\ summary' = [c \in FinalClassification |-> Total({row \in AllRows : row.class = c})]
            /\ phase' = "summary"
            /\ UNCHANGED <<execVars, direct, replay, selected, evidence, done, rows, published>>

unbacked_cross_shard_credit == summary["rollback_leak"] + summary["source_debit_absent"]

AuditEnded == (phase \in {"summary", "failed"} \/ (phase = "execute" /\ Executed /\ emitted = <<>>)) /\ UNCHANGED sourceVars

AuditNext ==
    \/ Execute
    \/ ExportReceipts
    \/ \E S \in SUBSET Receipt, e \in [Receipt -> EvidenceStatus], r \in Replay :
          /\ \A i \in Receipt \ S : e[i] # "persisted"
          /\ StartAudit(S, e, r)
    \/ AuditRow \/ RpcFails \/ WriteOutput
    \/ Summarize
    \/ AuditEnded

AuditSpec == AuditInit /\ [][AuditNext]_sourceVars

-----------------------------------------------------------------------------
(* Properties *)

Frame ==
    [parent : 0..MaxFrames, type : CallType, from : Account, err : BOOLEAN, pre : BOOLEAN,
     amount : Amount \cup {0}, self : Account, sender : Account]

Row ==
    [receipt : 1..MaxFrames, amount : Amount, class : FinalClassification,
     replayClass : ReplayClassification, evidence : EvidenceStatus, replay : Replay]

(* The truth the audit is about: the debit behind the receipt stands. *)
DebitStands(i) == emitted[i] \in debits

TrueEvidence(row) ==
    /\ row.evidence = "absent" => ~DebitStands(row.receipt)
    /\ row.evidence = "persisted" => DebitStands(row.receipt)

(* The replay tells of the receipt: it repeated the execution, or failed, or  *)
(* lost calls and no other receipt has the sender and amount of this one, so  *)
(* that a lost call is not mistaken for another.                              *)
Repeats(row) ==
    \/ direct
    \/ row.replay \in {"same", "root_failed"}
    \/ /\ row.replay = "delegate_rejected"
       /\ \A j \in Receipt : Identity(j) = Identity(row.receipt) => j = row.receipt

(* What a row rests on is right: its evidence where it has one, else the      *)
(* replay alone.                                                              *)
Trusted(row) == IF row.evidence = "none" THEN Repeats(row) ELSE TrueEvidence(row)

(* The types of the execution and of the audits: every published row carries  *)
(* one of the four final classifications.                                     *)
AuditTypeOK ==
    /\ frames \in Seq(Frame) /\ stack \in Seq(1..MaxFrames)
    /\ debits \subseteq 1..MaxFrames /\ emitted \in Seq(1..MaxFrames)
    /\ phase \in {"execute", "ready", "audit", "summary", "failed"}
    /\ direct \in BOOLEAN /\ replay \in Replay
    /\ selected \subseteq Receipt /\ done \in 0..Len(emitted)
    /\ rows \subseteq Row /\ published \in Seq(SUBSET Row) /\ Len(published) <= MaxAudits
    /\ summary = <<>> \/ summary \in [FinalClassification -> Nat]

(* A row that rests on what is right says what happened: a leak or an absent  *)
(* debit only where the debit was undone, a valid debit only where it stands. *)
(* True evidence is enough whatever the replay did, also when it diverged and *)
(* its trace says the opposite; the types hold as well.                       *)
ReplaySound ==
    /\ AuditTypeOK
    /\ \A row \in AllRows : Trusted(row) =>
           /\ row.class \in {"rollback_leak", "source_debit_absent"} => ~DebitStands(row.receipt)
           /\ row.class = "valid_source_debit" => DebitStands(row.receipt)

(* A receipt of a transaction whose stored status is failed is published      *)
(* without a verdict, and no evidence can give it one.                        *)
FailedNeverResolved ==
    ~receipt_status => \A row \in AllRows : row.class = "unclassified" /\ row.evidence = "none"

(* The unbacked credit of the summary is bracketed by the truth when every    *)
(* row rests on what is right: never more than what was credited without a    *)
(* debit, and with the unclassified amount never less.                        *)
UnbackedBracketed ==
    phase = "summary" /\ (\A row \in AllRows : Trusted(row)) =>
        LET unbacked == Total({row \in AllRows : ~DebitStands(row.receipt)})
        IN  /\ unbacked_cross_shard_credit <= unbacked
            /\ unbacked <= unbacked_cross_shard_credit + summary["unclassified"]
=============================================================================
