--------------------------- MODULE CutoffInterval ---------------------------
(***************************************************************************)
(* canonical-interval-audit.py reads the blocks between two cutoffs by     *)
(* number, chunk after chunk, over RPC, while the chain of the node that   *)
(* answers grows and is rolled back. It publishes a table of material      *)
(* blocks, a table of transactions and, last, a summary.                   *)
(* verify-pending-receipts.py then carries the list of pending receipts    *)
(* over to the new cutoff. Either may fail or be killed at any point, and  *)
(* leftover files may be removed by hand before another attempt.           *)
(***************************************************************************)
EXTENDS Integers, Sequences, FiniteSets

CONSTANTS Start, End,  \* the first and the last block of the interval
          ChunkSize,   \* blocks asked for in one call
          Receipts,    \* receipts to this shard, pending at block Start - 1
          MaxBlocks,   \* bound on the blocks ever created
          MaxRuns      \* bound on the runs of the interval audit

ASSUME IntervalAssumption ==
  /\ Start \in Nat /\ End \in Nat /\ 2 <= Start /\ Start <= End
  /\ ChunkSize \in Nat \ {0} /\ MaxBlocks \in Nat /\ MaxRuns \in Nat
ASSUME GenesisAssumption == MaxBlocks >= 1

VARIABLES chain,    \* the canonical chain of the node, by block number
          created,  \* every block ever created: a hash names one of them
          pc, seg,  \* the audit: its place, the blocks read with the predecessor
          runs, files,
          summary,  \* the contents of the summary file
          stable,   \* history: no block up to End was undone since the reading
                    \* whose summary the pending receipts are checked with
          pending,  \* verify-pending-receipts: its place
          checked   \* the receipts it has looked up

auditVars == <<pc, seg, runs, files, summary>>
pendingVars == <<pending, checked>>
vars == <<chain, created, stable, auditVars, pendingVars>>

Bodies == {"none", "reward", "cross", "precompile", "early"} \cup Receipts
Outputs == {"material", "transactions", "summary"}

(* A block. Its hash is its id, and names its parent too. "early" stands   *)
(* for a timestamp before the parent's, a receipt for its consumption.     *)
Block(id, parent, body) ==
  [number |-> parent.number + 1, id |-> id, parent |-> parent.id, body |-> body,
   root |-> parent.root + (IF body \in {"none", "early"} THEN 0 ELSE 1)]

Genesis == [number |-> 1, id |-> 0, parent |-> 0, body |-> "none", root |-> 0]

(* The node.                                                               *)
Consumed(c) == {c[i].body : i \in 1..Len(c)} \cap Receipts

NewBlock(body) ==
  /\ Cardinality(created) < MaxBlocks
  /\ body \notin Consumed(chain)
  /\ LET b == Block(Cardinality(created), chain[Len(chain)], body)
     IN  chain' = Append(chain, b) /\ created' = created \cup {b}
  /\ UNCHANGED <<stable, auditVars, pendingVars>>

Readopt(b) ==
  /\ b.parent = chain[Len(chain)].id
  /\ b.number = Len(chain) + 1
  /\ chain' = Append(chain, b)
  /\ UNCHANGED <<created, stable, auditVars, pendingVars>>

Rollback ==
  /\ Len(chain) > 1
  /\ chain' = SubSeq(chain, 1, Len(chain) - 1)
  /\ stable' = (stable /\ Len(chain) > End)
  /\ UNCHANGED <<created, auditVars, pendingVars>>

(* The interval audit.                                                     *)
Absent == [st |-> "absent", run |-> 0]
SetFiles(os, s) == [o \in Outputs |-> IF o \in os THEN [st |-> s, run |-> runs] ELSE files[o]]

(* Mutant: a summary left by an earlier run is not looked for.             *)
TablesAbsent == files["material"].st = "absent" /\ files["transactions"].st = "absent"

Untouched == \A o \in Outputs : files[o].st = "absent"

StartRun ==
  /\ pc = "idle" /\ runs < MaxRuns
  /\ Untouched
  /\ pc' = "predecessor" /\ runs' = runs + 1 /\ seg' = <<>>
  /\ stable' = (stable /\ pending # "idle")
  /\ UNCHANGED <<chain, created, files, summary, pendingVars>>

ReadPredecessor ==
  /\ pc = "predecessor"
  /\ Start - 1 <= Len(chain)
  /\ seg' = <<chain[Start - 1]>>
  /\ files' = SetFiles({"material", "transactions"}, "partial")
  /\ pc' = "reading"
  /\ UNCHANGED <<chain, created, stable, runs, summary, pendingVars>>

NextNumber == Start - 1 + Len(seg)
ChunkEnd == IF NextNumber + ChunkSize - 1 < End THEN NextNumber + ChunkSize - 1 ELSE End

(* Mutant: the parent hash is not compared.                                *)
NumberedOnly(s, chunk) ==
  \A i \in 1..Len(chunk) :
    chunk[i].number = Start - 1 + Len(s) + i - 1 /\ chunk[i].body # "early"

(* Every block has the next number, the hash before it as its parent and a *)
(* timestamp not before its predecessor's.                                 *)
Linked(s, chunk) ==
  \A i \in 1..Len(chunk) :
    /\ chunk[i].number = Start - 1 + Len(s) + i - 1
    /\ chunk[i].parent = IF i = 1 THEN s[Len(s)].id ELSE chunk[i - 1].id
    /\ chunk[i].body # "early"

ReadChunk ==
  LET chunk == SubSeq(chain, NextNumber, ChunkEnd)
  IN  /\ pc = "reading"
      /\ ChunkEnd <= Len(chain)
      /\ Linked(seg, chunk)
      /\ seg' = seg \o chunk
      /\ pc' = IF ChunkEnd = End THEN "rename" ELSE "reading"
      /\ stable' = IF pending = "idle" THEN ChunkEnd = End ELSE stable
      /\ UNCHANGED <<chain, created, runs, files, summary, pendingVars>>

RenameMaterial ==
  /\ pc = "rename"
  /\ files' = SetFiles({"material"}, "final")
  /\ pc' = "rename transactions"
  /\ UNCHANGED <<chain, created, stable, seg, runs, summary, pendingVars>>

RenameTransactions ==
  /\ pc = "rename transactions"
  /\ files' = SetFiles({"transactions"}, "final")
  /\ pc' = "first hash"
  /\ UNCHANGED <<chain, created, stable, seg, runs, summary, pendingVars>>

(* A block is material when it changes the state or carries anything.      *)
Material(previous, b) ==
  b.root # previous.root \/ b.body \notin {"none", "reward", "early"}

(* Only signed transactions are looked at: a receipt made by the           *)
(* cross-shard precompile is not a cross-shard transaction.                *)
CrossShard(b) == b.body = "cross"

(* The first hash is asked for again, after the files are in place.        *)
WriteSummary ==
  /\ pc = "first hash"
  /\ Start <= Len(chain)
  /\ summary' = [run |-> runs, first_hash |-> chain[Start].id, last_hash |-> seg[Len(seg)].id,
                 start |-> Start, end |-> End,
                 material |-> {i \in 2..Len(seg) : Material(seg[i - 1], seg[i])},
                 cross_shard_transactions |-> Cardinality({i \in 2..Len(seg) : CrossShard(seg[i])})]
  /\ files' = SetFiles({"summary"}, "partial")
  /\ pc' = "rename summary"
  /\ UNCHANGED <<chain, created, stable, seg, runs, pendingVars>>

RenameSummary ==
  /\ pc = "rename summary"
  /\ files' = SetFiles({"summary"}, "final")
  /\ pc' = "idle"
  /\ UNCHANGED <<chain, created, stable, seg, runs, summary, pendingVars>>

(* A call fails for good, a check fails, or a file cannot be written. The  *)
(* handler removes what is still partial; the predecessor is read before   *)
(* there is a handler.                                                     *)
RunFails ==
  /\ pc # "idle"
  /\ pc' = "idle" /\ seg' = <<>>
  /\ files' = [o \in Outputs |-> IF files[o].st = "partial" THEN Absent ELSE files[o]]
  /\ UNCHANGED <<chain, created, stable, runs, summary, pendingVars>>

Kill ==
  /\ pc # "idle"
  /\ pc' = "idle" /\ seg' = <<>>
  /\ UNCHANGED <<chain, created, stable, runs, files, summary, pendingVars>>

(* What a refused run names is removed by hand.                            *)
RemoveByHand(o) ==
  /\ pc = "idle" /\ files[o].st # "absent"
  /\ files' = [files EXCEPT ![o] = Absent]
  /\ UNCHANGED <<chain, created, stable, pc, seg, runs, summary, pendingVars>>

(* verify-pending-receipts.                                                *)
StartPending ==
  /\ pending = "idle"
  /\ files["summary"].st = "final"
  /\ summary.start = Start /\ summary.end = End
  /\ summary.cross_shard_transactions = 0
  /\ pending' = "looking" /\ checked' = {}
  /\ UNCHANGED <<chain, created, stable, auditVars>>

(* Mutant: a receipt consumed in the cutoff block counts as pending.       *)
ConsumedBefore(r, n) == \E i \in 1..Len(chain) : chain[i].body = r /\ chain[i].number < n

ConsumedBy(r, n) == \E i \in 1..Len(chain) : chain[i].body = r /\ chain[i].number <= n

Lookup(r) ==
  /\ pending = "looking" /\ r \notin checked
  /\ IF ConsumedBy(r, End) THEN pending' = "idle" /\ checked' = {}
                           ELSE pending' = pending /\ checked' = checked \cup {r}
  /\ UNCHANGED <<chain, created, stable, auditVars>>

PendingFails ==
  /\ pending = "looking"
  /\ pending' = "idle" /\ checked' = {}
  /\ UNCHANGED <<chain, created, stable, auditVars>>

PublishPending ==
  /\ pending = "looking" /\ checked = Receipts
  /\ pending' = "published"
  /\ UNCHANGED <<chain, created, stable, auditVars, checked>>

Init ==
  /\ chain = <<Genesis>> /\ created = {Genesis} /\ stable = FALSE
  /\ pc = "idle" /\ seg = <<>> /\ runs = 0 /\ files = [o \in Outputs |-> Absent]
  /\ summary = [run |-> 0]
  /\ pending = "idle" /\ checked = {}

Next ==
  \/ \E body \in Bodies : NewBlock(body)
  \/ \E b \in created : Readopt(b)
  \/ Rollback
  \/ StartRun \/ ReadPredecessor \/ ReadChunk \/ RenameMaterial \/ RenameTransactions
  \/ WriteSummary \/ RenameSummary \/ RunFails \/ Kill
  \/ \E o \in Outputs : RemoveByHand(o)
  \/ StartPending \/ PendingFails \/ PublishPending
  \/ \E r \in Receipts : Lookup(r)

Spec == Init /\ [][Next]_vars
-----------------------------------------------------------------------------
Complete == Len(seg) = End - Start + 2

(* The blocks read so far all stay canonical as long as the last one does. *)
LinkedPrefix ==
  \A k \in 1..Len(seg) :
    /\ Start - 2 + k <= Len(chain)
    /\ chain[Start - 2 + k] = seg[k]
    => \A j \in 1..k : chain[Start - 2 + j] = seg[j]

(* Chunks read at different moments, with rollbacks between them, are the  *)
(* canonical interval of one instant: the detailed reading implements the  *)
(* atomic one.                                                             *)
Snapshot == INSTANCE IntervalSnapshot
              WITH snapshot <- IF Complete THEN seg ELSE <<>>
ReadsOneChain == Snapshot!Spec

(* The types; block i of the chain has number i, and no block beyond the   *)
(* end of the interval is ever read.                                       *)
TypeOK ==
  /\ Len(chain) \in 1..MaxBlocks
  /\ \A i \in 1..Len(chain) : chain[i] \in created /\ chain[i].number = i
  /\ pc \in {"idle", "predecessor", "reading", "rename", "rename transactions", "first hash",
             "rename summary"}
  /\ Len(seg) <= End - Start + 2
  /\ files \in [Outputs -> [st : {"absent", "partial", "final"}, run : 0..MaxRuns]]
  /\ checked \subseteq Receipts

(* A summary never stands beside tables of another run: its hashes are     *)
(* those of the files next to it, whatever was killed, failed or removed.  *)
(* The types hold as well.                                                 *)
SummaryDescribesTables ==
  /\ TypeOK
  /\ (\A o \in Outputs : files[o].st = "final")
       => \A o \in Outputs : files[o].run = summary.run

TruePending ==
  (Receipts \ Consumed(SubSeq(chain, 1, End)))
    \cup {i \in Start..End : chain[i].body \in {"cross", "precompile"}}

(* The pending list carried over to the new cutoff is the true one, when   *)
(* the audited blocks stay canonical and no receipt came from a precompile.*)
PendingExact ==
  pending = "published" /\ stable
    /\ (\A i \in Start..End : chain[i].body # "precompile")
    => TruePending = Receipts

=============================================================================
