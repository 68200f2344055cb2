-------------------------- MODULE CrossShardProofs --------------------------
(***************************************************************************)
(* The proofs of two components that share no state: the supply in flight  *)
(* between shards (CrossShardSupply) and the audit of the source debits of *)
(* receipts (CxSourceAudit).                                               *)
(***************************************************************************)
EXTENDS CrossShardSupply, CxSourceAudit, SumTheorems, TLAPS

-----------------------------------------------------------------------------
(***************************************************************************)
(* PublishedExact holds for every set of transactions and retired shards   *)
(* and every value of the bounds.  The argument: what a destination index  *)
(* says of a transaction can be trusted, because a lookup entry whose hash *)
(* is still canonical was written by the block that applied the group      *)
(* (IndexSound), every applied group is completely indexed and marked      *)
(* (AppliedIndexed), and a transaction belongs to one canonical group      *)
(* (TxUnique).  With these the verdict on a group is exact (VerdictExact), *)
(* and the tally is the image of the groups already scanned (TallySound, *)
(* TallyComplete).                                                         *)
(***************************************************************************)

(* Blocks, groups and entries carry hashes handed out before. *)
HashesUsed ==
    /\ \A s \in Active : \A n \in DOMAIN chain[s] : chain[s][n].hash < created
    /\ \A s \in Active : \A g \in groups[s] : g.hash < created
    /\ \A d \in Active : \A t \in Tx : lookup[d][t].hash < created

GroupsPlaced ==
    \A s \in Active : \A g \in groups[s] :
        g.src = s /\ g.dst # s /\ g.num \in 1..MaxHeight

IndexSound ==
    \A d \in Active : \A t \in Tx :
        /\ lookup[d][t].num \in DOMAIN chain[d]
        /\ chain[d][lookup[d][t].num].hash = lookup[d][t].hash
        => \E g \in chain[d][lookup[d][t].num].incoming : t \in TxsOf(g)

AppliedIndexed ==
    \A d \in Active : \A n \in DOMAIN chain[d] : \A g \in chain[d][n].incoming :
        /\ g \in groups[1 - d] /\ g.dst = d /\ Canonical(g)
        /\ <<g.src, g.num>> \in marker[d]
        /\ \A t \in TxsOf(g) : lookup[d][t] = [num |-> n, hash |-> chain[d][n].hash]

TxUnique ==
    \A s1, s2 \in Active : \A g1 \in groups[s1], g2 \in groups[s2] :
        Canonical(g1) /\ Canonical(g2) /\ TxsOf(g1) \cap TxsOf(g2) # {} => g1 = g2

CutReached == \A s \in Active : cut[s] <= Len(chain[s])

MarkersKept == \A d \in Active : \A n \in 1..MaxHeight : fault[<<"spent", d, n>>] # "missing"

DbInv ==
    /\ HashesUsed /\ GroupsPlaced /\ IndexSound /\ AppliedIndexed
    /\ TxUnique /\ CutReached

(* What the counter a group is in says of the group. *)
Counted(o, g) ==
    CASE o = "pending" -> g.dst \in Active /\ ~AppliedByCutoff(g)
      [] o = "spent" -> g.dst \in Active /\ AppliedByCutoff(g)
      [] o = "unsupported" -> g.dst \notin Active
      [] OTHER -> TRUE

ClaimCounters == {"pending", "spent", "unsupported"}

TallySound ==
    \A o \in ClaimCounters : \A g \in tally[o] :
        g \in AllClaimed /\ Counted(o, g)

TallyComplete ==
    pc \in {"scan", "published"} =>
        \A s \in Active : s <= dir =>
            \A g \in Claimed(s) : (s = dir /\ g \in todo) \/ \E o \in ClaimCounters : g \in tally[o]

ScanInv ==
    /\ MarkersKept /\ TallySound /\ TallyComplete
    /\ pc \in {"live", "cold"} => todo = {} /\ \A o \in Outcome : tally[o] = {}
    /\ pc = "published" => dir = 1 /\ todo = {}

IInv == TypeOK /\ DbInv /\ ScanInv

-----------------------------------------------------------------------------
(* The verdict on a group *)

(* A read of a canonical hash that comes back "found" names a block of the   *)
(* chain, whatever fault the key has.                                        *)
LEMMA CanonicalRead ==
    ASSUME NEW s \in Active, NEW n \in Nat, readCanonicalHash(s, n) = "found"
    PROVE  n \in DOMAIN chain[s]
  BY DEF readCanonicalHash, readOptional, Stored

(* A lookup that passes all checks of the receipt loop is a canonical entry  *)
(* at or below the cutoff.                                                   *)
LEMMA SpentReceipt ==
    ASSUME TypeOK, NEW g \in Group, g.dst \in Active, NEW i \in DOMAIN g.txs,
           ReceiptVerdict(g, i) = "spent"
    PROVE  LET e == lookup[g.dst][g.txs[i]]
           IN  /\ e.num \in DOMAIN chain[g.dst] /\ e.num <= cut[g.dst]
               /\ chain[g.dst][e.num].hash = e.hash
  <1> DEFINE e == lookup[g.dst][g.txs[i]]
  <1>1. g.txs[i] \in Tx /\ e \in Entry /\ e.num \in Nat /\ cut[g.dst] \in Nat
    BY DEF TypeOK, Group, Entry
  <1>2. e.num <= cut[g.dst] /\ CanonicalCheck(g.dst, e.num, e.hash) = "canonical"
    <2> DEFINE r == readOptional(<<"lookup", g.dst, g.txs[i]>>, e # Absent)
               c == CanonicalCheck(g.dst, e.num, e.hash)
               split == i > 1 /\ e.num # lookup[g.dst][g.txs[i - 1]].num
    <2>1. MissingLookup(g) # "spent"
      BY DEF MissingLookup
    <2>2. c \in {"abort", "noncanonical", "canonical"}
      BY DEF CanonicalCheck
    <2> HIDE DEF r, c
    <2>3. ReceiptVerdict(g, i) =
            IF r = "absent" THEN MissingLookup(g)
            ELSE IF r # "found" THEN "abort"
            ELSE IF e.num > cut[g.dst] THEN "pending"
            ELSE IF c = "abort" THEN "abort"
            ELSE IF c = "noncanonical" THEN "pending"
            ELSE IF split THEN "abort" ELSE "spent"
      BY Zenon DEF ReceiptVerdict, r, c
    <2> HIDE DEF e, split
    <2>4. c = "canonical" /\ ~(e.num > cut[g.dst])
      BY <2>1, <2>2, <2>3
    <2> QED BY <1>1, <2>4 DEF c
  <1>3. readCanonicalHash(g.dst, e.num) = "found" /\ chain[g.dst][e.num].hash = e.hash
    BY <1>2 DEF CanonicalCheck
  <1>4. e.num \in DOMAIN chain[g.dst]
    BY <1>1, <1>3, CanonicalRead
  <1> QED BY <1>2, <1>3, <1>4

(* A receipt of a group applied by the cutoff is never judged pending: its   *)
(* entry is the applying block's, and if the entry is lost its marker is not. *)
LEMMA AppliedReceipt ==
    ASSUME TypeOK, DbInv, MarkersKept, NEW s \in Active, NEW g \in groups[s],
           g.dst \in Active, AppliedByCutoff(g), NEW i \in DOMAIN g.txs
    PROVE  ReceiptVerdict(g, i) # "pending"
  <1> DEFINE t == g.txs[i]
             e == lookup[g.dst][t]
  <1>0. g \in Group /\ t \in Tx /\ t \in TxsOf(g) /\ cut[g.dst] \in Nat
    BY DEF TypeOK, Group, TxsOf
  <1>1. PICK n \in 1..cut[g.dst] : n \in DOMAIN chain[g.dst] /\ g \in chain[g.dst][n].incoming
    BY DEF AppliedByCutoff, AppliedIn
  <1>2. e = [num |-> n, hash |-> chain[g.dst][n].hash] /\ <<g.src, g.num>> \in marker[g.dst]
    BY <1>0, <1>1 DEF DbInv, AppliedIndexed
  <1>3. n \in Nat /\ n > 0 /\ n <= cut[g.dst] /\ e.num = n /\ e # Absent
    BY <1>0, <1>1, <1>2 DEF Absent
  <1>4. fault[<<"spent", g.dst, g.num>>] # "missing"
    BY DEF MarkersKept, DbInv, GroupsPlaced
  <1>5. MissingLookup(g) = "abort"
    BY <1>2, <1>4 DEF MissingLookup, readOptional, Stored
  <1>6. CanonicalCheck(g.dst, e.num, e.hash) # "noncanonical"
    BY <1>2, <1>3 DEF CanonicalCheck
  <1>7. ~(e.num > cut[g.dst])
    BY <1>0, <1>3
  <1> DEFINE r == readOptional(<<"lookup", g.dst, t>>, e # Absent)
  <1> HIDE DEF r
  <1>8. ReceiptVerdict(g, i) =
          IF r = "absent" THEN MissingLookup(g)
          ELSE IF r # "found" THEN "abort"
          ELSE IF e.num > cut[g.dst] THEN "pending"
          ELSE IF CanonicalCheck(g.dst, e.num, e.hash) = "abort" THEN "abort"
          ELSE IF CanonicalCheck(g.dst, e.num, e.hash) = "noncanonical" THEN "pending"
          ELSE IF i > 1 /\ e.num # lookup[g.dst][g.txs[i - 1]].num THEN "abort" ELSE "spent"
    BY Zenon DEF ReceiptVerdict, r
  <1> HIDE DEF e
  <1> QED BY <1>5, <1>6, <1>7, <1>8

(* The receipt loop decides exactly whether the group was applied. *)
LEMMA SpentVerdictExact ==
    ASSUME TypeOK, DbInv, MarkersKept, NEW s \in Active, NEW g \in Claimed(s),
           g.dst \in Active
    PROVE  /\ SpentVerdict(g) \in {"spent", "pending", "abort"}
           /\ SpentVerdict(g) = "spent" => AppliedByCutoff(g)
           /\ SpentVerdict(g) = "pending" => ~AppliedByCutoff(g)
  <1>0. g \in groups[s] /\ g \in Group /\ Canonical(g) /\ g.txs # <<>>
    BY DEF Claimed, TypeOK
  <1>1. SpentVerdict(g) \in {"spent", "pending", "abort"}
    BY DEF SpentVerdict
  <1>2. ASSUME SpentVerdict(g) = "spent" PROVE AppliedByCutoff(g)
    <2>1. \A i \in DOMAIN g.txs : ReceiptVerdict(g, i) = "spent"
      BY <1>2 DEF SpentVerdict
    <2>2. 1 \in DOMAIN g.txs
      BY <1>0 DEF Group
    <2> DEFINE t == g.txs[1]
               e == lookup[g.dst][t]
    <2>3. t \in Tx /\ t \in TxsOf(g)
      BY <1>0, <2>2 DEF Group, TxsOf
    <2>4. /\ e.num \in DOMAIN chain[g.dst] /\ e.num <= cut[g.dst]
          /\ chain[g.dst][e.num].hash = e.hash
      BY <1>0, <2>1, <2>2, SpentReceipt
    <2>5. PICK h \in chain[g.dst][e.num].incoming : t \in TxsOf(h)
      BY <2>3, <2>4 DEF DbInv, IndexSound
    <2>6. h \in groups[1 - g.dst] /\ Canonical(h)
      BY <2>4, <2>5 DEF DbInv, AppliedIndexed
    <2>61. 1 - g.dst \in Active
      BY DEF Active
    <2>7. h = g
      BY <1>0, <2>3, <2>5, <2>6, <2>61 DEF DbInv, TxUnique
    <2>8. e.num \in 1..cut[g.dst]
      <3>1. chain[g.dst] \in Seq(Block) /\ cut[g.dst] \in Nat
        BY DEF TypeOK
      <3>2. DOMAIN chain[g.dst] \subseteq Nat \ {0}
        BY <3>1
      <3> HIDE DEF e
      <3> QED BY <2>4, <3>1, <3>2
    <2> QED BY <2>4, <2>5, <2>7, <2>8 DEF AppliedByCutoff, AppliedIn
  <1>3. ASSUME SpentVerdict(g) = "pending" PROVE ~AppliedByCutoff(g)
    <2>1. \E i \in DOMAIN g.txs : ReceiptVerdict(g, i) = "pending"
      BY <1>3 DEF SpentVerdict
    <2> QED BY <1>0, <2>1, AppliedReceipt
  <1> QED BY <1>1, <1>2, <1>3

(* The counter a scanned group goes to says the truth about the group, and a *)
(* claimed group goes to one of the three claim counters or aborts the scan. *)
LEMMA VerdictExact ==
    ASSUME TypeOK, DbInv, MarkersKept, NEW s \in Active, NEW g \in groups[s]
    PROVE  /\ Verdict(g) \in Outcome \cup {"abort"}
           /\ Verdict(g) \in ClaimCounters => g \in Claimed(s) /\ Counted(Verdict(g), g)
           /\ g \in Claimed(s) /\ Verdict(g) # "abort" => Verdict(g) \in ClaimCounters
  <1>0. g \in Group /\ g.src = s /\ g.num \in Nat /\ cut[s] \in Nat
    BY DEF TypeOK, Group, DbInv, GroupsPlaced
  <1>1. CanonicalCheck(g.src, g.num, g.hash) = "canonical" => Canonical(g)
    BY <1>0, CanonicalRead DEF CanonicalCheck, Canonical
  <1>2. Canonical(g) => CanonicalCheck(g.src, g.num, g.hash) # "noncanonical"
    BY <1>0 DEF CanonicalCheck, Canonical
  <1>3. CanonicalCheck(g.src, g.num, g.hash) \in {"abort", "noncanonical", "canonical"}
    BY DEF CanonicalCheck
  <1>4. CASE g \in Claimed(s)
    <2>1. g.txs # <<>> /\ g.num <= cut[g.src]
      BY <1>0, <1>4 DEF Claimed
    <2>2. Verdict(g) = "abort" \/ Verdict(g) = IF g.dst \in Active THEN SpentVerdict(g) ELSE "unsupported"
      BY <1>0, <1>2, <1>3, <1>4, <2>1 DEF Verdict, Claimed
    <2>3. CASE g.dst \in Active
      BY <1>4, <2>2, <2>3, SpentVerdictExact DEF Outcome, ClaimCounters, Counted
    <2>4. CASE g.dst \notin Active
      BY <1>4, <2>2, <2>4 DEF Outcome, ClaimCounters, Counted
    <2> QED BY <2>3, <2>4
  <1>5. CASE g \notin Claimed(s)
    <2>1. g.txs = <<>> \/ g.num > cut[g.src] \/ ~Canonical(g)
      BY <1>0, <1>5 DEF Claimed
    <2>2. Verdict(g) \in {"empty", "after", "abort", "noncanonical"}
      BY <1>0, <1>1, <1>3, <2>1 DEF Verdict
    <2> QED BY <1>5, <2>2 DEF Outcome, ClaimCounters
  <1> QED BY <1>4, <1>5

-----------------------------------------------------------------------------
(* Blocks *)

(* What a new block changes: the chain of its shard grows by it. *)
Grown(s, inc) ==
    /\ chain' \in [Active -> Seq(Block)]
    /\ Len(chain[s]) \in Nat /\ Len(chain[s]) + 1 \in 1..MaxHeight
    /\ Len(chain'[s]) = Len(chain[s]) + 1
    /\ \A r \in Active : r # s => chain'[r] = chain[r]
    /\ \A r \in Active : \A n \in DOMAIN chain[r] :
          n \in DOMAIN chain'[r] /\ chain'[r][n] = chain[r][n]
    /\ \A r \in Active : \A n \in DOMAIN chain'[r] :
          n \in DOMAIN chain[r] \/ (r = s /\ n = Len(chain[s]) + 1)
    /\ Len(chain[s]) + 1 \notin DOMAIN chain[s] /\ Len(chain[s]) + 1 \in DOMAIN chain'[s]
    /\ chain'[s][Len(chain[s]) + 1].hash = created
    /\ chain'[s][Len(chain[s]) + 1].incoming = inc
    /\ created \in Nat /\ created' = created + 1

(* Every block is appended to the canonical chain of its shard only. *)
LEMMA BlockAdded ==
    ASSUME TypeOK, NEW s \in Active, NEW inc \in SUBSET Group, NewBlock(s, inc)
    PROVE  Grown(s, inc)
  <1> DEFINE b == [hash |-> created, incoming |-> inc]
  <1>1. created \in Nat /\ b \in Block /\ chain[s] \in Seq(Block)
    BY DEF TypeOK, Block
  <1>2. /\ chain' = [chain EXCEPT ![s] = Append(chain[s], b)]
        /\ created' = created + 1 /\ Len(chain[s]) < MaxHeight
    BY DEF NewBlock
  <1>3. chain \in [Active -> Seq(Block)] /\ MaxHeight \in Nat
    BY DatabaseAssumption DEF TypeOK
  <1>4. chain'[s] = Append(chain[s], b) /\ \A r \in Active : r # s => chain'[r] = chain[r]
    BY <1>2, <1>3
  <1> HIDE DEF b
  <1>5. /\ Append(chain[s], b) \in Seq(Block)
        /\ Len(Append(chain[s], b)) = Len(chain[s]) + 1
        /\ \A n \in 1..Len(chain[s]) : Append(chain[s], b)[n] = chain[s][n]
        /\ Append(chain[s], b)[Len(chain[s]) + 1] = b
    BY <1>1
  <1>6. DOMAIN chain[s] = 1..Len(chain[s]) /\ Len(chain[s]) \in Nat
    BY <1>1
  <1>7. DOMAIN Append(chain[s], b) = 1..(Len(chain[s]) + 1)
    BY <1>1
  <1>8. chain' \in [Active -> Seq(Block)]
    BY <1>2, <1>3, <1>5
  <1> QED BY <1>1, <1>2, <1>3, <1>4, <1>5, <1>6, <1>7, <1>8 DEF b, Grown

(* A new block does not make an older group canonical or noncanonical: its   *)
(* hash is new.                                                              *)
LEMMA CanonicalKept ==
    ASSUME TypeOK, HashesUsed, NEW s \in Active, NEW inc \in SUBSET Group, NewBlock(s, inc),
           NEW r \in Active, NEW g \in groups[r]
    PROVE  Canonical(g)' <=> Canonical(g)
  <1>1. g \in Group /\ g.src \in Active /\ g.hash \in Nat /\ g.hash < created
    BY DEF TypeOK, Group, HashesUsed
  <1>g. Grown(s, inc)
    BY BlockAdded
  <1>2. CASE g.src # s
    BY <1>1, <1>2, <1>g DEF Canonical, Grown
  <1>3. CASE g.src = s
    <2>1. g.num = Len(chain[s]) + 1 => chain'[s][g.num].hash = created /\ g.hash # created
      BY <1>1, <1>g DEF Grown
    <2>2. g.num \in DOMAIN chain[s] => g.num \in DOMAIN chain'[s] /\ chain'[s][g.num] = chain[s][g.num]
      BY <1>g DEF Grown
    <2>3. g.num \in DOMAIN chain'[s] => g.num \in DOMAIN chain[s] \/ g.num = Len(chain[s]) + 1
      BY <1>g DEF Grown
    <2> QED BY <1>3, <2>1, <2>2, <2>3 DEF Canonical
  <1> QED BY <1>2, <1>3

(* The hashes of a longer chain are still older than the next one. *)
LEMMA GrownHashes ==
    ASSUME TypeOK, HashesUsed, NEW s \in Active, NEW inc, Grown(s, inc)
    PROVE  \A r \in Active : \A n \in DOMAIN chain'[r] : chain'[r][n].hash < created'
  <1> SUFFICES ASSUME NEW r \in Active, NEW n \in DOMAIN chain'[r]
               PROVE  chain'[r][n].hash < created'
    OBVIOUS
  <1>1. CASE n \in DOMAIN chain[r]
    <2>1. chain'[r][n] = chain[r][n] /\ chain[r] \in Seq(Block)
      BY <1>1 DEF Grown, TypeOK
    <2>2. chain[r][n] \in Block
      BY <1>1, <2>1
    <2>3. chain[r][n].hash < created /\ chain[r][n].hash \in Nat
      BY <1>1, <2>2 DEF HashesUsed, Block
    <2> QED BY <2>1, <2>3 DEF Grown
  <1>2. CASE n \notin DOMAIN chain[r]
    BY <1>2 DEF Grown
  <1> QED BY <1>1, <1>2

(* A cutoff below the head stays below it when the chain grows.              *)
LEMMA GrownCut ==
    ASSUME TypeOK, CutReached, NEW s \in Active, NEW inc, Grown(s, inc), cut' = cut
    PROVE  CutReached'
  <1> SUFFICES ASSUME NEW r \in Active PROVE cut[r] <= Len(chain'[r])
    BY DEF CutReached
  <1>1. cut[r] \in Nat /\ cut[r] <= Len(chain[r])
    BY DEF TypeOK, CutReached
  <1> QED BY <1>1 DEF Grown

-----------------------------------------------------------------------------
(* Type correctness *)

(* The groups a block may emit are sequences of transactions.                *)
LEMMA TxSeqsType ==
    ASSUME NEW txs \in TxSeqs PROVE txs \in Seq(Tx)
  <1>1. PICK n \in 1..MaxGroup : txs \in [1..n -> Tx]
    BY DEF TxSeqs
  <1> QED BY <1>1, DatabaseAssumption

(* The group a new block stores is a well-formed group.                      *)
LEMMA NewGroupType ==
    ASSUME TypeOK, NEW s \in Active, NEW d \in Shard, NEW txs \in Seq(Tx)
    PROVE  NewGroup(s, d, txs) \in Group
  BY DEF TypeOK, NewGroup, Group

(* Every step of the node keeps the types of the databases.                  *)
LEMMA DbTypeStep ==
    ASSUME TypeOK, DbNext, UNCHANGED scanVars, pc = "live", todo = {}
    PROVE  TypeOK'
  <1> USE DEF scanVars
  <1>1. ASSUME NEW s \in Active, NEW d \in Shard, NEW txs \in Seq(Tx), NewBlock(s, {}),
               groups' = [groups EXCEPT ![s] = @ \cup {NewGroup(s, d, txs)}],
               UNCHANGED <<lookup, marker, cut>>
        PROVE  TypeOK'
    <2>1. groups' \in [Active -> SUBSET Group]
      BY <1>1, NewGroupType DEF TypeOK
    <2>g. Grown(s, {})
      BY <1>1, BlockAdded
    <2>2. chain' \in [Active -> Seq(Block)] /\ created' \in Nat
      BY <2>g DEF Grown
    <2>3. \A r \in Active : Len(chain'[r]) \in 1..MaxHeight
      BY <2>g DEF TypeOK, Grown
    <2> QED BY <1>1, <2>1, <2>2, <2>3 DEF TypeOK
  <1>2. ASSUME NEW s \in Active, NEW d \in Shard, NEW txs \in TxSeqs, EmitReceipts(s, d, txs)
        PROVE  TypeOK'
    BY <1>1, <1>2, TxSeqsType DEF EmitReceipts
  <1>3. ASSUME NEW s \in Active, EmitNothing(s) PROVE TypeOK'
    <2>1. 1 - s \in Shard /\ <<>> \in Seq(Tx)
      BY DEF Shard, Active
    <2> QED BY <1>1, <1>3, <2>1 DEF EmitNothing
  <1>4. ASSUME NEW d \in Active, NEW g \in groups[1 - d], ApplyReceipts(d, g) PROVE TypeOK'
    <2>1. g \in Group /\ {g} \in SUBSET Group /\ NewBlock(d, {g})
      BY <1>4 DEF TypeOK, Active, ApplyReceipts
    <2>g. Grown(d, {g})
      BY <2>1, BlockAdded
    <2>2. chain' \in [Active -> Seq(Block)] /\ created' \in Nat /\ Len(chain[d]) + 1 \in Nat
      BY <2>g DEF Grown
    <2>3. \A r \in Active : Len(chain'[r]) \in 1..MaxHeight
      BY <2>g DEF TypeOK, Grown
    <2>4. [num |-> Len(chain[d]) + 1, hash |-> created] \in Entry
      BY <2>2 DEF TypeOK, Entry
    <2>5. lookup' \in [Active -> [Tx -> Entry]]
      BY <1>4, <2>4 DEF ApplyReceipts, TypeOK
    <2>6. marker' \in [Active -> SUBSET (Active \X Nat)]
      BY <1>4, <2>1 DEF ApplyReceipts, TypeOK, Group
    <2> QED BY <1>4, <2>2, <2>3, <2>5, <2>6 DEF ApplyReceipts, TypeOK
  <1>5. ASSUME NEW s \in Active, Rollback(s) PROVE TypeOK'
    <2>1. /\ chain[s] \in Seq(Block) /\ Len(chain[s]) \in 2..MaxHeight
          /\ chain' = [chain EXCEPT ![s] = SubSeq(chain[s], 1, Len(chain[s]) - 1)]
      BY <1>5, DatabaseAssumption DEF Rollback, TypeOK
    <2>2. /\ SubSeq(chain[s], 1, Len(chain[s]) - 1) \in Seq(Block)
          /\ Len(SubSeq(chain[s], 1, Len(chain[s]) - 1)) = Len(chain[s]) - 1
      BY <2>1, DatabaseAssumption
    <2>3. Len(chain[s]) - 1 \in 1..MaxHeight
      BY <2>1, DatabaseAssumption
    <2> QED BY <1>5, <2>1, <2>2, <2>3 DEF Rollback, TypeOK
  <1>6. ASSUME TakeCutoff PROVE TypeOK'
    BY <1>6 DEF TakeCutoff, TypeOK
  <1> QED BY <1>2, <1>3, <1>4, <1>5, <1>6 DEF DbNext

-----------------------------------------------------------------------------
(* The databases keep DbInv *)

(* A block that emits a group of receipts for another shard. *)
LEMMA EmitKeepsDbInv ==
    ASSUME TypeOK, DbInv, NEW s \in Active, NEW d \in Shard, NEW txs \in Seq(Tx),
           s # d, \A i \in DOMAIN txs : txs[i] \notin UsedTx, NewBlock(s, {}),
           groups' = [groups EXCEPT ![s] = @ \cup {NewGroup(s, d, txs)}],
           UNCHANGED <<lookup, marker, cut>>
    PROVE  DbInv'
  <1> DEFINE ng == NewGroup(s, d, txs)
  <1>g. Grown(s, {})
    BY BlockAdded
  <1>1. /\ ng \in Group /\ ng.src = s /\ ng.dst = d /\ ng.num = Len(chain[s]) + 1
        /\ ng.hash = created /\ ng.txs = txs
    BY NewGroupType DEF NewGroup
  <1> HIDE DEF ng
  <1>2. /\ \A r \in Active : groups[r] \subseteq groups'[r]
        /\ \A r \in Active : \A g \in groups'[r] : g \in groups[r] \/ (r = s /\ g = ng)
    BY DEF TypeOK, ng
  <1>3. \A r \in Active : \A g \in groups[r] : Canonical(g)' <=> Canonical(g)
    BY CanonicalKept DEF DbInv
  <1>4. HashesUsed'
    <2>1. \A r \in Active : \A n \in DOMAIN chain'[r] : chain'[r][n].hash < created'
      BY <1>g, GrownHashes DEF DbInv
    <2>2. \A r \in Active : \A g \in groups'[r] : g.hash < created'
      <3> SUFFICES ASSUME NEW r \in Active, NEW g \in groups'[r] PROVE g.hash < created'
        OBVIOUS
      <3>1. CASE g \in groups[r]
        <4>1. g.hash \in Nat /\ g.hash < created
          BY <3>1 DEF DbInv, HashesUsed, TypeOK, Group
        <4> QED BY <1>g, <4>1 DEF Grown
      <3>2. CASE g = ng
        BY <1>g, <1>1, <3>2 DEF Grown
      <3> QED BY <1>2, <3>1, <3>2
    <2>3. \A r \in Active : \A t \in Tx : lookup'[r][t].hash < created'
      <3> SUFFICES ASSUME NEW r \in Active, NEW t \in Tx PROVE lookup[r][t].hash < created'
        OBVIOUS
      <3>1. lookup[r][t].hash \in Nat /\ lookup[r][t].hash < created
        BY DEF DbInv, HashesUsed, TypeOK, Entry
      <3> QED BY <1>g, <3>1 DEF Grown
    <2> QED BY <2>1, <2>2, <2>3 DEF HashesUsed
  <1>5. GroupsPlaced'
    <2>1. ng.src = s /\ ng.dst # s /\ ng.num \in 1..MaxHeight
      BY <1>g, <1>1 DEF Grown
    <2> QED BY <1>2, <2>1 DEF DbInv, GroupsPlaced
  <1>6. IndexSound'
    <2> SUFFICES ASSUME NEW r \in Active, NEW t \in Tx,
                        lookup[r][t].num \in DOMAIN chain'[r],
                        chain'[r][lookup[r][t].num].hash = lookup[r][t].hash
                 PROVE  \E g \in chain'[r][lookup[r][t].num].incoming : t \in TxsOf(g)
      BY DEF IndexSound, TxsOf
    <2>1. lookup[r][t].hash < created /\ lookup[r][t].hash \in Nat
      BY DEF DbInv, HashesUsed, TypeOK, Entry
    <2>2. lookup[r][t].num \in DOMAIN chain[r] /\ chain'[r][lookup[r][t].num] = chain[r][lookup[r][t].num]
      BY <1>g, <2>1 DEF Grown
    <2> QED BY <2>2 DEF DbInv, IndexSound
  <1>7. AppliedIndexed'
    <2> SUFFICES ASSUME NEW r \in Active, NEW n \in DOMAIN chain'[r],
                        NEW g \in chain'[r][n].incoming
                 PROVE  /\ g \in groups'[1 - r] /\ g.dst = r /\ Canonical(g)'
                        /\ <<g.src, g.num>> \in marker'[r]
                        /\ \A t \in TxsOf(g) : lookup'[r][t] = [num |-> n, hash |-> chain'[r][n].hash]
      BY Zenon DEF AppliedIndexed, TxsOf
    <2>1. n \in DOMAIN chain[r] /\ chain'[r][n] = chain[r][n]
      BY <1>g DEF Grown
    <2>2. /\ g \in groups[1 - r] /\ g.dst = r /\ Canonical(g)
          /\ <<g.src, g.num>> \in marker[r]
          /\ \A t \in TxsOf(g) : lookup[r][t] = [num |-> n, hash |-> chain[r][n].hash]
      BY <2>1 DEF DbInv, AppliedIndexed
    <2>3. 1 - r \in Active
      BY DEF Active
    <2> QED BY <1>2, <1>3, <2>1, <2>2, <2>3
  <1>8. TxUnique'
    <2>1. ASSUME NEW r \in Active, NEW g \in groups[r], Canonical(g)
          PROVE  TxsOf(g) \cap TxsOf(ng) = {}
      <3>1. g \in groups[0] \cup groups[1]
        BY <2>1 DEF Active
      <3>2. TxsOf(g) \subseteq UsedTx
        BY <2>1, <3>1 DEF UsedTx
      <3> QED BY <1>1, <3>2 DEF TxsOf
    <2> SUFFICES ASSUME NEW s1 \in Active, NEW s2 \in Active,
                        NEW g1 \in groups'[s1], NEW g2 \in groups'[s2],
                        Canonical(g1)', Canonical(g2)', TxsOf(g1) \cap TxsOf(g2) # {}
                 PROVE  g1 = g2
      BY DEF TxUnique, TxsOf
    <2>2. (g1 \in groups[s1] /\ Canonical(g1)) \/ g1 = ng
      BY <1>2, <1>3
    <2>3. (g2 \in groups[s2] /\ Canonical(g2)) \/ g2 = ng
      BY <1>2, <1>3
    <2>4. TxsOf(g2) \cap TxsOf(g1) # {}
      OBVIOUS
    <2>5. CASE g1 \in groups[s1] /\ Canonical(g1) /\ g2 \in groups[s2] /\ Canonical(g2)
      BY <2>5 DEF DbInv, TxUnique
    <2> QED BY <2>1, <2>2, <2>3, <2>4, <2>5
  <1>9. CutReached'
    BY <1>g, GrownCut DEF DbInv
  <1> QED BY <1>4, <1>5, <1>6, <1>7, <1>8, <1>9 DEF DbInv

(* A block that applies a group.  No other applied group shares its           *)
(* transactions, so no index entry that is still needed is overwritten.       *)
LEMMA ApplyKeepsDbInv ==
    ASSUME TypeOK, DbInv, NEW d \in Active, NEW g \in groups[1 - d], ApplyReceipts(d, g)
    PROVE  DbInv'
  <1> DEFINE new == [num |-> Len(chain[d]) + 1, hash |-> created]
  <1>1. /\ g \in Group /\ {g} \in SUBSET Group /\ NewBlock(d, {g}) /\ 1 - d \in Active
        /\ g.dst = d /\ Canonical(g) /\ ~Applied(g) /\ groups' = groups /\ cut' = cut
    BY DEF TypeOK, Active, ApplyReceipts
  <1>g. Grown(d, {g})
    BY <1>1, BlockAdded
  <1>2. /\ \A r \in Active : \A t \in Tx : r # d \/ t \notin TxsOf(g) => lookup'[r][t] = lookup[r][t]
        /\ \A t \in Tx : t \in TxsOf(g) => lookup'[d][t] = new
    BY DEF ApplyReceipts, TypeOK
  <1>3. /\ \A r \in Active : marker[r] \subseteq marker'[r]
        /\ <<g.src, g.num>> \in marker'[d]
    BY DEF ApplyReceipts, TypeOK
  <1>4. \A r \in Active : \A h \in groups[r] : Canonical(h)' <=> Canonical(h)
    BY <1>1, CanonicalKept DEF DbInv
  <1>5. new.num = Len(chain[d]) + 1 /\ new.hash = created
    OBVIOUS
  <1>6. HashesUsed'
    <2>1. \A r \in Active : \A n \in DOMAIN chain'[r] : chain'[r][n].hash < created'
      BY <1>g, GrownHashes DEF DbInv
    <2>2. \A r \in Active : \A h \in groups'[r] : h.hash < created'
      <3> SUFFICES ASSUME NEW r \in Active, NEW h \in groups[r] PROVE h.hash < created'
        BY <1>1
      <3>1. h.hash \in Nat /\ h.hash < created
        BY DEF DbInv, HashesUsed, TypeOK, Group
      <3> QED BY <1>g, <3>1 DEF Grown
    <2>3. \A r \in Active : \A t \in Tx : lookup'[r][t].hash < created'
      <3> SUFFICES ASSUME NEW r \in Active, NEW t \in Tx PROVE lookup'[r][t].hash < created'
        OBVIOUS
      <3>1. lookup[r][t].hash \in Nat /\ lookup[r][t].hash < created
        BY DEF DbInv, HashesUsed, TypeOK, Entry
      <3> QED BY <1>2, <1>5, <1>g, <3>1 DEF Grown
    <2> QED BY <2>1, <2>2, <2>3 DEF HashesUsed
  <1>7. GroupsPlaced'
    BY <1>1 DEF DbInv, GroupsPlaced
  <1>8. IndexSound'
    <2> SUFFICES ASSUME NEW r \in Active, NEW t \in Tx,
                        lookup'[r][t].num \in DOMAIN chain'[r],
                        chain'[r][lookup'[r][t].num].hash = lookup'[r][t].hash
                 PROVE  \E h \in chain'[r][lookup'[r][t].num].incoming : t \in TxsOf(h)
      BY DEF IndexSound, TxsOf
    <2>1. CASE r = d /\ t \in TxsOf(g)
      <3>1. lookup'[r][t].num = Len(chain[d]) + 1
        BY <1>2, <1>5, <2>1
      <3> QED BY <1>g, <2>1, <3>1 DEF Grown
    <2>2. CASE r # d \/ t \notin TxsOf(g)
      <3>1. lookup'[r][t] = lookup[r][t]
        BY <1>2, <2>2
      <3>2. lookup[r][t].hash < created /\ lookup[r][t].hash \in Nat
        BY DEF DbInv, HashesUsed, TypeOK, Entry
      <3>3. /\ lookup[r][t].num \in DOMAIN chain[r]
            /\ chain'[r][lookup[r][t].num] = chain[r][lookup[r][t].num]
        BY <1>g, <3>1, <3>2 DEF Grown
      <3> QED BY <3>1, <3>3 DEF DbInv, IndexSound
    <2> QED BY <2>1, <2>2
  <1>9. AppliedIndexed'
    <2> SUFFICES ASSUME NEW r \in Active, NEW n \in DOMAIN chain'[r],
                        NEW h \in chain'[r][n].incoming
                 PROVE  /\ h \in groups'[1 - r] /\ h.dst = r /\ Canonical(h)'
                        /\ <<h.src, h.num>> \in marker'[r]
                        /\ \A t \in TxsOf(h) : lookup'[r][t] = [num |-> n, hash |-> chain'[r][n].hash]
      BY Zenon DEF AppliedIndexed, TxsOf
    <2>1. CASE n \in DOMAIN chain[r]
      <3>1. chain'[r][n] = chain[r][n] /\ h \in chain[r][n].incoming
        BY <1>g, <2>1 DEF Grown
      <3>2. /\ h \in groups[1 - r] /\ h.dst = r /\ Canonical(h)
            /\ <<h.src, h.num>> \in marker[r]
            /\ \A t \in TxsOf(h) : lookup[r][t] = [num |-> n, hash |-> chain[r][n].hash]
        BY <2>1, <3>1 DEF DbInv, AppliedIndexed
      <3>3. 1 - r \in Active
        BY DEF Active
      <3>4. r = d => TxsOf(h) \cap TxsOf(g) = {}
        <4> SUFFICES ASSUME r = d, TxsOf(h) \cap TxsOf(g) # {} PROVE FALSE
          OBVIOUS
        <4>1. h = g
          BY <1>1, <3>2 DEF DbInv, TxUnique
        <4> QED BY <1>1, <2>1, <3>1, <4>1 DEF Applied, AppliedIn
      <3>5. TxsOf(h) \subseteq Tx
        <4>1. h \in Group
          BY <3>2, <3>3 DEF TypeOK
        <4> QED BY <4>1 DEF Group, TxsOf
      <3>6. \A t \in TxsOf(h) : lookup'[r][t] = lookup[r][t]
        BY <1>2, <3>4, <3>5
      <3> QED BY <1>1, <1>3, <1>4, <3>1, <3>2, <3>3, <3>6
    <2>2. CASE n \notin DOMAIN chain[r]
      <3>1. r = d /\ n = Len(chain[d]) + 1 /\ h = g /\ chain'[r][n].hash = created
        BY <1>g, <2>2 DEF Grown
      <3>2. TxsOf(g) \subseteq Tx
        BY <1>1 DEF Group, TxsOf
      <3>3. \A t \in TxsOf(h) : lookup'[r][t] = [num |-> n, hash |-> chain'[r][n].hash]
        BY <1>2, <3>1, <3>2
      <3> QED BY <1>1, <1>3, <1>4, <3>1, <3>3
    <2> QED BY <2>1, <2>2
  <1>10. TxUnique'
    <2> SUFFICES ASSUME NEW s1 \in Active, NEW s2 \in Active,
                        NEW g1 \in groups[s1], NEW g2 \in groups[s2],
                        Canonical(g1)', Canonical(g2)', TxsOf(g1) \cap TxsOf(g2) # {}
                 PROVE  g1 = g2
      BY <1>1 DEF TxUnique, TxsOf
    <2> QED BY <1>4 DEF DbInv, TxUnique
  <1>11. CutReached'
    BY <1>1, <1>g, GrownCut DEF DbInv
  <1> QED BY <1>6, <1>7, <1>8, <1>9, <1>10, <1>11 DEF DbInv

(* A rollback forgets a block whose receipts nobody applied. *)
LEMMA RollbackKeepsDbInv ==
    ASSUME TypeOK, DbInv, NEW s \in Active, Rollback(s)
    PROVE  DbInv'
  <1> DEFINE k == Len(chain[s])
  <1>1. /\ chain[s] \in Seq(Block) /\ k \in Nat /\ k > 1 /\ k > cut[s] /\ cut[s] \in Nat
        /\ chain \in [Active -> Seq(Block)]
        /\ chain' = [chain EXCEPT ![s] = SubSeq(chain[s], 1, k - 1)]
        /\ UNCHANGED <<groups, lookup, marker, created, cut>>
    BY DatabaseAssumption DEF Rollback, TypeOK
  <1>2. /\ Len(SubSeq(chain[s], 1, k - 1)) = k - 1
        /\ DOMAIN SubSeq(chain[s], 1, k - 1) = 1..(k - 1)
        /\ \A n \in 1..(k - 1) : SubSeq(chain[s], 1, k - 1)[n] = chain[s][n]
    BY <1>1
  <1>3. \A r \in Active : \A n \in DOMAIN chain'[r] : n \in DOMAIN chain[r] /\ chain'[r][n] = chain[r][n]
    BY <1>1, <1>2
  <1>4. \A r \in Active : \A n \in DOMAIN chain[r] : n \in DOMAIN chain'[r] \/ (r = s /\ n = k)
    BY <1>1, <1>2
  <1>5. \A r \in Active : \A g \in groups[r] : Canonical(g)' => Canonical(g)
    <2> SUFFICES ASSUME NEW r \in Active, NEW g \in groups[r], Canonical(g)' PROVE Canonical(g)
      OBVIOUS
    <2>1. g.src \in Active
      BY DEF TypeOK, Group
    <2> QED BY <1>3, <2>1 DEF Canonical
  <1>6. HashesUsed'
    <2>1. \A r \in Active : \A n \in DOMAIN chain'[r] : chain'[r][n].hash < created
      BY <1>3 DEF DbInv, HashesUsed
    <2> QED BY <1>1, <2>1 DEF DbInv, HashesUsed
  <1>7. GroupsPlaced'
    BY <1>1 DEF DbInv, GroupsPlaced
  <1>8. IndexSound'
    <2> SUFFICES ASSUME NEW r \in Active, NEW t \in Tx,
                        lookup[r][t].num \in DOMAIN chain'[r],
                        chain'[r][lookup[r][t].num].hash = lookup[r][t].hash
                 PROVE  \E h \in chain'[r][lookup[r][t].num].incoming : t \in TxsOf(h)
      BY <1>1 DEF IndexSound, TxsOf
    <2> QED BY <1>3 DEF DbInv, IndexSound
  <1>9. AppliedIndexed'
    <2> SUFFICES ASSUME NEW r \in Active, NEW n \in DOMAIN chain'[r],
                        NEW h \in chain'[r][n].incoming
                 PROVE  /\ h \in groups'[1 - r] /\ h.dst = r /\ Canonical(h)'
                        /\ <<h.src, h.num>> \in marker'[r]
                        /\ \A t \in TxsOf(h) : lookup'[r][t] = [num |-> n, hash |-> chain'[r][n].hash]
      BY Zenon DEF AppliedIndexed, TxsOf
    <2>1. n \in DOMAIN chain[r] /\ chain'[r][n] = chain[r][n] /\ h \in chain[r][n].incoming
      BY <1>3
    <2>2. /\ h \in groups[1 - r] /\ h.dst = r /\ Canonical(h)
          /\ <<h.src, h.num>> \in marker[r]
          /\ \A t \in TxsOf(h) : lookup[r][t] = [num |-> n, hash |-> chain[r][n].hash]
      BY <2>1 DEF DbInv, AppliedIndexed
    <2>3. Canonical(h)'
      <3>1. 1 - r \in Active /\ h.src = 1 - r /\ h.num \in DOMAIN chain[1 - r]
        BY <2>2 DEF Active, DbInv, GroupsPlaced, Canonical
      <3>2. Applied(h)
        BY <2>1, <2>2 DEF Applied, AppliedIn
      <3>3. ~(1 - r = s /\ h.num = k)
        BY <2>2, <3>2 DEF Rollback
      <3>4. h.num \in DOMAIN chain'[1 - r] /\ chain'[1 - r][h.num] = chain[1 - r][h.num]
        BY <1>3, <1>4, <3>1, <3>3
      <3> QED BY <2>2, <3>1, <3>4 DEF Canonical
    <2> QED BY <1>1, <2>1, <2>2, <2>3
  <1>10. TxUnique'
    <2> SUFFICES ASSUME NEW s1 \in Active, NEW s2 \in Active,
                        NEW g1 \in groups[s1], NEW g2 \in groups[s2],
                        Canonical(g1)', Canonical(g2)', TxsOf(g1) \cap TxsOf(g2) # {}
                 PROVE  g1 = g2
      BY <1>1 DEF TxUnique, TxsOf
    <2> QED BY <1>5 DEF DbInv, TxUnique
  <1>11. CutReached'
    <2>1. \A r \in Active : r # s => chain'[r] = chain[r]
      BY <1>1
    <2>2. Len(chain'[s]) = k - 1
      BY <1>1, <1>2
    <2> QED BY <1>1, <2>1, <2>2 DEF DbInv, CutReached
  <1> QED BY <1>6, <1>7, <1>8, <1>9, <1>10, <1>11 DEF DbInv

(* The database invariant speaks of the databases only: the cutoff, once it  *)
(* is taken, and steps that leave chains and indexes alone keep it.          *)
LEMMA SameChains ==
    ASSUME UNCHANGED <<chain, groups, lookup, marker>>
    PROVE  (AppliedIndexed => AppliedIndexed') /\ (TxUnique => TxUnique')
  <1>1. \A g : Canonical(g)' <=> Canonical(g)
    BY DEF Canonical
  <1>2. ASSUME AppliedIndexed PROVE AppliedIndexed'
    <2> SUFFICES ASSUME NEW r \in Active, NEW n \in DOMAIN chain'[r],
                        NEW h \in chain'[r][n].incoming
                 PROVE  /\ h \in groups'[1 - r] /\ h.dst = r /\ Canonical(h)'
                        /\ <<h.src, h.num>> \in marker'[r]
                        /\ \A t \in TxsOf(h) : lookup'[r][t] = [num |-> n, hash |-> chain'[r][n].hash]
      BY Zenon DEF AppliedIndexed, TxsOf
    <2> QED BY <1>1, <1>2 DEF AppliedIndexed
  <1>3. ASSUME TxUnique PROVE TxUnique'
    <2> SUFFICES ASSUME NEW s1 \in Active, NEW s2 \in Active,
                        NEW g1 \in groups[s1], NEW g2 \in groups[s2],
                        Canonical(g1)', Canonical(g2)', TxsOf(g1) \cap TxsOf(g2) # {}
                 PROVE  g1 = g2
      BY DEF TxUnique, TxsOf
    <2> QED BY <1>1, <1>3 DEF TxUnique
  <1> QED BY <1>2, <1>3

(* Every step of the node keeps the database invariant.                      *)
LEMMA DbInvStep ==
    ASSUME TypeOK, DbInv, DbNext
    PROVE  DbInv'
  <1>1. ASSUME NEW s \in Active, NEW d \in Shard, NEW txs \in TxSeqs, s # d, EmitReceipts(s, d, txs)
        PROVE  DbInv'
    BY <1>1, TxSeqsType, EmitKeepsDbInv DEF EmitReceipts
  <1>2. ASSUME NEW s \in Active, EmitNothing(s) PROVE DbInv'
    <2>1. 1 - s \in Shard /\ s # 1 - s /\ <<>> \in Seq(Tx) /\ \A i \in DOMAIN <<>> : <<>>[i] \notin UsedTx
      BY DEF Shard, Active
    <2> QED BY <1>2, <2>1, EmitKeepsDbInv DEF EmitNothing
  <1>3. ASSUME TakeCutoff PROVE DbInv'
    <2>2. CutReached'
      BY <1>3 DEF TakeCutoff, CutReached, TypeOK
    <2>3. HashesUsed' /\ GroupsPlaced' /\ IndexSound'
      BY <1>3 DEF TakeCutoff, DbInv, HashesUsed, GroupsPlaced, IndexSound, TxsOf
    <2>4. AppliedIndexed' /\ TxUnique'
      BY <1>3, SameChains DEF TakeCutoff, DbInv
    <2> QED BY <2>2, <2>3, <2>4 DEF DbInv
  <1> QED BY <1>1, <1>2, <1>3, ApplyKeepsDbInv, RollbackKeepsDbInv DEF DbNext

-----------------------------------------------------------------------------
(* The scan *)

(* Once the node is stopped nothing the scan reports on changes. *)
LEMMA ColdDatabase ==
    ASSUME UNCHANGED dbVars
    PROVE  /\ DbInv => DbInv'
           /\ \A s \in Active : Claimed(s)' = Claimed(s)
           /\ AllClaimed' = AllClaimed
           /\ \A o, g : Counted(o, g)' <=> Counted(o, g)
  <1> USE DEF dbVars
  <1>1. \A g : Canonical(g)' <=> Canonical(g)
    BY DEF Canonical
  <1>2. \A g : AppliedByCutoff(g)' <=> AppliedByCutoff(g)
    BY DEF AppliedByCutoff, AppliedIn
  <1>3. DbInv => DbInv'
    <2> SUFFICES ASSUME DbInv PROVE DbInv'
      OBVIOUS
    <2>1. HashesUsed' /\ GroupsPlaced' /\ IndexSound' /\ CutReached'
      BY DEF DbInv, HashesUsed, GroupsPlaced, IndexSound, CutReached, TxsOf
    <2>2. AppliedIndexed' /\ TxUnique'
      BY SameChains DEF DbInv
    <2> QED BY <2>1, <2>2 DEF DbInv
  <1>4. \A s \in Active : Claimed(s)' = Claimed(s)
    BY <1>1 DEF Claimed
  <1>5. AllClaimed' = AllClaimed
    BY <1>4 DEF AllClaimed, Active
  <1>6. \A o, g : Counted(o, g)' <=> Counted(o, g)
    BY <1>2 DEF Counted
  <1> QED BY <1>3, <1>4, <1>5, <1>6

(* Init establishes the invariant. *)
LEMMA InitIInv == Init => IInv
  <1> SUFFICES ASSUME Init PROVE IInv
    OBVIOUS
  <1> USE DEF Init, DbInit
  <1>1. TypeOK
    <2>1. chain \in [Active -> Seq(Block)]
      BY DEF Block
    <2>2. \A s \in Active : Len(chain[s]) \in 1..MaxHeight
      BY DatabaseAssumption
    <2>3. lookup \in [Active -> [Tx -> Entry]]
      BY DEF Absent, Entry
    <2>4. fault \in [Key -> FaultKind] /\ tally \in [Outcome -> SUBSET Group]
      BY DEF FaultKind
    <2> QED BY <2>1, <2>2, <2>3, <2>4 DEF TypeOK, Active
  <1>2. DbInv
    <2>1. HashesUsed /\ GroupsPlaced /\ TxUnique /\ AppliedIndexed
      BY DEF HashesUsed, GroupsPlaced, TxUnique, AppliedIndexed, Absent
    <2>2. IndexSound
      BY DEF IndexSound, Absent
    <2>3. CutReached
      BY DEF CutReached
    <2> QED BY <2>1, <2>2, <2>3 DEF DbInv
  <1>3. ScanInv
    <2>1. MarkersKept
      BY DEF MarkersKept, Key, SpentKey
    <2>2. \A o \in Outcome : tally[o] = {}
      OBVIOUS
    <2> QED BY <2>1, <2>2 DEF ScanInv, TallySound, TallyComplete, ClaimCounters, Outcome
  <1> QED BY <1>1, <1>2, <1>3 DEF IInv

(* Every step of the scanner and of its environment keeps it. *)
LEMMA NextIInv == IInv /\ [Next]_vars => IInv'
  <1> SUFFICES ASSUME IInv, [Next]_vars PROVE IInv'
    OBVIOUS
  <1>0. TypeOK /\ DbInv /\ ScanInv
    BY DEF IInv
  <1>1. CASE pc = "live" /\ DbNext /\ UNCHANGED scanVars
    <2>1. todo = {} /\ \A o \in Outcome : tally[o] = {}
      BY <1>0, <1>1 DEF ScanInv
    <2>2. TypeOK' /\ DbInv'
      BY <1>0, <1>1, <2>1, DbTypeStep, DbInvStep
    <2>3. ScanInv'
      BY <1>0, <1>1, <2>1 DEF ScanInv, MarkersKept, TallySound, TallyComplete, ClaimCounters,
                              Outcome, scanVars
    <2> QED BY <2>2, <2>3 DEF IInv
  <1>2. CASE StopNode
    <2>1. TypeOK' /\ DbInv'
      BY <1>0, <1>2, ColdDatabase DEF StopNode, TypeOK, dbVars
    <2>2. ScanInv'
      BY <1>0, <1>2 DEF StopNode, ScanInv, MarkersKept, TallySound, TallyComplete, ClaimCounters,
                        Outcome
    <2> QED BY <2>1, <2>2 DEF IInv
  <1>3. ASSUME NEW key \in Key, NEW f \in Damage(key), DamageKey(key, f) PROVE IInv'
    <2>1. f \in FaultKind
      BY DEF Damage, FaultKind
    <2>2. TypeOK' /\ DbInv'
      BY <1>0, <1>3, <2>1, ColdDatabase DEF DamageKey, TypeOK, dbVars
    <2>3. key \in SpentKey => f # "missing"
      BY DEF Damage, SpentKey, GroupKey
    <2>4. MarkersKept'
      <3> SUFFICES ASSUME NEW d \in Active, NEW n \in 1..MaxHeight
                   PROVE  fault'[<<"spent", d, n>>] # "missing"
        BY DEF MarkersKept
      <3>1. <<"spent", d, n>> \in SpentKey /\ <<"spent", d, n>> \in Key
        BY DEF SpentKey, Key
      <3> QED BY <1>0, <1>3, <2>3, <3>1 DEF DamageKey, TypeOK, ScanInv, MarkersKept
    <2>5. ScanInv'
      BY <1>0, <1>3, <2>4 DEF DamageKey, ScanInv, TallySound, TallyComplete, ClaimCounters, Outcome
    <2> QED BY <2>2, <2>5 DEF IInv
  <1>4. CASE StartScan
    <2>0. UNCHANGED dbVars /\ pc = "cold" /\ pc' = "scan" /\ dir' = 0 /\ todo' = groups[0]
      BY <1>4 DEF StartScan
    <2>1. TypeOK' /\ DbInv'
      BY <1>0, <1>4, ColdDatabase DEF StartScan, TypeOK, dbVars, Active
    <2>2. MarkersKept' /\ TallySound'
      BY <1>0, <1>4 DEF StartScan, ScanInv, MarkersKept, TallySound, ClaimCounters, Outcome
    <2>3. TallyComplete'
      <3> SUFFICES ASSUME NEW s \in Active, s <= 0, NEW g \in Claimed(s)'
                   PROVE  s = dir' /\ g \in todo'
        BY <2>0 DEF TallyComplete
      <3>1. s = 0
        BY DEF Active
      <3> QED BY <2>0, <3>1, ColdDatabase DEF Claimed
    <2> QED BY <2>0, <2>1, <2>2, <2>3 DEF IInv, ScanInv
  <1>5. CASE Fail
    <2>1. TypeOK' /\ DbInv'
      BY <1>0, <1>5, ColdDatabase DEF Fail, TypeOK, dbVars
    <2>2. ScanInv'
      BY <1>0, <1>5 DEF Fail, ScanInv, MarkersKept, TallySound, TallyComplete, ClaimCounters, Outcome
    <2> QED BY <2>1, <2>2 DEF IInv
  <1>6. ASSUME NEW g \in todo, pc = "scan", Verdict(g) # "abort",
               tally' = [tally EXCEPT ![Verdict(g)] = @ \cup {g}], todo' = todo \ {g},
               UNCHANGED <<dbVars, pc, fault, dir>>
        PROVE  IInv'
    <2>0. UNCHANGED dbVars /\ g \in groups[dir] /\ dir \in Active /\ g \in Group
      BY <1>0, <1>6 DEF TypeOK
    <2>1. /\ Verdict(g) \in Outcome
          /\ Verdict(g) \in ClaimCounters => g \in Claimed(dir) /\ Counted(Verdict(g), g)
          /\ g \in Claimed(dir) => Verdict(g) \in ClaimCounters
      BY <1>0, <1>6, <2>0, VerdictExact DEF ScanInv
    <2> DEFINE v == Verdict(g)
    <2> HIDE DEF v
    <2>2. /\ \A o \in Outcome : o # v => tally'[o] = tally[o]
          /\ tally'[v] = tally[v] \cup {g}
          /\ tally' \in [Outcome -> SUBSET Group]
      BY <1>0, <1>6, <2>0, <2>1 DEF TypeOK, v
    <2>3. TypeOK' /\ DbInv'
      BY <1>0, <1>6, <2>0, <2>2, ColdDatabase DEF TypeOK, dbVars
    <2>4. MarkersKept'
      BY <1>0, <1>6 DEF ScanInv, MarkersKept
    <2>5. \A o \in ClaimCounters : o \in Outcome
      BY DEF ClaimCounters, Outcome
    <2>6. TallySound'
      <3> SUFFICES ASSUME NEW o \in ClaimCounters, NEW h \in tally'[o]
                   PROVE  h \in AllClaimed /\ Counted(o, h)
        BY <2>0, ColdDatabase DEF TallySound
      <3>1. CASE h \in tally[o]
        BY <1>0, <3>1 DEF ScanInv, TallySound
      <3>2. CASE h \notin tally[o]
        <4>1. o = v /\ h = g
          BY <2>2, <2>5, <3>2
        <4>2. g \in Claimed(dir) /\ Counted(o, g)
          BY <2>1, <4>1 DEF v
        <4> QED BY <2>0, <4>1, <4>2 DEF AllClaimed, Active
      <3> QED BY <3>1, <3>2
    <2>7. TallyComplete'
      <3> SUFFICES ASSUME NEW s \in Active, s <= dir, NEW h \in Claimed(s)
                   PROVE  (s = dir /\ h \in todo') \/ \E o \in ClaimCounters : h \in tally'[o]
        BY <1>6, <2>0, ColdDatabase DEF TallyComplete
      <3>1. (s = dir /\ h \in todo) \/ \E o \in ClaimCounters : h \in tally[o]
        BY <1>0, <1>6 DEF ScanInv, TallyComplete
      <3>2. \A o \in ClaimCounters : tally[o] \subseteq tally'[o]
        BY <2>2, <2>5
      <3>3. CASE s = dir /\ h = g
        <4>1. v \in ClaimCounters
          BY <2>1, <3>3 DEF v
        <4> QED BY <2>2, <3>3, <4>1
      <3> QED BY <1>6, <3>1, <3>2, <3>3
    <2> QED BY <1>6, <2>3, <2>4, <2>6, <2>7 DEF IInv, ScanInv
  <1>7. CASE NextDirection
    <2>0. /\ UNCHANGED dbVars /\ pc = "scan" /\ pc' = pc /\ dir = 0 /\ todo = {}
          /\ dir' = 1 /\ todo' = groups[1] /\ tally' = tally /\ fault' = fault
      BY <1>7 DEF NextDirection
    <2>1. TypeOK' /\ DbInv'
      BY <1>0, <2>0, ColdDatabase DEF TypeOK, dbVars, Active
    <2>2. MarkersKept' /\ TallySound'
      BY <1>0, <2>0, ColdDatabase DEF ScanInv, MarkersKept, TallySound
    <2>3. TallyComplete'
      <3> SUFFICES ASSUME NEW s \in Active, NEW g \in Claimed(s)
                   PROVE  (s = 1 /\ g \in groups[1]) \/ \E o \in ClaimCounters : g \in tally[o]
        BY <2>0, ColdDatabase DEF TallyComplete
      <3>1. CASE s = 1
        BY <3>1 DEF Claimed
      <3>2. CASE s = 0
        BY <1>0, <2>0, <3>2 DEF ScanInv, TallyComplete
      <3> QED BY <3>1, <3>2 DEF Active
    <2> QED BY <2>0, <2>1, <2>2, <2>3 DEF IInv, ScanInv
  <1>8. CASE Publish
    <2>0. /\ UNCHANGED dbVars /\ pc = "scan" /\ pc' = "published" /\ dir = 1 /\ todo = {}
          /\ dir' = dir /\ todo' = todo /\ tally' = tally /\ fault' = fault
      BY <1>8 DEF Publish
    <2>1. TypeOK' /\ DbInv'
      BY <1>0, <2>0, ColdDatabase DEF TypeOK, dbVars
    <2>2. MarkersKept' /\ TallySound'
      BY <1>0, <2>0, ColdDatabase DEF ScanInv, MarkersKept, TallySound
    <2>3. TallyComplete'
      BY <1>0, <2>0, ColdDatabase DEF ScanInv, TallyComplete
    <2> QED BY <2>0, <2>1, <2>2, <2>3 DEF IInv, ScanInv
  <1>9. CASE UNCHANGED vars
    <2>0. UNCHANGED dbVars /\ UNCHANGED scanVars
      BY <1>9 DEF vars, dbVars, scanVars
    <2>1. TypeOK' /\ DbInv'
      BY <1>0, <2>0, ColdDatabase DEF TypeOK, dbVars, scanVars
    <2>2. MarkersKept' /\ TallySound'
      BY <1>0, <2>0, ColdDatabase DEF ScanInv, MarkersKept, TallySound, scanVars
    <2>3. TallyComplete'
      BY <1>0, <2>0, ColdDatabase DEF ScanInv, TallyComplete, scanVars
    <2> QED BY <1>0, <2>0, <2>1, <2>2, <2>3 DEF IInv, ScanInv, scanVars
  <1>10. ASSUME NEW g \in todo, ScanGroup(g) PROVE IInv'
    BY <1>5, <1>6, <1>10 DEF ScanGroup
  <1> QED BY <1>1, <1>2, <1>3, <1>4, <1>5, <1>7, <1>8, <1>9, <1>10
          DEF Next, ScanStep, IteratorError, Ended

(* A published tally is the classification of all claimed groups. *)
LEMMA IInvExact == IInv => PublishedExact
  <1> SUFFICES ASSUME IInv, pc = "published" PROVE PublishedExact
    BY DEF PublishedExact
  <1>1. dir = 1 /\ todo = {}
    BY DEF IInv, ScanInv
  <1>2. \A g \in AllClaimed : \E o \in ClaimCounters : g \in tally[o]
    <2> SUFFICES ASSUME NEW s \in Active, NEW g \in Claimed(s)
                 PROVE  \E o \in ClaimCounters : g \in tally[o]
      BY DEF AllClaimed, Active
    <2>1. s <= dir
      BY <1>1 DEF Active
    <2> QED BY <1>1, <2>1 DEF IInv, ScanInv, TallyComplete
  <1>3. \A o \in ClaimCounters : \A g \in tally[o] : g \in AllClaimed /\ Counted(o, g)
    BY DEF IInv, ScanInv, TallySound
  <1> QED BY <1>2, <1>3 DEF PublishedExact, ClaimCounters, Counted

(* The variables keep their types, for every set of transactions, retired    *)
(* shards and value of the bounds.                                           *)
THEOREM TypeCorrect == Spec => []TypeOK
  <1>1. IInv => TypeOK
    BY DEF IInv
  <1> QED BY <1>1, InitIInv, NextIInv, PTL DEF Spec

(* A summary that cross-shard-supply publishes classifies every claimed group *)
(* exactly, whatever rollbacks left behind and whatever keys are damaged.     *)
THEOREM Exactness == Spec => []PublishedExact
  BY InitIInv, NextIInv, IInvExact, PTL DEF Spec

-----------------------------------------------------------------------------
(* A damaged lookup index *)

(* Every receipt of a group counted as spent was read from an undamaged      *)
(* lookup entry; nothing is counted before the scan, and no key is damaged    *)
(* after it starts.                                                           *)
SpentIndexed ==
    \A g \in tally["spent"] : \A t \in TxsOf(g) : fault[<<"lookup", g.dst, t>>] = "none"

(* readOptional returns a value only from an undamaged key. *)
LEMMA FoundUndamaged ==
    ASSUME NEW k, NEW present, fault[k] \in FaultKind, readOptional(k, present) = "found"
    PROVE  fault[k] = "none"
  BY DEF readOptional, FaultKind, Stored

(* A receipt is found spent only through its own undamaged lookup entry.      *)
LEMMA SpentReceiptUndamaged ==
    ASSUME TypeOK, NEW g \in Group, g.dst \in Active, NEW i \in DOMAIN g.txs,
           ReceiptVerdict(g, i) = "spent"
    PROVE  fault[<<"lookup", g.dst, g.txs[i]>>] = "none"
  <1> DEFINE key == <<"lookup", g.dst, g.txs[i]>>
             present == lookup[g.dst][g.txs[i]] # Absent
  <1>1. key \in Key
    BY DEF Group, Key, LookupKey
  <1>2. MissingLookup(g) # "spent"
    BY DEF MissingLookup
  <1>3. readOptional(key, present) = "found"
    <2> DEFINE r == readOptional(key, present)
    <2>1. r = "absent" => ReceiptVerdict(g, i) = MissingLookup(g)
      BY Zenon DEF ReceiptVerdict
    <2>2. r # "absent" /\ r # "found" => ReceiptVerdict(g, i) = "abort"
      BY Zenon DEF ReceiptVerdict
    <2> QED BY <1>2, <2>1, <2>2
  <1>4. fault[key] \in FaultKind
    BY <1>1 DEF TypeOK
  <1> QED BY <1>3, <1>4, FoundUndamaged

(* So a group is counted as spent only if all its entries are undamaged.      *)
LEMMA SpentGroupUndamaged ==
    ASSUME TypeOK, NEW g \in Group, Verdict(g) = "spent"
    PROVE  \A t \in TxsOf(g) : fault[<<"lookup", g.dst, t>>] = "none"
  <1> DEFINE c == CanonicalCheck(g.src, g.num, g.hash)
  <1>1. c \in {"abort", "noncanonical", "canonical"}
    BY DEF CanonicalCheck
  <1>2. g.dst \in Active /\ SpentVerdict(g) = "spent"
    <2> HIDE DEF c
    <2>1. Verdict(g) \in {"empty", "after", "abort", "unsupported", c} \/ (g.dst \in Active /\ Verdict(g) = SpentVerdict(g))
      BY Zenon DEF Verdict, c
    <2> QED BY <1>1, <2>1
  <1>3. \A i \in DOMAIN g.txs : ReceiptVerdict(g, i) = "spent"
    BY <1>2 DEF SpentVerdict
  <1> QED BY <1>2, <1>3, SpentReceiptUndamaged DEF TxsOf

(* Every step keeps it. *)
LEMMA NextSpentIndexed == IInv /\ SpentIndexed /\ [Next]_vars => SpentIndexed'
  <1> SUFFICES ASSUME IInv, SpentIndexed, [Next]_vars PROVE SpentIndexed'
    OBVIOUS
  <1> USE DEF TxsOf
  <1>0. /\ TypeOK /\ "spent" \in Outcome
        /\ pc \in {"live", "cold"} => tally["spent"] = {}
    BY DEF IInv, ScanInv, Outcome
  <1>1. CASE pc \in {"live", "cold"} /\ tally' = tally
    BY <1>0, <1>1 DEF SpentIndexed
  <1>2. CASE Fail
    BY <1>0, <1>2 DEF Fail, SpentIndexed
  <1>3. CASE UNCHANGED <<tally, fault>>
    BY <1>3 DEF SpentIndexed
  <1>4. ASSUME NEW g \in todo, ScanGroup(g) PROVE SpentIndexed'
    <2>1. CASE Fail
      BY <1>2, <2>1
    <2>2. CASE /\ tally' = [tally EXCEPT ![Verdict(g)] = @ \cup {g}]
               /\ fault' = fault
      <3>1. g \in Group
        BY <1>0 DEF TypeOK
      <3>2. ASSUME NEW h \in tally'["spent"], h \notin tally["spent"]
            PROVE  h = g /\ Verdict(g) = "spent"
        BY <1>0, <2>2, <3>2 DEF TypeOK
      <3>3. SUFFICES ASSUME NEW h \in tally'["spent"], NEW t \in TxsOf(h)
                     PROVE  fault[<<"lookup", h.dst, t>>] = "none"
        BY <2>2 DEF SpentIndexed
      <3>4. CASE h \in tally["spent"]
        BY <3>4 DEF SpentIndexed
      <3>5. CASE h \notin tally["spent"]
        BY <1>0, <3>1, <3>2, <3>5, SpentGroupUndamaged
      <3> QED BY <3>4, <3>5
    <2> QED BY <1>4, <2>1, <2>2 DEF ScanGroup
  <1> QED BY <1>1, <1>2, <1>3, <1>4
          DEF Next, StopNode, DamageKey, StartScan, ScanStep, NextDirection, Publish, IteratorError,
              Ended, vars, scanVars

(* A scan that publishes found the lookup entry of every receipt applied by   *)
(* the cutoff: a lost or unreadable entry of such a receipt makes             *)
(* sumReceipts abort, it is never taken for a pending receipt.                *)
THEOREM IndexLossAborts == Spec => []IncompleteIndexAborts
  <1>1. Init => SpentIndexed
    BY DEF Init, SpentIndexed, Outcome
  <1>2. IInv /\ SpentIndexed => IncompleteIndexAborts
    <2> SUFFICES ASSUME IInv, SpentIndexed,
                        NEW g \in tally["spent"] \cup tally["pending"], AppliedByCutoff(g)
                 PROVE  \A t \in TxsOf(g) : fault[<<"lookup", g.dst, t>>] = "none"
      BY DEF IncompleteIndexAborts, TxsOf
    <2>1. g \notin tally["pending"]
      BY DEF IInv, ScanInv, TallySound, ClaimCounters, Counted
    <2> QED BY <2>1 DEF SpentIndexed
  <1> QED BY <1>1, <1>2, InitIInv, NextIInv, NextSpentIndexed, PTL DEF Spec

-----------------------------------------------------------------------------
(* Conservation *)

(* A block up to the destination's cutoff applied only groups of source      *)
(* blocks up to the source's cutoff: both cutoffs were taken at one instant,  *)
(* and nothing below them is rolled back.                                     *)
CutClosed ==
    \A d \in Active : \A n \in 1..cut[d] : \A g \in chain[d][n].incoming : g.num <= cut[1 - d]

(* Below the cutoff the chains do not change. *)
LEMMA CutClosedKept ==
    ASSUME CutClosed, cut' = cut, \A r \in Active : \A n \in 1..cut[r] : chain'[r][n] = chain[r][n]
    PROVE  CutClosed'
  BY DEF CutClosed

(* A new block lies above the cutoff. *)
LEMMA GrownCutClosed ==
    ASSUME TypeOK, CutReached, CutClosed, NEW s \in Active, NEW inc, Grown(s, inc), cut' = cut
    PROVE  CutClosed'
  <1> SUFFICES ASSUME NEW r \in Active, NEW n \in 1..cut[r] PROVE chain'[r][n] = chain[r][n]
    BY CutClosedKept
  <1>1. cut[r] \in Nat /\ cut[r] <= Len(chain[r]) /\ chain[r] \in Seq(Block)
    BY DEF TypeOK, CutReached
  <1>2. n \in DOMAIN chain[r]
    BY <1>1
  <1> QED BY <1>2 DEF Grown

(* Every step of the node keeps it. *)
LEMMA DbCutClosed ==
    ASSUME TypeOK, DbInv, CutClosed, DbNext
    PROVE  CutClosed'
  <1>0. CutReached
    BY DEF DbInv
  <1>1. ASSUME NEW s \in Active, NewBlock(s, {}), cut' = cut PROVE CutClosed'
    <2>1. Grown(s, {})
      BY <1>1, BlockAdded
    <2> QED BY <1>0, <1>1, <2>1, GrownCutClosed
  <1>2. ASSUME NEW d \in Active, NEW g \in groups[1 - d], ApplyReceipts(d, g) PROVE CutClosed'
    <2>1. {g} \in SUBSET Group /\ NewBlock(d, {g}) /\ cut' = cut
      BY <1>2 DEF TypeOK, Active, ApplyReceipts
    <2>2. Grown(d, {g})
      BY <2>1, BlockAdded
    <2> QED BY <1>0, <2>1, <2>2, GrownCutClosed
  <1>3. ASSUME NEW s \in Active, Rollback(s) PROVE CutClosed'
    <2>1. /\ chain[s] \in Seq(Block) /\ Len(chain[s]) \in Nat /\ cut[s] \in Nat /\ cut' = cut
          /\ Len(chain[s]) > cut[s] /\ Len(chain[s]) > 1 /\ chain \in [Active -> Seq(Block)]
          /\ chain' = [chain EXCEPT ![s] = SubSeq(chain[s], 1, Len(chain[s]) - 1)]
      BY <1>3 DEF Rollback, TypeOK
    <2>2. \A n \in 1..(Len(chain[s]) - 1) : SubSeq(chain[s], 1, Len(chain[s]) - 1)[n] = chain[s][n]
      BY <2>1
    <2>3. \A n \in 1..cut[s] : n \in 1..(Len(chain[s]) - 1)
      BY <2>1
    <2>4. \A r \in Active : \A n \in 1..cut[r] : chain'[r][n] = chain[r][n]
      BY <2>1, <2>2, <2>3
    <2> QED BY <2>1, <2>4, CutClosedKept
  <1>4. ASSUME TakeCutoff PROVE CutClosed'
    <2> SUFFICES ASSUME NEW d \in Active, NEW n \in 1..cut'[d], NEW g \in chain'[d][n].incoming
                 PROVE  g.num <= cut'[1 - d]
      BY DEF CutClosed
    <2>1. 1 - d \in Active /\ cut'[d] = Len(chain[d]) /\ cut'[1 - d] = Len(chain[1 - d]) /\ chain' = chain
      BY <1>4 DEF TakeCutoff, Active
    <2>2. chain[d] \in Seq(Block) /\ chain[1 - d] \in Seq(Block)
      BY <2>1 DEF TypeOK
    <2>3. n \in DOMAIN chain[d] /\ g \in chain[d][n].incoming
      BY <2>1, <2>2
    <2>4. g \in groups[1 - d] /\ Canonical(g)
      BY <2>3 DEF DbInv, AppliedIndexed
    <2>5. g.src = 1 - d /\ g.num \in DOMAIN chain[1 - d]
      BY <2>1, <2>4 DEF DbInv, GroupsPlaced, Canonical
    <2> QED BY <2>1, <2>2, <2>5
  <1> QED BY <1>1, <1>2, <1>3, <1>4 DEF DbNext, EmitReceipts, EmitNothing

(* No step applies a receipt below the cutoff that was sent above it. *)
LEMMA NextCutClosed == IInv /\ CutClosed /\ [Next]_vars => CutClosed'
  <1> SUFFICES ASSUME IInv, CutClosed, [Next]_vars PROVE CutClosed'
    OBVIOUS
  <1>1. CASE DbNext
    BY <1>1, DbCutClosed DEF IInv
  <1>2. CASE UNCHANGED <<chain, cut>>
    BY <1>2 DEF CutClosed
  <1> QED BY <1>1, <1>2
          DEF Next, StopNode, DamageKey, StartScan, ScanStep, ScanGroup, NextDirection, Publish,
              IteratorError, Fail, Ended, vars, dbVars

(* The transactions of a set of groups. *)
TxsIn(G) == UNION {TxsOf(g) : g \in G}

(* Amounts of disjoint sets of transactions add up. *)
LEMMA AmountsAdd ==
    ASSUME NEW S \in SUBSET Tx, NEW R \in SUBSET Tx, S \cap R = {}
    PROVE  /\ AmountOfTxs(S) \in Int /\ AmountOfTxs(R) \in Int
           /\ AmountOfTxs(S \cup R) = AmountOfTxs(S) + AmountOfTxs(R)
  <1>1. IsFiniteSet(S) /\ IsFiniteSet(R) /\ \A t \in S \cup R : AmountOf[t] \in Int
    BY DatabaseAssumption, FS_Subset
  <1> QED BY <1>1, SumDisjoint DEF AmountOfTxs

(* A group in a block up to the cutoff was claimed by its source and applied: *)
(* the credits of the two shards are the transactions counted as spent.       *)
LEMMA CreditsAreSpent ==
    ASSUME IInv, CutClosed, pc = "published", NEW s \in Active
    PROVE  TxsIn(Credited(s, cut[s])) = TxsIn({g \in tally["spent"] : g.dst = s})
  <1>0. /\ TypeOK /\ DbInv
        /\ tally["spent"] = {g \in AllClaimed : g.dst \in Active /\ AppliedByCutoff(g)}
    BY IInvExact DEF IInv, PublishedExact
  <1>1. ASSUME NEW g \in tally["spent"], g.dst = s PROVE g \in Credited(s, cut[s])
    <2>1. \E n \in 1..cut[s] : g \in chain[s][n].incoming
      BY <1>0, <1>1 DEF AppliedByCutoff, AppliedIn
    <2> QED BY <2>1 DEF Credited
  <1>2. ASSUME NEW g \in Credited(s, cut[s]), g.txs # <<>> PROVE g \in tally["spent"] /\ g.dst = s
    <2>1. PICK n \in 1..cut[s] : g \in chain[s][n].incoming
      BY <1>2 DEF Credited
    <2>2. cut[s] \in Nat /\ cut[s] <= Len(chain[s]) /\ chain[s] \in Seq(Block)
      BY <1>0 DEF TypeOK, DbInv, CutReached
    <2>3. n \in DOMAIN chain[s]
      BY <2>2
    <2>4. g \in groups[1 - s] /\ g.dst = s /\ Canonical(g)
      BY <1>0, <2>1, <2>3 DEF DbInv, AppliedIndexed
    <2>5. g.num <= cut[1 - s] /\ 1 - s \in {0, 1}
      BY <2>1 DEF CutClosed, Active
    <2>6. g \in Claimed(1 - s)
      BY <1>2, <2>4, <2>5 DEF Claimed
    <2>7. g \in AllClaimed
      BY <2>5, <2>6 DEF AllClaimed
    <2>8. AppliedByCutoff(g)
      BY <2>1, <2>3, <2>4 DEF AppliedByCutoff, AppliedIn
    <2> QED BY <1>0, <2>4, <2>7, <2>8
  <1>3. \A g, t : t \in TxsOf(g) => g.txs # <<>>
    BY DEF TxsOf
  <1> QED BY <1>1, <1>2, <1>3 DEF TxsIn

(* What the source shards debited up to their cutoffs. *)
LEMMA DebitsAreClaimed ==
    ASSUME NEW s \in Active
    PROVE  TxsIn(Debited(s, cut[s])) = TxsIn(Claimed(s))
  <1>1. \A g, t : t \in TxsOf(g) => g.txs # <<>>
    BY DEF TxsOf
  <1> QED BY <1>1 DEF TxsIn, Debited, Claimed

(* Different claimed groups share no transaction. *)
LEMMA ClaimedDisjoint ==
    ASSUME TypeOK, DbInv, NEW G \in SUBSET AllClaimed, NEW H \in SUBSET AllClaimed, G \cap H = {}
    PROVE  /\ TxsIn(G) \in SUBSET Tx /\ TxsIn(H) \in SUBSET Tx
           /\ TxsIn(G) \cap TxsIn(H) = {}
           /\ TxsIn(G \cup H) = TxsIn(G) \cup TxsIn(H)
  <1>1. \A g \in AllClaimed : TxsOf(g) \subseteq Tx /\ \E s \in Active : g \in groups[s] /\ Canonical(g)
    BY DEF AllClaimed, Claimed, TypeOK, Group, TxsOf, Active
  <1>2. TxsIn(G) \in SUBSET Tx /\ TxsIn(H) \in SUBSET Tx
    BY <1>1 DEF TxsIn
  <1>3. ASSUME NEW g \in G, NEW h \in H PROVE TxsOf(g) \cap TxsOf(h) = {}
    BY <1>1 DEF DbInv, TxUnique
  <1>4. TxsIn(G) \cap TxsIn(H) = {}
    BY <1>3 DEF TxsIn
  <1> QED BY <1>2, <1>4 DEF TxsIn

(* The amounts of two disjoint sets of claimed groups add up. *)
LEMMA ClaimsAdd ==
    ASSUME TypeOK, DbInv, NEW G \in SUBSET AllClaimed, NEW H \in SUBSET AllClaimed, G \cap H = {}
    PROVE  /\ AmountOfGroups(G) \in Int /\ AmountOfGroups(H) \in Int
           /\ AmountOfGroups(G \cup H) = AmountOfGroups(G) + AmountOfGroups(H)
  <1>1. \A K : AmountOfGroups(K) = AmountOfTxs(TxsIn(K))
    BY DEF AmountOfGroups, TxsIn
  <1> DEFINE S == TxsIn(G)
             R == TxsIn(H)
  <1>2. S \in SUBSET Tx /\ R \in SUBSET Tx /\ S \cap R = {} /\ TxsIn(G \cup H) = S \cup R
    BY ClaimedDisjoint
  <1> HIDE DEF S, R
  <1>3. /\ AmountOfTxs(S) \in Int /\ AmountOfTxs(R) \in Int
        /\ AmountOfTxs(S \cup R) = AmountOfTxs(S) + AmountOfTxs(R)
    BY <1>2, AmountsAdd
  <1> QED BY <1>1, <1>2, <1>3 DEF S, R

(* The classification of the published summary partitions the claims.        *)
LEMMA PublishedConserved ==
    ASSUME IInv, CutClosed, pc = "published"
    PROVE  SupplyConserved
  <1> DEFINE P == tally["pending"]
             N == tally["unsupported"]
             S(d) == {g \in tally["spent"] : g.dst = d}
             A(G) == AmountOfGroups(G)
  <1>0. TypeOK /\ DbInv /\ PublishedExact
    BY IInvExact DEF IInv
  <1>1. /\ P = {g \in AllClaimed : g.dst \in Active /\ ~AppliedByCutoff(g)}
        /\ tally["spent"] = {g \in AllClaimed : g.dst \in Active /\ AppliedByCutoff(g)}
        /\ N = {g \in AllClaimed : g.dst \notin Active}
    BY <1>0 DEF PublishedExact
  <1>2. /\ AllClaimed = ((P \cup N) \cup S(0)) \cup S(1)
        /\ P \cap N = {} /\ (P \cup N) \cap S(0) = {} /\ ((P \cup N) \cup S(0)) \cap S(1) = {}
    BY <1>1 DEF Active
  <1>3. /\ AllClaimed = Claimed(0) \cup Claimed(1) /\ Claimed(0) \cap Claimed(1) = {}
    BY <1>0 DEF AllClaimed, Claimed, DbInv, GroupsPlaced, Active
  <1>4. A(AllClaimed) = A(Claimed(0)) + A(Claimed(1)) /\ A(Claimed(0)) \in Int /\ A(Claimed(1)) \in Int
    BY <1>0, <1>3, ClaimsAdd
  <1>5. A(P \cup N) = A(P) + A(N) /\ A(P) \in Int /\ A(N) \in Int
    BY <1>0, <1>2, ClaimsAdd
  <1>6. A((P \cup N) \cup S(0)) = A(P \cup N) + A(S(0)) /\ A(S(0)) \in Int
    BY <1>0, <1>2, ClaimsAdd
  <1>7. A(AllClaimed) = A((P \cup N) \cup S(0)) + A(S(1)) /\ A(S(1)) \in Int
    BY <1>0, <1>2, ClaimsAdd
  <1>8. \A s \in Active : /\ A(Credited(s, cut[s])) = A(S(s))
                          /\ A(Debited(s, cut[s])) = A(Claimed(s))
    BY CreditsAreSpent, DebitsAreClaimed DEF AmountOfGroups, TxsIn
  <1>9. 0 \in Active /\ 1 \in Active /\ InitialLiquid[0] \in Int /\ InitialLiquid[1] \in Int
    BY DatabaseAssumption DEF Active
  <1>10. \A s \in Active : Liquid(s, cut[s]) = InitialLiquid[s] + A(S(s)) - A(Claimed(s))
    BY <1>8 DEF Liquid
  <1>11. Liquid(0, cut[0]) + Liquid(1, cut[1]) + A(P) + A(N) = InitialLiquid[0] + InitialLiquid[1]
    <2> HIDE DEF A, P, N, S
    <2> QED BY <1>4, <1>5, <1>6, <1>7, <1>9, <1>10
  <1> QED BY <1>11 DEF SupplyConserved, PendingActiveAtto, UnsupportedPendingAtto

(* No ONE is lost or counted twice by a published summary, for every number  *)
(* of transactions, every amount and every history of the two chains: the     *)
(* liquid balances at the cutoffs, the pending and the unsupported receipts   *)
(* add up to what the shards started with.                                    *)
THEOREM Conservation == Spec => []SupplyConserved
  <1>1. Init => CutClosed
    BY DEF Init, DbInit, CutClosed, Active
  <1>2. IInv /\ CutClosed => SupplyConserved
    BY PublishedConserved DEF SupplyConserved
  <1> QED BY <1>1, <1>2, InitIInv, NextIInv, NextCutClosed, PTL DEF Spec

-----------------------------------------------------------------------------
(***************************************************************************)
(* The replay of a transaction of any number of frames, for every audit.   *)
(* Frames are numbered in the order they are entered, a debit stands if    *)
(* and only if no frame above it failed, and the completed calls of the    *)
(* precompile emitted one receipt each (ExecInv). The replay keeps the     *)
(* same two relations by recursion on the frames, and a recursion has one  *)
(* solution (by a least number).                                           *)
(***************************************************************************)

Size == Len(frames)

-----------------------------------------------------------------------------
(* The execution *)

(* Frames are numbered in the order they were entered, and a call of the    *)
(* precompile calls nothing.                                                *)
ParentsSound ==
    /\ frames[1].type = "CALL" /\ frames[1].sender = frames[1].from /\ ~frames[1].pre
    /\ \A f \in 2..Size : frames[f].parent \in 1..(f - 1) /\ ~frames[frames[f].parent].pre

(* A frame has its own sender, and a DELEGATECALL that of its caller. *)
SendersSound ==
    \A f \in 2..Size :
        frames[f].sender = IF frames[f].type = "DELEGATECALL" THEN frames[frames[f].parent].sender
                           ELSE frames[f].from

(* Whatever was entered after a frame on the stack was called below it.     *)
StackSound ==
    /\ \A i, j \in 1..Len(stack) : i < j => stack[i] > stack[j]
    /\ \A i \in 1..Len(stack) :
        /\ ~frames[stack[i]].pre
        /\ \A f \in 1..Size : f > stack[i] => frames[f].parent >= stack[i]

(* The frames between a caller and its call were called below the caller.   *)
Nested ==
    \A f \in 2..Size : \A h \in 1..f : h > frames[f].parent => frames[h].parent >= frames[f].parent

(* A frame is above another one if everything in between was called below it. *)
Above(F, a, f) == a < f /\ \A h \in (a + 1)..f : F[h].parent >= a

(* The completed calls of the precompile emitted a receipt each.            *)
EmittedSound ==
    /\ Len(emitted) <= Size
    /\ \A i \in 1..Len(emitted) :
         /\ frames[emitted[i]].pre /\ ~frames[emitted[i]].err /\ frames[emitted[i]].amount \in Amount
         /\ emitted[i] # 1
    /\ \A f \in 1..Size : frames[f].pre /\ ~frames[f].err => \E i \in 1..Len(emitted) : emitted[i] = f
    /\ \A i, j \in 1..Len(emitted) : emitted[i] = emitted[j] => i = j

(* A debit stands if and only if no frame above it failed.                  *)
DebitsSound ==
    \A i \in 1..Len(emitted) :
        emitted[i] \in debits <=> \A a \in 1..Size : Above(frames, a, emitted[i]) => ~frames[a].err

(* No frame that is open failed, nor one above it.                          *)
OpenSound ==
    stack # <<>> =>
        /\ ~frames[stack[1]].err
        /\ \A a \in 1..Size : Above(frames, a, stack[1]) => ~frames[a].err

ExecTypes ==
    /\ frames \in Seq(Frame) /\ Size \in 1..MaxFrames
    /\ stack \in Seq(1..Size) /\ debits \subseteq 1..Size /\ emitted \in Seq(1..Size)

ExecInv ==
    ExecTypes /\ ParentsSound /\ SendersSound /\ StackSound /\ Nested /\ EmittedSound /\ DebitsSound /\ OpenSound

-----------------------------------------------------------------------------
(* The audits *)

(* What a row says of its receipt. *)
RowSound(row) ==
    /\ row \in Row /\ row.receipt \in Receipt
    /\ Trusted(row) =>
         /\ row.class \in {"rollback_leak", "source_debit_absent"} => ~DebitStands(row.receipt)
         /\ row.class = "valid_source_debit" => DebitStands(row.receipt)
    /\ ~receipt_status => row.class = "unclassified" /\ row.evidence = "none"

RowsSound(R) == IsFiniteSet(R) /\ \A row \in R : RowSound(row)

AuditTypes ==
    /\ phase \in {"execute", "ready", "audit", "summary", "failed"}
    /\ direct \in BOOLEAN /\ replay \in Replay
    /\ selected \subseteq Receipt /\ done \in 0..Len(emitted)
    /\ phase = "audit" => evidence \in [Receipt -> EvidenceStatus]
    /\ published \in Seq(SUBSET Row) /\ Len(published) <= MaxAudits
    /\ phase = "audit" => Len(published) < MaxAudits

(* No audit before the receipts are exported; a plain transfer has one call. *)
NothingAudited ==
    /\ phase = "execute" => ~direct /\ selected = {} /\ done = 0 /\ rows = {} /\ published = <<>>
    /\ direct => Size = 2

SummaryIs ==
    /\ phase # "summary" => summary = <<>>
    /\ phase = "summary" => summary = [c \in FinalClassification |-> Total({row \in AllRows : row.class = c})]

AuditInv ==
    /\ AuditTypes /\ NothingAudited
    /\ RowsSound(rows)
    /\ \A k \in 1..Len(published) : RowsSound(published[k])
    /\ SummaryIs

AuditIInv == ExecInv /\ AuditInv

-----------------------------------------------------------------------------
(* One step of the execution *)

(* What the constants are. *)
LEMMA Constants ==
    /\ MaxFrames \in Nat \ {0} /\ Amount \subseteq Nat /\ MaxAudits \in Nat /\ MaxWork \in Nat
    /\ "CALL" \in CallType /\ CallType \subseteq {"CALL", "CALLCODE", "DELEGATECALL"}
    /\ User \in Account /\ Contract \subseteq Account
  BY ExecutionAssumption, AuditAssumption DEF ExecutionAssumption, AuditAssumption, Account

(* The types of a state of the execution. *)
LEMMA ExecFacts ==
    ASSUME ExecInv
    PROVE  /\ frames \in Seq(Frame) /\ Size \in 1..MaxFrames /\ Size \in Nat
           /\ \A f \in 1..Size : frames[f] \in Frame /\ frames[f].parent \in 0..MaxFrames
           /\ stack \in Seq(1..Size) /\ debits \subseteq 1..Size /\ emitted \in Seq(1..Size)
           /\ \A i \in 1..Len(stack) : stack[i] \in 1..Size
           /\ Len(emitted) \in Nat /\ \A i \in 1..Len(emitted) : emitted[i] \in 1..Size
           /\ stack # <<>> => Len(stack) >= 1 /\ stack[1] \in 1..Size
           /\ DOMAIN frames = 1..Size /\ DOMAIN emitted = 1..Len(emitted)
  <1>1. ExecTypes /\ MaxFrames \in Nat
    BY Constants DEF ExecInv
  <1>2. Size \in Nat /\ DOMAIN frames = 1..Size /\ \A f \in 1..Size : frames[f] \in Frame
    BY <1>1 DEF ExecTypes, Size
  <1>3. \A e \in Frame : e.parent \in 0..MaxFrames
    BY DEF Frame
  <1> QED BY <1>1, <1>2, <1>3 DEF ExecTypes

(* The fields of a frame that a call enters. *)
LEMMA EnterFields ==
    ASSUME ExecInv, stack # <<>>, NEW type \in CallType, NEW target \in Account, NEW e, e = Enter(type, target)
    PROVE  /\ e \in Frame /\ e.parent = stack[1] /\ e.type = type /\ ~e.pre /\ ~e.err
           /\ e.sender = IF type = "DELEGATECALL" THEN frames[stack[1]].sender ELSE e.from
  <1> DEFINE top == frames[stack[1]]
  <1>1. top \in Frame /\ stack[1] \in 0..MaxFrames
    BY ExecFacts, Constants
  <1>2. top.self \in Account /\ top.sender \in Account
    BY <1>1 DEF Frame
  <1>3. e = [parent |-> stack[1], type |-> type, from |-> top.self, err |-> FALSE,
             pre |-> FALSE, amount |-> 0,
             self |-> IF type = "CALL" THEN target ELSE top.self,
             sender |-> IF type = "DELEGATECALL" THEN top.sender ELSE top.self]
    BY DEF Enter
  <1> HIDE DEF top
  <1>4. e \in Frame
    BY <1>1, <1>2, <1>3 DEF Frame
  <1>5. /\ e.parent = stack[1] /\ e.type = type /\ e.pre = FALSE /\ e.err = FALSE /\ e.from = top.self
        /\ e.sender = IF type = "DELEGATECALL" THEN top.sender ELSE top.self
    BY <1>3
  <1> QED BY <1>4, <1>5 DEF top

(* A call of the precompile, completed and rejected. *)
Completed(type, amount) == [Enter(type, User) EXCEPT !.pre = TRUE, !.amount = amount]
WithError(frame) == [frame EXCEPT !.err = TRUE]

(* The fields of a call of the precompile, completed or rejected. *)
LEMMA PrecompileFields ==
    ASSUME ExecInv, stack # <<>>, NEW type \in CallType, NEW amount \in Amount, NEW e,
           NEW call, call = Completed(type, amount), e = call \/ e = WithError(call)
    PROVE  /\ e \in Frame /\ e.parent = stack[1] /\ e.type = type /\ e.pre /\ e.amount = amount
           /\ e.sender = IF type = "DELEGATECALL" THEN frames[stack[1]].sender ELSE e.from
           /\ e = call => ~e.err
           /\ e = WithError(call) => e.err
  <1> DEFINE b == Enter(type, User)
             c == [b EXCEPT !.pre = TRUE]
  <1>1. /\ b \in Frame /\ b.parent = stack[1] /\ b.type = type /\ ~b.pre /\ ~b.err
        /\ b.sender = IF type = "DELEGATECALL" THEN frames[stack[1]].sender ELSE b.from
    BY EnterFields, Constants
  <1>2. call = [c EXCEPT !.amount = amount]
    BY DEF Completed
  <1> HIDE DEF b
  <1>3. /\ c \in Frame /\ c.parent = b.parent /\ c.type = b.type /\ c.pre /\ ~c.err
        /\ c.sender = b.sender /\ c.from = b.from
    BY <1>1 DEF Frame
  <1> HIDE DEF c
  <1>4. /\ call \in Frame /\ call.parent = b.parent /\ call.type = b.type /\ call.pre /\ ~call.err
        /\ call.sender = b.sender /\ call.from = b.from /\ call.amount = amount
    BY <1>2, <1>3 DEF Frame
  <1>5. CASE e = call
    <2>1. WithError(call).err
      BY <1>4 DEF Frame, WithError
    <2> QED BY <1>1, <1>4, <1>5, <2>1
  <1>6. CASE e = WithError(call)
    <2>1. /\ e \in Frame /\ e.parent = b.parent /\ e.type = b.type /\ e.pre /\ e.err
          /\ e.sender = b.sender /\ e.from = b.from /\ e.amount = amount
      BY <1>4, <1>6 DEF Frame, WithError
    <2> QED BY <1>1, <1>4, <1>6, <2>1
  <1> QED BY <1>5, <1>6

(* One more frame, called by the one on top of the stack. *)
LEMMA FrameEntered ==
    ASSUME ExecInv, stack # <<>>, Size < MaxFrames, NEW e \in Frame,
           e.parent = stack[1],
           e.sender = IF e.type = "DELEGATECALL" THEN frames[stack[1]].sender ELSE e.from,
           frames' = Append(frames, e)
    PROVE  /\ frames' \in Seq(Frame) /\ Size' = Size + 1 /\ Size' \in 1..MaxFrames
           /\ \A f \in 1..Size : frames'[f] = frames[f]
           /\ frames'[Size + 1] = e
           /\ ParentsSound' /\ SendersSound' /\ Nested'
           /\ \A i \in 1..Len(stack) :
                /\ ~frames'[stack[i]].pre
                /\ \A f \in 1..(Size + 1) : f > stack[i] => frames'[f].parent >= stack[i]
  <1> DEFINE n == Size + 1
             p == stack[1]
  <1>1. /\ Size \in Nat /\ Size >= 1 /\ frames \in Seq(Frame) /\ Len(frames) = Size /\ p \in 1..Size
        /\ MaxFrames \in Nat /\ Len(stack) >= 1 /\ Len(stack) \in Nat /\ \A i \in 1..Len(stack) : stack[i] \in 1..Size
    BY ExecFacts, Constants DEF Size
  <1>2. /\ frames' \in Seq(Frame) /\ Size' = n /\ Size' \in 1..MaxFrames /\ n \in Nat
        /\ \A f \in 1..Size : frames'[f] = frames[f]
        /\ frames'[n] = e
    BY <1>1 DEF Size
  <1>3. \A f \in 1..n : f \in 1..Size \/ f = n
    BY <1>1
  <1>4. ~frames[p].pre /\ \A f \in 1..Size : f > p => frames[f].parent >= p
    BY <1>1 DEF ExecInv, StackSound
  <1> HIDE DEF n, p
  <1>5. ParentsSound'
    <2>1. frames'[1] = frames[1]
      BY <1>1, <1>2
    <2>2. \A f \in 2..n : frames'[f].parent \in 1..(f - 1) /\ ~frames'[frames'[f].parent].pre
      <3> SUFFICES ASSUME NEW f \in 2..n PROVE frames'[f].parent \in 1..(f - 1) /\ ~frames'[frames'[f].parent].pre
        OBVIOUS
      <3>1. CASE f = n
        BY <1>1, <1>2, <1>4, <3>1 DEF p, n
      <3>2. CASE f # n
        <4>1. f \in 2..Size /\ frames'[f] = frames[f]
          BY <1>1, <1>2, <1>3, <3>2
        <4>2. frames[f].parent \in 1..(f - 1) /\ ~frames[frames[f].parent].pre
          BY <4>1 DEF ExecInv, ParentsSound
        <4>3. frames[f].parent \in 1..Size
          BY <1>1, <4>1, <4>2
        <4> QED BY <1>2, <4>1, <4>2, <4>3
      <3> QED BY <3>1, <3>2
    <2> QED BY <1>2, <2>1, <2>2 DEF ExecInv, ParentsSound
  <1>6. SendersSound'
    <2>1. \A f \in 2..n : frames'[f].sender = IF frames'[f].type = "DELEGATECALL" THEN frames'[frames'[f].parent].sender
                                             ELSE frames'[f].from
      <3> SUFFICES ASSUME NEW f \in 2..n
                   PROVE  frames'[f].sender = IF frames'[f].type = "DELEGATECALL" THEN frames'[frames'[f].parent].sender
                                              ELSE frames'[f].from
        OBVIOUS
      <3>1. CASE f = n
        BY <1>1, <1>2, <3>1 DEF p
      <3>2. CASE f # n
        <4>1. f \in 2..Size /\ frames'[f] = frames[f]
          BY <1>1, <1>2, <1>3, <3>2
        <4>2. frames[f].parent \in 1..(f - 1)
          BY <4>1 DEF ExecInv, ParentsSound
        <4>3. frames[f].parent \in 1..Size
          BY <1>1, <4>1, <4>2
        <4> QED BY <1>2, <4>1, <4>3 DEF ExecInv, SendersSound
      <3> QED BY <3>1, <3>2
    <2> QED BY <1>2, <2>1 DEF SendersSound
  <1>7. Nested'
    <2>1. \A f \in 2..n : \A h \in 1..f : h > frames'[f].parent => frames'[h].parent >= frames'[f].parent
      <3> SUFFICES ASSUME NEW f \in 2..n, NEW h \in 1..f, h > frames'[f].parent
                   PROVE  frames'[h].parent >= frames'[f].parent
        OBVIOUS
      <3>1. CASE f # n
        <4>1. f \in 2..Size /\ h \in 1..Size /\ frames'[f] = frames[f] /\ frames'[h] = frames[h]
          BY <1>1, <1>2, <1>3, <3>1
        <4> QED BY <4>1 DEF ExecInv, Nested
      <3>2. CASE f = n /\ h # n
        <4>1. h \in 1..Size /\ frames'[h] = frames[h] /\ frames'[f].parent = p
          BY <1>1, <1>2, <1>3, <3>2 DEF p
        <4> QED BY <1>4, <4>1
      <3>3. CASE f = n /\ h = n
        <4>1. frames'[h] = e /\ frames'[f] = e /\ e.parent \in 1..Size
          BY <1>1, <1>2, <3>3 DEF p
        <4>2. e.parent >= e.parent
          BY <1>1, <4>1
        <4> QED BY <4>1, <4>2
      <3> QED BY <3>1, <3>2, <3>3
    <2> QED BY <1>2, <2>1 DEF Nested
  <1>8. \A i \in 1..Len(stack) :
          /\ ~frames'[stack[i]].pre
          /\ \A f \in 1..n : f > stack[i] => frames'[f].parent >= stack[i]
    <2> SUFFICES ASSUME NEW i \in 1..Len(stack)
                 PROVE  /\ ~frames'[stack[i]].pre
                        /\ \A f \in 1..n : f > stack[i] => frames'[f].parent >= stack[i]
      OBVIOUS
    <2>1. ~frames[stack[i]].pre /\ \A f \in 1..Size : f > stack[i] => frames[f].parent >= stack[i]
      BY DEF ExecInv, StackSound
    <2>2. p >= stack[i]
      <3>1. CASE i = 1
        BY <1>1, <3>1 DEF p
      <3>2. CASE i # 1
        <4>1. 1 \in 1..Len(stack) /\ 1 < i
          BY <1>1, <3>2
        <4>2. stack[1] > stack[i]
          BY <4>1 DEF ExecInv, StackSound
        <4> QED BY <1>1, <4>2 DEF p
      <3> QED BY <3>1, <3>2
    <2> QED BY <1>1, <1>2, <1>3, <2>1, <2>2 DEF p
  <1> QED BY <1>2, <1>5, <1>6, <1>7, <1>8 DEF n

(* A step that keeps the parents keeps what is above what. *)
LEMMA AboveKept ==
    ASSUME NEW m \in Nat, \A f \in 1..m : frames'[f].parent = frames[f].parent,
           NEW g \in 1..m, NEW a \in Nat
    PROVE  Above(frames', a, g) <=> Above(frames, a, g)
  <1>1. \A h \in (a + 1)..g : h \in 1..m
    OBVIOUS
  <1> QED BY <1>1 DEF Above

(* Above is an order along the calls. *)
LEMMA AboveTransitive ==
    ASSUME ExecInv, NEW a \in 1..Size, NEW b \in 1..Size, NEW c \in 1..Size, Above(frames, a, b), Above(frames, b, c)
    PROVE  Above(frames, a, c)
  <1>1. Size \in Nat /\ a < b /\ b < c /\ MaxFrames \in Nat
    BY ExecFacts, Constants DEF Above
  <1>2. ASSUME NEW h \in (a + 1)..c PROVE frames[h].parent >= a
    <2>1. h \in 1..Size /\ frames[h].parent \in Nat
      BY <1>1, ExecFacts
    <2>2. CASE h <= b
      BY <1>1, <2>2 DEF Above
    <2>3. CASE h > b
      <3>1. frames[h].parent >= b
        BY <1>1, <2>3 DEF Above
      <3> QED BY <1>1, <2>1, <3>1
    <2> QED BY <1>1, <2>2, <2>3
  <1> QED BY <1>1, <1>2 DEF Above

(* A frame on the stack is above everything entered after it. *)
LEMMA StackAbove ==
    ASSUME ExecInv, NEW i \in 1..Len(stack), NEW g \in 1..Size, g > stack[i]
    PROVE  Above(frames, stack[i], g)
  <1>1. stack[i] \in 1..Size /\ Size \in Nat
    BY ExecFacts
  <1>2. \A h \in (stack[i] + 1)..g : h \in 1..Size /\ h > stack[i]
    BY <1>1
  <1> QED BY <1>1, <1>2 DEF Above, ExecInv, StackSound

(* What is above a new frame: its caller and what is above that. *)
LEMMA AboveNew ==
    ASSUME ExecInv, stack # <<>>, Size < MaxFrames, NEW e \in Frame, e.parent = stack[1],
           e.sender = IF e.type = "DELEGATECALL" THEN frames[stack[1]].sender ELSE e.from,
           frames' = Append(frames, e), NEW a \in 1..(Size + 1), Above(frames', a, Size + 1)
    PROVE  a \in 1..Size /\ ~frames[a].err /\ frames'[a] = frames[a]
  <1>1. /\ Size \in Nat /\ stack[1] \in 1..Size /\ \A f \in 1..Size : frames'[f] = frames[f]
        /\ frames'[Size + 1] = e
    BY ExecFacts, FrameEntered
  <1>2. a < Size + 1 /\ \A h \in (a + 1)..(Size + 1) : frames'[h].parent >= a
    BY DEF Above
  <1>3. stack[1] >= a /\ a \in 1..Size
    <2>1. a \in 1..Size /\ Size + 1 \in (a + 1)..(Size + 1)
      BY <1>1, <1>2
    <2>2. frames'[Size + 1].parent >= a
      BY <1>2, <2>1
    <2> QED BY <1>1, <2>1, <2>2
  <1>4. CASE a = stack[1]
    BY <1>1, <1>3, <1>4 DEF ExecInv, OpenSound
  <1>5. CASE a # stack[1]
    <2>1. \A h \in (a + 1)..stack[1] : frames[h].parent >= a
      <3>1. \A h \in (a + 1)..stack[1] : h \in 1..Size /\ h \in (a + 1)..(Size + 1)
        BY <1>1, <1>3
      <3> QED BY <1>1, <1>2, <3>1
    <2>2. Above(frames, a, stack[1])
      BY <1>1, <1>3, <1>5, <2>1 DEF Above
    <2> QED BY <1>1, <1>3, <2>2 DEF ExecInv, OpenSound
  <1> QED BY <1>4, <1>5

(* The debits of the receipts there were, when a frame is entered. *)
LEMMA DebitsEntered ==
    ASSUME ExecInv, Size \in Nat, NEW e, \A f \in 1..Size : frames'[f] = frames[f],
           Size' = Size + 1, NEW i \in 1..Len(emitted)
    PROVE  (\A a \in 1..Size' : Above(frames', a, emitted[i]) => ~frames'[a].err) <=> emitted[i] \in debits
  <1>1. emitted[i] \in 1..Size
    BY ExecFacts
  <1>2. \A a \in 1..Size' : Above(frames', a, emitted[i]) <=> Above(frames, a, emitted[i])
    BY <1>1, AboveKept
  <1>3. \A a \in 1..Size' : Above(frames, a, emitted[i]) => a \in 1..Size
    BY <1>1 DEF Above
  <1> QED BY <1>2, <1>3 DEF ExecInv, DebitsSound

(* A call. *)
LEMMA CallStep ==
    ASSUME ExecInv, NEW type \in CallType, NEW target \in Account, Call(type, target)
    PROVE  ExecInv'
  <1> DEFINE e == Enter(type, target)
             n == Size + 1
  <1>1. /\ stack # <<>> /\ Size < MaxFrames /\ frames' = Append(frames, e)
        /\ stack' = <<n>> \o stack /\ debits' = debits /\ emitted' = emitted
    BY DEF Call, Size
  <1>2. /\ e \in Frame /\ e.parent = stack[1] /\ e.type = type /\ ~e.pre /\ ~e.err
        /\ e.sender = IF e.type = "DELEGATECALL" THEN frames[stack[1]].sender ELSE e.from
    BY <1>1, EnterFields
  <1> HIDE DEF e
  <1>3. /\ frames' \in Seq(Frame) /\ Size' = n /\ Size' \in 1..MaxFrames
        /\ \A f \in 1..Size : frames'[f] = frames[f]
        /\ frames'[n] = e
        /\ ParentsSound' /\ SendersSound' /\ Nested'
        /\ \A i \in 1..Len(stack) :
             /\ ~frames'[stack[i]].pre
             /\ \A f \in 1..n : f > stack[i] => frames'[f].parent >= stack[i]
    BY <1>1, <1>2, FrameEntered
  <1>4. /\ Size \in Nat /\ stack \in Seq(1..Size) /\ debits \subseteq 1..Size /\ emitted \in Seq(1..Size)
        /\ Len(stack) \in Nat /\ Len(stack) >= 1 /\ \A i \in 1..Len(stack) : stack[i] \in 1..Size
        /\ Len(emitted) \in Nat /\ \A i \in 1..Len(emitted) : emitted[i] \in 1..Size
        /\ Size >= 1
    <2>1. /\ Size \in Nat /\ stack \in Seq(1..Size) /\ debits \subseteq 1..Size /\ emitted \in Seq(1..Size)
          /\ Size >= 1
      BY ExecFacts
    <2>2. Len(stack) \in Nat /\ Len(stack) >= 1 /\ \A i \in 1..Len(stack) : stack[i] \in 1..Size
      BY <1>1, <2>1
    <2>3. Len(emitted) \in Nat /\ \A i \in 1..Len(emitted) : emitted[i] \in 1..Size
      BY <2>1
    <2> QED BY <2>1, <2>2, <2>3
  <1>5. /\ Len(stack') = Len(stack) + 1 /\ stack'[1] = n
        /\ \A i \in 2..Len(stack') : i - 1 \in 1..Len(stack) /\ stack'[i] = stack[i - 1]
    BY <1>1, <1>4
  <1>6. ExecTypes'
    <2>1. stack \in Seq(1..n) /\ emitted \in Seq(1..n) /\ debits \subseteq 1..n /\ n \in 1..n
      BY <1>4
    <2>2. stack' \in Seq(1..n)
      BY <1>1, <2>1
    <2> QED BY <1>1, <1>3, <2>1, <2>2 DEF ExecTypes
  <1>7. StackSound'
    <2>1. ASSUME NEW i \in 1..Len(stack'), NEW j \in 1..Len(stack'), i < j PROVE stack'[i] > stack'[j]
      <3>1. stack'[j] = stack[j - 1] /\ j - 1 \in 1..Len(stack)
        BY <1>4, <1>5, <2>1
      <3>2. CASE i = 1
        BY <1>4, <1>5, <3>1, <3>2
      <3>3. CASE i # 1
        <4>1. stack'[i] = stack[i - 1] /\ i - 1 \in 1..Len(stack) /\ i - 1 < j - 1
          BY <1>4, <1>5, <2>1, <3>3
        <4> QED BY <3>1, <4>1 DEF ExecInv, StackSound
      <3> QED BY <3>2, <3>3
    <2>2. ASSUME NEW i \in 1..Len(stack')
          PROVE  ~frames'[stack'[i]].pre /\ \A f \in 1..n : f > stack'[i] => frames'[f].parent >= stack'[i]
      <3>1. CASE i = 1
        BY <1>2, <1>3, <1>4, <1>5, <3>1
      <3>2. CASE i # 1
        <4>1. stack'[i] = stack[i - 1] /\ i - 1 \in 1..Len(stack)
          BY <1>4, <1>5, <3>2
        <4> QED BY <1>3, <4>1
      <3> QED BY <3>1, <3>2
    <2> QED BY <1>3, <2>1, <2>2 DEF StackSound
  <1>8. EmittedSound'
    <2>1. \A f \in 1..n : frames'[f].pre /\ ~frames'[f].err => f \in 1..Size
      BY <1>2, <1>3, <1>4
    <2>2. Len(emitted) <= n
      BY <1>4 DEF ExecInv, EmittedSound
    <2>3. ASSUME NEW i \in 1..Len(emitted)
          PROVE  /\ frames'[emitted[i]].pre /\ ~frames'[emitted[i]].err /\ frames'[emitted[i]].amount \in Amount
                 /\ emitted[i] # 1
      BY <1>3, <1>4 DEF ExecInv, EmittedSound
    <2>4. \A f \in 1..n : frames'[f].pre /\ ~frames'[f].err => \E i \in 1..Len(emitted) : emitted[i] = f
      BY <1>3, <2>1 DEF ExecInv, EmittedSound
    <2>5. \A i, j \in 1..Len(emitted) : emitted[i] = emitted[j] => i = j
      BY DEF ExecInv, EmittedSound
    <2> QED BY <1>1, <1>3, <2>2, <2>3, <2>4, <2>5 DEF EmittedSound
  <1>9. DebitsSound'
    <2>1. ASSUME NEW i \in 1..Len(emitted)
          PROVE  (\A a \in 1..Size' : Above(frames', a, emitted[i]) => ~frames'[a].err) <=> emitted[i] \in debits
      BY <1>3, <1>4, DebitsEntered
    <2> QED BY <1>1, <2>1 DEF DebitsSound, Above
  <1>10. OpenSound'
    <2>1. ASSUME NEW a \in 1..n, Above(frames', a, n) PROVE ~frames'[a].err
      BY <1>1, <1>2, <2>1, AboveNew
    <2> QED BY <1>2, <1>3, <1>5, <2>1 DEF OpenSound, Above
  <1> QED BY <1>3, <1>6, <1>7, <1>8, <1>9, <1>10 DEF ExecInv

(* A call of the precompile: rejected, or completed with a debit and a receipt. *)
LEMMA PrecompileStep ==
    ASSUME ExecInv, NEW type \in CallType, NEW amount \in Amount, CallPrecompile(type, amount)
    PROVE  ExecInv'
  <1> DEFINE n == Size + 1
  <1>0. PICK call : call = Completed(type, amount)
    OBVIOUS
  <1>1. /\ stack # <<>> /\ n <= MaxFrames /\ stack' = stack
        /\ \/ frames' = Append(frames, WithError(call)) /\ debits' = debits /\ emitted' = emitted
           \/ frames' = Append(frames, call) /\ debits' = debits \cup {n} /\ emitted' = Append(emitted, n)
    BY <1>0 DEF CallPrecompile, Size, Completed, WithError
  <1>2. PICK e : /\ frames' = Append(frames, e)
                 /\ \/ e = WithError(call) /\ debits' = debits /\ emitted' = emitted
                    \/ e = call /\ debits' = debits \cup {n} /\ emitted' = Append(emitted, n)
    BY <1>1
  <1>3. /\ e \in Frame /\ e.parent = stack[1] /\ e.type = type /\ e.pre /\ e.amount = amount
        /\ e.sender = IF e.type = "DELEGATECALL" THEN frames[stack[1]].sender ELSE e.from
        /\ e = call => ~e.err
        /\ e = WithError(call) => e.err
    <2>1. e = call \/ e = WithError(call)
      BY <1>2
    <2>2. /\ e \in Frame /\ e.parent = stack[1] /\ e.type = type /\ e.pre /\ e.amount = amount
          /\ e.sender = IF type = "DELEGATECALL" THEN frames[stack[1]].sender ELSE e.from
          /\ e = call => ~e.err
          /\ e = WithError(call) => e.err
      <3> HIDE DEF n
      <3> QED BY <1>0, <1>1, <2>1, PrecompileFields
    <2> QED BY <2>2
  <1>5. \/ e.err /\ debits' = debits /\ emitted' = emitted
        \/ ~e.err /\ debits' = debits \cup {n} /\ emitted' = Append(emitted, n)
    BY <1>2, <1>3
  <1>6. /\ Size \in Nat /\ stack \in Seq(1..Size) /\ debits \subseteq 1..Size /\ emitted \in Seq(1..Size)
        /\ Len(emitted) \in Nat /\ \A i \in 1..Len(emitted) : emitted[i] \in 1..Size
        /\ Size >= 1 /\ MaxFrames \in Nat /\ Size < MaxFrames
        /\ \A i \in 1..Len(stack) : stack[i] \in 1..Size
        /\ stack[1] \in 1..Size
    <2>1. stack # <<>> /\ Size + 1 <= MaxFrames
      BY <1>1
    <2> HIDE DEF n
    <2> QED BY <2>1, ExecFacts, Constants
  <1>7. /\ frames' \in Seq(Frame) /\ Size' = n /\ Size' \in 1..MaxFrames
        /\ \A f \in 1..Size : frames'[f] = frames[f]
        /\ frames'[n] = e
        /\ ParentsSound' /\ SendersSound' /\ Nested'
        /\ \A i \in 1..Len(stack) :
             /\ ~frames'[stack[i]].pre
             /\ \A f \in 1..n : f > stack[i] => frames'[f].parent >= stack[i]
    BY <1>1, <1>2, <1>3, <1>6, FrameEntered
  <1>8. ExecTypes'
    <2>1. stack \in Seq(1..n) /\ emitted \in Seq(1..n) /\ debits \subseteq 1..n /\ n \in 1..n
      BY <1>6
    <2>2. emitted' \in Seq(1..n) /\ debits' \subseteq 1..n
      <3>1. n \in 1..n
        BY <2>1
      <3> HIDE DEF n
      <3>2. Append(emitted, n) \in Seq(1..n)
        BY <2>1, <3>1
      <3>3. debits \cup {n} \subseteq 1..n
        BY <2>1, <3>1
      <3> QED BY <1>5, <2>1, <3>2, <3>3
    <2> QED BY <1>1, <1>7, <2>1, <2>2 DEF ExecTypes
  <1>9. StackSound'
    <2>1. \A i, j \in 1..Len(stack) : i < j => stack[i] > stack[j]
      BY DEF ExecInv, StackSound
    <2> QED BY <1>1, <1>7, <2>1 DEF StackSound
  <1>10. OpenSound'
    <2>1. \A a \in 1..n : Above(frames', a, stack[1]) => a \in 1..Size
      BY <1>6 DEF Above
    <2>2. ASSUME NEW a \in 1..Size PROVE Above(frames', a, stack[1]) <=> Above(frames, a, stack[1])
      <3>1. \A f \in 1..Size : frames'[f].parent = frames[f].parent
        BY <1>7
      <3>2. a \in Nat
        BY <1>6
      <3> QED BY <1>6, <3>1, <3>2, AboveKept
    <2>3. ~frames[stack[1]].err /\ \A a \in 1..Size : Above(frames, a, stack[1]) => ~frames[a].err
      BY <1>1 DEF ExecInv, OpenSound
    <2> QED BY <1>1, <1>6, <1>7, <2>1, <2>2, <2>3 DEF OpenSound
  <1>11. \A i \in 1..Len(emitted) :
           /\ frames'[emitted[i]].pre /\ ~frames'[emitted[i]].err /\ frames'[emitted[i]].amount \in Amount
           /\ emitted[i] # 1
    BY <1>6, <1>7 DEF ExecInv, EmittedSound
  <1>12. \A f \in 1..Size : frames'[f].pre /\ ~frames'[f].err => \E i \in 1..Len(emitted) : emitted[i] = f
    BY <1>7 DEF ExecInv, EmittedSound
  <1>13. Len(emitted) <= Size /\ \A i, j \in 1..Len(emitted) : emitted[i] = emitted[j] => i = j
    BY DEF ExecInv, EmittedSound
  <1>14. \A i \in 1..Len(emitted) :
           (\A a \in 1..n : Above(frames', a, emitted[i]) => ~frames'[a].err) <=> emitted[i] \in debits
    BY <1>6, <1>7, DebitsEntered
  <1>15. \A f \in 1..n : f \in 1..Size \/ f = n
    BY <1>6
  <1>16. CASE e.err /\ debits' = debits /\ emitted' = emitted
    <2>1. EmittedSound'
      <3>1. \A f \in 1..n : frames'[f].pre /\ ~frames'[f].err => f \in 1..Size
        BY <1>7, <1>15, <1>16
      <3>2. Len(emitted) <= n
        BY <1>6, <1>13
      <3> QED BY <1>7, <1>11, <1>12, <1>13, <1>16, <3>1, <3>2 DEF EmittedSound
    <2>2. DebitsSound'
      BY <1>7, <1>14, <1>16 DEF DebitsSound
    <2> QED BY <1>7, <1>8, <1>9, <1>10, <2>1, <2>2 DEF ExecInv
  <1>17. CASE ~e.err /\ debits' = debits \cup {n} /\ emitted' = Append(emitted, n)
    <2> DEFINE m == Len(emitted) + 1
    <2>1. /\ Len(emitted') = m /\ m \in Nat /\ emitted'[m] = n
          /\ \A i \in 1..Len(emitted) : i \in 1..m /\ emitted'[i] = emitted[i] /\ emitted[i] # n
          /\ \A i \in 1..m : i \in 1..Len(emitted) \/ i = m
          /\ m \in 1..m
      <3>1. /\ emitted \in Seq(1..Size) /\ Len(emitted) \in Nat /\ n \notin 1..Size
            /\ \A i \in 1..Len(emitted) : emitted[i] \in 1..Size
        BY <1>6
      <3>2. m \in Nat /\ m \in 1..m /\ \A i \in 1..m : i \in 1..Len(emitted) \/ i = m
        BY <3>1
      <3>3. \A i \in 1..Len(emitted) : i \in 1..m /\ emitted[i] # n
        BY <3>1
      <3>4. /\ Len(emitted') = m /\ emitted'[m] = n
            /\ \A i \in 1..Len(emitted) : emitted'[i] = emitted[i]
        BY <1>17, <3>1
      <3> QED BY <3>2, <3>3, <3>4
    <2> HIDE DEF m
    <2>2. EmittedSound'
      <3>1. ASSUME NEW i \in 1..m
            PROVE  /\ frames'[emitted'[i]].pre /\ ~frames'[emitted'[i]].err /\ frames'[emitted'[i]].amount \in Amount
                   /\ emitted'[i] # 1
        <4>1. CASE i = m
          BY <1>3, <1>6, <1>7, <1>17, <2>1, <4>1
        <4>2. CASE i # m
          BY <1>11, <2>1, <4>2
        <4> QED BY <4>1, <4>2
      <3>2. ASSUME NEW f \in 1..n, frames'[f].pre, ~frames'[f].err PROVE \E i \in 1..m : emitted'[i] = f
        BY <1>12, <1>15, <2>1, <3>2
      <3>3. ASSUME NEW i \in 1..m, NEW j \in 1..m, emitted'[i] = emitted'[j] PROVE i = j
        BY <1>13, <2>1, <3>3
      <3>4. m <= n
        BY <1>6, <1>13 DEF m
      <3> QED BY <1>7, <2>1, <3>1, <3>2, <3>3, <3>4 DEF EmittedSound
    <2>3. DebitsSound'
      <3>1. ASSUME NEW i \in 1..m
            PROVE  emitted'[i] \in debits' <=> \A a \in 1..n : Above(frames', a, emitted'[i]) => ~frames'[a].err
        <4>1. CASE i = m
          <5>1. \A a \in 1..n : Above(frames', a, n) => ~frames'[a].err
            BY <1>1, <1>2, <1>3, <1>6, AboveNew
          <5> QED BY <1>17, <2>1, <4>1, <5>1
        <4>2. CASE i # m
          BY <1>14, <1>17, <2>1, <4>2
        <4> QED BY <4>1, <4>2
      <3> QED BY <1>7, <2>1, <3>1 DEF DebitsSound
    <2> QED BY <1>7, <1>8, <1>9, <1>10, <2>2, <2>3 DEF ExecInv
  <1> QED BY <1>5, <1>16, <1>17

(* What remains of the stack when its top frame is left. *)
LEMMA TopLeft ==
    ASSUME ExecInv, stack # <<>>, stack' = Tail(stack), NEW m, m = Len(stack)
    PROVE  /\ stack' \in Seq(1..Size) /\ m \in Nat /\ m >= 1 /\ Len(stack') = m - 1
           /\ \A i \in 1..Len(stack') : i + 1 \in 1..m /\ stack'[i] = stack[i + 1] /\ stack'[i] \in 1..Size
           /\ \A i \in 1..Len(stack') : stack'[i] < stack[1]
           /\ \A i, j \in 1..Len(stack') : i < j => stack'[i] > stack'[j]
           /\ stack' # <<>> => 1 \in 1..Len(stack') /\ stack'[1] = stack[2]
  <1>1. stack \in Seq(1..Size) /\ m \in Nat /\ m >= 1 /\ \A i \in 1..m : stack[i] \in 1..Size
    BY ExecFacts
  <1>2. stack' \in Seq(1..Size) /\ Len(stack') = m - 1 /\ \A i \in 1..(m - 1) : stack'[i] = stack[i + 1]
    BY <1>1
  <1>3. \A i \in 1..(m - 1) : i + 1 \in 1..m /\ 1 \in 1..m /\ 1 < i + 1
    BY <1>1
  <1>4. \A i, j \in 1..m : i < j => stack[i] > stack[j]
    BY DEF ExecInv, StackSound
  <1>5. \A i \in 1..(m - 1) : stack'[i] \in 1..Size /\ stack'[i] < stack[1]
    <2> SUFFICES ASSUME NEW i \in 1..(m - 1) PROVE stack'[i] \in 1..Size /\ stack'[i] < stack[1]
      OBVIOUS
    <2>1. stack'[i] = stack[i + 1] /\ stack[1] > stack[i + 1] /\ stack[i + 1] \in 1..Size /\ stack[1] \in 1..Size
      BY <1>1, <1>2, <1>3, <1>4
    <2> QED BY <2>1, ExecFacts
  <1>6. ASSUME NEW i \in 1..(m - 1), NEW j \in 1..(m - 1), i < j PROVE stack'[i] > stack'[j]
    BY <1>2, <1>3, <1>4, <1>6
  <1>7. stack' # <<>> => 1 \in 1..(m - 1) /\ stack'[1] = stack[2]
    BY <1>1, <1>2
  <1> QED BY <1>1, <1>2, <1>3, <1>5, <1>6, <1>7

(* A frame returns. *)
LEMMA ReturnStep ==
    ASSUME ExecInv, Return
    PROVE  ExecInv'
  <1> DEFINE m == Len(stack)
  <1>1. stack # <<>> /\ stack' = Tail(stack) /\ frames' = frames /\ debits' = debits /\ emitted' = emitted
    BY DEF Return
  <1>2. /\ stack' \in Seq(1..Size) /\ m \in Nat /\ m >= 1 /\ Len(stack') = m - 1
        /\ \A i \in 1..Len(stack') : i + 1 \in 1..m /\ stack'[i] = stack[i + 1] /\ stack'[i] \in 1..Size
        /\ \A i \in 1..Len(stack') : stack'[i] < stack[1]
        /\ \A i, j \in 1..Len(stack') : i < j => stack'[i] > stack'[j]
        /\ stack' # <<>> => 1 \in 1..Len(stack') /\ stack'[1] = stack[2]
    BY <1>1, TopLeft
  <1> HIDE DEF m
  <1>3. Size' = Size
    BY <1>1 DEF Size
  <1>4. StackSound'
    <2>1. \A i \in 1..m : ~frames[stack[i]].pre /\ \A f \in 1..Size : f > stack[i] => frames[f].parent >= stack[i]
      BY DEF ExecInv, StackSound, m
    <2> QED BY <1>1, <1>2, <1>3, <2>1 DEF StackSound
  <1>5. OpenSound'
    <2> SUFFICES ASSUME stack' # <<>>
                 PROVE  /\ ~frames[stack'[1]].err
                        /\ \A a \in 1..Size : Above(frames, a, stack'[1]) => ~frames[a].err
      BY <1>1, <1>3 DEF OpenSound
    <2>1. 1 \in 1..Len(stack') /\ 1 + 1 \in 1..Len(stack) /\ stack'[1] = stack[2] /\ stack[2] \in 1..Size /\ stack[1] \in 1..Size
          /\ stack[2] < stack[1]
      BY <1>1, <1>2, ExecFacts DEF m
    <2>2. 2 \in 1..Len(stack)
      BY <2>1
    <2>3. Above(frames, stack[2], stack[1])
      BY <2>1, <2>2, ExecFacts, StackAbove
    <2>4. ~frames[stack[2]].err /\ \A a \in 1..Size : Above(frames, a, stack[1]) => ~frames[a].err
      BY <1>1, <2>1, <2>3 DEF ExecInv, OpenSound
    <2>5. \A a \in 1..Size : Above(frames, a, stack[2]) => Above(frames, a, stack[1])
      BY <2>1, <2>3, AboveTransitive
    <2> QED BY <2>1, <2>4, <2>5
  <1>6. ExecTypes'
    BY <1>1, <1>2, <1>3 DEF ExecInv, ExecTypes
  <1>7. ParentsSound' /\ SendersSound' /\ Nested' /\ EmittedSound' /\ DebitsSound'
    BY <1>1, <1>3 DEF ExecInv, ParentsSound, SendersSound, Nested, EmittedSound, DebitsSound
  <1> QED BY <1>4, <1>5, <1>6, <1>7 DEF ExecInv

(* A frame fails, and with it every debit made since it was entered. *)
LEMMA RevertStep ==
    ASSUME ExecInv, Revert
    PROVE  ExecInv'
  <1> DEFINE m == Len(stack)
             s == stack[1]
  <1>1. /\ stack # <<>> /\ stack' = Tail(stack) /\ frames' = [frames EXCEPT ![s].err = TRUE]
        /\ debits' = {d \in debits : d < s} /\ emitted' = emitted
    BY DEF Revert
  <1>2. /\ stack' \in Seq(1..Size) /\ m \in Nat /\ m >= 1 /\ Len(stack') = m - 1
        /\ \A i \in 1..Len(stack') : i + 1 \in 1..m /\ stack'[i] = stack[i + 1] /\ stack'[i] \in 1..Size
        /\ \A i \in 1..Len(stack') : stack'[i] < s
        /\ \A i, j \in 1..Len(stack') : i < j => stack'[i] > stack'[j]
        /\ stack' # <<>> => 1 \in 1..Len(stack') /\ stack'[1] = stack[2]
    BY <1>1, TopLeft
  <1>3. /\ s \in 1..Size /\ Size \in Nat /\ frames \in Seq(Frame) /\ \A f \in 1..Size : frames[f] \in Frame
        /\ debits \subseteq 1..Size /\ emitted \in Seq(1..Size)
        /\ \A i \in 1..Len(emitted) : emitted[i] \in 1..Size
        /\ Size \in 1..MaxFrames /\ DOMAIN frames = 1..Size /\ Len(frames) = Size
    BY <1>1, ExecFacts DEF Size
  <1>4. /\ ~frames[s].pre /\ \A f \in 1..Size : f > s => frames[f].parent >= s
        /\ 1 \in 1..Len(stack)
    <2>1. 1 \in 1..Len(stack)
      BY <1>2
    <2> QED BY <2>1 DEF ExecInv, StackSound
  <1>5. \A i \in 1..m : ~frames[stack[i]].pre /\ \A f \in 1..Size : f > stack[i] => frames[f].parent >= stack[i]
    BY DEF ExecInv, StackSound
  <1> HIDE DEF m, s
  <1> DEFINE b == frames[s]
             c == [b EXCEPT !.err = TRUE]
  <1>6. /\ c \in Frame /\ c.parent = b.parent /\ c.type = b.type /\ c.pre = b.pre /\ c.err = TRUE
        /\ c.amount = b.amount /\ c.sender = b.sender /\ c.from = b.from
    <2>1. b \in Frame
      BY <1>3
    <2> HIDE DEF b
    <2> QED BY <2>1 DEF Frame
  <1>7. frames' = [frames EXCEPT ![s] = c]
    BY <1>1
  <1> HIDE DEF c
  <1>8. /\ frames' \in Seq(Frame) /\ Len(frames') = Size
        /\ \A f \in 1..Size : f # s => frames'[f] = frames[f]
        /\ frames'[s] = c
    BY <1>3, <1>6, <1>7
  <1>9. /\ Size' = Size
        /\ \A f \in 1..Size :
             /\ frames'[f].parent = frames[f].parent /\ frames'[f].type = frames[f].type
             /\ frames'[f].pre = frames[f].pre /\ frames'[f].amount = frames[f].amount
             /\ frames'[f].sender = frames[f].sender /\ frames'[f].from = frames[f].from
             /\ f # s => frames'[f].err = frames[f].err
        /\ frames'[s].err
    BY <1>6, <1>8 DEF Size
  <1>10. ExecTypes'
    BY <1>1, <1>2, <1>3, <1>8, <1>9 DEF ExecTypes
  <1>11. ParentsSound'
    <2>1. 1 \in 1..Size /\ \A f \in 2..Size : f \in 1..Size /\ (frames[f].parent \in 1..(f - 1) => frames[f].parent \in 1..Size)
      BY <1>3
    <2> QED BY <1>9, <2>1 DEF ExecInv, ParentsSound
  <1>12. SendersSound'
    <2>1. \A f \in 2..Size : f \in 1..Size /\ (frames[f].parent \in 1..(f - 1) => frames[f].parent \in 1..Size)
      BY <1>3
    <2>2. \A f \in 2..Size : frames[f].parent \in 1..Size
      BY <2>1 DEF ExecInv, ParentsSound
    <2> QED BY <1>9, <2>1, <2>2 DEF ExecInv, SendersSound
  <1>13. Nested'
    <2>1. \A f \in 2..Size : f \in 1..Size /\ \A h \in 1..f : h \in 1..Size
      BY <1>3
    <2> QED BY <1>9, <2>1 DEF ExecInv, Nested
  <1>14. StackSound'
    <2>1. ASSUME NEW i \in 1..Len(stack')
          PROVE  ~frames'[stack'[i]].pre /\ \A f \in 1..Size : f > stack'[i] => frames'[f].parent >= stack'[i]
      <3>1. i + 1 \in 1..m /\ stack'[i] = stack[i + 1] /\ stack'[i] \in 1..Size
        BY <1>2
      <3>2. ~frames[stack[i + 1]].pre /\ \A f \in 1..Size : f > stack[i + 1] => frames[f].parent >= stack[i + 1]
        BY <1>5, <3>1
      <3> QED BY <1>9, <3>1, <3>2
    <2> QED BY <1>2, <1>9, <2>1 DEF StackSound
  <1>15. ASSUME NEW g \in 1..Size, NEW a \in 1..Size PROVE Above(frames', a, g) <=> Above(frames, a, g)
    <2>1. \A f \in 1..Size : frames'[f].parent = frames[f].parent
      BY <1>9
    <2>2. a \in Nat
      BY <1>3
    <2> QED BY <1>3, <2>1, <2>2, AboveKept
  <1>16. OpenSound'
    <2> SUFFICES ASSUME stack' # <<>>
                 PROVE  /\ ~frames'[stack'[1]].err
                        /\ \A a \in 1..Size : Above(frames', a, stack'[1]) => ~frames'[a].err
      BY <1>9 DEF OpenSound
    <2> DEFINE r == stack'[1]
    <2>1. 1 \in 1..Len(stack') /\ 1 + 1 \in 1..Len(stack) /\ r = stack[2] /\ r \in 1..Size /\ r < s
      BY <1>2 DEF m
    <2>2. 2 \in 1..Len(stack)
      BY <2>1
    <2>3. Above(frames, r, s)
      BY <1>3, <2>1, <2>2, StackAbove
    <2>4. ~frames[r].err /\ \A a \in 1..Size : Above(frames, a, s) => ~frames[a].err
      BY <1>1, <2>1, <2>3 DEF ExecInv, OpenSound, s
    <2>5. \A a \in 1..Size : Above(frames, a, r) => Above(frames, a, s) /\ a < r
      BY <1>3, <2>1, <2>3, AboveTransitive DEF Above
    <2>6. r # s /\ \A a \in 1..Size : a < r => a # s
      BY <1>3, <2>1
    <2> QED BY <1>9, <1>15, <2>1, <2>4, <2>5, <2>6
  <1>17. \A i \in 1..Len(emitted) : emitted[i] # s
    BY <1>4 DEF ExecInv, EmittedSound
  <1>18. EmittedSound'
    <2>1. \A i \in 1..Len(emitted) :
            /\ frames'[emitted[i]].pre /\ ~frames'[emitted[i]].err /\ frames'[emitted[i]].amount \in Amount
            /\ emitted[i] # 1
      BY <1>3, <1>9, <1>17 DEF ExecInv, EmittedSound
    <2>2. \A f \in 1..Size : frames'[f].pre /\ ~frames'[f].err => \E i \in 1..Len(emitted) : emitted[i] = f
      BY <1>9 DEF ExecInv, EmittedSound
    <2>3. Len(emitted) <= Size /\ \A i, j \in 1..Len(emitted) : emitted[i] = emitted[j] => i = j
      BY DEF ExecInv, EmittedSound
    <2> QED BY <1>1, <1>9, <2>1, <2>2, <2>3 DEF EmittedSound
  <1>19. DebitsSound'
    <2>1. ASSUME NEW i \in 1..Len(emitted)
          PROVE  emitted[i] \in debits' <=> \A a \in 1..Size : Above(frames', a, emitted[i]) => ~frames'[a].err
      <3> DEFINE g == emitted[i]
      <3>1. g \in 1..Size /\ g # s /\ (g \in debits <=> \A a \in 1..Size : Above(frames, a, g) => ~frames[a].err)
        BY <1>3, <1>17 DEF ExecInv, DebitsSound
      <3> HIDE DEF g
      <3>2. CASE g < s
        <4>1. \A a \in 1..Size : Above(frames, a, g) => a # s
          BY <1>3, <3>1, <3>2 DEF Above
        <4>2. (\A a \in 1..Size : Above(frames', a, g) => ~frames'[a].err) <=> g \in debits
          BY <1>9, <1>15, <3>1, <4>1
        <4> QED BY <1>1, <3>2, <4>2 DEF g
      <3>3. CASE g > s
        <4>1. Above(frames, s, g)
          BY <1>3, <1>4, <3>1, <3>3, StackAbove DEF s
        <4>2. ~(\A a \in 1..Size : Above(frames', a, g) => ~frames'[a].err)
          BY <1>3, <1>9, <1>15, <3>1, <4>1
        <4>3. g \notin debits'
          BY <1>1, <1>3, <3>1, <3>3
        <4> QED BY <4>2, <4>3 DEF g
      <3> QED BY <1>3, <3>1, <3>2, <3>3
    <2> QED BY <1>1, <1>9, <2>1 DEF DebitsSound
  <1> QED BY <1>10, <1>11, <1>12, <1>13, <1>14, <1>16, <1>18, <1>19 DEF ExecInv

(* Every step of the execution. *)
LEMMA ExecutionStep == ASSUME ExecInv, ExecNext PROVE ExecInv'
  <1>1. ASSUME NEW type \in CallType, NEW target \in Contract, Call(type, target) PROVE ExecInv'
    BY <1>1, CallStep, Constants
  <1>2. ASSUME NEW type \in CallType, NEW amount \in Amount, CallPrecompile(type, amount) PROVE ExecInv'
    BY <1>2, PrecompileStep
  <1> QED BY <1>1, <1>2, ReturnStep, RevertStep DEF ExecNext

(* A transaction begins with its root frame. *)
LEMMA ExecutionInit == ASSUME ExecInit PROVE ExecInv
  <1>1. PICK target \in Contract : frames = <<Root(target)>>
    BY DEF ExecInit
  <1>2. stack = <<1>> /\ debits = {} /\ emitted = <<>>
    BY DEF ExecInit
  <1> DEFINE r == Root(target)
  <1>3. /\ r \in Frame /\ r.type = "CALL" /\ r.sender = r.from /\ r.pre = FALSE /\ r.err = FALSE
    <2>1. target \in Account /\ User \in Account /\ "CALL" \in CallType /\ MaxFrames \in Nat
      BY Constants
    <2> QED BY <2>1 DEF Root, Frame
  <1> HIDE DEF r
  <1>4. frames = <<r>> /\ Size = 1 /\ frames[1] = r /\ frames \in Seq(Frame) /\ 1 \in 1..MaxFrames
    BY <1>1, <1>3, Constants DEF Size, r
  <1>5. Len(stack) = 1 /\ stack[1] = 1 /\ stack \in Seq(1..1) /\ Len(emitted) = 0 /\ emitted \in Seq(1..1)
    BY <1>2
  <1>6. \A f \in 1..1 : f = 1
    OBVIOUS
  <1>7. ExecTypes /\ ParentsSound /\ SendersSound /\ Nested /\ StackSound
    BY <1>2, <1>3, <1>4, <1>5, <1>6 DEF ExecTypes, ParentsSound, SendersSound, Nested, StackSound
  <1>8. EmittedSound /\ DebitsSound /\ OpenSound
    BY <1>2, <1>3, <1>4, <1>5, <1>6 DEF EmittedSound, DebitsSound, OpenSound, Above
  <1> QED BY <1>7, <1>8 DEF ExecInv

-----------------------------------------------------------------------------
(* What the trace shows of an execution *)

(* The parents of a frame: a frame above it is its caller or above its caller. *)
LEMMA AboveParent ==
    ASSUME ExecInv, NEW f \in 2..Size, NEW a \in 1..Size
    PROVE  /\ frames[f].parent \in 1..(f - 1) /\ frames[f].parent \in 1..Size
           /\ Above(frames, a, f) <=> a = frames[f].parent \/ Above(frames, a, frames[f].parent)
  <1> DEFINE p == frames[f].parent
  <1>1. p \in 1..(f - 1) /\ p \in 1..Size /\ Size \in Nat /\ MaxFrames \in Nat
    BY ExecFacts, Constants DEF ExecInv, ParentsSound
  <1>2. \A h \in 1..f : h > p => frames[h].parent >= p
    BY DEF ExecInv, Nested
  <1>3. \A h \in 1..f : frames[h].parent \in Nat
    BY <1>1, ExecFacts
  <1> HIDE DEF p
  <1>4. ASSUME Above(frames, a, f) PROVE a = p \/ Above(frames, a, p)
    <2>1. a < f /\ \A h \in (a + 1)..f : frames[h].parent >= a
      BY <1>4 DEF Above
    <2>2. p >= a
      BY <2>1 DEF p
    <2>3. \A h \in (a + 1)..p : h \in (a + 1)..f
      BY <1>1
    <2> QED BY <1>1, <2>1, <2>2, <2>3 DEF Above
  <1>5. ASSUME a = p PROVE Above(frames, a, f)
    <2>1. \A h \in (p + 1)..f : h \in 1..f /\ h > p
      BY <1>1
    <2>2. p < f
      BY <1>1
    <2> QED BY <1>2, <1>5, <2>1, <2>2 DEF Above
  <1>6. ASSUME Above(frames, a, p) PROVE Above(frames, a, f)
    <2>1. a < p /\ \A h \in (a + 1)..p : frames[h].parent >= a
      BY <1>6 DEF Above
    <2>2. ASSUME NEW h \in (a + 1)..f PROVE frames[h].parent >= a
      <3>1. h \in 1..f
        BY <1>1
      <3>2. CASE h <= p
        BY <1>1, <2>1, <3>2
      <3>3. CASE h > p
        BY <1>1, <1>2, <1>3, <2>1, <3>1, <3>3
      <3> QED BY <1>1, <3>1, <3>2, <3>3
    <2> QED BY <1>1, <2>1, <2>2 DEF Above
  <1> QED BY <1>1, <1>4, <1>5, <1>6 DEF p

(* The recursion of inspect_trace over the callers has a solution ... *)
LEMMA ContextSenderSolves ==
    ASSUME ExecInv
    PROVE  context_sender = [f \in DOMAIN frames |->
               IF f > 1 /\ frames[f].type = "DELEGATECALL" THEN context_sender[frames[f].parent]
               ELSE frames[f].from]
  <1> DEFINE Eq(g) == g = [f \in DOMAIN frames |->
                              IF f > 1 /\ frames[f].type = "DELEGATECALL" THEN g[frames[f].parent]
                              ELSE frames[f].from]
             w == [f \in DOMAIN frames |-> frames[f].sender]
  <1>1. \A f \in DOMAIN frames : w[f] = IF f > 1 /\ frames[f].type = "DELEGATECALL" THEN w[frames[f].parent]
                                        ELSE frames[f].from
    <2> SUFFICES ASSUME NEW f \in 1..Size
                 PROVE  w[f] = IF f > 1 /\ frames[f].type = "DELEGATECALL" THEN w[frames[f].parent]
                               ELSE frames[f].from
      BY ExecFacts
    <2>1. CASE f = 1
      BY <2>1, ExecFacts DEF ExecInv, ParentsSound
    <2>2. CASE f # 1
      <3>1. f \in 2..Size /\ f > 1
        BY <2>2, ExecFacts
      <3>2. frames[f].parent \in DOMAIN frames
        BY <3>1, ExecFacts, AboveParent
      <3> QED BY <3>1, <3>2, ExecFacts DEF ExecInv, SendersSound
    <2> QED BY <2>1, <2>2
  <1>2. Eq(w)
    BY <1>1
  <1>3. context_sender = CHOOSE g : Eq(g)
    BY DEF context_sender
  <1> HIDE DEF Eq, w
  <1>4. Eq(context_sender)
    BY <1>2, <1>3
  <1> QED BY <1>4 DEF Eq

(* ... and only one: the sender the trace carries down to a call is the one  *)
(* it ran with.                                                               *)
LEMMA ContextSender ==
    ASSUME ExecInv, NEW f \in 1..Size
    PROVE  context_sender[f] = frames[f].sender
  <1> DEFINE T == {h \in 1..Size : context_sender[h] # frames[h].sender}
  <1>1. Size \in Nat /\ DOMAIN frames = 1..Size /\ Size >= 1
    BY ExecFacts
  <1>2. \A h \in 1..Size : context_sender[h] =
            IF h > 1 /\ frames[h].type = "DELEGATECALL" THEN context_sender[frames[h].parent]
            ELSE frames[h].from
    BY <1>1, ContextSenderSolves
  <1>3. ASSUME T # {} PROVE FALSE
    <2>1. PICK m \in T : \A h \in T : m <= h
      <3>1. T \in SUBSET Nat
        BY <1>1
      <3> HIDE DEF T
      <3> QED BY <1>3, <3>1, LeastNumber
    <2>2. m \in 1..Size /\ context_sender[m] # frames[m].sender
      OBVIOUS
    <2>3. CASE m = 1
      BY <1>1, <1>2, <2>2, <2>3 DEF ExecInv, ParentsSound
    <2>4. CASE m # 1
      <3>1. m \in 2..Size /\ m > 1
        BY <1>1, <2>2, <2>4
      <3>2. frames[m].parent \in 1..(m - 1) /\ frames[m].parent \in 1..Size
        BY <1>1, <3>1, AboveParent
      <3>3. frames[m].parent \notin T
        BY <1>1, <2>1, <2>2, <3>2
      <3>4. context_sender[frames[m].parent] = frames[frames[m].parent].sender
        BY <3>2, <3>3
      <3> QED BY <1>2, <2>2, <3>1, <3>4 DEF ExecInv, SendersSound
    <2> QED BY <2>3, <2>4
  <1> QED BY <1>3

(* A frame other than the root that failed in the trace is above the call. *)
FailedAbove(f) == \E a \in 2..Size : Above(frames, a, f) /\ TraceError(a)

LEMMA FailedAboveParent ==
    ASSUME ExecInv, NEW f \in 1..Size
    PROVE  FailedAbove(f) <=>
               f > 1 /\ (FailedAbove(frames[f].parent)
                         \/ (frames[f].parent # 1 /\ TraceError(frames[f].parent)))
  <1>1. Size \in Nat /\ Size >= 1
    BY ExecFacts
  <1>2. CASE f = 1
    BY <1>1, <1>2 DEF FailedAbove, Above
  <1>3. CASE f # 1
    <2>1. f \in 2..Size /\ f > 1
      BY <1>1, <1>3
    <2> DEFINE p == frames[f].parent
    <2>2. /\ p \in 1..Size
          /\ \A a \in 2..Size : Above(frames, a, f) <=> a = p \/ Above(frames, a, p)
      <3>1. \A a \in 2..Size : a \in 1..Size
        BY <1>1
      <3>2. p \in 1..Size
        BY <1>1, <2>1, AboveParent
      <3>3. ASSUME NEW a \in 2..Size PROVE Above(frames, a, f) <=> a = p \/ Above(frames, a, p)
        BY <1>1, <2>1, <3>1, AboveParent
      <3> QED BY <3>2, <3>3
    <2> HIDE DEF p
    <2>3. p # 1 <=> p \in 2..Size
      BY <1>1, <2>2
    <2>4. (\E a \in 2..Size : (a = p \/ Above(frames, a, p)) /\ TraceError(a))
             <=> (p \in 2..Size /\ TraceError(p)) \/ \E a \in 2..Size : Above(frames, a, p) /\ TraceError(a)
      OBVIOUS
    <2>5. FailedAbove(f) <=> \E a \in 2..Size : (a = p \/ Above(frames, a, p)) /\ TraceError(a)
      BY <2>2 DEF FailedAbove
    <2>6. FailedAbove(p) <=> \E a \in 2..Size : Above(frames, a, p) /\ TraceError(a)
      BY DEF FailedAbove
    <2> QED BY <2>1, <2>3, <2>4, <2>5, <2>6 DEF p
  <1> QED BY <1>2, <1>3

LEMMA FailedAncestorSolves ==
    ASSUME ExecInv
    PROVE  failed_nonroot_ancestor = [f \in DOMAIN frames |->
               f > 1 /\ \/ failed_nonroot_ancestor[frames[f].parent]
                        \/ frames[f].parent # 1 /\ TraceError(frames[f].parent)]
  <1> DEFINE Eq(g) == g = [f \in DOMAIN frames |->
                              f > 1 /\ \/ g[frames[f].parent]
                                       \/ frames[f].parent # 1 /\ TraceError(frames[f].parent)]
             w == [f \in DOMAIN frames |-> FailedAbove(f)]
  <1>1. DOMAIN frames = 1..Size /\ Size \in Nat
    BY ExecFacts
  <1>2. \A f \in DOMAIN frames :
            w[f] = (f > 1 /\ (w[frames[f].parent] \/ (frames[f].parent # 1 /\ TraceError(frames[f].parent))))
    <2> SUFFICES ASSUME NEW f \in 1..Size
                 PROVE  w[f] = (f > 1 /\ (w[frames[f].parent] \/ (frames[f].parent # 1 /\ TraceError(frames[f].parent))))
      BY <1>1
    <2>1. w[f] = FailedAbove(f)
      BY <1>1
    <2>2. CASE f = 1
      <3>1. ~FailedAbove(f)
        BY <2>2, FailedAboveParent
      <3>2. FailedAbove(f) = FALSE
        BY <3>1 DEF FailedAbove
      <3>3. ~(f > 1)
        BY <2>2
      <3> QED BY <2>1, <3>2, <3>3, Zenon
    <2>3. CASE f # 1
      <3>1. f \in 2..Size /\ 1 \in 1..Size
        BY <1>1, <2>3
      <3>2. frames[f].parent \in DOMAIN frames
        BY <1>1, <3>1, AboveParent
      <3>3. w[frames[f].parent] = FailedAbove(frames[f].parent)
        BY <3>2
      <3> HIDE DEF w
      <3> QED BY <2>1, <3>3, FailedAboveParent DEF FailedAbove
    <2> QED BY <2>2, <2>3
  <1>3. Eq(w)
    <2> DEFINE v == [f \in DOMAIN frames |->
                      f > 1 /\ (w[frames[f].parent] \/ (frames[f].parent # 1 /\ TraceError(frames[f].parent)))]
    <2>1. \A f \in DOMAIN frames : w[f] = v[f]
      BY <1>2, Zenon
    <2>2. DOMAIN w = DOMAIN frames /\ DOMAIN v = DOMAIN frames
      OBVIOUS
    <2>3. w = [f \in DOMAIN w |-> w[f]] /\ v = [f \in DOMAIN v |-> v[f]]
      BY Zenon
    <2>4. w = v
      <3> HIDE DEF w, v
      <3>1. [f \in DOMAIN w |-> w[f]] = [f \in DOMAIN v |-> v[f]]
        BY <2>1, <2>2, Zenon
      <3> QED BY <2>3, <3>1, Zenon
    <2> QED BY <2>4, Zenon
  <1>4. failed_nonroot_ancestor = CHOOSE g : Eq(g)
    BY DEF failed_nonroot_ancestor
  <1> HIDE DEF Eq, w
  <1>5. Eq(failed_nonroot_ancestor)
    BY <1>3, <1>4
  <1> QED BY <1>5 DEF Eq

(* The trace marks a call exactly if a frame other than the root failed above it. *)
LEMMA FailedAncestor ==
    ASSUME ExecInv, NEW f \in 1..Size
    PROVE  failed_nonroot_ancestor[f] <=> FailedAbove(f)
  <1> DEFINE n == failed_nonroot_ancestor
             T == {h \in 1..Size : ~(n[h] <=> FailedAbove(h))}
  <1>1. Size \in Nat /\ DOMAIN frames = 1..Size /\ Size >= 1
    BY ExecFacts
  <1>2. \A h \in 1..Size : n[h] =
            (h > 1 /\ (n[frames[h].parent] \/ (frames[h].parent # 1 /\ TraceError(frames[h].parent))))
    BY <1>1, FailedAncestorSolves, Zenon
  <1> HIDE DEF n
  <1>3. ASSUME T # {} PROVE FALSE
    <2>1. PICK m \in T : \A h \in T : m <= h
      <3>1. T \in SUBSET Nat
        BY <1>1
      <3> HIDE DEF T
      <3> QED BY <1>3, <3>1, LeastNumber
    <2>2. m \in 1..Size /\ ~(n[m] <=> FailedAbove(m))
      BY Zenon
    <2>3. n[m] <=> (m > 1 /\ (n[frames[m].parent] \/ (frames[m].parent # 1 /\ TraceError(frames[m].parent))))
      BY <1>2, <2>2, Zenon
    <2>4. FailedAbove(m) <=>
               m > 1 /\ (FailedAbove(frames[m].parent)
                         \/ (frames[m].parent # 1 /\ TraceError(frames[m].parent)))
      BY <2>2, FailedAboveParent
    <2>5. m > 1
      BY <2>2, <2>3, <2>4, Zenon
    <2>6. m \in 2..Size
      BY <1>1, <2>2, <2>5
    <2>7. frames[m].parent \in 1..(m - 1) /\ frames[m].parent \in 1..Size
      BY <1>1, <2>6, AboveParent
    <2>8. frames[m].parent \notin T
      BY <1>1, <2>1, <2>2, <2>7
    <2>9. n[frames[m].parent] <=> FailedAbove(frames[m].parent)
      BY <2>7, <2>8, Zenon
    <2> QED BY <2>2, <2>3, <2>4, <2>9, Zenon
  <1> QED BY <1>3, Zenon DEF n

(* Above a call of the precompile only frames that are no such calls fail: in *)
(* the trace as in the execution, the root aside.                             *)
LEMMA FailedAboveIs ==
    ASSUME ExecInv, AuditTypes, NEW i \in 1..Len(emitted)
    PROVE  /\ FailedAbove(emitted[i]) => emitted[i] \notin debits
           /\ ~FailedAbove(emitted[i]) /\ ~frames[1].err => emitted[i] \in debits
  <1> DEFINE e == emitted[i]
  <1>1. e \in 1..Size /\ Size \in Nat
    BY ExecFacts
  <1>2. ASSUME NEW a \in 2..Size, Above(frames, a, e) PROVE TraceError(a) <=> frames[a].err
    <2>1. a < e /\ \A h \in (a + 1)..e : frames[h].parent >= a
      BY <1>2 DEF Above
    <2>2. a + 1 \in 2..Size /\ a + 1 \in (a + 1)..e /\ a \in 1..Size
      BY <1>1, <2>1
    <2>3. frames[a + 1].parent \in 1..a /\ ~frames[frames[a + 1].parent].pre
      BY <2>2, <1>1 DEF ExecInv, ParentsSound
    <2>4. frames[a + 1].parent = a
      BY <1>1, <2>1, <2>2, <2>3
    <2> QED BY <1>1, <2>3, <2>4 DEF TraceError
  <1>3. e \in debits <=> \A a \in 1..Size : Above(frames, a, e) => ~frames[a].err
    BY DEF ExecInv, DebitsSound
  <1> HIDE DEF e
  <1>4. FailedAbove(e) <=> \E a \in 2..Size : Above(frames, a, e) /\ frames[a].err
    BY <1>2, Zenon DEF FailedAbove
  <1>5. \A a \in 1..Size : a = 1 \/ a \in 2..Size
    BY <1>1
  <1>6. \A a \in 2..Size : a \in 1..Size
    BY <1>1
  <1> QED BY <1>3, <1>4, <1>5, <1>6, Zenon DEF e

-----------------------------------------------------------------------------
(* One row *)

(* The trace is that of the execution, or tells the receipt from the others. *)
Alone(i) ==
    /\ replay # "diverged"
    /\ replay = "same" \/ \A j \in Receipt : Identity(j) = Identity(i) => j = i

(* When one call completed in the trace and matches, it is the receipt's own. *)
LEMMA MatchingCall ==
    ASSUME ExecInv, AuditTypes, NEW i \in 1..Len(emitted), Alone(i), ~TraceError(1),
           inspect_trace(i).completed = 1, inspect_trace(i).matching = 1
    PROVE  inspect_trace(i).failedMatching = 1 <=> FailedAbove(emitted[i])
  <1> DEFINE completed == {f \in DOMAIN frames : frames[f].pre /\ ~TraceError(f)}
             matching == {f \in completed : payload_matches(f, i)}
             failed == {f \in matching : failed_nonroot_ancestor[f]}
             e == emitted[i]
  <1>1. /\ Cardinality(completed) = 1 /\ Cardinality(matching) = 1
        /\ inspect_trace(i).failedMatching = Cardinality(failed)
    BY DEF inspect_trace
  <1>2. DOMAIN frames = 1..Size /\ Size \in Nat /\ e \in 1..Size
    BY ExecFacts
  <1>3. IsFiniteSet(completed) /\ IsFiniteSet(matching) /\ IsFiniteSet(failed)
    <2>1. IsFiniteSet(1..Size)
      BY <1>2, FS_Interval
    <2>2. completed \in SUBSET (1..Size) /\ matching \in SUBSET (1..Size) /\ failed \in SUBSET (1..Size)
      BY <1>2
    <2> HIDE DEF completed, matching, failed
    <2> QED BY <2>1, <2>2, FS_Subset
  <1>4. PICK c : completed = {c}
    <2> HIDE DEF completed
    <2> QED BY <1>1, <1>3, FS_Singleton
  <1>5. PICK m : matching = {m}
    <2> HIDE DEF matching
    <2> QED BY <1>1, <1>3, FS_Singleton
  <1>6. m = c /\ m \in 1..Size /\ frames[m].pre /\ ~TraceError(m) /\ payload_matches(m, i)
    BY <1>2, <1>4, <1>5
  <1>7. m = e
    <2>1. CASE replay = "same"
      <3>1. frames[e].pre /\ ~frames[e].err
        BY DEF ExecInv, EmittedSound
      <3>2. ~TraceError(e)
        BY <2>1, <3>1 DEF TraceError
      <3>3. e \in completed
        BY <1>2, <3>1, <3>2
      <3> QED BY <1>4, <1>6, <3>3
    <2>2. CASE \A j \in Receipt : Identity(j) = Identity(i) => j = i
      <3>1. ~frames[m].err
        BY <1>6 DEF TraceError
      <3>2. PICK j \in 1..Len(emitted) : emitted[j] = m
        BY <1>6, <3>1 DEF ExecInv, EmittedSound
      <3>3. context_sender[m] = frames[m].sender
        BY <1>6, ContextSender
      <3>4. frames[m].amount = Identity(i).amount /\ frames[m].sender = Identity(i).from
        BY <1>6, <3>3 DEF payload_matches
      <3>5. Identity(j) = Identity(i)
        BY <3>2, <3>4 DEF Identity, AmountSent
      <3>6. j \in Receipt
        BY ExecFacts DEF Receipt
      <3> QED BY <2>2, <3>2, <3>5, <3>6
    <2> QED BY <2>1, <2>2 DEF Alone
  <1>8. failed_nonroot_ancestor[e] <=> FailedAbove(e)
    BY <1>2, FailedAncestor
  <1>9. CASE FailedAbove(e)
    <2>1. failed = {e}
      BY <1>5, <1>7, <1>8, <1>9
    <2>2. Cardinality({e}) = 1
      BY FS_Singleton
    <2> HIDE DEF failed, completed, matching
    <2> QED BY <1>1, <1>9, <2>1, <2>2
  <1>10. CASE ~FailedAbove(e)
    <2>1. failed = {}
      BY <1>5, <1>7, <1>8, <1>10
    <2> HIDE DEF failed, completed, matching
    <2>2. Cardinality(failed) = 0
      BY <2>1, FS_EmptySet
    <2> QED BY <1>1, <1>10, <2>1, <2>2
  <1> QED BY <1>9, <1>10 DEF e

(* A trace is not asked for, or it failed, or it tells the receipt. *)
Tells(i) == direct \/ replay = "root_failed" \/ Alone(i)

(* What a replay that tells of the receipt decides is what happened. *)
LEMMA ReplayDecides ==
    ASSUME ExecInv, AuditTypes, direct => Size = 2, NEW i \in 1..Len(emitted),
           NEW found \in Inspections(i)
    PROVE  /\ replay_final(found) = "rollback_leak" /\ Tells(i) => ~DebitStands(i)
           /\ replay_final(found) = "valid_source_debit" /\ Tells(i) => DebitStands(i)
           /\ ~receipt_status => replay_final(found) = "receipt_inconsistent"
  <1> DEFINE e == emitted[i]
             final == replay_final(found)
  <1>1. direct \in BOOLEAN
    BY DEF AuditTypes
  <1>2. CASE direct /\ receipt_status
    <2>1. final = "valid_source_debit"
      BY <1>2 DEF replay_final, direct_classification
    <2>2. e \in 1..2 /\ Size = 2
      BY <1>2, ExecFacts
    <2>3. \A a \in 1..Size : Above(frames, a, e) => a = 1
      BY <2>2 DEF Above
    <2>4. ~frames[1].err
      BY <1>2 DEF receipt_status
    <2>5. e \in debits
      BY <2>3, <2>4 DEF ExecInv, DebitsSound
    <2> QED BY <1>2, <2>1, <2>5 DEF DebitStands
  <1>3. CASE direct /\ ~receipt_status
    BY <1>3 DEF replay_final, direct_classification, replay_classification
  <1>4. CASE ~direct
    <2>1. final = classify_replay(found)
      BY <1>4 DEF replay_final, direct_classification, replay_classification
    <2>2. ~receipt_status => final = "receipt_inconsistent"
      BY <2>1 DEF classify_replay
    <2>3. CASE final \in {"rollback_leak", "valid_source_debit"} /\ Tells(i)
      <3>0. ~TraceError(1) /\ Alone(i)
        <4>1. ~TraceError(1)
          BY <2>1, <2>3 DEF classify_replay
        <4> QED BY <1>4, <2>3, <4>1 DEF Tells, TraceError
      <3>a. found = inspect_trace(i)
        BY <3>0 DEF Alone, Inspections
      <3>1. /\ receipt_status /\ ~TraceError(1) /\ found.completed = 1 /\ found.matching = 1
            /\ found.failedMatching = 1 <=> final = "rollback_leak"
        BY <2>1, <2>3 DEF classify_replay
      <3>2. final = "rollback_leak" <=> FailedAbove(e)
        BY <3>0, <3>a, <3>1, MatchingCall
      <3>3. ~frames[1].err
        BY <3>1 DEF receipt_status
      <3> HIDE DEF final, e
      <3> QED BY <2>2, <2>3, <3>2, <3>3, FailedAboveIs DEF DebitStands, e, final
    <2> QED BY <2>2, <2>3
  <1> QED BY <1>1, <1>2, <1>3, <1>4

(* A row that does not end the program is sound. *)
LEMMA OutputRowSound ==
    ASSUME ExecInv, AuditTypes, direct => Size = 2, evidence \in [Receipt -> EvidenceStatus],
           NEW i \in Receipt, NEW found \in Inspections(i), ~Rejected(i, found)
    PROVE  RowSound(OutputRow(i, found))
  <1> DEFINE row == OutputRow(i, found)
             class == resolve_classification(i, found)
             final == replay_final(found)
  <1>1. /\ row.receipt = i /\ row.amount = AmountSent(i) /\ row.class = class
        /\ row.evidence = evidence[i] /\ row.replay = replay
    BY DEF OutputRow
  <1>2. i \in 1..Len(emitted) /\ evidence[i] \in EvidenceStatus /\ evidence[i] \in {"none", "absent", "persisted"}
    BY ExecFacts DEF Receipt, EvidenceStatus
  <1>3. class = IF final \in {"rollback_leak", "valid_source_debit"} THEN final ELSE EvidenceClassification(i)
    BY DEF resolve_classification
  <1>4. /\ evidence[i] = "absent" => EvidenceClassification(i) = "source_debit_absent"
        /\ evidence[i] = "persisted" => EvidenceClassification(i) = "valid_source_debit"
        /\ evidence[i] = "none" => EvidenceClassification(i) = "unclassified"
    BY DEF EvidenceClassification
  <1>5. /\ ~receipt_status => evidence[i] = "none"
        /\ final = "valid_source_debit" => evidence[i] # "absent"
        /\ final = "rollback_leak" => evidence[i] # "persisted"
    BY DEF Rejected, Conflict
  <1>6. /\ final = "rollback_leak" /\ Tells(i) => ~DebitStands(i)
        /\ final = "valid_source_debit" /\ Tells(i) => DebitStands(i)
        /\ ~receipt_status => final = "receipt_inconsistent"
    BY <1>2, ReplayDecides
  <1>7. row \in Row
    <2>1. class \in FinalClassification
      BY <1>2, <1>3, <1>4 DEF FinalClassification
    <2>2. replay_classification(found) \in ReplayClassification
      BY DEF replay_classification, classify_replay, ReplayClassification
    <2>3. AmountSent(i) \in Amount
      BY <1>2 DEF ExecInv, EmittedSound, AmountSent
    <2>4. i \in 1..MaxFrames
      BY <1>2, ExecFacts, Constants DEF ExecInv, EmittedSound
    <2>5. replay \in Replay
      BY DEF AuditTypes
    <2> QED BY <1>2, <2>1, <2>2, <2>3, <2>4, <2>5 DEF OutputRow, Row
  <1>8. evidence[i] = "none" /\ Trusted(row) => Tells(i)
    BY <1>1 DEF Trusted, Repeats, Tells, Alone
  <1>9. evidence[i] # "none" /\ Trusted(row) =>
          (evidence[i] = "absent" => ~DebitStands(i)) /\ (evidence[i] = "persisted" => DebitStands(i))
    BY <1>1 DEF Trusted, TrueEvidence
  <1> HIDE DEF row, class, final
  <1>10. Trusted(row) =>
           /\ row.class \in {"rollback_leak", "source_debit_absent"} => ~DebitStands(row.receipt)
           /\ row.class = "valid_source_debit" => DebitStands(row.receipt)
    <2>1. CASE evidence[i] = "none"
      BY <1>1, <1>3, <1>4, <1>6, <1>8, <2>1
    <2>2. CASE evidence[i] = "absent"
      BY <1>1, <1>3, <1>4, <1>5, <1>9, <2>2
    <2>3. CASE evidence[i] = "persisted"
      BY <1>1, <1>3, <1>4, <1>5, <1>9, <2>3
    <2> QED BY <1>2, <2>1, <2>2, <2>3
  <1>11. ~receipt_status => row.class = "unclassified" /\ row.evidence = "none"
    BY <1>1, <1>3, <1>4, <1>5, <1>6
  <1> QED BY <1>1, <1>7, <1>10, <1>11 DEF RowSound, row

(* The audits change nothing of what a row says of the execution. *)
LEMMA RowKept ==
    ASSUME UNCHANGED execVars, direct' = direct, NEW R, RowsSound(R)
    PROVE  RowsSound(R)'
  <1>1. frames' = frames /\ debits' = debits /\ emitted' = emitted /\ direct' = direct
    BY DEF execVars
  <1>2. \A row \in R : RowSound(row)'
    BY <1>1 DEF RowsSound, RowSound, Receipt, Trusted, Repeats, TrueEvidence, Identity, AmountSent, DebitStands, receipt_status
  <1> QED BY <1>2 DEF RowsSound

-----------------------------------------------------------------------------
(* The invariant *)

LEMMA InvInit == AuditInit => AuditIInv
  <1> SUFFICES ASSUME AuditInit PROVE AuditIInv
    OBVIOUS
  <1>1. ExecInv
    BY ExecutionInit DEF AuditInit
  <1>2. /\ phase = "execute" /\ direct = FALSE /\ replay = "same" /\ selected = {} /\ done = 0
        /\ rows = {} /\ published = <<>> /\ summary = <<>>
    BY DEF AuditInit
  <1>3. MaxAudits \in Nat /\ Len(emitted) \in Nat
    BY <1>1, ExecFacts, Constants
  <1>4. AuditTypes
    <2>1. published \in Seq(SUBSET Row) /\ Len(published) = 0
      BY <1>2
    <2>2. Len(published) <= MaxAudits /\ 0 \in 0..Len(emitted)
      BY <1>3, <2>1
    <2>3. selected \subseteq Receipt /\ replay \in Replay /\ direct \in BOOLEAN
      BY <1>2 DEF Replay
    <2> QED BY <1>2, <2>1, <2>2, <2>3 DEF AuditTypes
  <1>5. NothingAudited /\ SummaryIs
    BY <1>2 DEF NothingAudited, SummaryIs
  <1>6. RowsSound(rows) /\ \A k \in 1..Len(published) : RowsSound(published[k])
    BY <1>2, FS_EmptySet DEF RowsSound
  <1> QED BY <1>1, <1>4, <1>5, <1>6 DEF AuditIInv, AuditInv

(* The rows there are, when the execution is over. *)
LEMMA AuditFacts ==
    ASSUME AuditIInv
    PROVE  /\ ExecInv /\ AuditTypes /\ RowsSound(rows) /\ \A k \in 1..Len(published) : RowsSound(published[k])
           /\ Len(published) \in Nat /\ DOMAIN published = 1..Len(published) /\ Len(emitted) \in Nat
           /\ direct => Size = 2
           /\ Receipt = 1..Len(emitted)
  <1>1. ExecInv /\ AuditTypes
    BY DEF AuditIInv, AuditInv
  <1> QED BY <1>1, ExecFacts DEF AuditIInv, AuditInv, AuditTypes, NothingAudited, Receipt

LEMMA RowsKept ==
    ASSUME AuditIInv, UNCHANGED execVars
    PROVE  /\ ExecInv' /\ Receipt' = Receipt /\ Len(emitted') = Len(emitted) /\ Size' = Size
           /\ direct' = direct => \A R : RowsSound(R) => RowsSound(R)'
  <1>1. frames' = frames /\ stack' = stack /\ debits' = debits /\ emitted' = emitted
    BY DEF execVars
  <1>2. ExecInv'
    BY <1>1, AuditFacts DEF ExecInv, ExecTypes, ParentsSound, SendersSound, StackSound, Nested, EmittedSound,
                            DebitsSound, OpenSound, Size
  <1>3. ASSUME direct' = direct, NEW R, RowsSound(R) PROVE RowsSound(R)'
    BY <1>3, RowKept
  <1> QED BY <1>1, <1>2, <1>3 DEF Receipt, Size

(* The program fails: nothing is published. *)
LEMMA FailStep ==
    ASSUME AuditIInv, phase # "summary", phase # "execute", AuditFails
    PROVE  AuditIInv'
  <1>1. /\ UNCHANGED execVars /\ phase' = "failed" /\ selected' = {} /\ done' = 0 /\ rows' = {}
        /\ direct' = direct /\ replay' \in Replay /\ published' = published /\ summary' = summary
    BY DEF AuditFails, AuditOver, Replay
  <1>2. /\ ExecInv' /\ Receipt' = Receipt /\ Len(emitted') = Len(emitted) /\ Size' = Size
        /\ \A R : RowsSound(R) => RowsSound(R)'
    BY <1>1, RowsKept
  <1>3. AuditTypes' /\ NothingAudited'
    BY <1>1, <1>2, AuditFacts DEF AuditTypes, NothingAudited
  <1>4. SummaryIs'
    BY <1>1 DEF AuditIInv, AuditInv, SummaryIs
  <1>5. RowsSound(rows)' /\ \A k \in 1..Len(published') : RowsSound(published[k])'
    <2>1. RowsSound({})'
      BY FS_EmptySet DEF RowsSound
    <2> QED BY <1>1, <1>2, <2>1, AuditFacts
  <1> QED BY <1>1, <1>2, <1>3, <1>4, <1>5 DEF AuditIInv, AuditInv

(* The receipts are exported and an audit is started. *)
LEMMA StartSteps ==
    ASSUME AuditIInv,
           \/ ExportReceipts
           \/ \E S \in SUBSET Receipt, e \in [Receipt -> EvidenceStatus], r \in Replay : StartAudit(S, e, r)
    PROVE  AuditIInv'
  <1>1. CASE ExportReceipts
    <2>1. /\ UNCHANGED execVars /\ phase = "execute" /\ phase' = "ready" /\ direct' \in BOOLEAN /\ (direct' => Len(frames) = 2)
          /\ replay' = replay /\ selected' = selected /\ done' = done
          /\ rows' = rows /\ published' = published /\ summary' = summary
      BY <1>1 DEF ExportReceipts
    <2>2. /\ ExecInv' /\ Receipt' = Receipt /\ Len(emitted') = Len(emitted) /\ Size' = Size
      BY <2>1, RowsKept
    <2>3. AuditTypes' /\ NothingAudited'
      BY <2>1, <2>2, AuditFacts DEF AuditTypes, NothingAudited, Size
    <2>4. SummaryIs'
      BY <2>1 DEF AuditIInv, AuditInv, SummaryIs
    <2>5. RowsSound(rows)' /\ \A k \in 1..Len(published') : RowsSound(published[k])'
      <3>1. rows = {} /\ published = <<>>
        BY <2>1 DEF AuditIInv, AuditInv, NothingAudited
      <3> QED BY <2>1, <3>1, FS_EmptySet DEF RowsSound
    <2> QED BY <2>1, <2>2, <2>3, <2>4, <2>5 DEF AuditIInv, AuditInv
  <1>2. ASSUME NEW S \in SUBSET Receipt, NEW e \in [Receipt -> EvidenceStatus], NEW r \in Replay, StartAudit(S, e, r)
        PROVE  AuditIInv'
    <2>1. /\ UNCHANGED execVars /\ phase = "ready" /\ phase' = "audit" /\ direct' = direct
          /\ selected' = S /\ evidence' = e /\ replay' = r /\ done' = 0
          /\ rows' = {} /\ published' = published /\ summary' = summary
          /\ Len(published) < MaxAudits
      BY <1>2 DEF StartAudit
    <2>2. /\ ExecInv' /\ Receipt' = Receipt /\ Len(emitted') = Len(emitted) /\ Size' = Size
          /\ \A R : RowsSound(R) => RowsSound(R)'
      BY <2>1, RowsKept
    <2>3. AuditTypes' /\ NothingAudited'
      BY <2>1, <2>2, AuditFacts DEF AuditTypes, NothingAudited
    <2>4. SummaryIs'
      BY <2>1 DEF AuditIInv, AuditInv, SummaryIs
    <2>5. RowsSound(rows)' /\ \A k \in 1..Len(published') : RowsSound(published[k])'
      <3>1. RowsSound({})'
        BY FS_EmptySet DEF RowsSound
      <3> QED BY <2>1, <2>2, <3>1, AuditFacts
    <2> QED BY <2>1, <2>2, <2>3, <2>4, <2>5 DEF AuditIInv, AuditInv
  <1> QED BY <1>1, <1>2

(* One receipt is audited. *)
LEMMA AuditRowStep ==
    ASSUME AuditIInv, AuditRow
    PROVE  AuditIInv'
  <1>1. CASE AuditFails
    BY <1>1, FailStep DEF AuditRow
  <1>2. CASE ~AuditFails
    <2> DEFINE i == done + 1
    <2>0. PICK found \in Inspections(i) :
            /\ i \in selected => ~Rejected(i, found)
            /\ rows' = IF i \in selected THEN rows \cup {OutputRow(i, found)} ELSE rows
            /\ done' = i
            /\ UNCHANGED <<execVars, phase, direct, replay, selected, evidence, published, summary>>
      BY <1>2 DEF AuditRow
    <2>1. /\ UNCHANGED execVars /\ phase = "audit" /\ phase' = phase /\ direct' = direct /\ replay' = replay
          /\ selected' = selected /\ evidence' = evidence /\ done' = i /\ done < Len(emitted)
          /\ i \in selected => ~Rejected(i, found)
          /\ rows' = IF i \in selected THEN rows \cup {OutputRow(i, found)} ELSE rows
          /\ published' = published /\ summary' = summary
      BY <1>2, <2>0 DEF AuditRow
    <2>2. /\ ExecInv' /\ Receipt' = Receipt /\ Len(emitted') = Len(emitted) /\ Size' = Size
          /\ \A R : RowsSound(R) => RowsSound(R)'
      BY <2>1, RowsKept
    <2>3. i \in Receipt /\ i \in 0..Len(emitted)
      BY <2>1, AuditFacts DEF AuditTypes
    <2>4. evidence \in [Receipt -> EvidenceStatus]
      BY <2>1, AuditFacts DEF AuditTypes
    <2> HIDE DEF i
    <2>5. RowsSound(rows')
      <3>1. CASE i \in selected
        <4>1. RowSound(OutputRow(i, found))
          BY <2>0, <2>1, <2>3, <2>4, <3>1, AuditFacts, OutputRowSound
        <4>2. IsFiniteSet(rows \cup {OutputRow(i, found)})
          BY AuditFacts, FS_AddElement DEF RowsSound
        <4> QED BY <2>1, <3>1, <4>1, <4>2, AuditFacts DEF RowsSound
      <3>2. CASE i \notin selected
        BY <2>1, <3>2, AuditFacts
      <3> QED BY <3>1, <3>2
    <2>6. PICK R : R = rows'
      OBVIOUS
    <2>7. RowsSound(R)'
      BY <2>2, <2>5, <2>6
    <2>8. RowsSound(rows)'
      BY <2>6, <2>7 DEF RowsSound
    <2>9. AuditTypes' /\ NothingAudited'
      BY <2>1, <2>2, <2>3, AuditFacts DEF AuditTypes, NothingAudited
    <2>10. SummaryIs'
      BY <2>1 DEF AuditIInv, AuditInv, SummaryIs
    <2>11. \A k \in 1..Len(published') : RowsSound(published[k])'
      BY <2>1, <2>2, AuditFacts
    <2> QED BY <2>1, <2>2, <2>8, <2>9, <2>10, <2>11 DEF AuditIInv, AuditInv
  <1> QED BY <1>1, <1>2

(* The output is written, or the run fails. *)
LEMMA WriteOutputStep ==
    ASSUME AuditIInv, WriteOutput
    PROVE  AuditIInv'
  <1>1. CASE AuditFails
    BY <1>1, FailStep DEF WriteOutput
  <1>2. CASE ~AuditFails
    <2> DEFINE n == Len(published)
    <2>1. /\ UNCHANGED execVars /\ phase = "audit" /\ phase' = "ready" /\ direct' = direct /\ replay' \in Replay
          /\ selected' = {} /\ done' = 0
          /\ rows' = {} /\ published' = Append(published, rows) /\ summary' = summary
      BY <1>2 DEF WriteOutput, AuditOver, Replay
    <2>2. /\ ExecInv' /\ Receipt' = Receipt /\ Len(emitted') = Len(emitted) /\ Size' = Size
          /\ \A R : RowsSound(R) => RowsSound(R)'
      BY <2>1, RowsKept
    <2>3. /\ published \in Seq(SUBSET Row) /\ n \in Nat /\ rows \in SUBSET Row
      BY AuditFacts DEF AuditTypes, RowsSound, RowSound
    <2>4. /\ published' \in Seq(SUBSET Row) /\ Len(published') = n + 1 /\ published'[n + 1] = rows
          /\ \A k \in 1..n : published'[k] = published[k]
          /\ \A k \in 1..(n + 1) : k \in 1..n \/ k = n + 1
      BY <2>1, <2>3
    <2>5. n + 1 <= MaxAudits
      BY <2>1, <2>3, AuditFacts, Constants DEF AuditTypes
    <2> HIDE DEF n
    <2>6. AuditTypes' /\ NothingAudited'
      BY <2>1, <2>2, <2>4, <2>5, AuditFacts DEF AuditTypes, NothingAudited
    <2>7. SummaryIs'
      BY <2>1 DEF AuditIInv, AuditInv, SummaryIs
    <2>8. ASSUME NEW k \in 1..Len(published') PROVE RowsSound(published'[k])
      BY <2>4, AuditFacts DEF n
    <2>9. ASSUME NEW k \in 1..(n + 1) PROVE RowsSound(published[k])'
      <3>1. PICK R : R = published'[k]
        OBVIOUS
      <3>2. RowsSound(R)'
        BY <2>2, <2>4, <2>8, <3>1
      <3> QED BY <3>1, <3>2 DEF RowsSound
    <2>10. RowsSound(rows)'
      BY <2>1, FS_EmptySet DEF RowsSound
    <2> QED BY <2>2, <2>4, <2>6, <2>7, <2>9, <2>10 DEF AuditIInv, AuditInv
  <1> QED BY <1>1, <1>2

(* The published audits are added up. *)
LEMMA SummarizeStep ==
    ASSUME AuditIInv, Summarize
    PROVE  AuditIInv'
  <1>1. CASE AuditFails
    BY <1>1, FailStep DEF Summarize
  <1>2. CASE ~AuditFails
    <2>1. /\ UNCHANGED execVars /\ phase = "ready" /\ phase' = "summary" /\ direct' = direct /\ replay' = replay
          /\ selected' = selected /\ evidence' = evidence /\ done' = done
          /\ rows' = rows /\ published' = published
          /\ summary' = [c \in FinalClassification |-> Total({row \in AllRows : row.class = c})]
      BY <1>2 DEF Summarize
    <2>2. /\ ExecInv' /\ Receipt' = Receipt /\ Len(emitted') = Len(emitted) /\ Size' = Size
          /\ \A R : RowsSound(R) => RowsSound(R)'
      BY <2>1, RowsKept
    <2>3. AuditTypes' /\ NothingAudited'
      BY <2>1, <2>2, AuditFacts DEF AuditTypes, NothingAudited
    <2>4. SummaryIs'
      BY <2>1 DEF SummaryIs, AllRows
    <2>5. RowsSound(rows)' /\ \A k \in 1..Len(published') : RowsSound(published[k])'
      BY <2>1, <2>2, AuditFacts
    <2> QED BY <2>1, <2>2, <2>3, <2>4, <2>5 DEF AuditIInv, AuditInv
  <1> QED BY <1>1, <1>2

LEMMA InvNext == AuditIInv /\ [AuditNext]_sourceVars => AuditIInv'
  <1> SUFFICES ASSUME AuditIInv, [AuditNext]_sourceVars PROVE AuditIInv'
    OBVIOUS
  <1>1. CASE Execute
    <2>1. /\ phase = "execute" /\ ExecNext /\ phase' = phase /\ direct' = direct /\ replay' = replay
          /\ selected' = selected /\ done' = done
          /\ rows' = rows /\ published' = published /\ summary' = summary
      BY <1>1 DEF Execute, auditVars
    <2>2. ExecInv'
      BY <2>1, AuditFacts, ExecutionStep
    <2>3. ~direct /\ selected = {} /\ done = 0 /\ rows = {} /\ published = <<>> /\ summary = <<>>
      BY <2>1 DEF AuditIInv, AuditInv, NothingAudited, SummaryIs
    <2>4. AuditTypes'
      <3>1. Len(emitted') \in Nat
        BY <2>2, ExecFacts DEF ExecInv, ExecTypes
      <3>2. replay \in Replay /\ published \in Seq(SUBSET Row) /\ Len(published) <= MaxAudits
        BY AuditFacts DEF AuditTypes
      <3>3. selected' \subseteq Receipt' /\ done' \in 0..Len(emitted')
        BY <2>1, <2>3, <3>1
      <3>4. direct' \in BOOLEAN
        BY <2>1, AuditFacts DEF AuditTypes
      <3> QED BY <2>1, <2>3, <3>2, <3>3, <3>4 DEF AuditTypes
    <2>5. NothingAudited' /\ SummaryIs'
      BY <2>1, <2>3 DEF NothingAudited, SummaryIs
    <2>6. RowsSound(rows)' /\ \A k \in 1..Len(published') : RowsSound(published[k])'
      BY <2>1, <2>3, FS_EmptySet DEF RowsSound
    <2> QED BY <2>2, <2>4, <2>5, <2>6 DEF AuditIInv, AuditInv
  <1>2. CASE RpcFails
    BY <1>2, FailStep DEF RpcFails
  <1>3. CASE UNCHANGED sourceVars
    <2>1. /\ UNCHANGED execVars /\ phase' = phase /\ direct' = direct /\ replay' = replay
          /\ selected' = selected /\ evidence' = evidence /\ done' = done
          /\ rows' = rows /\ published' = published /\ summary' = summary
      BY <1>3 DEF sourceVars, auditVars
    <2>2. /\ ExecInv' /\ Receipt' = Receipt /\ Len(emitted') = Len(emitted) /\ Size' = Size
          /\ \A R : RowsSound(R) => RowsSound(R)'
      BY <2>1, RowsKept
    <2>3. AuditTypes' /\ NothingAudited'
      BY <2>1, <2>2, AuditFacts DEF AuditTypes, NothingAudited, AuditIInv, AuditInv
    <2>4. SummaryIs'
      BY <2>1 DEF AuditIInv, AuditInv, SummaryIs, AllRows
    <2>5. RowsSound(rows)' /\ \A k \in 1..Len(published') : RowsSound(published[k])'
      BY <2>1, <2>2, AuditFacts
    <2> QED BY <2>2, <2>3, <2>4, <2>5 DEF AuditIInv, AuditInv
  <1> QED BY <1>1, <1>2, <1>3, StartSteps, AuditRowStep, WriteOutputStep, SummarizeStep DEF AuditNext, AuditEnded

(* The types, and that the bookkeeping of the execution and of the audits     *)
(* agree: an inductive invariant of the program for every transaction.        *)
THEOREM CxAuditInvariant == AuditSpec => []AuditIInv
  BY InvInit, InvNext, PTL DEF AuditSpec

-----------------------------------------------------------------------------
(* The properties *)

LEMMA RowsFinite ==
    ASSUME AuditIInv
    PROVE  IsFiniteSet(AllRows) /\ \A row \in AllRows : RowSound(row) /\ row \in Row
  <1>1. DOMAIN published = 1..Len(published) /\ Len(published) \in Nat
    BY AuditFacts
  <1>2. IsFiniteSet({published[k] : k \in 1..Len(published)})
    <2>1. IsFiniteSet(1..Len(published))
      BY <1>1, FS_Interval
    <2> QED BY <2>1, ImageFinite
  <1>3. \A R \in {published[k] : k \in 1..Len(published)} : IsFiniteSet(R)
    BY AuditFacts DEF RowsSound
  <1>4. AllRows = UNION {published[k] : k \in 1..Len(published)}
    BY <1>1 DEF AllRows
  <1>5. IsFiniteSet(AllRows)
    BY <1>2, <1>3, <1>4, FS_UNION
  <1>6. \A row \in AllRows : RowSound(row)
    BY <1>4, AuditFacts DEF RowsSound
  <1> QED BY <1>5, <1>6 DEF RowSound

(* Finitely many rows with amounts. *)
Amounts(R) == IsFiniteSet(R) /\ \A row \in R : row.amount \in Nat

(* A total is the sum of one function over the rows. *)
LEMMA TotalIs ==
    ASSUME NEW R, Amounts(R), NEW S \in SUBSET R
    PROVE  Total(S) = SumFunctionOnSet([row \in R |-> row.amount], S)
  <1> DEFINE f == [row \in R |-> row.amount]
             g == [row \in S |-> row.amount]
  <1>1. IsFiniteSet(S)
    BY FS_Subset DEF Amounts
  <1>2. \A x \in S : f[x] = g[x] /\ g[x] \in Int
    BY DEF Amounts
  <1>3. Total(S) = SumFunctionOnSet(g, S)
    BY SumOn DEF Total
  <1> HIDE DEF f, g
  <1>4. SumFunctionOnSet(g, S) = SumFunctionOnSet(f, S)
    BY <1>1, <1>2, SumSame
  <1> QED BY <1>3, <1>4 DEF f

LEMMA TotalNat ==
    ASSUME NEW R, Amounts(R), NEW S \in SUBSET R
    PROVE  Total(S) \in Nat
  <1> DEFINE f == [row \in R |-> row.amount]
  <1>1. Total(S) = SumFunctionOnSet(f, S) /\ IsFiniteSet(S)
    BY TotalIs, FS_Subset DEF Amounts
  <1>2. \A x \in S : f[x] \in Nat
    BY DEF Amounts
  <1> HIDE DEF f
  <1> QED BY <1>1, <1>2, NatOfSum

(* The total of two kinds of rows is no more than that of a set that has both. *)
LEMMA TotalWithin ==
    ASSUME NEW R, Amounts(R),
           NEW S \in SUBSET R, NEW T \in SUBSET R, NEW U \in SUBSET R, S \cap T = {}, S \cup T \subseteq U
    PROVE  /\ Total(S) \in Nat /\ Total(T) \in Nat /\ Total(U) \in Nat
           /\ Total(S \cup T) = Total(S) + Total(T)
           /\ Total(S) + Total(T) <= Total(U)
  <1> DEFINE f == [row \in R |-> row.amount]
             V == U \ (S \cup T)
  <1>1. \A X \in SUBSET R : Total(X) = SumFunctionOnSet(f, X) /\ IsFiniteSet(X)
    BY TotalIs, FS_Subset DEF Amounts
  <1>2. \A x \in R : f[x] \in Nat
    BY DEF Amounts
  <1> HIDE DEF f
  <1>3. \A X \in SUBSET R : Total(X) \in Nat
    BY TotalNat
  <1>4. \A X, Y \in SUBSET R : X \cap Y = {} => Total(X \cup Y) = Total(X) + Total(Y)
    <2> SUFFICES ASSUME NEW X \in SUBSET R, NEW Y \in SUBSET R, X \cap Y = {}
                 PROVE  Total(X \cup Y) = Total(X) + Total(Y)
      OBVIOUS
    <2>1. \A x \in X \cup Y : f[x] \in Int
      BY <1>2
    <2>2. X \cup Y \in SUBSET R
      OBVIOUS
    <2> QED BY <1>1, <2>1, <2>2, SumDisjoint
  <1>5. /\ S \cup T \in SUBSET R /\ V \in SUBSET R /\ (S \cup T) \cap V = {} /\ U = (S \cup T) \cup V
    OBVIOUS
  <1> HIDE DEF V
  <1>6. Total(U) = Total(S \cup T) + Total(V)
    BY <1>4, <1>5
  <1>7. Total(S \cup T) = Total(S) + Total(T)
    BY <1>4
  <1> QED BY <1>3, <1>5, <1>6, <1>7

LEMMA TypesHold == ASSUME AuditIInv PROVE AuditTypeOK
  <1>1. ExecInv /\ AuditTypes
    BY AuditFacts
  <1>2. Size \in 1..MaxFrames /\ MaxFrames \in Nat /\ frames \in Seq(Frame)
    BY <1>1, Constants, ExecFacts
  <1>3. 1..Size \subseteq 1..MaxFrames
    BY <1>2
  <1>4. stack \in Seq(1..MaxFrames) /\ debits \subseteq 1..MaxFrames /\ emitted \in Seq(1..MaxFrames)
    <2>1. stack \in Seq(1..Size) /\ debits \subseteq 1..Size /\ emitted \in Seq(1..Size)
      BY <1>1 DEF ExecInv, ExecTypes
    <2>2. PICK S : S = 1..Size
      OBVIOUS
    <2>3. PICK T : T = 1..MaxFrames
      OBVIOUS
    <2>4. stack \in Seq(S) /\ emitted \in Seq(S) /\ S \subseteq T
      BY <1>3, <2>1, <2>2, <2>3
    <2>5. stack \in Seq(T) /\ emitted \in Seq(T)
      BY <2>4
    <2> QED BY <1>3, <2>1, <2>3, <2>5
  <1>5. rows \subseteq Row
    BY AuditFacts DEF RowsSound, RowSound
  <1>6. summary = <<>> \/ summary \in [FinalClassification -> Nat]
    <2>1. CASE phase = "summary"
      <3>1. Amounts(AllRows)
        BY RowsFinite, Constants DEF Row, Amounts
      <3>2. ASSUME NEW c PROVE Total({row \in AllRows : row.class = c}) \in Nat
        <4> DEFINE S == {row \in AllRows : row.class = c}
        <4>1. S \in SUBSET AllRows /\ {} \in SUBSET AllRows /\ S \cap {} = {} /\ S \cup {} \subseteq S
          OBVIOUS
        <4> HIDE DEF S
        <4>2. Total(S) \in Nat
          BY <3>1, <4>1, TotalWithin
        <4> QED BY <4>2 DEF S
      <3>3. summary = [c \in FinalClassification |-> Total({row \in AllRows : row.class = c})]
        BY <2>1 DEF AuditIInv, AuditInv, SummaryIs
      <3> QED BY <3>2, <3>3
    <2>2. CASE phase # "summary"
      BY <2>2 DEF AuditIInv, AuditInv, SummaryIs
    <2> QED BY <2>1, <2>2
  <1> QED BY <1>1, <1>2, <1>4, <1>5, <1>6 DEF AuditTypeOK, AuditTypes

LEMMA ReplayRows == ASSUME AuditIInv PROVE ReplaySound
  BY TypesHold, RowsFinite DEF ReplaySound, RowSound

LEMMA FailedRows == ASSUME AuditIInv PROVE FailedNeverResolved
  BY RowsFinite DEF FailedNeverResolved, RowSound

LEMMA UnbackedRows == ASSUME AuditIInv PROVE UnbackedBracketed
  <1> SUFFICES ASSUME phase = "summary", \A row \in AllRows : Trusted(row)
               PROVE  LET unbacked == Total({row \in AllRows : ~DebitStands(row.receipt)})
                      IN  /\ unbacked_cross_shard_credit <= unbacked
                          /\ unbacked <= unbacked_cross_shard_credit + summary["unclassified"]
    BY DEF UnbackedBracketed
  <1> DEFINE U == {row \in AllRows : ~DebitStands(row.receipt)}
             C(c) == {row \in AllRows : row.class = c}
             L == C("rollback_leak")
             A == C("source_debit_absent")
             N == C("unclassified")
             LA == L \cup A
             LAN == LA \cup N
  <1>1. Amounts(AllRows) /\ \A row \in AllRows : RowSound(row) /\ row \in Row
    BY RowsFinite, Constants DEF Row, Amounts
  <1>2. /\ unbacked_cross_shard_credit = Total(L) + Total(A)
        /\ summary["unclassified"] = Total(N)
    BY DEF AuditIInv, AuditInv, SummaryIs, FinalClassification, unbacked_cross_shard_credit
  <1>3. /\ L \in SUBSET AllRows /\ A \in SUBSET AllRows /\ N \in SUBSET AllRows /\ U \in SUBSET AllRows
        /\ L \cap A = {} /\ LA \cap N = {} /\ LA \in SUBSET AllRows
        /\ LAN \in SUBSET AllRows
    OBVIOUS
  <1>4. LA \subseteq U
    <2> SUFFICES ASSUME NEW row \in LA PROVE ~DebitStands(row.receipt)
      OBVIOUS
    <2>1. RowSound(row) /\ Trusted(row)
      BY <1>1
    <2> QED BY <2>1 DEF RowSound
  <1>5. U \subseteq LAN
    <2> SUFFICES ASSUME NEW row \in U, row \notin LAN PROVE FALSE
      OBVIOUS
    <2>1. RowSound(row) /\ Trusted(row) /\ ~DebitStands(row.receipt)
      BY <1>1
    <2>2. row.class \in FinalClassification /\ row.evidence \in EvidenceStatus
      BY <1>1 DEF Row
    <2>3. row.class = "valid_source_debit"
      BY <2>2 DEF FinalClassification
    <2> QED BY <2>1, <2>3 DEF RowSound
  <1> HIDE DEF L, A, N, U, LA, LAN
  <1>6. Total(L) + Total(A) <= Total(U) /\ Total(LA) = Total(L) + Total(A)
    <2>1. /\ Amounts(AllRows) /\ L \in SUBSET AllRows /\ A \in SUBSET AllRows /\ U \in SUBSET AllRows
          /\ L \cap A = {} /\ L \cup A \subseteq U
      BY <1>1, <1>3, <1>4 DEF LA
    <2> HIDE DEF C
    <2>2. Total(L) + Total(A) <= Total(U) /\ Total(L \cup A) = Total(L) + Total(A)
      BY <2>1, TotalWithin
    <2> QED BY <2>2 DEF LA
  <1>7. Total(LAN) = Total(LA) + Total(N) /\ Total(LA) \in Nat /\ Total(N) \in Nat /\ Total(LAN) \in Nat
    <2>1. /\ Amounts(AllRows) /\ LA \in SUBSET AllRows /\ N \in SUBSET AllRows /\ LAN \in SUBSET AllRows
          /\ LA \cap N = {} /\ LA \cup N \subseteq LAN
      BY <1>1, <1>3 DEF LAN
    <2> HIDE DEF C
    <2>2. Total(LA \cup N) = Total(LA) + Total(N)
      BY <2>1, TotalWithin
    <2>3. Total(LA) \in Nat /\ Total(N) \in Nat /\ Total(LAN) \in Nat
      BY <2>1, TotalNat
    <2> QED BY <2>2, <2>3 DEF LAN
  <1>8. Total(U) <= Total(LAN)
    <2>1. U \cap {} = {} /\ {} \in SUBSET AllRows /\ (U \subseteq LAN => U \cup {} \subseteq LAN)
      OBVIOUS
    <2>2. Total(U) + Total({}) <= Total(LAN) /\ Total({}) \in Nat /\ Total(U) \in Nat
      BY <1>1, <1>3, <1>5, <2>1, TotalWithin
    <2> QED BY <1>7, <2>2
  <1> QED BY <1>2, <1>6, <1>7, <1>8 DEF U

(* A row that rests on true evidence, or on a replay that tells of the        *)
(* receipt, says what happened, for every execution the EVM can trace, every  *)
(* number of frames and receipts; a replay that diverged needs the evidence.  *)
THEOREM ReplayIsSound == AuditSpec => []ReplaySound
  BY CxAuditInvariant, ReplayRows, PTL

(* A receipt of a failed transaction is never given a verdict. *)
THEOREM FailedIsNeverResolved == AuditSpec => []FailedNeverResolved
  BY CxAuditInvariant, FailedRows, PTL

(* The unbacked credit is bracketed by the truth, for every number of audits. *)
THEOREM UnbackedIsBracketed == AuditSpec => []UnbackedBracketed
  BY CxAuditInvariant, UnbackedRows, PTL

=============================================================================
