------------------------ MODULE CutoffIntervalProofs ------------------------
(***************************************************************************)
(* canonical-interval-audit.py, reading chunk after chunk from a chain     *)
(* that moves, implements the snapshot of one instant: for every interval, *)
(* chunk size and bound.  Its summary describes the two tables it lies     *)
(* beside, after any number of runs, deaths and removals, and the pending  *)
(* receipts that are carried over are pending at the new cutoff.           *)
(***************************************************************************)
EXTENDS CutoffInterval, FiniteSetTheorems, SequenceTheorems, TLAPS

(* Every block has an identity of its own, below the number of blocks.     *)
CreatedSound ==
  /\ IsFiniteSet(created)
  /\ \A b \in created : b.number \in Nat /\ b.id \in Nat /\ b.id < Cardinality(created)
  /\ \A b, c \in created : b.id = c.id => b = c

(* A sequence of created blocks, numbered from n, each the child of the    *)
(* one before.                                                             *)
LinkedFrom(s, n) ==
  /\ s \in Seq(created)
  /\ \A i \in 1..Len(s) : s[i].number = n + i - 1
  /\ \A i \in 2..Len(s) : s[i].parent = s[i - 1].id

ChainSound == Len(chain) >= 1 /\ LinkedFrom(chain, 1)

SegSound ==
  /\ LinkedFrom(seg, Start - 1)
  /\ pc = "reading" => Len(seg) \in 1..(End - Start + 1)

IInv == CreatedSound /\ ChainSound /\ SegSound /\ LinkedPrefix

(* Appending a child of the last block keeps a linked sequence.            *)
LEMMA AppendLinked ==
  ASSUME NEW S, NEW s \in Seq(S), NEW b \in S, Len(s) >= 1,
         \A i \in 1..Len(s) : s[i].number = i,
         \A i \in 2..Len(s) : s[i].parent = s[i - 1].id,
         b.number = Len(s) + 1, b.parent = s[Len(s)].id
  PROVE  /\ Append(s, b) \in Seq(S)
         /\ Len(Append(s, b)) = Len(s) + 1
         /\ \A i \in 1..Len(s) : Append(s, b)[i] = s[i]
         /\ Append(s, b)[Len(s) + 1] = b
         /\ \A i \in 1..(Len(s) + 1) : Append(s, b)[i].number = i
         /\ \A i \in 2..(Len(s) + 1) : Append(s, b)[i].parent = Append(s, b)[i - 1].id
<1> DEFINE t == Append(s, b)
<1>1. /\ t \in Seq(S) /\ Len(t) = Len(s) + 1 /\ Len(s) \in Nat
      /\ \A i \in 1..Len(s) : t[i] = s[i]
      /\ t[Len(s) + 1] = b
  OBVIOUS
<1>2. \A i \in 1..(Len(s) + 1) : t[i].number = i
  <2> TAKE i \in 1..(Len(s) + 1)
  <2>1. CASE i \in 1..Len(s)  BY <2>1, <1>1
  <2>2. CASE i = Len(s) + 1  BY <2>2, <1>1
  <2> QED  BY <2>1, <2>2, <1>1
<1>3. \A i \in 2..(Len(s) + 1) : t[i].parent = t[i - 1].id
  <2> TAKE i \in 2..(Len(s) + 1)
  <2>1. i - 1 \in 1..Len(s)  BY <1>1
  <2>2. t[i - 1] = s[i - 1]  BY <2>1, <1>1
  <2>3. CASE i \in 2..Len(s)
    <3>1. t[i] = s[i]  BY <2>3, <1>1
    <3> QED  BY <3>1, <2>2, <2>3
  <2>4. CASE i = Len(s) + 1
    <3>1. t[i] = b /\ t[i - 1] = s[Len(s)]  BY <2>4, <2>2, <1>1
    <3> QED  BY <3>1
  <2> QED  BY <2>3, <2>4, <1>1
<1> HIDE DEF t
<1> QED  BY <1>1, <1>2, <1>3 DEF t

-----------------------------------------------------------------------------
(* The node.                                                               *)

(* The chain starts with one block. *)
LEMMA GenesisSound == Init => IInv
<1> SUFFICES ASSUME Init PROVE IInv  OBVIOUS
<1>1. created = {Genesis} /\ chain = <<Genesis>> /\ seg = <<>> /\ pc = "idle"
  BY DEF Init
<1>2. IsFiniteSet(created) /\ Cardinality(created) = 1
  BY <1>1, FS_Singleton
<1>3. CreatedSound  BY <1>1, <1>2 DEF CreatedSound, Genesis
<1>4. ChainSound
  <2>1. Len(chain) = 1 /\ chain[1] = Genesis /\ chain \in Seq(created)  BY <1>1
  <2> QED  BY <2>1 DEF ChainSound, LinkedFrom, Genesis
<1>5. SegSound
  <2>1. seg \in Seq(created) /\ Len(seg) = 0  BY <1>1
  <2> QED  BY <2>1, <1>1 DEF SegSound, LinkedFrom
<1>6. LinkedPrefix  BY <1>1 DEF LinkedPrefix
<1> QED  BY <1>3, <1>4, <1>5, <1>6 DEF IInv

(* A block whose parent is the last one extends the chain soundly, whether *)
(* it is new or adopted again; what was read stays linked to it.           *)
LEMMA ExtendSound ==
  ASSUME IInv, IntervalAssumption, NEW b \in created', created \subseteq created', CreatedSound',
         b.number = Len(chain) + 1, b.parent = chain[Len(chain)].id,
         chain' = Append(chain, b), seg' = seg, pc' = pc
  PROVE  IInv'
<1> USE IntervalAssumption DEF IntervalAssumption
<1>1. /\ chain \in Seq(created) /\ Len(chain) \in Nat /\ Len(chain) >= 1
      /\ \A i \in 1..Len(chain) : chain[i] \in created /\ chain[i].number = i
      /\ \A i \in 2..Len(chain) : chain[i].parent = chain[i - 1].id
  BY DEF IInv, ChainSound, LinkedFrom
<1>2. chain \in Seq(created')  BY <1>1
<1>3. /\ chain' \in Seq(created')
      /\ Len(chain') = Len(chain) + 1
      /\ \A i \in 1..Len(chain) : chain'[i] = chain[i]
      /\ chain'[Len(chain) + 1] = b
      /\ \A i \in 1..(Len(chain) + 1) : chain'[i].number = i
      /\ \A i \in 2..(Len(chain) + 1) : chain'[i].parent = chain'[i - 1].id
  BY <1>1, <1>2, AppendLinked
<1>4. ChainSound'
  <2>1. \A i \in 1..Len(chain') : chain'[i].number = 1 + i - 1  BY <1>3, <1>1
  <2> QED  BY <1>3, <1>1, <2>1 DEF ChainSound, LinkedFrom
<1>5. /\ seg \in Seq(created) /\ Len(seg) \in Nat
      /\ \A i \in 1..Len(seg) : seg[i] \in created
      /\ \A i \in 2..Len(seg) : seg[i].parent = seg[i - 1].id
  BY DEF IInv, SegSound, LinkedFrom
<1>6. SegSound'
  <2>1. seg' \in Seq(created')  BY <1>5
  <2> QED  BY <2>1 DEF IInv, SegSound, LinkedFrom
<1>7. LinkedPrefix'
  <2> SUFFICES ASSUME NEW k \in 1..Len(seg), Start - 2 + k <= Len(chain'),
                      chain'[Start - 2 + k] = seg[k],
                      NEW j \in 1..k
               PROVE  chain'[Start - 2 + j] = seg[j]
    BY DEF LinkedPrefix
  <2>1. CASE Start - 2 + k <= Len(chain)
    <3>1. Start - 2 + k \in 1..Len(chain) /\ Start - 2 + j \in 1..Len(chain)
      <4>1. Start \in Int /\ Len(seg) \in Nat /\ Len(chain) \in Nat
        BY <1>1, <1>5
      <4>2. k \in Nat /\ j \in Nat /\ 1 <= j /\ j <= k
        BY <4>1
      <4>3. Start - 2 + k >= 1 /\ Start - 2 + j >= 1 /\ Start - 2 + j <= Start - 2 + k
        BY <1>1, <4>1, <4>2
      <4> QED BY <2>1, <4>1, <4>2, <4>3
    <3>2. chain[Start - 2 + k] = seg[k]  BY <3>1, <1>3
    <3>3. chain[Start - 2 + j] = seg[j]  BY <3>2, <2>1 DEF IInv, LinkedPrefix
    <3> QED  BY <3>1, <3>3, <1>3
  <2>2. CASE Start - 2 + k = Len(chain) + 1 /\ j = k
    BY <2>2
  <2>3. CASE Start - 2 + k = Len(chain) + 1 /\ j < k
    <3>1. k - 1 \in 1..Len(seg) /\ k \in 2..Len(seg) /\ j \in 1..(k - 1)  BY <2>3, <1>5
    <3>2. seg[k] = b  BY <2>3, <1>3
    <3>3. seg[k - 1].id = chain[Len(chain)].id  BY <3>1, <3>2, <1>5
    <3>4. seg[k - 1] \in created /\ chain[Len(chain)] \in created  BY <3>1, <1>1, <1>5
    <3>5. seg[k - 1] = chain[Len(chain)]  BY <3>3, <3>4 DEF IInv, CreatedSound
    <3>6. Start - 2 + (k - 1) = Len(chain)  BY <2>3, <1>1, <1>5
    <3>7. chain[Start - 2 + j] = seg[j]
      <4>1. \A p \in 1..Len(seg) : Start - 2 + p = Len(chain) /\ chain[Len(chain)] = seg[p]
              => \A q \in 1..p : chain[Start - 2 + q] = seg[q]
        <5> TAKE p \in 1..Len(seg)
        <5> HAVE Start - 2 + p = Len(chain) /\ chain[Len(chain)] = seg[p]
        <5>1. Start - 2 + p <= Len(chain) /\ chain[Start - 2 + p] = seg[p]  BY <1>1
        <5> QED  BY <5>1 DEF IInv, LinkedPrefix
      <4> QED  BY <4>1, <3>1, <3>5, <3>6
    <3>8. Start - 2 + j \in 1..Len(chain)  BY <3>1, <3>6, <1>1, <1>5
    <3> QED  BY <3>7, <3>8, <1>3
  <2> QED  BY <2>1, <2>2, <2>3, <1>1, <1>3, <1>5
<1> QED  BY <1>4, <1>6, <1>7 DEF IInv

(* A block mined on the tip names the tip as its parent. *)
LEMMA NewBlockSound ==
  ASSUME IInv, IntervalAssumption, NEW body, NewBlock(body)
  PROVE  IInv'
<1> DEFINE n == Cardinality(created)
           tip == chain[Len(chain)]
           b == Block(n, tip, body)
<1>1. chain' = Append(chain, b) /\ created' = created \cup {b} /\ seg' = seg /\ pc' = pc
  BY DEF NewBlock, auditVars
<1>2. n \in Nat /\ IsFiniteSet(created)  BY FS_CardinalityType DEF IInv, CreatedSound
<1>3. tip \in created /\ tip.number = Len(chain) /\ Len(chain) \in Nat
  BY DEF IInv, ChainSound, LinkedFrom
<1>4. b.number = Len(chain) + 1 /\ b.parent = tip.id /\ b.id = n
  BY <1>3 DEF Block
<1>5. \A c \in created : c.id \in Nat /\ c.id < n
  BY DEF IInv, CreatedSound
<1> HIDE DEF b
<1>6. b \notin created  BY <1>2, <1>4, <1>5
<1>7. IsFiniteSet(created') /\ Cardinality(created') = n + 1
  BY <1>1, <1>2, <1>6, FS_AddElement
<1>8. CreatedSound'
  <2>1. \A c \in created' : c.number \in Nat /\ c.id \in Nat /\ c.id < Cardinality(created')
    BY <1>1, <1>2, <1>3, <1>4, <1>5, <1>7 DEF IInv, CreatedSound
  <2>2. \A c, d \in created' : c.id = d.id => c = d
    BY <1>1, <1>2, <1>4, <1>5 DEF IInv, CreatedSound
  <2> QED  BY <2>1, <2>2, <1>7 DEF CreatedSound
<1> QED  BY <1>1, <1>4, <1>8, ExtendSound

(* So does a block that is adopted again. *)
LEMMA ReadoptSound ==
  ASSUME IInv, IntervalAssumption, NEW b \in created, Readopt(b)
  PROVE  IInv'
<1>1. chain' = Append(chain, b) /\ created' = created /\ seg' = seg /\ pc' = pc
  BY DEF Readopt, auditVars
<1>2. CreatedSound'  BY <1>1 DEF IInv, CreatedSound
<1>3. b.number = Len(chain) + 1 /\ b.parent = chain[Len(chain)].id  BY DEF Readopt
<1> QED  BY <1>1, <1>2, <1>3, ExtendSound

(* A rollback takes the last block away. *)
LEMMA RollbackSound ==
  ASSUME IInv, IntervalAssumption, Rollback
  PROVE  IInv'
<1> USE IntervalAssumption DEF IntervalAssumption
<1>1. /\ chain' = SubSeq(chain, 1, Len(chain) - 1) /\ Len(chain) > 1
      /\ created' = created /\ seg' = seg /\ pc' = pc
  BY DEF Rollback, auditVars
<1>2. /\ chain \in Seq(created) /\ Len(chain) \in Nat
      /\ \A i \in 1..Len(chain) : chain[i] \in created /\ chain[i].number = 1 + i - 1
      /\ \A i \in 2..Len(chain) : chain[i].parent = chain[i - 1].id
  BY DEF IInv, ChainSound, LinkedFrom
<1>3. /\ chain' \in Seq(created) /\ Len(chain') = Len(chain) - 1
      /\ \A i \in 1..(Len(chain) - 1) : chain'[i] = chain[i]
  BY <1>1, <1>2
<1>4. ChainSound'
  <2>1. \A i \in 1..Len(chain') : chain'[i].number = 1 + i - 1  BY <1>2, <1>3
  <2>2. \A i \in 2..Len(chain') : chain'[i].parent = chain'[i - 1].id
    <3> TAKE i \in 2..Len(chain')
    <3>1. chain'[i] = chain[i] /\ chain'[i - 1] = chain[i - 1] /\ i \in 2..Len(chain)
      BY <1>2, <1>3
    <3> QED  BY <3>1, <1>2
  <2> QED  BY <2>1, <2>2, <1>1, <1>2, <1>3 DEF ChainSound, LinkedFrom
<1>5. SegSound' /\ CreatedSound'
  BY <1>1 DEF IInv, SegSound, LinkedFrom, CreatedSound
<1>6. LinkedPrefix'
  <2> SUFFICES ASSUME NEW k \in 1..Len(seg), Start - 2 + k <= Len(chain'),
                      chain'[Start - 2 + k] = seg[k],
                      NEW j \in 1..k
               PROVE  chain'[Start - 2 + j] = seg[j]
    BY <1>1 DEF LinkedPrefix
  <2>1. Len(seg) \in Nat  BY DEF IInv, SegSound, LinkedFrom
  <2>2. Start - 2 + k \in 1..(Len(chain) - 1) /\ Start - 2 + j \in 1..(Len(chain) - 1)
    BY <1>2, <1>3, <2>1
  <2>3. chain[Start - 2 + k] = seg[k]  BY <2>2, <1>3
  <2>4. Start - 2 + k <= Len(chain)  BY <2>2, <1>2
  <2>5. chain[Start - 2 + j] = seg[j]  BY <2>3, <2>4 DEF IInv, LinkedPrefix
  <2> QED  BY <2>2, <2>5, <1>3
<1> QED  BY <1>4, <1>5, <1>6 DEF IInv

-----------------------------------------------------------------------------
(* The audit.                                                              *)

(* Steps that read nothing: the blocks read stay, or are forgotten.        *)
LEMMA OtherSound ==
  ASSUME IInv, IntervalAssumption, chain' = chain, created' = created,
         (seg' = seg /\ (pc' = "reading" => pc = "reading")) \/ (seg' = <<>> /\ pc' # "reading")
  PROVE  IInv'
<1>1. ChainSound' /\ CreatedSound'  BY DEF IInv, ChainSound, LinkedFrom, CreatedSound
<1>2. CASE seg' = seg /\ (pc' = "reading" => pc = "reading")
  <2>1. SegSound' /\ LinkedPrefix'  BY <1>2 DEF IInv, SegSound, LinkedFrom, LinkedPrefix
  <2> QED  BY <2>1, <1>1 DEF IInv
<1>3. CASE seg' = <<>> /\ pc' # "reading"
  <2>1. seg' \in Seq(created') /\ Len(seg') = 0  BY <1>3
  <2>2. SegSound' /\ LinkedPrefix'  BY <1>3, <2>1 DEF SegSound, LinkedFrom, LinkedPrefix
  <2> QED  BY <2>2, <1>1 DEF IInv
<1> QED  BY <1>2, <1>3

(* A run starts with the block before the interval. *)
LEMMA ReadPredecessorSound ==
  ASSUME IInv, IntervalAssumption, ReadPredecessor
  PROVE  IInv' /\ Len(seg') = 1
<1> USE IntervalAssumption DEF IntervalAssumption
<1>1. chain' = chain /\ created' = created /\ seg' = <<chain[Start - 1]>> /\ Start - 1 <= Len(chain)
  BY DEF ReadPredecessor
<1>2. ChainSound' /\ CreatedSound'  BY <1>1 DEF IInv, ChainSound, LinkedFrom, CreatedSound
<1>3. Start - 1 \in 1..Len(chain) /\ Len(chain) \in Nat
  BY <1>1 DEF IInv, ChainSound, LinkedFrom
<1>4. chain[Start - 1] \in created /\ chain[Start - 1].number = Start - 1
  BY <1>3 DEF IInv, ChainSound, LinkedFrom
<1>5. Len(seg') = 1 /\ seg'[1] = chain[Start - 1] /\ seg' \in Seq(created)
  BY <1>1, <1>4
<1>6. SegSound'
  <2>1. \A i \in 1..Len(seg') : seg'[i].number = Start - 1 + i - 1  BY <1>4, <1>5
  <2> QED  BY <1>1, <1>5, <2>1 DEF SegSound, LinkedFrom
<1>7. LinkedPrefix'
  <2>1. \A k \in 1..Len(seg') : k = 1  BY <1>5
  <2>2. \A j \in 1..1 : chain'[Start - 2 + j] = seg'[j]  BY <1>1, <1>5
  <2> QED  BY <2>1, <2>2 DEF LinkedPrefix
<1> QED  BY <1>2, <1>5, <1>6, <1>7 DEF IInv

(* A chunk joins only where the last block read is canonical; then all     *)
(* blocks read before are canonical too, and a complete reading is the     *)
(* canonical interval of this very moment.                                 *)
LEMMA ReadChunkSound ==
  ASSUME IInv, IntervalAssumption, ReadChunk
  PROVE  /\ IInv'
         /\ Len(seg') = End - Start + 2 =>
              End <= Len(chain) /\ seg' = SubSeq(chain, Start - 1, End)
<1> USE IntervalAssumption DEF IntervalAssumption
<1> DEFINE n == NextNumber
           e == ChunkEnd
           l == Len(seg)
           chunk == SubSeq(chain, n, e)
<1>1. /\ chain' = chain /\ created' = created /\ seg' = seg \o chunk
      /\ pc = "reading" /\ e <= Len(chain) /\ Linked(seg, chunk)
      /\ pc' = IF e = End THEN "rename" ELSE "reading"
  BY DEF ReadChunk
<1>2. /\ chain \in Seq(created) /\ Len(chain) \in Nat
      /\ \A i \in 1..Len(chain) : chain[i] \in created /\ chain[i].number = i
      /\ \A i \in 2..Len(chain) : chain[i].parent = chain[i - 1].id
  BY DEF IInv, ChainSound, LinkedFrom
<1>3. /\ seg \in Seq(created) /\ l \in 1..(End - Start + 1)
      /\ \A i \in 1..l : seg[i] \in created /\ seg[i].number = Start - 1 + i - 1
      /\ \A i \in 2..l : seg[i].parent = seg[i - 1].id
  BY <1>1 DEF IInv, SegSound, LinkedFrom
<1>4. n = Start - 1 + l /\ n \in Start..End /\ e \in n..End
  BY <1>3 DEF NextNumber, ChunkEnd
<1> HIDE DEF n, e
<1>5. /\ chunk \in Seq(created) /\ Len(chunk) = e - n + 1
      /\ \A i \in 1..(e - n + 1) : chunk[i] = chain[n + i - 1]
  BY <1>1, <1>2, <1>4
<1>6. seg[l] = chain[n - 1]
  <2>1. chunk[1].parent = seg[l].id  BY <1>1, <1>4, <1>5 DEF Linked
  <2>2. chunk[1] = chain[n]  BY <1>4, <1>5
  <2>3. chain[n].parent = chain[n - 1].id
    <3>0. n \in Nat /\ e \in Nat /\ n >= 2 /\ n <= e  BY <1>4
    <3>1. n \in 2..Len(chain)  BY <3>0, <1>1, <1>2
    <3> QED  BY <3>1, <1>2
  <2>4. chain[n - 1] \in created /\ seg[l] \in created  BY <1>1, <1>2, <1>3, <1>4
  <2> QED  BY <2>1, <2>2, <2>3, <2>4 DEF IInv, CreatedSound
<1> HIDE DEF chunk
<1>7. /\ seg' \in Seq(created) /\ Len(seg') = e - Start + 2
      /\ \A k \in 1..l : seg'[k] = seg[k]
      /\ \A k \in (l + 1)..Len(seg') : seg'[k] = chunk[k - l]
  BY <1>1, <1>3, <1>4, <1>5
<1>8. \A k \in 1..Len(seg') : seg'[k] = chain[Start - 2 + k]
  <2> TAKE k \in 1..Len(seg')
  <2>1. CASE k \in 1..l
    <3>1. Start - 2 + l = n - 1 /\ n - 1 <= Len(chain) /\ l \in 1..Len(seg)
      BY <1>1, <1>2, <1>3, <1>4
    <3>2. Start - 2 + l <= Len(chain) /\ chain[Start - 2 + l] = seg[l]  BY <3>1, <1>6
    <3>3. chain[Start - 2 + k] = seg[k]  BY <3>1, <3>2, <2>1 DEF IInv, LinkedPrefix
    <3> QED  BY <3>3, <2>1, <1>7
  <2>2. CASE k \in (l + 1)..Len(seg')
    <3>1. k - l \in 1..(e - n + 1) /\ n + (k - l) - 1 = Start - 2 + k
      BY <2>2, <1>3, <1>4, <1>7
    <3>2. seg'[k] = chain[n + (k - l) - 1]  BY <3>1, <2>2, <1>5, <1>7
    <3> QED  BY <3>1, <3>2
  <2> QED  BY <2>1, <2>2, <1>3, <1>4, <1>7
<1>9. \A k \in 1..Len(seg') : Start - 2 + k \in 1..Len(chain)
  <2> TAKE k \in 1..Len(seg')
  <2>1. k \in Nat /\ 1 <= k /\ k <= e - Start + 2 /\ e \in Nat  BY <1>4, <1>7
  <2> QED  BY <2>1, <1>1, <1>2
<1>10. ChainSound' /\ CreatedSound'
  BY <1>1 DEF IInv, ChainSound, LinkedFrom, CreatedSound
<1>11. SegSound'
  <2>1. \A k \in 1..Len(seg') : seg'[k].number = Start - 1 + k - 1
    <3> TAKE k \in 1..Len(seg')
    <3>1. seg'[k].number = Start - 2 + k  BY <1>2, <1>8, <1>9
    <3>2. k \in Nat  BY <1>4, <1>7
    <3> QED  BY <3>1, <3>2
  <2>2. \A k \in 2..Len(seg') : seg'[k].parent = seg'[k - 1].id
    <3> TAKE k \in 2..Len(seg')
    <3>1. k \in 1..Len(seg') /\ k - 1 \in 1..Len(seg')  BY <1>4, <1>7
    <3>2. seg'[k] = chain[Start - 2 + k] /\ seg'[k - 1] = chain[Start - 2 + (k - 1)]
      <4>1. PICK j : j = k - 1
        OBVIOUS
      <4>2. j \in 1..Len(seg')
        BY <3>1, <4>1
      <4>3. seg'[j] = chain[Start - 2 + j]
        BY <4>2, <1>8
      <4>4. seg'[k] = chain[Start - 2 + k]
        BY <3>1, <1>8
      <4> QED BY <4>1, <4>3, <4>4
    <3>3. Start - 2 + k \in 2..Len(chain) /\ Start - 2 + (k - 1) = (Start - 2 + k) - 1
      <4>1. k \in Nat /\ 2 <= k /\ Start \in Nat /\ 2 <= Start
        BY <1>4, <1>7
      <4>2. Start - 2 + k \in 1..Len(chain)
        BY <3>1, <1>9
      <4> QED BY <4>1, <4>2
    <3>4. chain[Start - 2 + k].parent = chain[(Start - 2 + k) - 1].id  BY <3>3, <1>2
    <3> QED  BY <3>2, <3>3, <3>4
  <2>3. pc' = "reading" => Len(seg') \in 1..(End - Start + 1)
    BY <1>1, <1>4, <1>7
  <2> QED  BY <2>1, <2>2, <2>3, <1>1, <1>7 DEF SegSound, LinkedFrom
<1>12. LinkedPrefix'
  <2>1. \A k \in 1..Len(seg') : \A j \in 1..k : j \in 1..Len(seg')  BY <1>4, <1>7
  <2> QED  BY <2>1, <1>1, <1>8 DEF LinkedPrefix
<1>13. ASSUME Len(seg') = End - Start + 2
       PROVE  End <= Len(chain) /\ seg' = SubSeq(chain, Start - 1, End)
  <2> DEFINE t == SubSeq(chain, Start - 1, End)
  <2>1. e = End /\ End <= Len(chain)  BY <1>13, <1>1, <1>4, <1>7
  <2>2. /\ t \in Seq(created) /\ Len(t) = End - Start + 2
        /\ \A k \in 1..Len(t) : t[k] = chain[Start - 1 + k - 1]
    BY <2>1, <1>2
  <2> HIDE DEF t
  <2>3. \A k \in 1..Len(seg') : seg'[k] = t[k]
    <3> TAKE k \in 1..Len(seg')
    <3>1. k \in 1..Len(t) /\ Start - 1 + k - 1 = Start - 2 + k  BY <2>2, <1>13
    <3> QED  BY <3>1, <2>2, <1>8
  <2>4. seg' = t  BY <2>2, <2>3, <1>7, <1>13, SeqEqual
  <2> QED  BY <2>1, <2>4 DEF t
<1> QED  BY <1>10, <1>11, <1>12, <1>13 DEF IInv

-----------------------------------------------------------------------------
(* One case per action, with what it does to the two mapped variables.     *)
LEMMA StepSound ==
  ASSUME IInv, IntervalAssumption, [Next]_vars
  PROVE  IInv' /\ [Snapshot!Next]_<<chain, IF Complete THEN seg ELSE <<>>>>
<1> USE IntervalAssumption DEF IntervalAssumption
<1> DEFINE snap == IF Complete THEN seg ELSE <<>>
<1>0. ASSUME Len(seg') # End - Start + 2
      PROVE  [Snapshot!Next]_<<chain, snap>>
  BY <1>0 DEF Snapshot!Next, Complete
<1>1. ASSUME seg' = seg  PROVE [Snapshot!Next]_<<chain, snap>>
  BY <1>1 DEF Snapshot!Next, Complete
<1>2. ASSUME seg' = <<>>  PROVE [Snapshot!Next]_<<chain, snap>>
  <2>1. Len(seg') # End - Start + 2  BY <1>2
  <2> QED  BY <2>1, <1>0
<1> HIDE DEF snap
<1>3. ASSUME NEW body \in Bodies, NewBlock(body)
      PROVE  IInv' /\ [Snapshot!Next]_<<chain, snap>>
  <2>1. seg' = seg  BY <1>3 DEF NewBlock, auditVars
  <2> QED  BY <2>1, <1>1, <1>3, NewBlockSound
<1>4. ASSUME NEW b \in created, Readopt(b)
      PROVE  IInv' /\ [Snapshot!Next]_<<chain, snap>>
  <2>1. seg' = seg  BY <1>4 DEF Readopt, auditVars
  <2> QED  BY <2>1, <1>1, <1>4, ReadoptSound
<1>5. CASE Rollback
  <2>1. seg' = seg  BY <1>5 DEF Rollback, auditVars
  <2> QED  BY <2>1, <1>1, <1>5, RollbackSound DEF snap
<1>6. CASE StartRun \/ RunFails \/ Kill
  <2>1. seg' = <<>> /\ pc' # "reading" /\ chain' = chain /\ created' = created
    BY <1>6 DEF StartRun, RunFails, Kill
  <2> QED  BY <2>1, <1>2, OtherSound DEF snap
<1>7. CASE ReadPredecessor
  <2>1. IInv' /\ Len(seg') = 1  BY <1>7, ReadPredecessorSound
  <2>2. Len(seg') # End - Start + 2  BY <2>1
  <2> QED  BY <2>1, <2>2, <1>0 DEF snap
<1>8. CASE ReadChunk
  <2>1. IInv'  BY <1>8, ReadChunkSound
  <2>2. CASE Len(seg') = End - Start + 2
    <3>1. End <= Len(chain) /\ seg' = SubSeq(chain, Start - 1, End)
      BY <1>8, <2>2, ReadChunkSound
    <3>2. chain' = chain  BY <1>8 DEF ReadChunk
    <3>3. Snapshot!Take  BY <3>1, <3>2, <2>2 DEF Snapshot!Take, Complete
    <3> QED  BY <2>1, <3>3 DEF Snapshot!Next
  <2> QED  BY <2>1, <2>2, <1>0 DEF snap
<1>9. CASE RenameMaterial \/ RenameTransactions \/ WriteSummary \/ RenameSummary
           \/ StartPending \/ PendingFails \/ PublishPending
           \/ (\E o \in Outputs : RemoveByHand(o)) \/ (\E r \in Receipts : Lookup(r))
           \/ UNCHANGED vars
  <2>1. /\ seg' = seg /\ chain' = chain /\ created' = created
        /\ pc' = "reading" => pc = "reading"
    BY <1>9 DEF RenameMaterial, RenameTransactions, WriteSummary, RenameSummary, StartPending,
       PendingFails, PublishPending, RemoveByHand, Lookup, vars, auditVars
  <2> QED  BY <2>1, <1>1, OtherSound DEF snap
<1> QED  BY <1>3, <1>4, <1>5, <1>6, <1>7, <1>8, <1>9 DEF Next, snap

(* canonical-interval-audit.py implements a snapshot: whatever the chain   *)
(* does between two calls, the blocks a completed reading reports were the *)
(* canonical blocks of the interval at one instant.                        *)
THEOREM SnapshotRefined == Spec => ReadsOneChain
<1>1. Init => Snapshot!Init
  <2> SUFFICES ASSUME Init PROVE Snapshot!Init  OBVIOUS
  <2>1. seg = <<>>  BY DEF Init
  <2>2. ~ Complete  BY <2>1, IntervalAssumption DEF Complete, IntervalAssumption
  <2> QED  BY <2>2 DEF Snapshot!Init
<1>2. IInv /\ [Next]_vars => IInv' /\ [Snapshot!Next]_<<chain, IF Complete THEN seg ELSE <<>>>>
  BY StepSound, IntervalAssumption
<1> QED  BY <1>1, <1>2, GenesisSound, PTL DEF Spec, ReadsOneChain, Snapshot!Spec

-----------------------------------------------------------------------------
(* The files.                                                              *)

OfRun(o, s) == files[o] = [st |-> s, run |-> runs]

(* What the three files are while a run is under way: the tables are its   *)
(* own, and there is no summary before it writes one.                      *)
FilesOfRun ==
  /\ pc = "predecessor" => Untouched
  /\ pc \in {"reading", "rename"} => OfRun("material", "partial") /\ OfRun("transactions", "partial")
  /\ pc = "rename transactions" => OfRun("material", "final") /\ OfRun("transactions", "partial")
  /\ pc \in {"first hash", "rename summary"} => OfRun("material", "final") /\ OfRun("transactions", "final")
  /\ pc \in {"reading", "rename", "rename transactions", "first hash"} => files["summary"].st = "absent"
  /\ pc = "rename summary" => OfRun("summary", "partial") /\ summary.run = runs

SummaryAgrees ==
  (\A o \in Outputs : files[o].st = "final") => \A o \in Outputs : files[o].run = summary.run

Places == {"idle", "predecessor", "reading", "rename", "rename transactions", "first hash",
           "rename summary"}
FileStates == [st : {"absent", "partial", "final"}, run : 0..MaxRuns]

(* The rest of the types: a block's number is at most the blocks created   *)
(* before it, so the chain never outgrows the bound.                       *)
Bounds ==
  /\ \A b \in created : b.number <= b.id + 1
  /\ Cardinality(created) <= MaxBlocks
  /\ pc \in Places /\ runs \in 0..MaxRuns
  /\ Len(seg) <= End - Start + 2
  /\ files \in [Outputs -> FileStates]
  /\ checked \subseteq Receipts

FInv == Bounds /\ FilesOfRun /\ SummaryAgrees

(* SetFiles writes entries of the current run.                             *)
LEMMA SetFilesEntries ==
  ASSUME files \in [Outputs -> FileStates], runs \in 0..MaxRuns, NEW os,
         NEW s \in {"absent", "partial", "final"}, files' = SetFiles(os, s)
  PROVE  /\ files' \in [Outputs -> FileStates]
         /\ \A o \in Outputs : files'[o] = IF o \in os THEN [st |-> s, run |-> runs] ELSE files[o]
BY DEF SetFiles, FileStates

(* The blocks and the readings stay within their bounds.                   *)
LEMMA BoundsStep ==
  ASSUME IInv, IInv', Bounds, [Next]_vars
  PROVE  /\ \A b \in created' : b.number <= b.id + 1
         /\ Cardinality(created') <= MaxBlocks
         /\ Len(seg') <= End - Start + 2
<1>0. IntervalAssumption  BY IntervalAssumption
<1> USE DEF IntervalAssumption
<1>1. ASSUME NEW body \in Bodies, NewBlock(body)
      PROVE  (\A b \in created' : b.number <= b.id + 1) /\ Cardinality(created') <= MaxBlocks
  <2> DEFINE n == Cardinality(created)
             tip == chain[Len(chain)]
             b == Block(n, tip, body)
  <2>1. created' = created \cup {b} /\ n < MaxBlocks  BY <1>1 DEF NewBlock
  <2>2. n \in Nat /\ IsFiniteSet(created)  BY FS_CardinalityType DEF IInv, CreatedSound
  <2>3. tip \in created  BY DEF IInv, ChainSound, LinkedFrom
  <2>4. tip.number \in Nat /\ tip.id \in Nat /\ tip.number <= tip.id + 1 /\ tip.id < n
    BY <2>3 DEF IInv, CreatedSound, Bounds
  <2>5. b.number = tip.number + 1 /\ b.id = n  BY DEF Block
  <2> HIDE DEF b, n, tip
  <2>6. b \notin created  BY <2>2, <2>5 DEF IInv, CreatedSound, n
  <2>7. Cardinality(created') = n + 1
    BY <2>1, <2>2, <2>6, FS_AddElement DEF n
  <2> QED  BY <1>0, <2>1, <2>2, <2>4, <2>5, <2>6, <2>7 DEF Bounds
<1>2. ASSUME created' = created
      PROVE  (\A b \in created' : b.number <= b.id + 1) /\ Cardinality(created') <= MaxBlocks
  BY <1>2 DEF Bounds
<1>3. ASSUME seg' = seg PROVE Len(seg') <= End - Start + 2
  BY <1>3 DEF Bounds
<1>4. ASSUME seg' = <<>> PROVE Len(seg') <= End - Start + 2
  BY <1>0, <1>4
<1>5. CASE ReadPredecessor
  <2>1. Len(seg') = 1  BY <1>0, <1>5, ReadPredecessorSound
  <2> QED  BY <1>0, <1>2, <1>5, <2>1 DEF ReadPredecessor
<1>6. CASE ReadChunk
  <2> DEFINE chunk == SubSeq(chain, NextNumber, ChunkEnd)
  <2>1. /\ created' = created /\ seg' = seg \o chunk /\ pc = "reading" /\ ChunkEnd <= Len(chain)
    BY <1>6 DEF ReadChunk
  <2>2. /\ chain \in Seq(created) /\ seg \in Seq(created) /\ Len(seg) \in 1..(End - Start + 1)
        /\ Len(chain) \in Nat
    BY <2>1 DEF IInv, ChainSound, SegSound, LinkedFrom
  <2>3. NextNumber = Start - 1 + Len(seg) /\ NextNumber \in Start..End /\ ChunkEnd \in NextNumber..End
    BY <1>0, <2>2 DEF NextNumber, ChunkEnd
  <2>4. chunk \in Seq(created) /\ Len(chunk) = ChunkEnd - NextNumber + 1
    BY <1>0, <2>1, <2>2, <2>3
  <2> HIDE DEF chunk
  <2>5. Len(seg') = Len(seg) + Len(chunk)
    <3>1. Len(seg \o chunk) = Len(seg) + Len(chunk)  BY <2>2, <2>4, ConcatProperties
    <3> QED  BY <2>1, <3>1
  <2> QED  BY <1>0, <1>2, <2>1, <2>2, <2>3, <2>4, <2>5
<1>7. CASE created' = created /\ (seg' = seg \/ seg' = <<>>)
  BY <1>2, <1>3, <1>4, <1>7
<1>8. ASSUME NEW body \in Bodies, NewBlock(body) PROVE seg' = seg
  BY <1>8 DEF NewBlock, auditVars
<1> QED
  BY <1>1, <1>3, <1>5, <1>6, <1>7, <1>8
  DEF Next, Readopt, Rollback, StartRun, RenameMaterial, RenameTransactions, WriteSummary,
      RenameSummary, RunFails, Kill, RemoveByHand, StartPending, PendingFails, PublishPending,
      Lookup, vars, auditVars

(* A step that leaves the audit alone.                                     *)
LEMMA FilesIdle ==
  ASSUME FInv, UNCHANGED auditVars
  PROVE  /\ pc' \in Places /\ runs' \in 0..MaxRuns /\ files' \in [Outputs -> FileStates]
         /\ FilesOfRun' /\ SummaryAgrees'
<1>1. pc' = pc /\ seg' = seg /\ runs' = runs /\ files' = files /\ summary' = summary
  BY DEF auditVars
<1> QED  BY <1>1 DEF FInv, Bounds, FilesOfRun, SummaryAgrees, Untouched, OfRun

(* A run begins only among no files at all, and only a run that wrote both *)
(* tables itself puts a summary beside them.                               *)
LEMMA FilesStep ==
  ASSUME FInv, [Next]_vars
  PROVE  /\ pc' \in Places /\ runs' \in 0..MaxRuns /\ files' \in [Outputs -> FileStates]
         /\ FilesOfRun' /\ SummaryAgrees'
<1>0. /\ pc \in Places /\ runs \in 0..MaxRuns /\ files \in [Outputs -> FileStates]
      /\ FilesOfRun /\ SummaryAgrees
  BY DEF FInv, Bounds
<1>a. Outputs = {"material", "transactions", "summary"}  BY DEF Outputs
<1> DEFINE Goal == /\ pc' \in Places /\ runs' \in 0..MaxRuns /\ files' \in [Outputs -> FileStates]
                   /\ FilesOfRun' /\ SummaryAgrees'
<1> SUFFICES Goal  OBVIOUS
<1>1. CASE StartRun
  <2>1. /\ pc' = "predecessor" /\ runs' = runs + 1 /\ runs < MaxRuns /\ files' = files
        /\ summary' = summary /\ Untouched
    BY <1>1 DEF StartRun
  <2>2. runs' \in 0..MaxRuns
    BY <1>0, <2>1, IntervalAssumption DEF IntervalAssumption
  <2>5. pc' \in Places  BY <2>1 DEF Places
  <2>3. FilesOfRun'  BY <2>1 DEF FilesOfRun, Untouched
  <2>4. SummaryAgrees'  BY <2>1, <1>0 DEF SummaryAgrees
  <2> QED  BY <1>0, <2>1, <2>2, <2>3, <2>4, <2>5
<1>2. CASE ReadPredecessor
  <2>1. /\ pc = "predecessor" /\ pc' = "reading" /\ runs' = runs
        /\ files' = SetFiles({"material", "transactions"}, "partial")
    BY <1>2 DEF ReadPredecessor
  <2>2. /\ files' \in [Outputs -> FileStates]
        /\ \A o \in Outputs : files'[o] = IF o \in {"material", "transactions"}
                                          THEN [st |-> "partial", run |-> runs] ELSE files[o]
    BY <2>1, <1>0, SetFilesEntries
  <2>3. /\ files'["material"] = [st |-> "partial", run |-> runs]
        /\ files'["transactions"] = [st |-> "partial", run |-> runs]
        /\ files'["summary"] = files["summary"] /\ files["summary"].st = "absent"
    BY <2>1, <2>2, <1>0, <1>a DEF FilesOfRun, Untouched
  <2>4. FilesOfRun'  BY <2>1, <2>3 DEF FilesOfRun, OfRun
  <2>5. SummaryAgrees'  BY <2>3, <1>a DEF SummaryAgrees
  <2> QED  BY <1>0, <2>1, <2>2, <2>4, <2>5 DEF Places
<1>3. CASE ReadChunk
  <2>1. /\ pc = "reading" /\ pc' \in {"reading", "rename"} /\ runs' = runs /\ files' = files
        /\ summary' = summary
    BY <1>3 DEF ReadChunk
  <2>2. FilesOfRun'  BY <2>1, <1>0 DEF FilesOfRun, OfRun
  <2>3. SummaryAgrees'  BY <2>1, <1>0 DEF SummaryAgrees
  <2> QED  BY <1>0, <2>1, <2>2, <2>3 DEF Places
<1>4. CASE RenameMaterial
  <2>1. /\ pc = "rename" /\ pc' = "rename transactions" /\ runs' = runs
        /\ files' = SetFiles({"material"}, "final")
    BY <1>4 DEF RenameMaterial
  <2>2. /\ files' \in [Outputs -> FileStates]
        /\ \A o \in Outputs : files'[o] = IF o \in {"material"}
                                          THEN [st |-> "final", run |-> runs] ELSE files[o]
    BY <2>1, <1>0, SetFilesEntries
  <2>3. /\ files'["material"] = [st |-> "final", run |-> runs]
        /\ files'["transactions"] = [st |-> "partial", run |-> runs]
        /\ files'["summary"] = files["summary"] /\ files["summary"].st = "absent"
    BY <2>1, <2>2, <1>0, <1>a DEF FilesOfRun, OfRun
  <2>4. FilesOfRun'  BY <2>1, <2>3 DEF FilesOfRun, OfRun
  <2>5. SummaryAgrees'  BY <2>3, <1>a DEF SummaryAgrees
  <2> QED  BY <1>0, <2>1, <2>2, <2>4, <2>5 DEF Places
<1>5. CASE RenameTransactions
  <2>1. /\ pc = "rename transactions" /\ pc' = "first hash" /\ runs' = runs
        /\ files' = SetFiles({"transactions"}, "final")
    BY <1>5 DEF RenameTransactions
  <2>2. /\ files' \in [Outputs -> FileStates]
        /\ \A o \in Outputs : files'[o] = IF o \in {"transactions"}
                                          THEN [st |-> "final", run |-> runs] ELSE files[o]
    BY <2>1, <1>0, SetFilesEntries
  <2>3. /\ files'["material"] = [st |-> "final", run |-> runs]
        /\ files'["transactions"] = [st |-> "final", run |-> runs]
        /\ files'["summary"] = files["summary"] /\ files["summary"].st = "absent"
    BY <2>1, <2>2, <1>0, <1>a DEF FilesOfRun, OfRun
  <2>4. FilesOfRun'  BY <2>1, <2>3 DEF FilesOfRun, OfRun
  <2>5. SummaryAgrees'  BY <2>3, <1>a DEF SummaryAgrees
  <2> QED  BY <1>0, <2>1, <2>2, <2>4, <2>5 DEF Places
<1>6. CASE WriteSummary
  <2>1. /\ pc = "first hash" /\ pc' = "rename summary" /\ runs' = runs
        /\ files' = SetFiles({"summary"}, "partial") /\ summary'.run = runs
    BY <1>6 DEF WriteSummary
  <2>2. /\ files' \in [Outputs -> FileStates]
        /\ \A o \in Outputs : files'[o] = IF o \in {"summary"}
                                          THEN [st |-> "partial", run |-> runs] ELSE files[o]
    BY <2>1, <1>0, SetFilesEntries
  <2>3. /\ files'["material"] = [st |-> "final", run |-> runs]
        /\ files'["transactions"] = [st |-> "final", run |-> runs]
        /\ files'["summary"] = [st |-> "partial", run |-> runs]
    BY <2>1, <2>2, <1>0, <1>a DEF FilesOfRun, OfRun
  <2>4. FilesOfRun'  BY <2>1, <2>3 DEF FilesOfRun, OfRun
  <2>5. SummaryAgrees'  BY <2>3, <1>a DEF SummaryAgrees
  <2> QED  BY <1>0, <2>1, <2>2, <2>4, <2>5 DEF Places
<1>7. CASE RenameSummary
  <2>1. /\ pc = "rename summary" /\ pc' = "idle" /\ runs' = runs
        /\ files' = SetFiles({"summary"}, "final") /\ summary' = summary
    BY <1>7 DEF RenameSummary
  <2>2. /\ files' \in [Outputs -> FileStates]
        /\ \A o \in Outputs : files'[o] = IF o \in {"summary"}
                                          THEN [st |-> "final", run |-> runs] ELSE files[o]
    BY <2>1, <1>0, SetFilesEntries
  <2>3. /\ files'["material"] = [st |-> "final", run |-> runs]
        /\ files'["transactions"] = [st |-> "final", run |-> runs]
        /\ files'["summary"] = [st |-> "final", run |-> runs]
        /\ summary'.run = runs
    BY <2>1, <2>2, <1>0, <1>a DEF FilesOfRun, OfRun
  <2>4. FilesOfRun'  BY <2>1 DEF FilesOfRun
  <2>5. SummaryAgrees'  BY <2>3, <1>a DEF SummaryAgrees
  <2> QED  BY <1>0, <2>1, <2>2, <2>4, <2>5 DEF Places
<1>8. CASE RunFails
  <2>1. /\ pc' = "idle" /\ runs' = runs /\ summary' = summary
        /\ files' = [o \in Outputs |-> IF files[o].st = "partial" THEN Absent ELSE files[o]]
    BY <1>8 DEF RunFails
  <2>2. Absent \in FileStates /\ Absent.st = "absent"
    BY IntervalAssumption DEF IntervalAssumption, FileStates, Absent
  <2>3. \A o \in Outputs : files'[o] = IF files[o].st = "partial" THEN Absent ELSE files[o]
    BY <2>1
  <2>4. files' \in [Outputs -> FileStates]
    <3>1. \A o \in Outputs : (IF files[o].st = "partial" THEN Absent ELSE files[o]) \in FileStates
      BY <1>0, <2>2
    <3> QED  BY <2>1, <3>1
  <2>5. \A o \in Outputs : files'[o].st = "final" => files'[o] = files[o]  BY <2>2, <2>3
  <2>6. FilesOfRun'  BY <2>1 DEF FilesOfRun
  <2>7. SummaryAgrees'  BY <2>1, <2>5, <1>0 DEF SummaryAgrees
  <2> QED  BY <1>0, <2>1, <2>4, <2>6, <2>7 DEF Places
<1>9. CASE Kill
  <2>1. pc' = "idle" /\ runs' = runs /\ summary' = summary /\ files' = files
    BY <1>9 DEF Kill
  <2>2. FilesOfRun' /\ SummaryAgrees'  BY <2>1, <1>0 DEF FilesOfRun, SummaryAgrees
  <2> QED  BY <1>0, <2>1, <2>2 DEF Places
<1>10. ASSUME NEW p \in Outputs, RemoveByHand(p)
       PROVE  Goal
  <2>1. /\ pc = "idle" /\ pc' = "idle" /\ runs' = runs /\ summary' = summary
        /\ files' = [files EXCEPT ![p] = Absent]
    BY <1>10 DEF RemoveByHand
  <2>2. Absent \in FileStates /\ Absent.st = "absent"
    BY IntervalAssumption DEF IntervalAssumption, FileStates, Absent
  <2>3. /\ files' \in [Outputs -> FileStates]
        /\ \A o \in Outputs : files'[o] = IF o = p THEN Absent ELSE files[o]
    BY <2>1, <2>2, <1>0, <1>10
  <2>4. \A o \in Outputs : files'[o].st = "final" => files'[o] = files[o]  BY <2>2, <2>3
  <2>5. FilesOfRun'  BY <2>1 DEF FilesOfRun
  <2>6. SummaryAgrees'  BY <2>1, <2>4, <1>0 DEF SummaryAgrees
  <2> QED  BY <1>0, <2>1, <2>3, <2>5, <2>6
<1>11. CASE UNCHANGED auditVars  BY <1>11, FilesIdle
<1> QED
  <2>1. CASE UNCHANGED vars  BY <2>1, <1>11 DEF vars
  <2>2. CASE Next
    <3>1. ASSUME NEW body \in Bodies, NewBlock(body) PROVE Goal  BY <3>1, <1>11 DEF NewBlock
    <3>2. ASSUME NEW b \in created, Readopt(b) PROVE Goal  BY <3>2, <1>11 DEF Readopt
    <3>3. CASE Rollback  BY <3>3, <1>11 DEF Rollback
    <3>4. CASE StartPending \/ PendingFails \/ PublishPending
      BY <3>4, <1>11 DEF StartPending, PendingFails, PublishPending
    <3>5. ASSUME NEW r \in Receipts, Lookup(r) PROVE Goal  BY <3>5, <1>11 DEF Lookup
    <3> HIDE DEF Goal
    <3>6. Goal
      BY <2>2, <1>1, <1>2, <1>3, <1>4, <1>5, <1>6, <1>7, <1>8, <1>9, <1>10, <3>1, <3>2, <3>3, <3>4,
         <3>5 DEF Next
    <3> QED  BY <3>6 DEF Goal
  <2> QED  BY <2>1, <2>2

(* Only receipts are looked up.                                            *)
LEMMA CheckedStep ==
  ASSUME FInv, [Next]_vars
  PROVE  checked' \subseteq Receipts
<1>1. checked \subseteq Receipts  BY DEF FInv, Bounds
<1>2. ASSUME NEW r \in Receipts, Lookup(r) PROVE checked' \subseteq Receipts
  BY <1>1, <1>2 DEF Lookup
<1> QED
  BY <1>1, <1>2
  DEF Next, NewBlock, Readopt, Rollback, StartRun, ReadPredecessor, ReadChunk, RenameMaterial,
      RenameTransactions, WriteSummary, RenameSummary, RunFails, Kill, RemoveByHand, StartPending,
      PendingFails, PublishPending, vars, pendingVars

(* Every step keeps the files in order. *)
LEMMA FInvStep ==
  ASSUME IInv, IInv', FInv, [Next]_vars
  PROVE  FInv'
<1>1. Bounds  BY DEF FInv
<1>2. /\ \A b \in created' : b.number <= b.id + 1
      /\ Cardinality(created') <= MaxBlocks
      /\ Len(seg') <= End - Start + 2
  BY <1>1, BoundsStep
<1> QED  BY <1>2, FilesStep, CheckedStep DEF FInv, Bounds

(* At first there are no files. *)
LEMMA FInvInit == Init => FInv
<1> SUFFICES ASSUME Init PROVE FInv  OBVIOUS
<1>1. /\ created = {Genesis} /\ seg = <<>> /\ pc = "idle" /\ runs = 0 /\ checked = {}
      /\ files = [o \in Outputs |-> Absent]
  BY DEF Init
<1>2. Cardinality(created) = 1  BY <1>1, FS_Singleton
<1>3. Cardinality(created) <= MaxBlocks
  BY <1>2, IntervalAssumption, GenesisAssumption DEF IntervalAssumption, GenesisAssumption
<1>4. \A b \in created : b.number <= b.id + 1  BY <1>1 DEF Genesis
<1>5. Len(seg) <= End - Start + 2  BY <1>1, IntervalAssumption DEF IntervalAssumption
<1>6. Absent \in FileStates /\ Absent.st = "absent"
  BY IntervalAssumption DEF IntervalAssumption, FileStates, Absent
<1>7. files \in [Outputs -> FileStates] /\ \A o \in Outputs : files[o].st = "absent"
  BY <1>1, <1>6
<1>8. runs \in 0..MaxRuns /\ pc \in Places
  BY <1>1, IntervalAssumption DEF IntervalAssumption, Places
<1>9. FilesOfRun  BY <1>1 DEF FilesOfRun
<1>10. SummaryAgrees  BY <1>7 DEF SummaryAgrees, Outputs
<1> QED  BY <1>1, <1>3, <1>4, <1>5, <1>7, <1>8, <1>9, <1>10 DEF FInv, Bounds

(* The invariants give the property; the chain's length is the number of   *)
(* its last block.                                                         *)
LEMMA FInvSummary ==
  ASSUME IInv, FInv
  PROVE  SummaryDescribesTables
<1> USE IntervalAssumption DEF IntervalAssumption
<1> DEFINE tip == chain[Len(chain)]
<1>1. /\ Len(chain) \in Nat /\ Len(chain) >= 1
      /\ \A i \in 1..Len(chain) : chain[i] \in created /\ chain[i].number = i
  BY DEF IInv, ChainSound, LinkedFrom
<1>2. tip \in created /\ tip.number = Len(chain)  BY <1>1
<1>3. tip.id \in Nat /\ tip.id < Cardinality(created) /\ tip.number <= tip.id + 1
  BY <1>2 DEF IInv, CreatedSound, FInv, Bounds
<1>4. Cardinality(created) \in Nat /\ Cardinality(created) <= MaxBlocks
  BY FS_CardinalityType DEF IInv, CreatedSound, FInv, Bounds
<1> HIDE DEF tip
<1>5. Len(chain) \in 1..MaxBlocks  BY <1>1, <1>2, <1>3, <1>4
<1>6. TypeOK  BY <1>1, <1>5 DEF FInv, Bounds, TypeOK, Places, FileStates
<1> QED  BY <1>6 DEF FInv, SummaryAgrees, SummaryDescribesTables

(* Whatever is killed, fails or is removed by hand, the summary beside two *)
(* final tables was written by the run that wrote the tables, and the      *)
(* types hold: the checks before the first call and the order of the three *)
(* renames are enough.                                                     *)
THEOREM SummaryMatchesTables == Spec => []SummaryDescribesTables
<1>1. IInv /\ [Next]_vars => IInv'
  BY StepSound, IntervalAssumption
<1>2. IInv /\ IInv' /\ FInv /\ [Next]_vars => FInv'
  BY FInvStep
<1>3. IInv /\ FInv => SummaryDescribesTables
  BY FInvSummary
<1> QED  BY <1>1, <1>2, <1>3, GenesisSound, FInvInit, PTL DEF Spec

-----------------------------------------------------------------------------
(* The pending receipts.                                                   *)

(* The places after the last chunk.                                        *)
Finishing == {"rename", "rename transactions", "first hash", "rename summary"}

NoCross == \A i \in Start..End : chain[i].body # "cross"
NotConsumed(r) == \A i \in 1..End : chain[i].body # r

(* As long as no block up to End is undone, a whole reading is still the   *)
(* canonical interval, a summary that counts no cross-shard transaction is *)
(* right about it, and a receipt looked up stays unconsumed.               *)
Canonical ==
  /\ End <= Len(chain)
  /\ pc \in Finishing => /\ Len(seg) = End - Start + 2
                         /\ \A k \in 1..Len(seg) : seg[k] = chain[Start - 2 + k]
  /\ files["summary"].st # "absent" /\ summary.cross_shard_transactions = 0 => NoCross
  /\ pending # "idle" => NoCross /\ \A r \in checked : NotConsumed(r)

PInv ==
  /\ stable \in BOOLEAN
  /\ stable => Canonical
  /\ pending = "published" => checked = Receipts

(* A receipt is consumed by block End of a sound chain exactly when one of *)
(* its first End blocks does so.                                           *)
LEMMA ConsumedWithin ==
  ASSUME ChainSound, IntervalAssumption, End <= Len(chain), NEW r
  PROVE  ~ ConsumedBy(r, End) => NotConsumed(r)
<1>1. Len(chain) \in Nat /\ \A i \in 1..Len(chain) : chain[i].number = 1 + i - 1
  BY DEF ChainSound, LinkedFrom
<1>2. \A i \in 1..End : i \in 1..Len(chain) /\ chain[i].number <= End
  BY <1>1 DEF IntervalAssumption
<1> QED  BY <1>2 DEF ConsumedBy, NotConsumed

(* The chain moves only beyond End while the audit is stable.              *)
LEMMA ChainMoves ==
  ASSUME IInv, PInv, IntervalAssumption, stable',
         \/ \E b : chain' = Append(chain, b) /\ stable' = stable
         \/ Rollback
  PROVE  /\ stable /\ End <= Len(chain')
         /\ \A i \in 1..End : chain'[i] = chain[i]
<1> USE DEF IntervalAssumption
<1>1. chain \in Seq(created) /\ Len(chain) \in Nat  BY DEF IInv, ChainSound, LinkedFrom
<1>2. ASSUME NEW b, chain' = Append(chain, b), stable' = stable
      PROVE  /\ stable /\ End <= Len(chain')
             /\ \A i \in 1..End : chain'[i] = chain[i]
  <2>1. stable /\ End <= Len(chain)  BY <1>2 DEF PInv, Canonical
  <2>2. Len(chain') = Len(chain) + 1 /\ \A i \in 1..Len(chain) : chain'[i] = chain[i]
    BY <1>1, <1>2
  <2> QED  BY <1>1, <2>1, <2>2
<1>3. CASE Rollback
  <2>1. /\ Len(chain) > 1 /\ chain' = SubSeq(chain, 1, Len(chain) - 1)
        /\ stable /\ Len(chain) > End
    BY <1>3 DEF Rollback
  <2>2. /\ Len(chain') = Len(chain) - 1
        /\ \A i \in 1..(Len(chain) - 1) : chain'[i] = chain[i]
    BY <1>1, <2>1
  <2> QED  BY <1>1, <2>1, <2>2
<1> QED  BY <1>2, <1>3

(* The blocks up to End stay, and so does what is known of them.           *)
LEMMA FrameStep ==
  ASSUME Canonical, IntervalAssumption, End <= Len(chain'),
         \A i \in 1..End : chain'[i] = chain[i],
         UNCHANGED <<auditVars, pendingVars>>
  PROVE  Canonical'
<1> USE DEF IntervalAssumption
<1>1. /\ pc' = pc /\ seg' = seg /\ files' = files /\ summary' = summary
      /\ pending' = pending /\ checked' = checked
  BY DEF auditVars, pendingVars
<1>2. NoCross => NoCross'
  <2>1. \A i \in Start..End : i \in 1..End  OBVIOUS
  <2> QED  BY <2>1 DEF NoCross
<1>3. \A r : NotConsumed(r) => NotConsumed(r)'  BY DEF NotConsumed
<1>4. ASSUME pc \in Finishing
      PROVE  /\ Len(seg) = End - Start + 2
             /\ \A k \in 1..Len(seg) : seg[k] = chain'[Start - 2 + k]
  <2>1. /\ Len(seg) = End - Start + 2
        /\ \A k \in 1..Len(seg) : seg[k] = chain[Start - 2 + k]
    BY <1>4 DEF Canonical
  <2>2. \A k \in 1..Len(seg) : Start - 2 + k \in 1..End  BY <2>1
  <2> QED  BY <2>1, <2>2
<1> QED  BY <1>1, <1>2, <1>3, <1>4 DEF Canonical

(* A reading without a cross-shard transaction has none in the interval.   *)
LEMMA CountedCross ==
  ASSUME IntervalAssumption, Len(seg) = End - Start + 2,
         \A k \in 1..Len(seg) : seg[k] = chain[Start - 2 + k],
         Cardinality({i \in 2..Len(seg) : CrossShard(seg[i])}) = 0
  PROVE  NoCross
<1> USE DEF IntervalAssumption
<1> DEFINE C == {i \in 2..Len(seg) : CrossShard(seg[i])}
<1>1. Len(seg) \in Int  OBVIOUS
<1>2. IsFiniteSet(2..Len(seg))  BY <1>1, FS_Interval
<1>3. IsFiniteSet(C)  BY <1>2, FS_Subset
<1>4. C = {}  BY <1>3, FS_EmptySet
<1>5. \A i \in 2..Len(seg) : seg[i].body # "cross"  BY <1>4 DEF CrossShard
<1>6. ASSUME NEW j \in Start..End PROVE chain[j].body # "cross"
  <2> DEFINE k == j - Start + 2
  <2>1. k \in 2..Len(seg) /\ k \in 1..Len(seg) /\ Start - 2 + k = j  OBVIOUS
  <2>2. seg[k] = chain[j]  BY <2>1
  <2> QED  BY <2>1, <2>2, <1>5
<1> QED  BY <1>6 DEF NoCross

(* The last chunk completes the reading.                                   *)
LEMMA ReadChunkLength ==
  ASSUME IInv, IntervalAssumption, ReadChunk, ChunkEnd = End
  PROVE  Len(seg') = End - Start + 2
<1> USE DEF IntervalAssumption
<1> DEFINE chunk == SubSeq(chain, NextNumber, ChunkEnd)
<1>1. seg' = seg \o chunk /\ pc = "reading" /\ ChunkEnd <= Len(chain)  BY DEF ReadChunk
<1>2. /\ chain \in Seq(created) /\ seg \in Seq(created) /\ Len(seg) \in 1..(End - Start + 1)
      /\ Len(chain) \in Nat
  BY <1>1 DEF IInv, ChainSound, SegSound, LinkedFrom
<1>3. NextNumber = Start - 1 + Len(seg) /\ NextNumber \in Start..End  BY <1>2 DEF NextNumber
<1>4. chunk \in Seq(created) /\ Len(chunk) = End - NextNumber + 1  BY <1>1, <1>2, <1>3
<1> HIDE DEF chunk
<1>5. Len(seg \o chunk) = Len(seg) + Len(chunk)  BY <1>2, <1>4, ConcatProperties
<1> QED  BY <1>1, <1>2, <1>3, <1>4, <1>5

(* Every step keeps them.                                                  *)
LEMMA PInvStep ==
  ASSUME IInv, FInv, PInv, [Next]_vars
  PROVE  PInv'
<1>0. IntervalAssumption  BY IntervalAssumption
<1>a. stable \in BOOLEAN /\ (stable => Canonical) /\ (pending = "published" => checked = Receipts)
  BY DEF PInv
<1>b. /\ files \in [Outputs -> FileStates] /\ pc \in Places /\ FilesOfRun /\ runs \in 0..MaxRuns
      /\ "summary" \in Outputs
  BY DEF FInv, Bounds, Outputs
<1>1. ASSUME (\E b : chain' = Append(chain, b) /\ stable' = stable) \/ Rollback,
             UNCHANGED <<auditVars, pendingVars>>
      PROVE  PInv'
  <2>1. pending' = pending /\ checked' = checked /\ stable' \in BOOLEAN
    BY <1>1, <1>a DEF pendingVars, Rollback
  <2>2. stable' => Canonical'
    <3> SUFFICES ASSUME stable' PROVE Canonical'  OBVIOUS
    <3>1. /\ stable /\ End <= Len(chain')
          /\ \A i \in 1..End : chain'[i] = chain[i]
      BY <1>0, <1>1, ChainMoves
    <3> QED  BY <1>0, <1>1, <1>a, <3>1, FrameStep
  <2> QED  BY <1>a, <2>1, <2>2 DEF PInv
<1>2. CASE StartRun
  <2>1. /\ pc' = "predecessor" /\ stable' = (stable /\ pending # "idle") /\ chain' = chain
        /\ files' = files /\ summary' = summary /\ pending' = pending /\ checked' = checked
    BY <1>2 DEF StartRun, pendingVars
  <2>2. stable' => Canonical'
    BY <2>1, <1>a DEF Canonical, Finishing, NoCross, NotConsumed
  <2> QED  BY <1>a, <2>1, <2>2 DEF PInv
<1>3. CASE ReadPredecessor
  <2>1. /\ pc' = "reading" /\ pc = "predecessor" /\ stable' = stable /\ chain' = chain
        /\ files' = SetFiles({"material", "transactions"}, "partial") /\ summary' = summary
        /\ pending' = pending /\ checked' = checked
    BY <1>3 DEF ReadPredecessor, pendingVars
  <2>2. files'["summary"] = files["summary"]  BY <2>1, <1>b DEF SetFiles
  <2>3. stable' => Canonical'
    BY <2>1, <2>2, <1>a DEF Canonical, Finishing, NoCross, NotConsumed
  <2> QED  BY <1>a, <2>1, <2>3 DEF PInv
<1>4. CASE ReadChunk
  <2>1. /\ pc = "reading" /\ ChunkEnd <= Len(chain) /\ chain' = chain
        /\ pc' = (IF ChunkEnd = End THEN "rename" ELSE "reading")
        /\ stable' = (IF pending = "idle" THEN ChunkEnd = End ELSE stable)
        /\ files' = files /\ summary' = summary /\ pending' = pending /\ checked' = checked
    BY <1>4 DEF ReadChunk, pendingVars
  <2>2. files["summary"].st = "absent"  BY <2>1, <1>b DEF FilesOfRun
  <2>3. ASSUME ChunkEnd = End
        PROVE  /\ End <= Len(chain') /\ Len(seg') = End - Start + 2
               /\ \A k \in 1..Len(seg') : seg'[k] = chain'[Start - 2 + k]
    <3>1. Len(seg') = End - Start + 2  BY <1>0, <1>4, <2>3, ReadChunkLength
    <3>2. End <= Len(chain) /\ seg' = SubSeq(chain, Start - 1, End)
      BY <1>0, <1>4, <3>1, ReadChunkSound
    <3>3. chain \in Seq(created) /\ Len(chain) \in Nat  BY DEF IInv, ChainSound, LinkedFrom
    <3>4. \A k \in 1..(End - Start + 2) :
            SubSeq(chain, Start - 1, End)[k] = chain[Start - 1 + k - 1]
      BY <1>0, <3>2, <3>3 DEF IntervalAssumption
    <3>5. \A k \in 1..(End - Start + 2) : Start - 1 + k - 1 = Start - 2 + k
      BY <1>0 DEF IntervalAssumption
    <3> QED  BY <2>1, <3>1, <3>2, <3>4, <3>5
  <2>4. ASSUME stable' PROVE Canonical'
    <3>1. End <= Len(chain')  BY <2>1, <2>3, <2>4, <1>a DEF Canonical
    <3>2. pc' \in Finishing => ChunkEnd = End  BY <2>1 DEF Finishing
    <3>3. pending' # "idle" => NoCross' /\ \A r \in checked' : NotConsumed(r)'
      BY <2>1, <2>4, <1>a DEF Canonical, NoCross, NotConsumed
    <3> QED  BY <2>1, <2>2, <2>3, <3>1, <3>2, <3>3 DEF Canonical
  <2>5. stable' \in BOOLEAN  BY <2>1, <1>a
  <2> QED  BY <1>a, <2>1, <2>4, <2>5 DEF PInv
<1>5. CASE RenameMaterial \/ RenameTransactions
  <2>1. /\ pc \in Finishing /\ stable' = stable /\ chain' = chain /\ seg' = seg
        /\ files'["summary"] = files["summary"] /\ summary' = summary
        /\ pending' = pending /\ checked' = checked
    BY <1>5, <1>b DEF RenameMaterial, RenameTransactions, SetFiles, pendingVars, Finishing
  <2>2. stable' => Canonical'
    BY <2>1, <1>a DEF Canonical, NoCross, NotConsumed
  <2> QED  BY <1>a, <2>1, <2>2 DEF PInv
<1>6. CASE WriteSummary
  <2>1. /\ pc \in Finishing /\ stable' = stable /\ chain' = chain /\ seg' = seg
        /\ summary'.cross_shard_transactions = Cardinality({i \in 2..Len(seg) : CrossShard(seg[i])})
        /\ pending' = pending /\ checked' = checked
    BY <1>6 DEF WriteSummary, pendingVars, Finishing
  <2>2. ASSUME stable' PROVE Canonical'
    <3>1. /\ Len(seg) = End - Start + 2
          /\ \A k \in 1..Len(seg) : seg[k] = chain[Start - 2 + k]
      BY <2>1, <2>2, <1>a DEF Canonical
    <3>2. summary'.cross_shard_transactions = 0 => NoCross
      BY <1>0, <2>1, <3>1, CountedCross
    <3> QED  BY <2>1, <2>2, <3>1, <3>2, <1>a DEF Canonical, NoCross, NotConsumed
  <2> QED  BY <1>a, <2>1, <2>2 DEF PInv
<1>7. CASE RenameSummary
  <2>1. /\ pc = "rename summary" /\ pc' = "idle" /\ stable' = stable /\ chain' = chain
        /\ summary' = summary /\ pending' = pending /\ checked' = checked
    BY <1>7 DEF RenameSummary, pendingVars
  <2>2. files["summary"].st = "partial"
    <3>1. OfRun("summary", "partial")  BY <2>1, <1>b DEF FilesOfRun
    <3> QED  BY <3>1 DEF OfRun
  <2>3. stable' => Canonical'
    BY <2>1, <2>2, <1>a DEF Canonical, Finishing, NoCross, NotConsumed
  <2> QED  BY <1>a, <2>1, <2>3 DEF PInv
<1>8. ASSUME RunFails \/ Kill \/ \E o \in Outputs : RemoveByHand(o)
      PROVE  PInv'
  <2>1. /\ pc' = "idle" /\ stable' = stable /\ chain' = chain /\ summary' = summary
        /\ pending' = pending /\ checked' = checked
    BY <1>8 DEF RunFails, Kill, RemoveByHand, pendingVars
  <2>2. files'["summary"].st # "absent" => files["summary"].st # "absent"
    <3>1. CASE RunFails  BY <3>1, <1>b DEF RunFails, Absent
    <3>2. CASE Kill  BY <3>2 DEF Kill
    <3>3. ASSUME NEW o \in Outputs, RemoveByHand(o)
          PROVE  files'["summary"].st # "absent" => files["summary"].st # "absent"
      BY <3>3, <1>b DEF RemoveByHand, Absent
    <3> QED  BY <1>8, <3>1, <3>2, <3>3
  <2>3. stable' => Canonical'
    BY <2>1, <2>2, <1>a DEF Canonical, Finishing, NoCross, NotConsumed
  <2> QED  BY <1>a, <2>1, <2>3 DEF PInv
<1>9. CASE StartPending \/ PendingFails \/ PublishPending
  <2>1. /\ stable' = stable /\ chain' = chain /\ pc' = pc /\ seg' = seg /\ files' = files
        /\ summary' = summary
    BY <1>9 DEF StartPending, PendingFails, PublishPending, auditVars
  <2>2. /\ pending' = "published" => checked' = Receipts
        /\ pending' # "idle" =>
             \/ checked' = checked /\ pending # "idle"
             \/ /\ checked' = {} /\ files["summary"].st # "absent"
                /\ summary.cross_shard_transactions = 0
    BY <1>9 DEF StartPending, PendingFails, PublishPending
  <2>3. stable' => Canonical'
    BY <2>1, <2>2, <1>a DEF Canonical, Finishing, NoCross, NotConsumed
  <2> QED  BY <1>a, <2>1, <2>2, <2>3 DEF PInv
<1>10. ASSUME NEW r \in Receipts, Lookup(r)
       PROVE  PInv'
  <2>1. /\ stable' = stable /\ chain' = chain /\ pc' = pc /\ seg' = seg /\ files' = files
        /\ summary' = summary /\ pending = "looking"
    BY <1>10 DEF Lookup, auditVars
  <2>2. \/ pending' = "idle" /\ checked' = {}
        \/ pending' = pending /\ checked' = checked \cup {r} /\ ~ ConsumedBy(r, End)
    BY <1>10 DEF Lookup
  <2>3. ASSUME stable' PROVE Canonical'
    <3>1. Canonical /\ ChainSound  BY <2>1, <2>3, <1>a DEF IInv
    <3>2. ~ ConsumedBy(r, End) => NotConsumed(r)
      BY <1>0, <3>1, ConsumedWithin DEF Canonical
    <3> QED  BY <2>1, <2>2, <3>1, <3>2 DEF Canonical, NoCross, NotConsumed
  <2> QED  BY <1>a, <2>1, <2>2, <2>3 DEF PInv
<1>11. CASE UNCHANGED vars
  BY <1>11, <1>a DEF PInv, Canonical, NoCross, NotConsumed, vars, auditVars, pendingVars
<1>12. ASSUME NEW body \in Bodies, NewBlock(body) PROVE PInv'
  BY <1>1, <1>12 DEF NewBlock
<1>13. ASSUME NEW b \in created, Readopt(b) PROVE PInv'
  BY <1>1, <1>13 DEF Readopt
<1>14. CASE Rollback  BY <1>1, <1>14 DEF Rollback
<1> QED
  BY <1>2, <1>3, <1>4, <1>5, <1>6, <1>7, <1>8, <1>9, <1>10, <1>11, <1>12, <1>13, <1>14 DEF Next

(* At first nothing was looked up. *)
LEMMA PInvInit == Init => PInv
BY DEF Init, PInv

(* The pending list is the old one: nothing of it was consumed and nothing *)
(* was added.                                                              *)
LEMMA PInvPending ==
  ASSUME IInv, PInv
  PROVE  PendingExact
<1>0. IntervalAssumption  BY IntervalAssumption
<1> USE DEF IntervalAssumption
<1> SUFFICES ASSUME pending = "published", stable,
                    \A i \in Start..End : chain[i].body # "precompile"
             PROVE  TruePending = Receipts
  BY DEF PendingExact
<1> DEFINE prefix == SubSeq(chain, 1, End)
<1>1. End <= Len(chain) /\ NoCross /\ \A r \in Receipts : NotConsumed(r)
  BY DEF PInv, Canonical
<1>2. {i \in Start..End : chain[i].body \in {"cross", "precompile"}} = {}
  BY <1>1 DEF NoCross
<1>3. chain \in Seq(created) /\ Len(chain) \in Nat  BY DEF IInv, ChainSound, LinkedFrom
<1>4. Len(prefix) = End /\ \A i \in 1..End : prefix[i] = chain[i]  BY <1>0, <1>1, <1>3
<1> HIDE DEF prefix
<1>5. \A i \in 1..Len(prefix) : \A r \in Receipts : prefix[i].body # r
  BY <1>1, <1>4 DEF NotConsumed
<1>6. Consumed(prefix) = {}  BY <1>5 DEF Consumed
<1> QED  BY <1>2, <1>6 DEF TruePending, prefix

(* The pending list verify-pending-receipts.py carries over to the new     *)
(* cutoff is the true one, as long as the audited blocks stay canonical    *)
(* and no receipt of the interval came from a precompile: however the      *)
(* lookups, a second audit and the growth of the chain interleave.         *)
THEOREM PendingCarriedOver == Spec => []PendingExact
<1>1. IInv /\ [Next]_vars => IInv'
  BY StepSound, IntervalAssumption
<1>2. IInv /\ IInv' /\ FInv /\ [Next]_vars => FInv'
  BY FInvStep
<1>3. IInv /\ FInv /\ PInv /\ [Next]_vars => PInv'
  BY PInvStep
<1>4. IInv /\ PInv => PendingExact
  BY PInvPending
<1> QED  BY <1>1, <1>2, <1>3, <1>4, GenesisSound, FInvInit, PInvInit, PTL DEF Spec
=============================================================================
