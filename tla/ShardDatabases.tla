--------------------------- MODULE ShardDatabases ---------------------------
(***************************************************************************)
(* The LevelDB databases of the two active Harmony shards, as the audit's  *)
(* scanners read them.  The node that writes them is not part of this      *)
(* repository: its actions are modelled from the key families that         *)
(* toolkit/cmd/cross-shard-supply/main.go reads,                           *)
(*                                                                         *)
(*   h<number>n               canonical hash of a block      chain         *)
(*   cxReceipt<dst,num,hash>  outgoing receipt group         groups        *)
(*   cx<txHash>               destination lookup entry       lookup        *)
(*   cxReceiptSpent<src,num>  destination spent marker       marker        *)
(*                                                                         *)
(* A block that leaves the canonical chain (a rollback) keeps its receipt  *)
(* groups, lookup entries and spent markers in the database.               *)
(***************************************************************************)
EXTENDS Naturals, Sequences, FiniteSets, FiniteSetsExt, Functions

CONSTANTS
    Retired,        \* shard ids that have no database any more (2 and 3)
    Tx,             \* transactions that create a cross-shard receipt
    AmountOf,       \* the amount each of them moves
    InitialLiquid,  \* liquid balance of each active shard in its first block
    MaxGroup,       \* bound: receipts in one group
    MaxHeight,      \* bound: height of a chain
    MaxBlocks       \* bound: blocks ever created after the first ones

Active == {0, 1}
Shard == Active \cup Retired

ASSUME DatabaseAssumption ==
    /\ Retired \cap Active = {}
    /\ IsFiniteSet(Tx) /\ AmountOf \in [Tx -> Nat]
    /\ InitialLiquid \in [Active -> Nat]
    /\ MaxGroup \in Nat /\ MaxHeight \in Nat \ {0} /\ MaxBlocks \in Nat

VARIABLES
    chain,      \* canonical blocks of each active shard, by number
    groups,     \* receipt groups stored by each source database
    lookup,     \* lookup entry of every transaction in each destination
    marker,     \* spent markers <<source, number>> in each destination
    created,    \* blocks created so far; the next block's hash
    cut         \* last included block of each shard, 0 before the cutoff

dbVars == <<chain, groups, lookup, marker, created, cut>>

Absent == [num |-> 0, hash |-> 0]
Entry == [num : Nat, hash : Nat]
Group == [src : Active, dst : Shard, num : Nat, hash : Nat, txs : Seq(Tx)]
Block == [hash : Nat, incoming : SUBSET Group]

TxsOf(g) == {g.txs[i] : i \in DOMAIN g.txs}

Canonical(g) ==
    /\ g.num \in DOMAIN chain[g.src]
    /\ chain[g.src][g.num].hash = g.hash

AppliedIn(g, numbers) ==
    \E n \in numbers : n \in DOMAIN chain[g.dst] /\ g \in chain[g.dst][n].incoming

Applied(g) == g.dst \in Active /\ AppliedIn(g, DOMAIN chain[g.dst])

AppliedByCutoff(g) == AppliedIn(g, 1..cut[g.dst])

AmountOfTxs(T) == SumFunctionOnSet(AmountOf, T)
AmountOfGroups(G) == AmountOfTxs(UNION {TxsOf(g) : g \in G})

(* The liquid balance in the state of block n: what the canonical blocks up *)
(* to n credited less what they debited.                                    *)
Credited(s, n) == UNION {chain[s][i].incoming : i \in 1..n}
Debited(s, n) == {g \in groups[s] : Canonical(g) /\ g.num <= n}
Liquid(s, n) ==
    InitialLiquid[s] + AmountOfGroups(Credited(s, n)) - AmountOfGroups(Debited(s, n))

UsedTx == UNION {TxsOf(g) : g \in {h \in groups[0] \cup groups[1] : Canonical(h)}}

TxSeqs == UNION {{q \in [1..n -> Tx] : IsInjective(q)} : n \in 1..MaxGroup}

NewBlock(s, incoming) ==
    /\ Len(chain[s]) < MaxHeight
    /\ created <= MaxBlocks
    /\ chain' = [chain EXCEPT ![s] = Append(@, [hash |-> created, incoming |-> incoming])]
    /\ created' = created + 1

NewGroup(s, d, txs) ==
    [src |-> s, dst |-> d, num |-> Len(chain[s]) + 1, hash |-> created, txs |-> txs]

DbInit ==
    /\ chain = [s \in Active |-> <<[hash |-> 0, incoming |-> {}]>>]
    /\ groups = [s \in Active |-> {}]
    /\ lookup = [d \in Active |-> [t \in Tx |-> Absent]]
    /\ marker = [d \in Active |-> {}]
    /\ created = 1
    /\ cut = [s \in Active |-> 0]

(* A source block debits its senders and stores the group of receipts. *)
EmitReceipts(s, d, txs) ==
    /\ \A i \in DOMAIN txs : txs[i] \notin UsedTx
    /\ AmountOfTxs({txs[i] : i \in DOMAIN txs}) <= Liquid(s, Len(chain[s]))
    /\ NewBlock(s, {})
    /\ groups' = [groups EXCEPT ![s] = @ \cup {NewGroup(s, d, txs)}]
    /\ UNCHANGED <<lookup, marker, cut>>

(* A block without receipts stores an empty list (0xc0); one for the other *)
(* active shard stands for all of them.                                    *)
EmitNothing(s) ==
    /\ NewBlock(s, {})
    /\ groups' = [groups EXCEPT ![s] = @ \cup {NewGroup(s, 1 - s, <<>>)}]
    /\ UNCHANGED <<lookup, marker, cut>>

(* A destination block applies a whole group, once, and indexes it. *)
ApplyReceipts(d, g) ==
    /\ g.dst = d /\ g.txs # <<>>
    /\ Canonical(g) /\ ~Applied(g)
    /\ NewBlock(d, {g})
    /\ lookup' = [lookup EXCEPT ![d] = [t \in Tx |->
            IF t \in TxsOf(g) THEN [num |-> Len(chain[d]) + 1, hash |-> created] ELSE @[t]]]
    /\ marker' = [marker EXCEPT ![d] = @ \cup {<<g.src, g.num>>}]
    /\ UNCHANGED <<groups, cut>>

(* The head of a chain is rolled back; its index entries stay.  A source    *)
(* block whose receipts were applied is final (its proof was committed), and *)
(* so is everything up to a cutoff, whose block hash the preflight verifies. *)
Rollback(s) ==
    /\ Len(chain[s]) > 1 /\ Len(chain[s]) > cut[s]
    /\ \A g \in groups[s] :
          g.num = Len(chain[s]) /\ Canonical(g) => ~Applied(g)
    /\ chain' = [chain EXCEPT ![s] = SubSeq(@, 1, Len(@) - 1)]
    /\ UNCHANGED <<groups, lookup, marker, created, cut>>

(* The cutoff instant: on every shard the last block produced before it. *)
TakeCutoff ==
    /\ \A s \in Active : cut[s] = 0
    /\ cut' = [s \in Active |-> Len(chain[s])]
    /\ UNCHANGED <<chain, groups, lookup, marker, created>>

DbNext ==
    \/ \E s \in Active, d \in Shard, txs \in TxSeqs : s # d /\ EmitReceipts(s, d, txs)
    \/ \E s \in Active : EmitNothing(s)
    \/ \E d \in Active : \E g \in groups[1 - d] : ApplyReceipts(d, g)
    \/ \E s \in Active : Rollback(s)
    \/ TakeCutoff
=============================================================================
