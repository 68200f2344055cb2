---------------------------- MODULE StakingChain ----------------------------
(***************************************************************************)
(* The two active shards as owners of ONE, external to this repository:    *)
(* what the supply commands under toolkit/cmd read back from a state root. *)
(* Value is liquid, delegated, undelegated, an uncollected reward, or in a *)
(* receipt on its way to the other shard.  Block rewards create it, and so *)
(* does a receipt whose source debit was undone.                           *)
(***************************************************************************)
EXTENDS Integers, Sequences, FiniteSets, Functions

CONSTANTS
    MaxKey,         \* secure keys are 1..MaxKey, in the order of the trie
    CodeKind,       \* kinds of code accounts are given
    Genesis,        \* liquid balance of key 1 of shard 0 at the start
    MaxReward,      \* bound: units of block reward
    MaxReceipts,    \* bound: receipts in transit
    MaxUnbacked,    \* bound: units credited without a debit
    MaxActivity     \* bound: rewards, receipts in transit and unbacked units together

ASSUME ChainAssumption ==
    /\ MaxKey \in Nat \ {0} /\ Genesis \in Nat \ {0}
    /\ CodeKind \subseteq {"contract", "vc", "legacy"}
    /\ MaxReward \in Nat /\ MaxReceipts \in Nat /\ MaxUnbacked \in Nat
    /\ MaxActivity \in Nat

VARIABLES
    liquid,         \* balance of each key on each shard
    code,           \* code of each account of shard 0: a wrapper is "vc" or "legacy"
    stake,          \* stake[v][d]: delegation of d in the wrapper of v
    lifetime,       \* BlockReward of each wrapper
    transit,        \* receipts that are not applied yet
    accumulator,    \* block rewards so far
    unbacked        \* value of the receipts whose debit was undone

chainVars == <<liquid, code, stake, lifetime, transit, accumulator, unbacked>>

Key == 1..MaxKey
Shard == {0, 1}
Part == {"active", "undelegated", "reward"}
Nothing == [part \in Part |-> 0]

IsWrapper(k) == code[k] \in {"vc", "legacy"}

ChainInit ==
    /\ liquid = [s \in Shard |-> [k \in Key |-> IF s = 0 /\ k = 1 THEN Genesis ELSE 0]]
    /\ code = [k \in Key |-> "none"]
    /\ stake = [v \in Key |-> [d \in Key |-> Nothing]]
    /\ lifetime = [k \in Key |-> 0]
    /\ transit = <<>>
    /\ accumulator = 0 /\ unbacked = 0

Activity == accumulator + Len(transit) + unbacked

Send(s, k, to, amount) ==
    /\ Activity < MaxActivity
    /\ Len(transit) < MaxReceipts /\ liquid[s][k] >= amount
    /\ liquid' = [liquid EXCEPT ![s][k] = @ - amount]
    /\ transit' = Append(transit, [shard |-> 1 - s, to |-> to, amount |-> amount])
    /\ UNCHANGED <<code, stake, lifetime, accumulator, unbacked>>

(* The debit of a transfer is undone, its receipt is not. *)
Leak(s, to) ==
    /\ Activity < MaxActivity - 1
    /\ Len(transit) < MaxReceipts /\ unbacked < MaxUnbacked
    /\ transit' = Append(transit, [shard |-> 1 - s, to |-> to, amount |-> 1])
    /\ unbacked' = unbacked + 1
    /\ UNCHANGED <<liquid, code, stake, lifetime, accumulator>>

Deliver ==
    /\ transit # <<>>
    /\ liquid' = [liquid EXCEPT ![Head(transit).shard][Head(transit).to] = @ + Head(transit).amount]
    /\ transit' = Tail(transit)
    /\ UNCHANGED <<code, stake, lifetime, accumulator, unbacked>>

SetCode(k, kind) ==
    /\ code[k] = "none"
    /\ code' = [code EXCEPT ![k] = kind]
    /\ UNCHANGED <<liquid, stake, lifetime, transit, accumulator, unbacked>>

Delegate(v, d) ==
    /\ IsWrapper(v) /\ liquid[0][d] > 0
    /\ liquid' = [liquid EXCEPT ![0][d] = @ - 1]
    /\ stake' = [stake EXCEPT ![v][d]["active"] = @ + 1]
    /\ UNCHANGED <<code, lifetime, transit, accumulator, unbacked>>

Undelegate(v, d) ==
    /\ stake[v][d]["active"] > 0
    /\ stake' = [stake EXCEPT ![v][d]["active"] = @ - 1, ![v][d]["undelegated"] = @ + 1]
    /\ UNCHANGED <<liquid, code, lifetime, transit, accumulator, unbacked>>

(* An undelegation is paid out, or a reward is collected. *)
PayOut(v, d, part) ==
    /\ part # "active" /\ stake[v][d][part] > 0
    /\ stake' = [stake EXCEPT ![v][d][part] = @ - 1]
    /\ liquid' = [liquid EXCEPT ![0][d] = @ + 1]
    /\ UNCHANGED <<code, lifetime, transit, accumulator, unbacked>>

Reward(v, d) ==
    /\ Activity < MaxActivity
    /\ accumulator < MaxReward /\ stake[v][d]["active"] > 0
    /\ stake' = [stake EXCEPT ![v][d]["reward"] = @ + 1]
    /\ lifetime' = [lifetime EXCEPT ![v] = @ + 1]
    /\ accumulator' = accumulator + 1
    /\ UNCHANGED <<liquid, code, transit, unbacked>>

ChainNext ==
    \/ \E s \in Shard, k, to \in Key, amount \in {0, 1} : Send(s, k, to, amount)
    \/ \E s \in Shard, to \in Key : Leak(s, to)
    \/ Deliver
    \/ \E k \in Key, kind \in CodeKind : SetCode(k, kind)
    \/ \E v, d \in Key : Delegate(v, d) \/ Undelegate(v, d) \/ Reward(v, d)
    \/ \E v, d \in Key, part \in Part : PayOut(v, d, part)

(* All value there is, and what one key owns of it. *)
Supply == Genesis + accumulator + unbacked

Owned(k) ==
    liquid[0][k] + liquid[1][k]
    + SumFunction([v \in Key |-> SumFunction(stake[v][k])])
    + SumFunctionOnSet([i \in DOMAIN transit |-> transit[i].amount],
                       {i \in DOMAIN transit : transit[i].to = k})
=============================================================================
