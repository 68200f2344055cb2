------------------------- MODULE SupplyLedgerProofs -------------------------
(***************************************************************************)
(* The two computations of the supply for every number of keys, every      *)
(* genesis and any bounds.  The chain conserves value (Conserved): what is *)
(* liquid, staked and in transit is what was issued plus what leaked.  An  *)
(* export has the share of every key in its components (Exported); the     *)
(* merge keeps the keys behind it in the ledger and those ahead above it   *)
(* (Merging), so each ledger row is the whole claim of its key             *)
(* (LedgerRight) and the totals are those of the chain (SummaryRight).     *)
(***************************************************************************)
EXTENDS SupplyLedger, SumTheorems, SequenceTheorems

-----------------------------------------------------------------------------
(* The chain *)

Receipt == [shard : Shard, to : Key, amount : Nat]
Codes == {"none", "contract", "vc", "legacy"}

(* What one wrapper holds, what some wrappers hold, and what is on its way. *)
Held(st, v) == SumFunction([d \in Key |-> SumFunction(st[v][d])])
Staked(st, V) == SumFunctionOnSet([v \in Key |-> Held(st, v)], V)
Amounts(t) == [i \in DOMAIN t |-> t[i].amount]
InTransit(t) == SumFunction(Amounts(t))

ChainTypes ==
    /\ liquid \in [Shard -> [Key -> Nat]]
    /\ code \in [Key -> Codes]
    /\ stake \in [Key -> [Key -> [Part -> Nat]]] /\ lifetime \in [Key -> Nat]
    /\ transit \in Seq(Receipt) /\ Len(transit) <= MaxReceipts
    /\ accumulator \in 0..MaxReward /\ unbacked \in 0..MaxUnbacked

(* Only wrappers hold stakes and have earned rewards. *)
OnlyWrappers ==
    \A v \in Key : ~IsWrapper(v) => lifetime[v] = 0 /\ \A d \in Key : stake[v][d] = Nothing

(* Value is neither lost nor made, except by rewards and leaks. *)
Conserved ==
    SumFunction(liquid[0]) + SumFunction(liquid[1]) + Staked(stake, Key) + InTransit(transit) = Supply

(* The accumulator is the sum of all rewards. *)
Rewarded == SumFunction(lifetime) = accumulator

ChainInv == ChainTypes /\ OnlyWrappers /\ Conserved /\ Rewarded

(* The base checkpoint satisfied the same. *)
BaseInv ==
    /\ base # <<>> =>
          /\ base.code \in [Key -> Codes] /\ base.lifetime \in [Key -> Nat] /\ base.accumulator \in Nat
          /\ SumFunction(base.lifetime) = base.accumulator
          /\ \A k \in Key : base.code[k] \notin {"vc", "legacy"} => base.lifetime[k] = 0
    /\ phase # "live" => base # <<>>

-----------------------------------------------------------------------------
(* The files *)

(* What the state gives a key in one component, with these validators. *)
Amount(l, st, t, V, k, c) ==
    IF c = "liquid0" THEN l[0][k]
    ELSE IF c = "liquid1" THEN l[1][k]
    ELSE IF c = "receipts" THEN SumFunctionOnSet(Amounts(t), {i \in DOMAIN t : t[i].to = k})
    ELSE SumFunctionOnSet([v \in Key |-> st[v][k][c]], V)

Validators == StakingValidators(mode.staking)
Claim(k, c) == Amount(liquid, stake, transit, Validators, k, c)

(* The input that carries a component, and its share of a claim. *)
From(c) == IF c \in Part THEN "staking" ELSE c
Share(f, k) == [c \in Component |-> IF From(c) = f THEN Claim(k, c) ELSE 0]

LedgerRow == [key : Key, claim : [Component -> Nat]]
Increasing(s) == \A i, j \in 1..Len(s) : i < j => s[i].key < s[j].key

Early == {"live", "snapshot0", "snapshot1", "staking", "receipts"}
Late == {"supply", "formula", "verify", "passed"}
AfterInput(f) ==
    {"merge"} \cup
    CASE f = "liquid0" -> {"snapshot1", "staking", "receipts"}
      [] f = "liquid1" -> {"staking", "receipts"}
      [] f = "staking" -> {"receipts"}
      [] f = "receipts" -> {}

(* A program knows three ways to find validators. *)
Ways == {"discover", "list", "validator-only"}

FileTypes ==
    /\ phase \in Early \cup {"merge", "summary", "failed"} \cup Late
    /\ mode \in [staking : Ways, supply : Ways, base : Ways]
    /\ validatorList \subseteq Key
    /\ rows \in [Input -> Seq(LedgerRow)] /\ \A f \in Input : Increasing(rows[f])
    /\ \A f \in Input \ {"receipts"} : \A i \in 1..Len(rows[f]) : Total(rows[f][i].claim) > 0
    /\ cursor \in [Input -> Nat] /\ \A f \in Input : cursor[f] \in 1..(Len(rows[f]) + 1)
    /\ ledger \in Seq(LedgerRow) /\ Increasing(ledger)
    /\ formula \in Nat

(* Nothing is merged before every input is there. *)
Fresh ==
    /\ phase \in Early =>
          ledger = <<>> /\ summary = <<>> /\ cursor = [f \in Input |-> 1]
    /\ phase \in Early \cup {"merge", "summary"} => summary = <<>>

(* An export has its share of every key, and only keys without one are left out. *)
Exported(f) ==
    /\ \A i \in 1..Len(rows[f]) : rows[f][i].claim = Share(f, rows[f][i].key)
    /\ \A k \in Key : (\A i \in 1..Len(rows[f]) : rows[f][i].key # k) =>
                      \A c \in Component : Share(f, k)[c] = 0

(* The merge has the keys behind it in the ledger, and those ahead are larger. *)
Merging ==
    \A f \in Input : \A i \in 1..Len(rows[f]) :
        /\ i < cursor[f] => \E j \in 1..Len(ledger) : ledger[j].key = rows[f][i].key
        /\ i >= cursor[f] => \A j \in 1..Len(ledger) : ledger[j].key < rows[f][i].key

(* Each ledger row is all its key has. *)
LedgerRight == \A j \in 1..Len(ledger) : \A c \in Component : ledger[j].claim[c] = Claim(ledger[j].key, c)

(* No key with a claim is missing in a whole ledger. *)
Covered ==
    \A k \in Key : (\A j \in 1..Len(ledger) : ledger[j].key # k) => \A c \in Component : Claim(k, c) = 0

SummaryRight ==
    summary # <<>> \/ phase \in Late =>
        summary = [c \in Component |-> SumFunction([k \in Key |-> Claim(k, c)])]

(* What actual-supply and the formula were computed from. *)
SupplyRight ==
    LET V == SupplyValidators("cutoff", mode.supply)
    IN  /\ supply.lifetime = SumFunctionOnSet(lifetime, V)
        /\ mode.supply # "validator-only" => supply.claims = SumFunction(liquid[0]) + Staked(stake, V)

FormulaRight ==
    LET V == SupplyValidators("base", mode.base)
    IN  formula = Genesis + base.accumulator + (supply.lifetime - SumFunctionOnSet(base.lifetime, V))

Agrees == supply.claims + summary["liquid1"] + PendingAtto = Total(summary)

FileInv ==
    /\ FileTypes /\ Fresh
    /\ \A f \in Input : phase \in AfterInput(f) => Exported(f)
    /\ phase = "merge" => Merging
    /\ LedgerRight
    /\ phase = "summary" => Covered
    /\ SummaryRight
    /\ phase \in {"formula", "verify", "passed"} => SupplyRight
    /\ phase \in {"verify", "passed"} => FormulaRight
    /\ phase = "passed" => Agrees

(* The inductive invariant. *)
IInv == ChainInv /\ BaseInv /\ FileInv

-----------------------------------------------------------------------------
(* Sums of the chain *)

(* There are finitely many keys. *)
LEMMA KeysFinite == IsFiniteSet(Key) /\ 1 \in Key /\ Key \subseteq Nat /\ IsFiniteSet(Input)
  <1>1. MaxKey \in Nat \ {0}
    BY ChainAssumption DEF ChainAssumption
  <1>2. IsFiniteSet(1..MaxKey)
    BY <1>1, FS_Interval
  <1>3. IsFiniteSet({"liquid0", "liquid1", "staking", "receipts"})
    <2>1. IsFiniteSet({"liquid0"})
      BY FS_Singleton
    <2>2. IsFiniteSet({"liquid0"} \cup {"liquid1"})
      BY <2>1, FS_AddElement
    <2>3. IsFiniteSet(({"liquid0"} \cup {"liquid1"}) \cup {"staking"})
      BY <2>2, FS_AddElement
    <2>4. IsFiniteSet((({"liquid0"} \cup {"liquid1"}) \cup {"staking"}) \cup {"receipts"})
      BY <2>3, FS_AddElement
    <2>5. (({"liquid0"} \cup {"liquid1"}) \cup {"staking"}) \cup {"receipts"}
            = {"liquid0", "liquid1", "staking", "receipts"}
      OBVIOUS
    <2> QED BY <2>4, <2>5
  <1> QED BY <1>1, <1>2, <1>3 DEF Key, Input

(* The same, alone. *)
LEMMA KeyFinite == IsFiniteSet(Key)
  BY KeysFinite

(* A sum over one element. *)
LEMMA SumOne ==
    ASSUME NEW f, NEW x, f[x] \in Int
    PROVE  SumFunctionOnSet(f, {x}) = f[x]
  <1>1. IsFiniteSet({}) /\ x \notin {} /\ {} \cup {x} = {x}
    BY FS_EmptySet
  <1>2. SumFunctionOnSet(f, {} \cup {x}) = SumFunctionOnSet(f, {}) + f[x]
    BY <1>1, SumAdd
  <1> QED BY <1>1, <1>2, SumEmpty

(* A sum over three elements. *)
LEMMA SumThree ==
    ASSUME NEW f, NEW x, NEW y, NEW z, x # y, x # z, y # z, f[x] \in Int, f[y] \in Int, f[z] \in Int,
           NEW n, n = f[x] + f[y] + f[z]
    PROVE  IsFiniteSet({x, y, z}) /\ SumFunctionOnSet(f, {x, y, z}) = n
  <1>1. /\ IsFiniteSet({x}) /\ IsFiniteSet({x} \cup {y})
        /\ IsFiniteSet(({x} \cup {y}) \cup {z})
    BY FS_Singleton, FS_AddElement
  <1> DEFINE S == {x} \cup {y}
  <1>2. SumFunctionOnSet(f, S) = f[x] + f[y]
    <2>1. y \notin {x} /\ \A w \in {x} \cup {y} : f[w] \in Int
      OBVIOUS
    <2>2. SumFunctionOnSet(f, {x} \cup {y}) = SumFunctionOnSet(f, {x}) + f[y]
      BY <1>1, <2>1, SumAdd
    <2>3. SumFunctionOnSet(f, {x}) = f[x]
      BY SumOne
    <2> QED BY <2>2, <2>3
  <1>3. S \cup {z} = {x, y, z} /\ z \notin S /\ \A w \in S \cup {z} : f[w] \in Int
    OBVIOUS
  <1>4. IsFiniteSet(S)
    BY <1>1
  <1> HIDE DEF S
  <1>5. SumFunctionOnSet(f, S \cup {z}) = SumFunctionOnSet(f, S) + f[z]
    BY <1>3, <1>4, SumAdd
  <1>6. IsFiniteSet(S \cup {z})
    BY <1>1 DEF S
  <1> QED BY <1>2, <1>3, <1>5, <1>6

(* The three parts of a delegation. *)
LEMMA PartSum ==
    ASSUME NEW t \in [Part -> Nat]
    PROVE  SumFunction(t) = t["active"] + t["undelegated"] + t["reward"] /\ SumFunction(t) \in Nat
  <1> DEFINE R == {"active", "undelegated", "reward"}
  <1>1. DOMAIN t = R
    BY DEF Part
  <1>2. t["active"] \in Nat /\ t["undelegated"] \in Nat /\ t["reward"] \in Nat
    BY DEF Part
  <1>3. t["active"] \in Int /\ t["undelegated"] \in Int /\ t["reward"] \in Int
    BY <1>2
  <1>4. SumFunctionOnSet(t, R) = t["active"] + t["undelegated"] + t["reward"]
    BY <1>3, SumThree
  <1> HIDE DEF R
  <1> QED BY <1>1, <1>2, <1>4, SumOn

(* The six components of a claim. *)
LEMMA TotalSum ==
    ASSUME NEW t, DOMAIN t = Component, \A c \in Component : t[c] \in Int
    PROVE  /\ Total(t) = (t["liquid0"] + t["liquid1"] + t["receipts"])
                           + (t["active"] + t["undelegated"] + t["reward"])
           /\ Total(t) \in Int
           /\ IsFiniteSet(Component)
  <1> DEFINE S == {"liquid0", "liquid1", "receipts"}
             R == {"active", "undelegated", "reward"}
  <1>1. /\ S \cup R = Component /\ S \cap R = {}
        /\ t["liquid0"] \in Int /\ t["liquid1"] \in Int /\ t["receipts"] \in Int
        /\ t["active"] \in Int /\ t["undelegated"] \in Int /\ t["reward"] \in Int
    BY DEF Component, Part
  <1>2. IsFiniteSet(S) /\ SumFunctionOnSet(t, S) = t["liquid0"] + t["liquid1"] + t["receipts"]
    BY <1>1, SumThree
  <1>3. IsFiniteSet(R) /\ SumFunctionOnSet(t, R) = t["active"] + t["undelegated"] + t["reward"]
    BY <1>1, SumThree
  <1> HIDE DEF S, R
  <1>4. SumFunctionOnSet(t, S \cup R) = SumFunctionOnSet(t, S) + SumFunctionOnSet(t, R)
    BY <1>1, <1>2, <1>3, SumDisjoint
  <1>5. Total(t) = SumFunctionOnSet(t, S \cup R)
    BY <1>1, SumOn DEF Total
  <1>6. IsFiniteSet(S \cup R)
    BY <1>2, <1>3, FS_Union
  <1>7. Total(t) = (t["liquid0"] + t["liquid1"] + t["receipts"])
                     + (t["active"] + t["undelegated"] + t["reward"])
    BY <1>2, <1>3, <1>4, <1>5
  <1>8. Total(t) \in Int
    BY <1>1, <1>7
  <1> QED BY <1>1, <1>6, <1>7, <1>8

(* Zeros sum like nothing. *)
LEMMA ZeroSum ==
    ASSUME NEW S, IsFiniteSet(S), NEW f, \A x \in S : f[x] = 0
    PROVE  SumFunctionOnSet(f, S) = SumFunctionOnSet(f, {})
  <1> DEFINE E == {}
  <1>1. E \in SUBSET S /\ \A x \in S : f[x] \in Int
    OBVIOUS
  <1> HIDE DEF E
  <1>2. SumFunctionOnSet(f, S) = SumFunctionOnSet(f, E)
    BY <1>1, SumZeros
  <1> QED BY <1>2 DEF E

(* One value of a function changes. *)
LEMMA SumChange ==
    ASSUME NEW S, IsFiniteSet(S), NEW f \in [S -> Nat], NEW g \in [S -> Nat], NEW x \in S,
           \A y \in S \ {x} : g[y] = f[y]
    PROVE  /\ SumFunction(f) \in Nat /\ SumFunction(g) \in Nat
           /\ SumFunction(g) = SumFunction(f) - f[x] + g[x]
  <1>1. DOMAIN f = S /\ DOMAIN g = S /\ \A y \in S : f[y] \in Nat /\ g[y] \in Nat
    OBVIOUS
  <1>2. SumFunction(f) = SumFunctionOnSet(f, S) /\ SumFunction(g) = SumFunctionOnSet(g, S)
    BY <1>1, SumOn
  <1>3. SumFunctionOnSet(f, S) \in Nat /\ SumFunctionOnSet(g, S) \in Nat
    BY <1>1, NatOfSum
  <1>4. SumFunctionOnSet(g, S) = SumFunctionOnSet(f, S) - f[x] + g[x]
    BY <1>1, SumUpdate
  <1> QED BY <1>2, <1>3, <1>4

(* The sum of naturals is one. *)
LEMMA SumNat ==
    ASSUME NEW S, IsFiniteSet(S), NEW f \in [S -> Nat]
    PROVE  SumFunction(f) \in Nat /\ SumFunction(f) = SumFunctionOnSet(f, S)
  <1>1. DOMAIN f = S /\ \A y \in S : f[y] \in Nat
    OBVIOUS
  <1> QED BY <1>1, SumOn, NatOfSum

Liquids == [Shard -> [Key -> Nat]]
Stakes == [Key -> [Key -> [Part -> Nat]]]

(* One balance changes. *)
LEMMA LiquidChange ==
    ASSUME NEW l \in Liquids, NEW m \in Liquids, NEW s \in Shard, NEW k \in Key,
           m[1 - s] = l[1 - s], \A j \in Key \ {k} : m[s][j] = l[s][j]
    PROVE  /\ SumFunction(l[0]) \in Nat /\ SumFunction(l[1]) \in Nat
           /\ SumFunction(m[0]) + SumFunction(m[1])
                = SumFunction(l[0]) + SumFunction(l[1]) - l[s][k] + m[s][k]
  <1>1. /\ l[0] \in [Key -> Nat] /\ l[1] \in [Key -> Nat] /\ m[s] \in [Key -> Nat] /\ l[s] \in [Key -> Nat]
        /\ s \in {0, 1} /\ l[s][k] \in Nat /\ m[s][k] \in Nat
    BY DEF Liquids, Shard
  <1>2. SumFunction(l[0]) \in Nat /\ SumFunction(l[1]) \in Nat
    BY <1>1, SumNat, KeyFinite
  <1>3. SumFunction(m[s]) = SumFunction(l[s]) - l[s][k] + m[s][k]
    <2> DEFINE f == l[s]
               g == m[s]
    <2>1. f \in [Key -> Nat] /\ g \in [Key -> Nat] /\ \A y \in Key \ {k} : g[y] = f[y]
      BY <1>1
    <2> HIDE DEF f, g
    <2>2. SumFunction(g) = SumFunction(f) - f[k] + g[k]
      BY <2>1, SumChange, KeyFinite
    <2> QED BY <2>2 DEF f, g
  <1>4. SumFunction(m[1 - s]) = SumFunction(l[1 - s])
    OBVIOUS
  <1>5. CASE s = 0
    BY <1>1, <1>2, <1>3, <1>4, <1>5
  <1>6. CASE s = 1
    BY <1>1, <1>2, <1>3, <1>4, <1>6
  <1> QED BY <1>1, <1>5, <1>6

(* What a wrapper holds. *)
LEMMA HeldNat ==
    ASSUME NEW st \in Stakes, NEW v \in Key
    PROVE  /\ [d \in Key |-> SumFunction(st[v][d])] \in [Key -> Nat]
           /\ Held(st, v) \in Nat
           /\ [w \in Key |-> Held(st, w)] \in [Key -> Nat]
  <1>1. ASSUME NEW w \in Key
        PROVE  [d \in Key |-> SumFunction(st[w][d])] \in [Key -> Nat]
    <2>1. \A d \in Key : st[w][d] \in [Part -> Nat]
      BY DEF Stakes
    <2>2. \A d \in Key : SumFunction(st[w][d]) \in Nat
      BY <2>1, PartSum
    <2> QED BY <2>2
  <1>2. ASSUME NEW w \in Key PROVE Held(st, w) \in Nat
    <2> DEFINE f == [d \in Key |-> SumFunction(st[w][d])]
    <2>1. f \in [Key -> Nat]
      BY <1>1
    <2>2. Held(st, w) = SumFunction(f)
      BY Zenon DEF Held
    <2> HIDE DEF f
    <2> QED BY <2>1, <2>2, SumNat, KeyFinite
  <1> QED BY <1>1, <1>2

(* The stakes of some wrappers. *)
LEMMA StakedNat ==
    ASSUME NEW st \in Stakes, NEW V \in SUBSET Key
    PROVE  Staked(st, V) \in Nat
  <1> DEFINE f == [w \in Key |-> Held(st, w)]
  <1>1. \A w \in V : f[w] \in Nat
    BY HeldNat
  <1>2. IsFiniteSet(V)
    BY KeysFinite, FS_Subset
  <1>3. Staked(st, V) = SumFunctionOnSet(f, V)
    BY Zenon DEF Staked
  <1> HIDE DEF f
  <1> QED BY <1>1, <1>2, <1>3, NatOfSum

(* One delegation changes. *)
LEMMA StakeChange ==
    ASSUME NEW st \in Stakes, NEW q \in Stakes, NEW v \in Key, NEW d \in Key,
           \A w \in Key \ {v} : q[w] = st[w], \A e \in Key \ {d} : q[v][e] = st[v][e]
    PROVE  Staked(q, Key) = Staked(st, Key) - SumFunction(st[v][d]) + SumFunction(q[v][d])
  <1> DEFINE f == [e \in Key |-> SumFunction(st[v][e])]
             g == [e \in Key |-> SumFunction(q[v][e])]
             F == [w \in Key |-> Held(st, w)]
             G == [w \in Key |-> Held(q, w)]
  <1>1. f \in [Key -> Nat] /\ g \in [Key -> Nat] /\ F \in [Key -> Nat] /\ G \in [Key -> Nat]
    BY HeldNat
  <1>2. f[d] = SumFunction(st[v][d]) /\ g[d] = SumFunction(q[v][d])
    OBVIOUS
  <1>3. \A e \in Key \ {d} : g[e] = f[e]
    OBVIOUS
  <1>4. F[v] = SumFunction(f) /\ G[v] = SumFunction(g)
    BY Zenon DEF Held
  <1>5. \A w \in Key \ {v} : G[w] = F[w]
    BY DEF Held
  <1>6. Staked(st, Key) = SumFunctionOnSet(F, Key) /\ Staked(q, Key) = SumFunctionOnSet(G, Key)
    BY Zenon DEF Staked
  <1> HIDE DEF f, g, F, G
  <1>7. SumFunction(f) \in Nat /\ SumFunction(g) = SumFunction(f) - f[d] + g[d]
    BY <1>1, <1>3, SumChange, KeyFinite
  <1>8. SumFunction(F) \in Nat /\ SumFunction(G) = SumFunction(F) - F[v] + G[v]
    BY <1>1, <1>5, SumChange, KeyFinite
  <1>10. f[d] \in Nat /\ g[d] \in Nat /\ F[v] \in Nat /\ G[v] \in Nat
    BY <1>1
  <1>9. SumFunction(F) = SumFunctionOnSet(F, Key) /\ SumFunction(G) = SumFunctionOnSet(G, Key)
    BY <1>1, SumNat, KeyFinite
  <1> QED BY <1>2, <1>4, <1>6, <1>7, <1>8, <1>9, <1>10

(* Receipts on their way. *)
LEMMA TransitSum ==
    ASSUME NEW t \in Seq(Receipt)
    PROVE  /\ InTransit(t) \in Nat /\ DOMAIN t = 1..Len(t) /\ IsFiniteSet(DOMAIN t)
           /\ Amounts(t) \in [DOMAIN t -> Nat]
           /\ \A r \in Receipt : InTransit(Append(t, r)) = InTransit(t) + r.amount
           /\ t # <<>> => InTransit(t) = Head(t).amount + InTransit(Tail(t))
  <1> DEFINE n == Len(t)
  <1>1. n \in Nat /\ DOMAIN t = 1..n /\ \A i \in 1..n : t[i] \in Receipt
    OBVIOUS
  <1>2. Amounts(t) \in [1..n -> Nat]
    BY <1>1 DEF Amounts, Receipt
  <1>3. IsFiniteSet(1..n)
    BY <1>1, FS_Interval
  <1>4. InTransit(t) \in Nat /\ InTransit(t) = SumFunctionOnSet(Amounts(t), 1..n)
    BY <1>2, <1>3, SumNat DEF InTransit
  <1>5. ASSUME NEW r \in Receipt
        PROVE  InTransit(Append(t, r)) = InTransit(t) + r.amount
    <2> DEFINE u == Append(t, r)
               f == Amounts(u)
    <2>1. /\ u \in Seq(Receipt) /\ DOMAIN u = 1..(n + 1) /\ u[n + 1] = r
          /\ \A i \in 1..n : u[i] = t[i]
      OBVIOUS
    <2>2. /\ DOMAIN f = 1..(n + 1) /\ f[n + 1] = r.amount /\ r.amount \in Nat
          /\ \A i \in 1..n : f[i] = Amounts(t)[i] /\ f[i] \in Nat
      BY <1>1, <2>1 DEF Amounts, Receipt
    <2>3. InTransit(u) = SumFunction(f)
      BY DEF InTransit
    <2> HIDE DEF u, f, n
    <2>4. \A i \in 1..(n + 1) : f[i] \in Int
      BY <1>1, <2>2
    <2>5. SumFunction(f) = SumFunctionOnSet(f, 1..(n + 1))
      BY <2>2, SumOn
    <2>6. SumFunctionOnSet(f, 1..(n + 1)) = SumFunctionOnSet(f, 1..n) + f[n + 1]
      BY <1>1, <2>4, SumLast
    <2>7. SumFunctionOnSet(f, 1..n) = SumFunctionOnSet(Amounts(t), 1..n)
      <3> DEFINE S == 1..n
      <3>1. IsFiniteSet(S) /\ \A i \in S : f[i] = Amounts(t)[i] /\ f[i] \in Int
        BY <1>3, <2>2
      <3> HIDE DEF S
      <3>2. SumFunctionOnSet(f, S) = SumFunctionOnSet(Amounts(t), S)
        BY <3>1, SumSame
      <3> QED BY <3>2 DEF S
    <2> QED BY <1>4, <2>2, <2>3, <2>5, <2>6, <2>7 DEF u
  <1>6. ASSUME t # <<>>
        PROVE  InTransit(t) = Head(t).amount + InTransit(Tail(t))
    <2> DEFINE u == Tail(t)
               f == Amounts(t)
               g == Amounts(u)
    <2>1. /\ u \in Seq(Receipt) /\ Len(u) = n - 1 /\ n > 0 /\ Head(t) = t[1]
          /\ DOMAIN u = 1..(n - 1) /\ \A i \in 1..(n - 1) : u[i] = t[i + 1]
      BY <1>6
    <2>2. /\ DOMAIN g = 1..(n - 1) /\ f[1] = Head(t).amount
          /\ \A i \in 1..(n - 1) : g[i] = f[i + 1]
      BY <1>1, <2>1 DEF Amounts
    <2>3. \A i \in 1..n : f[i] \in Int
      BY <1>2
    <2>4. InTransit(u) = SumFunction(g)
      BY DEF InTransit
    <2> HIDE DEF u, f, g, n
    <2>9. n \in Nat /\ n > 0
      BY <1>1, <2>1
    <2>8. \A i \in 1..(n - 1) : g[i] = f[i + 1]
      BY <2>2
    <2>5. SumFunctionOnSet(f, 1..n) = f[1] + SumFunctionOnSet(g, 1..(n - 1))
      BY <2>9, <2>3, <2>8, SumFirst
    <2>6. SumFunction(g) = SumFunctionOnSet(g, 1..(n - 1))
      BY <2>2, SumOn
    <2> QED BY <1>4, <2>2, <2>4, <2>5, <2>6 DEF u, f
  <1> QED BY <1>1, <1>2, <1>3, <1>4, <1>5, <1>6

-----------------------------------------------------------------------------
(* Every step of the chain conserves value *)

(* The sums of a chain are naturals. *)
LEMMA ChainFacts ==
    ASSUME ChainTypes
    PROVE  /\ liquid \in Liquids /\ stake \in Stakes
           /\ SumFunction(liquid[0]) \in Nat /\ SumFunction(liquid[1]) \in Nat
           /\ Staked(stake, Key) \in Nat /\ InTransit(transit) \in Nat
           /\ Genesis \in Nat /\ accumulator \in Nat /\ unbacked \in Nat
           /\ MaxReward \in Nat /\ MaxUnbacked \in Nat /\ MaxReceipts \in Nat
           /\ Len(transit) \in Nat
  <1>1. liquid \in Liquids /\ stake \in Stakes /\ transit \in Seq(Receipt)
    BY DEF ChainTypes, Liquids, Stakes
  <1>2. liquid[0] \in [Key -> Nat] /\ liquid[1] \in [Key -> Nat]
    BY <1>1 DEF Liquids, Shard
  <1>3. SumFunction(liquid[0]) \in Nat /\ SumFunction(liquid[1]) \in Nat
    BY <1>2, SumNat, KeyFinite
  <1>4. Staked(stake, Key) \in Nat
    BY <1>1, StakedNat
  <1>5. InTransit(transit) \in Nat
    BY <1>1, TransitSum
  <1>6. /\ Genesis \in Nat /\ accumulator \in Nat /\ unbacked \in Nat
        /\ MaxReward \in Nat /\ MaxUnbacked \in Nat /\ MaxReceipts \in Nat
    BY ChainAssumption DEF ChainAssumption, ChainTypes
  <1>7. Len(transit) \in Nat
    BY <1>1
  <1> QED BY <1>1, <1>3, <1>4, <1>5, <1>6, <1>7

(* The genesis state. *)
LEMMA ChainInitInv == ChainInit => ChainInv
  <1> SUFFICES ASSUME ChainInit PROVE ChainInv
    OBVIOUS
  <1>0. Genesis \in Nat /\ MaxReward \in Nat /\ MaxUnbacked \in Nat /\ MaxReceipts \in Nat
    BY ChainAssumption DEF ChainAssumption
  <1>1. ChainTypes
    <2>1. Nothing \in [Part -> Nat]
      BY DEF Nothing
    <2>2. liquid \in [Shard -> [Key -> Nat]]
      BY <1>0 DEF ChainInit
    <2>3. stake \in [Key -> [Key -> [Part -> Nat]]]
      BY <2>1 DEF ChainInit
    <2>4. transit \in Seq(Receipt) /\ Len(transit) = 0
      BY DEF ChainInit
    <2> QED BY <1>0, <2>2, <2>3, <2>4 DEF ChainInit, ChainTypes, Codes
  <1>2. OnlyWrappers
    BY DEF ChainInit, OnlyWrappers
  <1>3. SumFunction(lifetime) = 0
    <2>1. lifetime \in [Key -> Nat] /\ \A k \in Key : lifetime[k] = 0
      BY DEF ChainInit
    <2>2. SumFunction(lifetime) = SumFunctionOnSet(lifetime, Key)
      BY <2>1, SumNat, KeyFinite
    <2>3. SumFunctionOnSet(lifetime, Key) = SumFunctionOnSet(lifetime, {})
      BY <2>1, KeyFinite, ZeroSum
    <2> QED BY <2>2, <2>3, SumEmpty
  <1>4. SumFunction(liquid[1]) = 0
    <2> DEFINE f == liquid[1]
    <2>1. f \in [Key -> Nat] /\ \A k \in Key : f[k] = 0
      BY DEF ChainInit, Shard
    <2> HIDE DEF f
    <2>2. SumFunction(f) = SumFunctionOnSet(f, Key)
      BY <2>1, SumNat, KeyFinite
    <2>3. SumFunctionOnSet(f, Key) = SumFunctionOnSet(f, {})
      BY <2>1, KeyFinite, ZeroSum
    <2> QED BY <2>2, <2>3, SumEmpty DEF f
  <1>5. SumFunction(liquid[0]) = Genesis
    <2> DEFINE f == liquid[0]
    <2>1. f \in [Key -> Nat] /\ f[1] = Genesis /\ \A k \in Key \ {1} : f[k] = 0
      BY <1>0, KeysFinite DEF ChainInit, Shard
    <2> HIDE DEF f
    <2>2. SumFunction(f) = SumFunctionOnSet(f, Key)
      BY <2>1, SumNat, KeyFinite
    <2>3. {1} \in SUBSET Key /\ \A k \in Key : f[k] \in Int
      BY <2>1, KeysFinite
    <2>4. SumFunctionOnSet(f, Key) = SumFunctionOnSet(f, {1})
      BY <2>1, <2>3, KeyFinite, SumZeros
    <2>5. SumFunctionOnSet(f, {1}) = f[1]
      BY <1>0, <2>1, SumOne
    <2> QED BY <2>1, <2>2, <2>4, <2>5 DEF f
  <1>6. Staked(stake, Key) = 0
    <2> DEFINE g == [d \in Key |-> SumFunction(Nothing)]
               f == [v \in Key |-> Held(stake, v)]
    <2>1. SumFunction(Nothing) = 0
      <3>1. Nothing \in [Part -> Nat] /\ Nothing["active"] = 0 /\ Nothing["undelegated"] = 0 /\ Nothing["reward"] = 0
        BY DEF Nothing, Part
      <3> QED BY <3>1, PartSum
    <2>2. g \in [Key -> Nat] /\ \A k \in Key : g[k] = 0
      BY <2>1
    <2>3. \A v \in Key : Held(stake, v) = SumFunction(g)
      <3>1. \A v \in Key : [d \in Key |-> SumFunction(stake[v][d])] = g
        BY DEF ChainInit
      <3> HIDE DEF g
      <3> QED BY <3>1 DEF Held
    <2> HIDE DEF g
    <2>4. SumFunction(g) = SumFunctionOnSet(g, Key)
      BY <2>2, SumNat, KeyFinite
    <2>5. SumFunctionOnSet(g, Key) = SumFunctionOnSet(g, {})
      BY <2>2, KeyFinite, ZeroSum
    <2>6. f \in [Key -> Nat] /\ \A k \in Key : f[k] = 0
      BY <2>3, <2>4, <2>5, SumEmpty
    <2>7. Staked(stake, Key) = SumFunctionOnSet(f, Key)
      BY Zenon DEF Staked
    <2> HIDE DEF f
    <2>8. SumFunctionOnSet(f, Key) = SumFunctionOnSet(f, {})
      BY <2>6, KeyFinite, ZeroSum
    <2> QED BY <2>7, <2>8, SumEmpty
  <1>7. InTransit(transit) = 0
    <2>1. DOMAIN Amounts(transit) = {}
      BY DEF Amounts, ChainInit
    <2> QED BY <2>1, SumOn, SumEmpty DEF InTransit
  <1>8. accumulator = 0 /\ unbacked = 0
    BY DEF ChainInit
  <1>9. Conserved
    BY <1>0, <1>4, <1>5, <1>6, <1>7, <1>8 DEF Conserved, Supply
  <1> QED BY <1>1, <1>2, <1>3, <1>8, <1>9 DEF ChainInv, Rewarded

(* The other shard. *)
LEMMA ShardsTwo == \A s \in Shard : 1 - s \in Shard /\ 1 - s # s
  BY DEF Shard

(* A cross-shard transfer, backed or not. *)
LEMMA SendKeeps ==
    ASSUME ChainInv, NEW s \in Shard, NEW k \in Key, NEW to \in Key, NEW amount \in {0, 1},
           Send(s, k, to, amount)
    PROVE  ChainInv'
  <1> DEFINE r == [shard |-> 1 - s, to |-> to, amount |-> amount]
  <1>0. /\ ChainTypes /\ OnlyWrappers /\ Conserved /\ Rewarded /\ amount \in Nat
        /\ liquid[s][k] \in Nat /\ liquid[s][k] >= amount
    BY DEF ChainInv, ChainTypes, Send
  <1>1. /\ liquid' = [liquid EXCEPT ![s][k] = @ - amount] /\ transit' = Append(transit, r)
        /\ code' = code /\ stake' = stake /\ lifetime' = lifetime
        /\ accumulator' = accumulator /\ unbacked' = unbacked /\ Len(transit) < MaxReceipts
    BY DEF Send
  <1>2. r \in Receipt /\ r.amount = amount
    BY <1>0 DEF Receipt, Shard
  <1>3. /\ liquid \in Liquids /\ liquid' \in Liquids /\ liquid'[1 - s] = liquid[1 - s]
        /\ (\A j \in Key \ {k} : liquid'[s][j] = liquid[s][j]) /\ liquid'[s][k] = liquid[s][k] - amount
    <2> DEFINE n == liquid[s][k] - amount
    <2>1. n \in Nat
      BY <1>0
    <2> DEFINE w == [liquid[s] EXCEPT ![k] = n]
    <2>2. liquid' = [liquid EXCEPT ![s] = w]
      BY <1>1
    <2>3. liquid \in Liquids /\ liquid[s] \in [Key -> Nat] /\ liquid[s][k] \in Nat
      BY <1>0, ChainFacts DEF Liquids
    <2>4. w \in [Key -> Nat] /\ w[k] = n /\ \A j \in Key \ {k} : w[j] = liquid[s][j]
      BY <2>1, <2>3
    <2>5. 1 - s \in Shard /\ 1 - s # s
      BY ShardsTwo
    <2> HIDE DEF n, w
    <2>6. liquid' \in Liquids /\ liquid'[s] = w /\ liquid'[1 - s] = liquid[1 - s]
      BY <2>2, <2>3, <2>4, <2>5 DEF Liquids
    <2> QED BY <2>3, <2>4, <2>6 DEF n
  <1> HIDE DEF r
  <1>4. transit' \in Seq(Receipt) /\ Len(transit') <= MaxReceipts
    <2>1. transit \in Seq(Receipt) /\ Len(transit) \in Nat /\ MaxReceipts \in Nat
      BY <1>0, ChainFacts DEF ChainTypes
    <2>2. transit' \in Seq(Receipt) /\ Len(transit') = Len(transit) + 1
      BY <1>1, <1>2, <2>1
    <2> QED BY <1>1, <2>1, <2>2
  <1>5. ChainTypes'
    BY <1>0, <1>1, <1>3, <1>4 DEF ChainTypes, Liquids
  <1>6. OnlyWrappers' /\ Rewarded'
    BY <1>0, <1>1 DEF OnlyWrappers, Rewarded, IsWrapper
  <1>7. SumFunction(liquid'[0]) + SumFunction(liquid'[1])
          = SumFunction(liquid[0]) + SumFunction(liquid[1]) - liquid[s][k] + liquid'[s][k]
    BY <1>3, LiquidChange
  <1>8. InTransit(transit') = InTransit(transit) + amount
    <2>1. transit \in Seq(Receipt)
      BY <1>0 DEF ChainTypes
    <2>2. InTransit(Append(transit, r)) = InTransit(transit) + r.amount
      BY <1>2, <2>1, TransitSum
    <2> QED BY <1>1, <1>2, <2>2
  <1>9. Conserved'
    <2>0. SumFunction(liquid[0]) \in Nat /\ SumFunction(liquid[1]) \in Nat
      BY <1>0, ChainFacts
    <2>1. SumFunction(liquid'[0]) + SumFunction(liquid'[1])
            = SumFunction(liquid[0]) + SumFunction(liquid[1]) - amount
      BY <1>0, <1>3, <1>7, <2>0
    <2>2. SumFunction(liquid'[0]) + SumFunction(liquid'[1]) + Staked(stake, Key) + InTransit(transit')
            = SumFunction(liquid[0]) + SumFunction(liquid[1]) + Staked(stake, Key) + InTransit(transit)
      <3>1. Staked(stake, Key) \in Nat /\ InTransit(transit) \in Nat /\ amount \in Int
        BY <1>0, ChainFacts
      <3> QED BY <1>8, <2>0, <2>1, <3>1
    <2> QED BY <1>0, <1>1, <2>2 DEF Conserved, Supply
  <1> QED BY <1>5, <1>6, <1>9 DEF ChainInv

(* A receipt whose debit was undone is new value. *)
LEMMA LeakKeeps ==
    ASSUME ChainInv, NEW s \in Shard, NEW to \in Key, Leak(s, to)
    PROVE  ChainInv'
  <1> DEFINE r == [shard |-> 1 - s, to |-> to, amount |-> 1]
  <1>0. ChainTypes /\ OnlyWrappers /\ Conserved /\ Rewarded
    BY DEF ChainInv
  <1>1. /\ transit' = Append(transit, r) /\ unbacked' = unbacked + 1 /\ unbacked < MaxUnbacked
        /\ code' = code /\ stake' = stake /\ lifetime' = lifetime /\ liquid' = liquid
        /\ accumulator' = accumulator /\ Len(transit) < MaxReceipts
    BY DEF Leak
  <1>2. r \in Receipt /\ r.amount = 1
    BY DEF Receipt, Shard
  <1> HIDE DEF r
  <1>4. transit' \in Seq(Receipt) /\ Len(transit') <= MaxReceipts
    <2>1. transit \in Seq(Receipt) /\ Len(transit) \in Nat /\ MaxReceipts \in Nat
      BY <1>0, ChainFacts DEF ChainTypes
    <2>2. transit' \in Seq(Receipt) /\ Len(transit') = Len(transit) + 1
      BY <1>1, <1>2, <2>1
    <2> QED BY <1>1, <2>1, <2>2
  <1>5. ChainTypes'
    <2>1. unbacked \in Nat /\ MaxUnbacked \in Nat
      BY <1>0, ChainFacts
    <2>2. unbacked' \in 0..MaxUnbacked
      BY <1>1, <2>1
    <2> QED BY <1>0, <1>1, <1>4, <2>2 DEF ChainTypes
  <1>6. OnlyWrappers' /\ Rewarded'
    BY <1>0, <1>1 DEF OnlyWrappers, Rewarded, IsWrapper
  <1>8. InTransit(transit') = InTransit(transit) + 1
    BY <1>0, <1>1, <1>2, TransitSum DEF ChainTypes
  <1>9. Conserved'
    <2> DEFINE L == SumFunction(liquid[0]) + SumFunction(liquid[1]) + Staked(stake, Key)
    <2>1. /\ SumFunction(liquid[0]) \in Nat /\ SumFunction(liquid[1]) \in Nat /\ Staked(stake, Key) \in Nat
          /\ InTransit(transit) \in Nat
      BY <1>0, ChainFacts
    <2>2. L \in Nat
      BY <2>1
    <2>3. Genesis \in Nat /\ accumulator \in Nat /\ unbacked \in Nat
      BY <1>0, ChainFacts
    <2>4. L + InTransit(transit) = Genesis + accumulator + unbacked
      BY <1>0 DEF Conserved, Supply
    <2>5. (SumFunction(liquid[0]) + SumFunction(liquid[1]) + Staked(stake, Key))' = L
      BY <1>1
    <2> HIDE DEF L
    <2>6. L + InTransit(transit') = Genesis + accumulator + (unbacked + 1)
      BY <1>8, <2>1, <2>2, <2>3, <2>4
    <2> QED BY <1>1, <2>5, <2>6 DEF Conserved, Supply
  <1> QED BY <1>5, <1>6, <1>9 DEF ChainInv

(* A receipt is applied. *)
LEMMA DeliverKeeps ==
    ASSUME ChainInv, Deliver
    PROVE  ChainInv'
  <1> DEFINE s == Head(transit).shard
             k == Head(transit).to
             a == Head(transit).amount
  <1>0. ChainTypes /\ OnlyWrappers /\ Conserved /\ Rewarded /\ transit \in Seq(Receipt)
    BY DEF ChainInv, ChainTypes
  <1>1. /\ transit # <<>> /\ liquid' = [liquid EXCEPT ![s][k] = @ + a] /\ transit' = Tail(transit)
        /\ code' = code /\ stake' = stake /\ lifetime' = lifetime
        /\ accumulator' = accumulator /\ unbacked' = unbacked
    BY DEF Deliver
  <1>2. Head(transit) \in Receipt
    BY <1>0, <1>1
  <1>3. s \in Shard /\ k \in Key /\ a \in Nat
    BY <1>2 DEF Receipt
  <1>4. transit' \in Seq(Receipt) /\ Len(transit') = Len(transit) - 1
    BY <1>0, <1>1
  <1>5. InTransit(transit) = a + InTransit(transit') /\ InTransit(transit') \in Nat
    BY <1>0, <1>1, <1>4, TransitSum
  <1> HIDE DEF s, k, a
  <1>6. /\ liquid \in Liquids /\ liquid' \in Liquids /\ liquid'[1 - s] = liquid[1 - s] /\ liquid[s][k] \in Nat
        /\ (\A j \in Key \ {k} : liquid'[s][j] = liquid[s][j]) /\ liquid'[s][k] = liquid[s][k] + a
    <2> DEFINE n == liquid[s][k] + a
    <2>1. n \in Nat
      BY <1>0, <1>3 DEF ChainTypes
    <2> DEFINE w == [liquid[s] EXCEPT ![k] = n]
    <2>2. liquid' = [liquid EXCEPT ![s] = w]
      BY <1>1
    <2>3. liquid \in Liquids /\ liquid[s] \in [Key -> Nat] /\ liquid[s][k] \in Nat
      BY <1>3, <1>0, ChainFacts DEF Liquids
    <2>4. w \in [Key -> Nat] /\ w[k] = n /\ \A j \in Key \ {k} : w[j] = liquid[s][j]
      BY <1>3, <2>1, <2>3
    <2>5. 1 - s \in Shard /\ 1 - s # s
      BY <1>3, ShardsTwo
    <2> HIDE DEF n, w
    <2>6. liquid' \in Liquids /\ liquid'[s] = w /\ liquid'[1 - s] = liquid[1 - s]
      BY <1>3, <2>2, <2>3, <2>4, <2>5 DEF Liquids
    <2> QED BY <2>3, <2>4, <2>6 DEF n
  <1>7. ChainTypes'
    <2>1. Len(transit') <= MaxReceipts
      <3>1. Len(transit) \in Nat /\ MaxReceipts \in Nat /\ Len(transit) <= MaxReceipts
        BY <1>0, ChainFacts DEF ChainTypes
      <3> QED BY <1>4, <3>1
    <2> QED BY <1>0, <1>1, <1>4, <1>6, <2>1 DEF ChainTypes, Liquids
  <1>8. OnlyWrappers' /\ Rewarded'
    BY <1>0, <1>1 DEF OnlyWrappers, Rewarded, IsWrapper
  <1>9. SumFunction(liquid'[0]) + SumFunction(liquid'[1])
          = SumFunction(liquid[0]) + SumFunction(liquid[1]) - liquid[s][k] + liquid'[s][k]
    BY <1>3, <1>6, LiquidChange
  <1>10. Conserved'
    <2>0. SumFunction(liquid[0]) \in Nat /\ SumFunction(liquid[1]) \in Nat
      BY <1>0, ChainFacts
    <2>1. SumFunction(liquid'[0]) + SumFunction(liquid'[1])
            = SumFunction(liquid[0]) + SumFunction(liquid[1]) + a
      BY <1>3, <1>6, <1>9, <2>0
    <2>2. SumFunction(liquid'[0]) + SumFunction(liquid'[1]) + Staked(stake, Key) + InTransit(transit')
            = SumFunction(liquid[0]) + SumFunction(liquid[1]) + Staked(stake, Key) + InTransit(transit)
      BY <1>0, <1>3, <1>5, <2>1, ChainFacts
    <2> QED BY <1>0, <1>1, <2>2 DEF Conserved, Supply
  <1> QED BY <1>7, <1>8, <1>10 DEF ChainInv

(* A contract or a validator is created. *)
LEMMA SetCodeKeeps ==
    ASSUME ChainInv, NEW k \in Key, NEW kind \in CodeKind, SetCode(k, kind)
    PROVE  ChainInv'
  <1>0. ChainTypes /\ OnlyWrappers /\ Conserved /\ Rewarded
    BY DEF ChainInv
  <1>1. /\ code[k] = "none" /\ code' = [code EXCEPT ![k] = kind] /\ kind \in Codes
        /\ liquid' = liquid /\ stake' = stake /\ lifetime' = lifetime
        /\ transit' = transit /\ accumulator' = accumulator /\ unbacked' = unbacked
    BY ChainAssumption DEF SetCode, ChainAssumption, Codes
  <1>2. ChainTypes'
    BY <1>0, <1>1 DEF ChainTypes
  <1>3. OnlyWrappers'
    BY <1>0, <1>1 DEF OnlyWrappers, IsWrapper, ChainTypes
  <1>4. Conserved' /\ Rewarded'
    BY <1>0, <1>1 DEF Conserved, Rewarded, Supply
  <1> QED BY <1>2, <1>3, <1>4 DEF ChainInv

(* One delegation becomes w, one balance of shard 0 becomes n. *)
StakeMoved(v, d, w) ==
    /\ stake' \in Stakes /\ stake'[v][d] = w
    /\ \A x \in Key \ {v} : stake'[x] = stake[x]
    /\ \A e \in Key \ {d} : stake'[v][e] = stake[v][e]
BalanceMoved(d, n) ==
    /\ liquid' \in Liquids /\ liquid'[0][d] = n /\ liquid'[1] = liquid[1]
    /\ \A e \in Key \ {d} : liquid'[0][e] = liquid[0][e]

(* The types of the next state. *)
LEMMA ChainFactsNext ==
    ASSUME ChainTypes'
    PROVE  /\ SumFunction(liquid'[0]) \in Nat /\ SumFunction(liquid'[1]) \in Nat
           /\ Staked(stake', Key) \in Nat
  <1>1. /\ liquid'[0] \in [Key -> Nat] /\ liquid'[1] \in [Key -> Nat] /\ stake' \in Stakes
    BY DEF ChainTypes, Shard, Stakes
  <1> QED BY <1>1, SumNat, KeyFinite, StakedNat

(* A delegation of a wrapper moves value between its parts, the balance of   *)
(* the delegator and the rewards.                                             *)
LEMMA MoveKeeps ==
    ASSUME ChainInv, NEW v \in Key, NEW d \in Key, NEW w \in [Part -> Nat], NEW n \in Nat, NEW a \in Nat,
           IsWrapper(v), StakeMoved(v, d, w), BalanceMoved(d, n),
           lifetime' \in [Key -> Nat], SumFunction(lifetime') = SumFunction(lifetime) + a,
           \A x \in Key \ {v} : lifetime'[x] = lifetime[x],
           accumulator' = accumulator + a, accumulator' <= MaxReward,
           code' = code, transit' = transit, unbacked' = unbacked,
           liquid[0][d] + SumFunction(stake[v][d]) + a = n + SumFunction(w)
    PROVE  ChainInv'
  <1>0. ChainTypes /\ OnlyWrappers /\ Conserved /\ Rewarded
    BY DEF ChainInv
  <1>1. /\ liquid \in Liquids /\ stake \in Stakes
        /\ SumFunction(liquid[0]) \in Nat /\ SumFunction(liquid[1]) \in Nat
        /\ Staked(stake, Key) \in Nat /\ InTransit(transit) \in Nat
        /\ Genesis \in Nat /\ accumulator \in Nat /\ unbacked \in Nat /\ MaxReward \in Nat
    BY <1>0, ChainFacts
  <1>2. /\ liquid' \in Liquids /\ stake' \in Stakes /\ liquid'[0][d] = n /\ stake'[v][d] = w
    BY DEF StakeMoved, BalanceMoved
  <1>3. ChainTypes'
    <2>1. accumulator' \in 0..MaxReward
      <3>1. \A x, y, z \in Nat : x + y <= z => x + y \in 0..z
        OBVIOUS
      <3> QED BY <1>1, <3>1
    <2>2. liquid' \in [Shard -> [Key -> Nat]] /\ stake' \in [Key -> [Key -> [Part -> Nat]]]
      BY <1>2 DEF Liquids, Stakes
    <2>3. /\ code' \in [Key -> Codes] /\ unbacked' \in 0..MaxUnbacked
          /\ transit' \in Seq(Receipt) /\ Len(transit') <= MaxReceipts
      BY <1>0 DEF ChainTypes
    <2> QED BY <2>1, <2>2, <2>3 DEF ChainTypes
  <1>4. OnlyWrappers'
    BY <1>0 DEF OnlyWrappers, IsWrapper, StakeMoved
  <1>5. Rewarded'
    BY <1>0 DEF Rewarded
  <1>6. liquid[0][d] \in Nat /\ SumFunction(stake[v][d]) \in Nat /\ SumFunction(w) \in Nat
    <2>1. stake[v][d] \in [Part -> Nat] /\ liquid[0][d] \in Nat
      BY <1>1 DEF Stakes, Liquids, Shard
    <2> QED BY <2>1, PartSum
  <1>7. SumFunction(liquid'[0]) + SumFunction(liquid'[1])
          = SumFunction(liquid[0]) + SumFunction(liquid[1]) - liquid[0][d] + n
    <2>1. 0 \in Shard /\ liquid'[1 - 0] = liquid[1 - 0]
      BY DEF Shard, BalanceMoved
    <2>2. \A j \in Key \ {d} : liquid'[0][j] = liquid[0][j]
      BY DEF BalanceMoved
    <2>3. SumFunction(liquid'[0]) + SumFunction(liquid'[1])
            = SumFunction(liquid[0]) + SumFunction(liquid[1]) - liquid[0][d] + liquid'[0][d]
      BY <1>1, <1>2, <2>1, <2>2, LiquidChange
    <2> QED BY <1>2, <2>3
  <1>8. Staked(stake', Key) = Staked(stake, Key) - SumFunction(stake[v][d]) + SumFunction(w)
    <2>1. /\ \A x \in Key \ {v} : stake'[x] = stake[x]
          /\ \A e \in Key \ {d} : stake'[v][e] = stake[v][e]
      BY DEF StakeMoved
    <2>2. Staked(stake', Key) = Staked(stake, Key) - SumFunction(stake[v][d]) + SumFunction(stake'[v][d])
      BY <1>1, <1>2, <2>1, StakeChange
    <2> QED BY <1>2, <2>2
  <1>9. Conserved'
    <2>1. /\ SumFunction(liquid'[0]) \in Nat /\ SumFunction(liquid'[1]) \in Nat
          /\ Staked(stake', Key) \in Nat
      BY <1>3, ChainFactsNext
    <2>2. SumFunction(liquid[0]) + SumFunction(liquid[1]) + Staked(stake, Key) + InTransit(transit)
            = Genesis + accumulator + unbacked
      BY <1>0 DEF Conserved, Supply
    <2>3. SumFunction(liquid'[0]) + SumFunction(liquid'[1]) + Staked(stake', Key) + InTransit(transit)
            = Genesis + (accumulator + a) + unbacked
      <3> DEFINE l == SumFunction(liquid[0])
                 m == SumFunction(liquid[1])
                 k == SumFunction(liquid'[0])
                 j == SumFunction(liquid'[1])
                 s == Staked(stake, Key)
                 q == Staked(stake', Key)
                 t == InTransit(transit)
                 b == liquid[0][d]
                 x == SumFunction(stake[v][d])
                 y == SumFunction(w)
      <3>1. /\ l \in Nat /\ m \in Nat /\ k \in Nat /\ j \in Nat /\ s \in Nat /\ q \in Nat /\ t \in Nat
            /\ b \in Nat /\ x \in Nat /\ y \in Nat
        BY <1>1, <1>6, <2>1
      <3>2. k + j = l + m - b + n
        BY <1>7
      <3>3. q = s - x + y
        BY <1>8
      <3>4. l + m + s + t = Genesis + accumulator + unbacked
        BY <2>2
      <3>5. b + x + a = n + y
        OBVIOUS
      <3> HIDE DEF l, m, k, j, s, q, t, b, x, y
      <3>6. k + j + q = l + m + s + a
        BY <3>1, <3>2, <3>3, <3>5
      <3>7. k + j + q + t = Genesis + (accumulator + a) + unbacked
        BY <1>1, <3>1, <3>4, <3>6
      <3> QED BY <3>7 DEF k, j, q, t
    <2> QED BY <2>3 DEF Conserved, Supply
  <1> QED BY <1>3, <1>4, <1>5, <1>9 DEF ChainInv

(* A wrapper is where stakes are. *)
LEMMA StakesInWrappers ==
    ASSUME ChainTypes, OnlyWrappers, NEW v \in Key, NEW d \in Key
    PROVE  /\ stake[v][d] \in [Part -> Nat] /\ liquid[0][d] \in Nat
           /\ \A p \in Part : stake[v][d][p] > 0 => IsWrapper(v)
           /\ SumFunction(lifetime) \in Nat
  <1>1. stake[v][d] \in [Part -> Nat] /\ liquid[0][d] \in Nat
    BY DEF ChainTypes, Shard
  <1>2. ~IsWrapper(v) => \A p \in Part : stake[v][d][p] = 0
    BY DEF OnlyWrappers, Nothing
  <1>3. SumFunction(lifetime) \in Nat
    BY SumNat, KeyFinite DEF ChainTypes
  <1> QED BY <1>1, <1>2, <1>3

(* A balance that is not touched. *)
LEMMA BalanceStays ==
    ASSUME ChainTypes, NEW d \in Key, liquid' = liquid
    PROVE  BalanceMoved(d, liquid[0][d])
  BY DEF BalanceMoved, ChainTypes, Liquids

(* A delegation is written. *)
LEMMA StakeWritten ==
    ASSUME ChainTypes, NEW v \in Key, NEW d \in Key, NEW w \in [Part -> Nat], NEW y,
           y = [stake[v] EXCEPT ![d] = w], stake' = [stake EXCEPT ![v] = y]
    PROVE  StakeMoved(v, d, w)
  <1>1. stake \in Stakes /\ stake[v] \in [Key -> [Part -> Nat]]
    BY DEF ChainTypes, Stakes
  <1>2. y \in [Key -> [Part -> Nat]] /\ y[d] = w /\ \A e \in Key \ {d} : y[e] = stake[v][e]
    BY <1>1
  <1>3. stake' \in Stakes /\ stake'[v] = y /\ \A x \in Key \ {v} : stake'[x] = stake[x]
    BY <1>1, <1>2 DEF Stakes
  <1> QED BY <1>2, <1>3 DEF StakeMoved

(* A delegation. *)
LEMMA DelegateKeeps ==
    ASSUME ChainInv, NEW v \in Key, NEW d \in Key, Delegate(v, d)
    PROVE  ChainInv'
  <1> DEFINE s == stake[v][d]
             w == [s EXCEPT !["active"] = s["active"] + 1]
             n == liquid[0][d] - 1
             y == [stake[v] EXCEPT ![d] = w]
             b == [liquid[0] EXCEPT ![d] = n]
  <1>0. /\ ChainTypes /\ OnlyWrappers /\ Conserved /\ Rewarded
        /\ s \in [Part -> Nat] /\ liquid[0][d] \in Nat /\ SumFunction(lifetime) \in Nat
    BY StakesInWrappers DEF ChainInv
  <1>1. /\ IsWrapper(v) /\ liquid[0][d] > 0
        /\ liquid' = [liquid EXCEPT ![0] = b]
        /\ stake' = [stake EXCEPT ![v] = y]
        /\ code' = code /\ lifetime' = lifetime /\ transit' = transit
        /\ accumulator' = accumulator /\ unbacked' = unbacked
    BY DEF Delegate
  <1>2. /\ w \in [Part -> Nat] /\ w["active"] = s["active"] + 1
        /\ w["undelegated"] = s["undelegated"] /\ w["reward"] = s["reward"]
        /\ s["active"] \in Nat /\ s["undelegated"] \in Nat /\ s["reward"] \in Nat
    BY <1>0 DEF Part
  <1>3. n \in Nat
    BY <1>0, <1>1
  <1>4. StakeMoved(v, d, w)
    <2>1. y = [stake[v] EXCEPT ![d] = w]
      OBVIOUS
    <2> HIDE DEF s, w, n, y, b
    <2> QED BY <1>0, <1>1, <1>2, <2>1, StakeWritten
  <1>5. BalanceMoved(d, n)
    <2>1. liquid[0] \in [Key -> Nat] /\ liquid \in Liquids
      BY <1>0 DEF ChainTypes, Shard, Liquids
    <2>2. b \in [Key -> Nat] /\ b[d] = n /\ \A e \in Key \ {d} : b[e] = liquid[0][e]
      BY <1>3, <2>1
    <2> HIDE DEF s, w, n, y, b
    <2> QED BY <1>1, <2>1, <2>2 DEF BalanceMoved, Liquids, Shard
  <1>6. SumFunction(w) = SumFunction(s) + 1 /\ SumFunction(s) \in Nat
    <2> HIDE DEF s, w
    <2> QED BY <1>0, <1>2, PartSum
  <1>7. liquid[0][d] + SumFunction(s) + 0 = n + SumFunction(w)
    BY <1>0, <1>6
  <1>8. /\ SumFunction(lifetime') = SumFunction(lifetime) + 0 /\ accumulator' = accumulator + 0
        /\ accumulator' <= MaxReward /\ lifetime' \in [Key -> Nat]
    BY <1>0, <1>1, ChainAssumption DEF ChainTypes, ChainAssumption
  <1> HIDE DEF w, n, y, b
  <1> QED BY <1>0, <1>1, <1>2, <1>3, <1>4, <1>5, <1>7, <1>8, MoveKeeps

(* A claim in a wrapper has three parts. *)
LEMMA PartFinite == IsFiniteSet(Part)
  <1>1. IsFiniteSet({"active"})
    BY FS_Singleton
  <1>2. IsFiniteSet({"active"} \cup {"undelegated"})
    BY <1>1, FS_AddElement
  <1>3. IsFiniteSet(({"active"} \cup {"undelegated"}) \cup {"reward"})
    BY <1>2, FS_AddElement
  <1>4. Part = ({"active"} \cup {"undelegated"}) \cup {"reward"}
    BY DEF Part
  <1> QED BY <1>3, <1>4

(* An undelegation. *)
LEMMA UndelegateKeeps ==
    ASSUME ChainInv, NEW v \in Key, NEW d \in Key, Undelegate(v, d)
    PROVE  ChainInv'
  <1> DEFINE s == stake[v][d]
             u == [s EXCEPT !["active"] = s["active"] - 1]
             z == [stake EXCEPT ![v] = [stake[v] EXCEPT ![d] = u]]
             w == [u EXCEPT !["undelegated"] = u["undelegated"] + 1]
             y == [stake[v] EXCEPT ![d] = w]
             n == liquid[0][d]
  <1>0. /\ ChainTypes /\ OnlyWrappers /\ Conserved /\ Rewarded
        /\ s \in [Part -> Nat] /\ n \in Nat /\ SumFunction(lifetime) \in Nat
    BY StakesInWrappers DEF ChainInv
  <1>1. /\ s["active"] > 0
        /\ stake' = [z EXCEPT ![v] = [z[v] EXCEPT ![d] =
                        [z[v][d] EXCEPT !["undelegated"] = z[v][d]["undelegated"] + 1]]]
        /\ liquid' = liquid /\ code' = code /\ lifetime' = lifetime /\ transit' = transit
        /\ accumulator' = accumulator /\ unbacked' = unbacked
    BY DEF Undelegate
  <1>2. /\ w \in [Part -> Nat] /\ w["active"] = s["active"] - 1
        /\ w["undelegated"] = s["undelegated"] + 1 /\ w["reward"] = s["reward"]
        /\ s["active"] \in Nat /\ s["undelegated"] \in Nat /\ s["reward"] \in Nat
        /\ u \in [Part -> Nat]
    BY <1>0, <1>1 DEF Part
  <1>3. stake' = [stake EXCEPT ![v] = y]
    <2>1. stake \in [Key -> [Key -> [Part -> Nat]]] /\ stake[v] \in [Key -> [Part -> Nat]]
      BY <1>0 DEF ChainTypes
    <2> DEFINE b == [stake[v] EXCEPT ![d] = u]
    <2> HIDE DEF s, u
    <2>2. b \in [Key -> [Part -> Nat]] /\ b[d] = u /\ \A e \in Key \ {d} : b[e] = stake[v][e]
      BY <1>2, <2>1
    <2>3. z \in [Key -> [Key -> [Part -> Nat]]] /\ z[v] = b /\ \A x \in Key \ {v} : z[x] = stake[x]
      <3> HIDE DEF b
      <3>1. z = [stake EXCEPT ![v] = b]
        BY DEF b
      <3> HIDE DEF z
      <3> QED BY <2>1, <2>2, <3>1
    <2>4. [z[v] EXCEPT ![d] = [z[v][d] EXCEPT !["undelegated"] = z[v][d]["undelegated"] + 1]] = [b EXCEPT ![d] = w]
      <3> HIDE DEF z, b
      <3> QED BY <2>2, <2>3
    <2>5. [b EXCEPT ![d] = w] = y
      <3> HIDE DEF w, b
      <3> QED BY <2>1, <2>2
    <2>6. stake' = [z EXCEPT ![v] = y]
      <3> HIDE DEF z, b, w, y
      <3> QED BY <1>1, <2>4, <2>5
    <2> HIDE DEF z, b, w, y
    <2>7. DOMAIN stake' = Key /\ stake'[v] = y /\ \A x \in Key \ {v} : stake'[x] = stake[x]
      BY <2>3, <2>6
    <2> DEFINE r == [stake EXCEPT ![v] = y]
    <2>8. DOMAIN r = Key /\ r[v] = y /\ \A x \in Key \ {v} : r[x] = stake[x]
      BY <2>1
    <2>9. DOMAIN stake' = DOMAIN r /\ \A x \in Key : stake'[x] = r[x] /\ stake' = [k \in Key |-> stake'[k]]
      <3> HIDE DEF r
      <3>1. stake' = [x \in Key |-> stake'[x]]
        BY <2>3, <2>6
      <3> QED BY <2>7, <2>8, <3>1
    <2> QED BY <2>1, <2>9
  <1>4. StakeMoved(v, d, w)
    <2>1. y = [stake[v] EXCEPT ![d] = w]
      OBVIOUS
    <2> HIDE DEF s, u, z, w, n, y
    <2> QED BY <1>0, <1>2, <1>3, <2>1, StakeWritten
  <1>5. BalanceMoved(d, n) /\ IsWrapper(v)
    <2>1. "active" \in Part
      BY DEF Part
    <2> QED BY <1>0, <1>1, <2>1, BalanceStays, StakesInWrappers
  <1>6. SumFunction(w) = SumFunction(s) /\ SumFunction(s) \in Nat
    <2> HIDE DEF s, w
    <2>1. /\ SumFunction(s) = s["active"] + s["undelegated"] + s["reward"] /\ SumFunction(s) \in Nat
          /\ SumFunction(w) = w["active"] + w["undelegated"] + w["reward"]
      BY <1>0, <1>2, PartSum
    <2> QED BY <1>2, <2>1
  <1>7. liquid[0][d] + SumFunction(s) + 0 = n + SumFunction(w)
    BY <1>0, <1>6
  <1>8. /\ SumFunction(lifetime') = SumFunction(lifetime) + 0 /\ accumulator' = accumulator + 0
        /\ accumulator' <= MaxReward /\ lifetime' \in [Key -> Nat]
    BY <1>0, <1>1, ChainAssumption DEF ChainTypes, ChainAssumption
  <1> HIDE DEF z, w, n, y
  <1> QED BY <1>0, <1>1, <1>2, <1>4, <1>5, <1>7, <1>8, MoveKeeps

(* A payout. *)
LEMMA PayOutKeeps ==
    ASSUME ChainInv, NEW v \in Key, NEW d \in Key, NEW part \in Part, PayOut(v, d, part)
    PROVE  ChainInv'
  <1> DEFINE s == stake[v][d]
             w == [s EXCEPT ![part] = s[part] - 1]
             n == liquid[0][d] + 1
             y == [stake[v] EXCEPT ![d] = w]
             b == [liquid[0] EXCEPT ![d] = n]
  <1>0. /\ ChainTypes /\ OnlyWrappers /\ Conserved /\ Rewarded
        /\ s \in [Part -> Nat] /\ liquid[0][d] \in Nat /\ SumFunction(lifetime) \in Nat
    BY StakesInWrappers DEF ChainInv
  <1>1. /\ s[part] > 0
        /\ liquid' = [liquid EXCEPT ![0] = b]
        /\ stake' = [stake EXCEPT ![v] = y]
        /\ code' = code /\ lifetime' = lifetime /\ transit' = transit
        /\ accumulator' = accumulator /\ unbacked' = unbacked
    BY DEF PayOut
  <1>2. /\ w \in [Part -> Nat] /\ w[part] = s[part] - 1 /\ s[part] \in Nat
        /\ \A p \in Part \ {part} : w[p] = s[p]
    BY <1>0, <1>1
  <1>3. n \in Nat /\ IsWrapper(v)
    BY <1>0, <1>1, StakesInWrappers
  <1>4. StakeMoved(v, d, w)
    <2>1. y = [stake[v] EXCEPT ![d] = w]
      OBVIOUS
    <2> HIDE DEF s, w, n, y, b
    <2> QED BY <1>0, <1>1, <1>2, <2>1, StakeWritten
  <1>5. BalanceMoved(d, n)
    <2>1. liquid[0] \in [Key -> Nat] /\ liquid \in Liquids
      BY <1>0 DEF ChainTypes, Shard, Liquids
    <2>2. b \in [Key -> Nat] /\ b[d] = n /\ \A e \in Key \ {d} : b[e] = liquid[0][e]
      BY <1>3, <2>1
    <2> HIDE DEF s, w, n, y, b
    <2> QED BY <1>1, <2>1, <2>2 DEF BalanceMoved, Liquids, Shard
  <1>6. SumFunction(w) = SumFunction(s) - 1 /\ SumFunction(s) \in Nat
    <2>0. IsFiniteSet(Part)
      BY PartFinite
    <2> HIDE DEF s, w
    <2>1. SumFunction(s) \in Nat /\ SumFunction(w) = SumFunction(s) - s[part] + w[part]
      BY <1>0, <1>2, <2>0, SumChange
    <2> QED BY <1>2, <2>1
  <1>7. liquid[0][d] + SumFunction(s) + 0 = n + SumFunction(w)
    BY <1>0, <1>6
  <1>8. /\ SumFunction(lifetime') = SumFunction(lifetime) + 0 /\ accumulator' = accumulator + 0
        /\ accumulator' <= MaxReward /\ lifetime' \in [Key -> Nat]
    BY <1>0, <1>1, ChainAssumption DEF ChainTypes, ChainAssumption
  <1> HIDE DEF w, n, y, b
  <1> QED BY <1>0, <1>1, <1>2, <1>3, <1>4, <1>5, <1>7, <1>8, MoveKeeps

(* A block reward. *)
LEMMA RewardKeeps ==
    ASSUME ChainInv, NEW v \in Key, NEW d \in Key, Reward(v, d)
    PROVE  ChainInv'
  <1> DEFINE s == stake[v][d]
             w == [s EXCEPT !["reward"] = s["reward"] + 1]
             n == liquid[0][d]
             y == [stake[v] EXCEPT ![d] = w]
             m == [lifetime EXCEPT ![v] = lifetime[v] + 1]
  <1>0. /\ ChainTypes /\ OnlyWrappers /\ Conserved /\ Rewarded
        /\ s \in [Part -> Nat] /\ n \in Nat /\ SumFunction(lifetime) \in Nat
        /\ lifetime \in [Key -> Nat] /\ accumulator \in Nat /\ MaxReward \in Nat
    BY StakesInWrappers, ChainFacts DEF ChainInv, ChainTypes
  <1>1. /\ s["active"] > 0 /\ accumulator < MaxReward
        /\ liquid' = liquid /\ lifetime' = m
        /\ stake' = [stake EXCEPT ![v] = y]
        /\ code' = code /\ transit' = transit
        /\ accumulator' = accumulator + 1 /\ unbacked' = unbacked
    BY DEF Reward
  <1>2. /\ w \in [Part -> Nat] /\ w["reward"] = s["reward"] + 1 /\ s["reward"] \in Nat
        /\ "reward" \in Part /\ \A p \in Part \ {"reward"} : w[p] = s[p]
    BY <1>0 DEF Part
  <1>4. StakeMoved(v, d, w)
    <2>1. y = [stake[v] EXCEPT ![d] = w]
      OBVIOUS
    <2> HIDE DEF s, w, n, y, m
    <2> QED BY <1>0, <1>1, <1>2, <2>1, StakeWritten
  <1>5. BalanceMoved(d, n) /\ IsWrapper(v)
    <2>1. "active" \in Part
      BY DEF Part
    <2> QED BY <1>0, <1>1, <2>1, BalanceStays, StakesInWrappers
  <1>6. SumFunction(w) = SumFunction(s) + 1 /\ SumFunction(s) \in Nat
    <2>0. IsFiniteSet(Part)
      BY PartFinite
    <2> HIDE DEF s, w
    <2>1. SumFunction(s) \in Nat /\ SumFunction(w) = SumFunction(s) - s["reward"] + w["reward"]
      BY <1>0, <1>2, <2>0, SumChange
    <2> QED BY <1>2, <2>1
  <1>7. liquid[0][d] + SumFunction(s) + 1 = n + SumFunction(w)
    BY <1>0, <1>6
  <1>8. /\ m \in [Key -> Nat] /\ m[v] = lifetime[v] + 1 /\ lifetime[v] \in Nat
        /\ \A x \in Key \ {v} : m[x] = lifetime[x]
    BY <1>0
  <1>9. SumFunction(m) = SumFunction(lifetime) + 1
    <2> HIDE DEF m
    <2>1. SumFunction(m) = SumFunction(lifetime) - lifetime[v] + m[v]
      BY <1>0, <1>8, KeyFinite, SumChange
    <2> QED BY <1>0, <1>8, <2>1
  <1>10. accumulator' <= MaxReward
    BY <1>0, <1>1
  <1> HIDE DEF w, n, y, m
  <1>11. lifetime' \in [Key -> Nat] /\ SumFunction(lifetime') = SumFunction(lifetime) + 1
         /\ \A x \in Key \ {v} : lifetime'[x] = lifetime[x]
    BY <1>1, <1>8, <1>9
  <1>12. 1 \in Nat
    OBVIOUS
  <1> QED BY <1>0, <1>1, <1>2, <1>4, <1>5, <1>7, <1>10, <1>11, <1>12, MoveKeeps

(* Every step of the chain. *)
LEMMA ChainKeeps ==
    ASSUME ChainInv, ChainNext
    PROVE  ChainInv'
  <1>1. ASSUME NEW s \in Shard, NEW k \in Key, NEW to \in Key, NEW amount \in {0, 1}, Send(s, k, to, amount)
        PROVE  ChainInv'
    BY <1>1, SendKeeps
  <1>2. ASSUME NEW s \in Shard, NEW to \in Key, Leak(s, to) PROVE ChainInv'
    BY <1>2, LeakKeeps
  <1>3. ASSUME Deliver PROVE ChainInv'
    BY <1>3, DeliverKeeps
  <1>4. ASSUME NEW k \in Key, NEW kind \in CodeKind, SetCode(k, kind) PROVE ChainInv'
    BY <1>4, SetCodeKeeps
  <1>5. ASSUME NEW v \in Key, NEW d \in Key, Delegate(v, d) \/ Undelegate(v, d) \/ Reward(v, d)
        PROVE  ChainInv'
    BY <1>5, DelegateKeeps, UndelegateKeeps, RewardKeeps
  <1>6. ASSUME NEW v \in Key, NEW d \in Key, NEW part \in Part, PayOut(v, d, part) PROVE ChainInv'
    BY <1>6, PayOutKeeps
  <1> QED BY <1>1, <1>2, <1>3, <1>4, <1>5, <1>6 DEF ChainNext

-----------------------------------------------------------------------------
(* The phases *)

(* The next phase of each phase that publishes something. *)
LEMMA Phases ==
    /\ After("snapshot0") = "snapshot1" /\ After("snapshot1") = "staking" /\ After("staking") = "receipts"
    /\ After("receipts") = "merge" /\ After("merge") = "summary" /\ After("summary") = "supply"
    /\ After("supply") = "formula" /\ After("formula") = "verify"
    /\ Phase[1] = "snapshot0"
    /\ Range(Phase) = (Early \ {"live"}) \cup {"merge", "summary"} \cup Late
  <1>1. /\ DOMAIN Phase = 1..10
        /\ Phase[1] = "snapshot0" /\ Phase[2] = "snapshot1" /\ Phase[3] = "staking"
        /\ Phase[4] = "receipts" /\ Phase[5] = "merge" /\ Phase[6] = "summary" /\ Phase[7] = "supply"
        /\ Phase[8] = "formula" /\ Phase[9] = "verify" /\ Phase[10] = "passed"
    BY DEF Phase
  <1>2. DOMAIN Phase = {1, 2, 3, 4, 5, 6, 7, 8, 9, 10}
    <2>1. 1..10 = {1, 2, 3, 4, 5, 6, 7, 8, 9, 10}
      OBVIOUS
    <2> QED BY <1>1, <2>1
  <1>3. Range(Phase) = {Phase[i] : i \in {1, 2, 3, 4, 5, 6, 7, 8, 9, 10}}
    BY <1>2 DEF Range
  <1>4. Range(Phase) = (Early \ {"live"}) \cup {"merge", "summary"} \cup Late
    BY <1>1, <1>3 DEF Early, Late
  <1>5. ASSUME NEW i \in 1..9
        PROVE  After(Phase[i]) = Phase[i + 1]
    <2>1. i \in DOMAIN Phase /\ \A j \in DOMAIN Phase : Phase[j] = Phase[i] => j = i
      BY <1>1, <1>2
    <2>2. (CHOOSE j \in DOMAIN Phase : Phase[j] = Phase[i]) = i
      BY <2>1
    <2>3. After(Phase[i]) = Phase[1 + i]
      BY <2>2 DEF After
    <2> QED BY <2>3
  <1> QED
    <2>1. /\ After(Phase[1]) = Phase[1 + 1] /\ After(Phase[2]) = Phase[2 + 1] /\ After(Phase[3]) = Phase[3 + 1]
          /\ After(Phase[4]) = Phase[4 + 1] /\ After(Phase[5]) = Phase[5 + 1] /\ After(Phase[6]) = Phase[6 + 1]
          /\ After(Phase[7]) = Phase[7 + 1] /\ After(Phase[8]) = Phase[8 + 1]
      BY <1>5
    <2>2. /\ 1 + 1 = 2 /\ 2 + 1 = 3 /\ 3 + 1 = 4 /\ 4 + 1 = 5 /\ 5 + 1 = 6 /\ 6 + 1 = 7 /\ 7 + 1 = 8 /\ 8 + 1 = 9
      OBVIOUS
    <2> QED BY <1>1, <1>4, <2>1, <2>2

(* Phases of one group are in no other. *)
LEMMA PhaseGroups ==
    /\ \A p \in Early : p \notin Late /\ p # "merge" /\ p # "summary" /\ p # "failed"
    /\ \A p \in Late : p # "merge" /\ p # "summary" /\ p # "failed" /\ p # "live"
    /\ \A f \in Input : "live" \notin AfterInput(f) /\ "snapshot0" \notin AfterInput(f)
                        /\ "failed" \notin AfterInput(f) /\ "summary" \notin AfterInput(f)
    /\ \A f \in Input, p \in Late : p \notin AfterInput(f)
  BY DEF Early, Late, Input, AfterInput

(* Claims that nothing changes. *)
LEMMA SameClaims ==
    ASSUME liquid' = liquid, stake' = stake, transit' = transit, code' = code,
           faults' = faults, validatorList' = validatorList, mode'.staking = mode.staking
    PROVE  /\ \A k, c : Claim(k, c)' = Claim(k, c)
           /\ \A f, k : Share(f, k)' = Share(f, k)
  <1>1. \A k : Decodes("cutoff", k)' <=> Decodes("cutoff", k)
    BY DEF Decodes, CodeAt
  <1>2. Validators' = Validators
    BY <1>1 DEF Validators, StakingValidators
  <1>3. \A k, c : Claim(k, c)' = Claim(k, c)
    BY <1>2 DEF Claim
  <1> QED BY <1>3 DEF Share

(* After the cutoff the chain and its base stay as they are. *)
LEMMA OfflineKeeps ==
    ASSUME ChainInv, BaseInv, UNCHANGED chainVars, base' = base, phase # "live"
    PROVE  ChainInv' /\ BaseInv'
  <1>1. ChainTypes' /\ OnlyWrappers'
    BY DEF ChainInv, ChainTypes, OnlyWrappers, IsWrapper, chainVars
  <1>2. Conserved' /\ Rewarded'
    BY DEF ChainInv, Conserved, Supply, Rewarded, chainVars
  <1>3. BaseInv'
    BY DEF BaseInv
  <1> QED BY <1>1, <1>2, <1>3 DEF ChainInv

(* A program that fails, and a run that ended. *)
LEMMA FailKeeps ==
    ASSUME IInv, phase # "live", Fail
    PROVE  IInv'
  <1>1. /\ UNCHANGED chainVars /\ base' = base /\ phase' = "failed"
        /\ faults' = faults /\ validatorList' = validatorList /\ mode' = mode
        /\ rows' = rows /\ cursor' = cursor /\ ledger' = ledger /\ summary' = summary
        /\ supply' = supply /\ formula' = formula
    BY DEF Fail, files
  <1>2. ChainInv' /\ BaseInv'
    BY <1>1, OfflineKeeps DEF IInv
  <1>3. /\ \A k, c : Claim(k, c)' = Claim(k, c)
    BY <1>1, SameClaims DEF chainVars
  <1>4. FileTypes' /\ Fresh'
    BY <1>1 DEF IInv, FileInv, FileTypes, Fresh, Early
  <1>5. LedgerRight' /\ SummaryRight'
    BY <1>1, <1>3 DEF IInv, FileInv, LedgerRight, SummaryRight, Late
  <1> QED BY <1>1, <1>2, <1>4, <1>5, PhaseGroups DEF IInv, FileInv

(* Nothing happens. *)
LEMMA StutterKeeps ==
    ASSUME IInv, UNCHANGED vars
    PROVE  IInv'
  <1>1. /\ UNCHANGED chainVars /\ base' = base /\ phase' = phase
        /\ liquid' = liquid /\ stake' = stake /\ transit' = transit /\ code' = code /\ lifetime' = lifetime
        /\ faults' = faults /\ validatorList' = validatorList /\ mode' = mode
        /\ rows' = rows /\ cursor' = cursor /\ ledger' = ledger /\ summary' = summary
        /\ supply' = supply /\ formula' = formula
    BY DEF vars, chainVars, files
  <1>2. ChainTypes' /\ OnlyWrappers'
    BY <1>1 DEF IInv, ChainInv, ChainTypes, OnlyWrappers, IsWrapper, chainVars
  <1>3. Conserved' /\ Rewarded'
    BY <1>1 DEF IInv, ChainInv, Conserved, Supply, Rewarded, chainVars
  <1>4. BaseInv'
    BY <1>1 DEF IInv, BaseInv
  <1>5. /\ \A k, c : Claim(k, c)' = Claim(k, c)
        /\ \A f, k : Share(f, k)' = Share(f, k)
    BY <1>1, SameClaims
  <1>6. FileTypes' /\ Fresh'
    BY <1>1 DEF IInv, FileInv, FileTypes, Fresh
  <1>7. LedgerRight' /\ SummaryRight'
    BY <1>1, <1>5 DEF IInv, FileInv, LedgerRight, SummaryRight
  <1>8. \A f \in Input : phase' \in AfterInput(f) => Exported(f)'
    BY <1>1, <1>5 DEF IInv, FileInv, Exported
  <1>9. (phase' = "merge" => Merging') /\ (phase' = "summary" => Covered')
    BY <1>1, <1>5 DEF IInv, FileInv, Merging, Covered
  <1>10. \A root, k : Decodes(root, k)' <=> Decodes(root, k)
    BY <1>1 DEF Decodes, CodeAt
  <1>11. \A root, how : SupplyValidators(root, how)' = SupplyValidators(root, how)
    BY <1>1, <1>10 DEF SupplyValidators
  <1>12. phase' \in {"formula", "verify", "passed"} => SupplyRight'
    BY <1>1, <1>11 DEF IInv, FileInv, SupplyRight
  <1>13. phase' \in {"verify", "passed"} => FormulaRight'
    BY <1>1, <1>11 DEF IInv, FileInv, FormulaRight
  <1>14. phase' = "passed" => Agrees'
    BY <1>1 DEF IInv, FileInv, Agrees, PendingAtto
  <1> QED
    BY <1>2, <1>3, <1>4, <1>6, <1>7, <1>8, <1>9, <1>12, <1>13, <1>14 DEF IInv, ChainInv, FileInv

-----------------------------------------------------------------------------
(* Before the cutoff *)

(* The files while the chain runs: there are none. *)
LEMMA NoFiles ==
    ASSUME FileTypes, Fresh, phase \in {"live", "snapshot0"}
    PROVE  FileInv
  <1>1. ledger = <<>> /\ summary = <<>> /\ phase \notin Late
    BY DEF Fresh, Early, Late
  <1>2. LedgerRight /\ SummaryRight
    BY <1>1 DEF LedgerRight, SummaryRight
  <1> QED BY <1>2, PhaseGroups DEF FileInv

(* The same of the next state. *)
LEMMA NoFilesNext ==
    ASSUME FileTypes', Fresh', phase' \in {"live", "snapshot0"}
    PROVE  FileInv'
  <1>1. ledger' = <<>> /\ summary' = <<>> /\ phase' \notin Late
    BY DEF Fresh, Early, Late
  <1>2. LedgerRight' /\ SummaryRight'
    BY <1>1 DEF LedgerRight, SummaryRight
  <1> QED BY <1>2, PhaseGroups DEF FileInv

(* The initial state. *)
LEMMA InitInv == Init => IInv
  <1> SUFFICES ASSUME Init PROVE IInv
    OBVIOUS
  <1>1. ChainInv
    BY ChainInitInv DEF Init
  <1>2. BaseInv
    BY DEF Init, BaseInv
  <1>3. FileTypes
    <2>1. rows \in [Input -> Seq(LedgerRow)] /\ \A f \in Input : rows[f] = <<>> /\ cursor[f] = 1
      BY DEF Init
    <2>2. ledger \in Seq(LedgerRow) /\ ledger = <<>> /\ Len(<<>>) = 0 /\ cursor \in [Input -> Nat]
      BY DEF Init
    <2>3. mode \in [staking : Ways, supply : Ways, base : Ways]
      BY DEF Init, Ways
    <2> QED BY <2>1, <2>2, <2>3 DEF Init, FileTypes, Early, Increasing
  <1>4. Fresh
    BY DEF Init, Fresh
  <1> QED BY <1>1, <1>2, <1>3, <1>4, NoFiles DEF Init, IInv

(* The chain runs. *)
LEMMA RunKeeps ==
    ASSUME IInv, Run
    PROVE  IInv'
  <1>1. /\ phase = "live" /\ phase' = phase /\ base' = base
        /\ faults' = faults /\ validatorList' = validatorList /\ mode' = mode
        /\ rows' = rows /\ cursor' = cursor /\ ledger' = ledger /\ summary' = summary
        /\ supply' = supply /\ formula' = formula
    BY DEF Run, files
  <1>2. ChainInv'
    BY ChainKeeps DEF IInv, Run
  <1>3. BaseInv'
    BY <1>1 DEF IInv, BaseInv
  <1>4. FileTypes' /\ Fresh'
    BY <1>1 DEF IInv, FileInv, FileTypes, Fresh
  <1>5. FileInv'
    BY <1>1, <1>4, NoFilesNext
  <1> QED BY <1>2, <1>3, <1>5 DEF IInv

(* The base checkpoint. *)
LEMMA BaseKeeps ==
    ASSUME IInv, TakeBase
    PROVE  IInv'
  <1>1. /\ phase = "live" /\ phase' = phase
        /\ base' = [code |-> code, lifetime |-> lifetime, accumulator |-> accumulator]
        /\ UNCHANGED chainVars
        /\ faults' = faults /\ validatorList' = validatorList /\ mode' = mode
        /\ rows' = rows /\ cursor' = cursor /\ ledger' = ledger /\ summary' = summary
        /\ supply' = supply /\ formula' = formula
    BY DEF TakeBase, files
  <1>2. ChainTypes' /\ OnlyWrappers'
    BY <1>1 DEF IInv, ChainInv, ChainTypes, OnlyWrappers, IsWrapper, chainVars
  <1>3. Conserved' /\ Rewarded'
    BY <1>1 DEF IInv, ChainInv, Conserved, Supply, Rewarded, chainVars
  <1>4. BaseInv'
    <2>1. code \in [Key -> Codes] /\ lifetime \in [Key -> Nat] /\ accumulator \in Nat
      BY ChainFacts DEF IInv, ChainInv, ChainTypes
    <2>2. SumFunction(lifetime) = accumulator
      BY DEF IInv, ChainInv, Rewarded
    <2>3. \A k \in Key : code[k] \notin {"vc", "legacy"} => lifetime[k] = 0
      BY DEF IInv, ChainInv, OnlyWrappers, IsWrapper
    <2>4. base'.code = code /\ base'.lifetime = lifetime /\ base'.accumulator = accumulator
      BY <1>1
    <2> QED BY <1>1, <2>1, <2>2, <2>3, <2>4 DEF BaseInv
  <1>5. FileTypes' /\ Fresh'
    BY <1>1 DEF IInv, FileInv, FileTypes, Fresh
  <1>6. FileInv'
    BY <1>1, <1>5, NoFilesNext
  <1> QED BY <1>2, <1>3, <1>4, <1>6 DEF IInv, ChainInv

(* The cutoff. *)
LEMMA CutoffKeeps ==
    ASSUME IInv, TakeCutoff
    PROVE  IInv'
  <1>1. /\ phase = "live" /\ phase' = "snapshot0" /\ base # <<>> /\ base' = base
        /\ UNCHANGED chainVars /\ mode' = mode
        /\ rows' = rows /\ cursor' = cursor /\ ledger' = ledger /\ summary' = summary
        /\ supply' = supply /\ formula' = formula
    BY Phases DEF TakeCutoff, files
  <1>2. validatorList' \subseteq Key
    BY DEF TakeCutoff
  <1>3. ChainTypes' /\ OnlyWrappers'
    BY <1>1 DEF IInv, ChainInv, ChainTypes, OnlyWrappers, IsWrapper, chainVars
  <1>4. Conserved' /\ Rewarded'
    BY <1>1 DEF IInv, ChainInv, Conserved, Supply, Rewarded, chainVars
  <1>5. BaseInv'
    BY <1>1 DEF IInv, BaseInv
  <1>6. FileTypes' /\ Fresh'
    BY <1>1, <1>2 DEF IInv, FileInv, FileTypes, Fresh, Early
  <1>7. FileInv'
    BY <1>1, <1>6, NoFilesNext
  <1> QED BY <1>3, <1>4, <1>5, <1>7 DEF IInv, ChainInv

-----------------------------------------------------------------------------
(* The exports *)

SortsInto(s, S) ==
    s \in [1..Cardinality(S) -> S] /\ \A i, j \in DOMAIN s : i < j => s[i] < s[j]

(* A finite set of numbers has an increasing sequence: its least element      *)
(* comes before the sequence of the rest.                                     *)
LEMMA SortExists ==
    ASSUME NEW S \in SUBSET Nat, IsFiniteSet(S)
    PROVE  \E s : SortsInto(s, S)
  <1> DEFINE T == {n \in Nat : \A R \in SUBSET Nat :
                      IsFiniteSet(R) /\ Cardinality(R) = n => \E s : SortsInto(s, R)}
  <1>1. 0 \in T
    <2> SUFFICES ASSUME NEW R \in SUBSET Nat, IsFiniteSet(R), Cardinality(R) = 0
                 PROVE  \E s : SortsInto(s, R)
      OBVIOUS
    <2> DEFINE s == [i \in 1..0 |-> 0]
    <2>1. DOMAIN s = {} /\ s \in [1..Cardinality(R) -> R]
      OBVIOUS
    <2>2. SortsInto(s, R)
      <3> HIDE DEF s
      <3> QED BY <2>1 DEF SortsInto
    <2> QED BY <2>2
  <1>2. ASSUME NEW n \in Nat, n \in T PROVE n + 1 \in T
    <2> SUFFICES ASSUME NEW R \in SUBSET Nat, IsFiniteSet(R), Cardinality(R) = n + 1
                 PROVE  \E s : SortsInto(s, R)
      OBVIOUS
    <2>1. R # {}
      BY FS_EmptySet
    <2>2. PICK m \in R : \A x \in R : m <= x
      BY <2>1, LeastNumber
    <2> DEFINE Q == R \ {m}
    <2>3. IsFiniteSet(Q) /\ Cardinality(Q) = n /\ Q \in SUBSET Nat
      BY FS_RemoveElement
    <2>4. \E q : SortsInto(q, Q)
      <3> HIDE DEF Q
      <3> QED BY <1>2, <2>3
    <2>5. PICK q : SortsInto(q, Q)
      BY <2>4
    <2>6. q \in [1..n -> Q] /\ \A i, j \in 1..n : i < j => q[i] < q[j]
      <3> HIDE DEF Q
      <3> QED BY <2>3, <2>5 DEF SortsInto
    <2>7. \A x \in Q : x \in Nat /\ m < x /\ m \in Nat
      BY <2>2
    <2> DEFINE s == [i \in 1..(n + 1) |-> IF i = 1 THEN m ELSE q[i - 1]]
    <2>8. s \in [1..(n + 1) -> R]
      <3>1. \A i \in 1..(n + 1) : i # 1 => i - 1 \in 1..n
        OBVIOUS
      <3> QED BY <2>6, <3>1
    <2>9. ASSUME NEW i \in 1..(n + 1), NEW j \in 1..(n + 1), i < j
          PROVE  s[i] < s[j]
      <3>1. j # 1 /\ j - 1 \in 1..n /\ s[j] = q[j - 1] /\ q[j - 1] \in Q
        BY <2>6, <2>9
      <3>2. CASE i = 1
        BY <2>7, <3>1, <3>2
      <3>3. CASE i # 1
        <4>1. i - 1 \in 1..n /\ i - 1 < j - 1 /\ s[i] = q[i - 1]
          BY <2>9, <3>3
        <4> QED BY <2>6, <3>1, <4>1
      <3> QED BY <3>2, <3>3
    <2>10. SortsInto(s, R)
      <3> HIDE DEF s, Q
      <3> QED BY <2>8, <2>9 DEF SortsInto
    <2> QED BY <2>10
  <1>3. Nat \subseteq T
    <2> HIDE DEF T
    <2> QED BY <1>1, <1>2, NatClosed
  <1>4. Cardinality(S) \in Nat
    BY FS_CardinalityType
  <1> QED BY <1>3, <1>4

(* The order of the keys: every one of them, once, increasing. *)
LEMMA SortedKeys ==
    ASSUME NEW S \in SUBSET Key
    PROVE  /\ Cardinality(S) \in Nat
           /\ Sorted(S) \in [1..Cardinality(S) -> S]
           /\ \A i, j \in 1..Cardinality(S) : i < j => Sorted(S)[i] < Sorted(S)[j]
           /\ \A k \in S : \E i \in 1..Cardinality(S) : Sorted(S)[i] = k
  <1>1. IsFiniteSet(S) /\ S \in SUBSET Nat /\ Cardinality(S) \in Nat
    BY KeysFinite, FS_Subset, FS_CardinalityType
  <1>2. \E s : SortsInto(s, S)
    BY <1>1, SortExists
  <1> DEFINE n == Cardinality(S)
             s == Sorted(S)
  <1>3. s \in [1..n -> S] /\ \A i, j \in DOMAIN s : i < j => s[i] < s[j]
    BY <1>2 DEF Sorted, SortsInto
  <1> HIDE DEF s, n
  <1>4. \A i, j \in 1..n : i < j => s[i] < s[j]
    BY <1>3
  <1>5. n \in Nat
    BY <1>1 DEF n
  <1>6. s \in Injection(1..n, S)
    <2>1. ASSUME NEW i \in 1..n, NEW j \in 1..n, s[i] = s[j] PROVE i = j
      <3>1. s[i] \in Nat /\ s[j] \in Nat
        BY <1>1, <1>3
      <3> QED BY <1>4, <1>5, <2>1, <3>1
    <2> QED BY <1>3, <2>1 DEF Injection, IsInjective
  <1>7. Cardinality(1..n) = Cardinality(S)
    <2>1. Cardinality(1..n) = IF 1 > n THEN 0 ELSE n - 1 + 1
      BY <1>5, FS_Interval
    <2> QED BY <1>5, <2>1 DEF n
  <1>8. s \in Surjection(1..n, S)
    BY <1>1, <1>6, <1>7, FS_Injection
  <1>9. \A k \in S : \E i \in 1..n : s[i] = k
    BY <1>8 DEF Surjection
  <1> QED BY <1>3, <1>4, <1>5, <1>9 DEF s, n

RowsOf(q, claim) == [i \in DOMAIN q |-> [key |-> q[i], claim |-> claim[q[i]]]]

AreRows(s, S, claim) ==
    /\ s \in Seq(LedgerRow) /\ Increasing(s)
    /\ \A i \in 1..Len(s) : s[i].key \in S /\ s[i].claim = claim[s[i].key]
    /\ \A k \in S : \E i \in 1..Len(s) : s[i].key = k

(* Rows made from some keys in their order. *)
LEMMA KeyedRows ==
    ASSUME NEW S \in SUBSET Key, NEW claim \in [Key -> [Component -> Nat]], NEW s,
           s = RowsOf(Sorted(S), claim)
    PROVE  AreRows(s, S, claim)
  <1> DEFINE n == Cardinality(S)
             q == Sorted(S)
  <1>1. /\ n \in Nat /\ q \in [1..n -> S]
        /\ \A i, j \in 1..n : i < j => q[i] < q[j]
        /\ \A k \in S : \E i \in 1..n : q[i] = k
    BY SortedKeys
  <1>2. s = [i \in DOMAIN q |-> [key |-> q[i], claim |-> claim[q[i]]]]
    BY DEF RowsOf
  <1> HIDE DEF n, q
  <1>3. \A i \in 1..n : q[i] \in S /\ [key |-> q[i], claim |-> claim[q[i]]] \in LedgerRow
    BY <1>1 DEF LedgerRow
  <1>4. s = [i \in 1..n |-> [key |-> q[i], claim |-> claim[q[i]]]]
    BY <1>1, <1>2
  <1>5. s \in [1..n -> LedgerRow] /\ \A i \in 1..n : s[i].key = q[i] /\ s[i].claim = claim[q[i]]
    BY <1>3, <1>4
  <1>6. s \in Seq(LedgerRow) /\ Len(s) = n
    BY <1>1, <1>5
  <1>7. Increasing(s)
    BY <1>1, <1>5, <1>6 DEF Increasing
  <1>8. ASSUME NEW i \in 1..n PROVE s[i].key \in S /\ s[i].claim = claim[s[i].key]
    BY <1>3, <1>5
  <1>9. ASSUME NEW k \in S PROVE \E i \in 1..n : s[i].key = k
    <2>1. PICK i \in 1..n : q[i] = k
      BY <1>1
    <2>2. s[i].key = k
      BY <1>5, <2>1
    <2> QED BY <2>2
  <1> QED BY <1>6, <1>7, <1>8, <1>9 DEF AreRows

(* A claim with nothing in total has nothing in any component. *)
LEMMA NothingInTotal ==
    ASSUME NEW t \in [Component -> Nat]
    PROVE  Total(t) \in Nat /\ (Total(t) = 0 <=> \A c \in Component : t[c] = 0)
  <1> DEFINE S == {"liquid0", "liquid1", "receipts", "active", "undelegated", "reward"}
  <1>1. Component = S
    BY DEF Component, Part
  <1>2. DOMAIN t = Component /\ (\A c \in Component : t[c] \in Int) /\ \A c \in S : t[c] \in Nat
    BY <1>1
  <1>3. Total(t) = (t["liquid0"] + t["liquid1"] + t["receipts"])
                     + (t["active"] + t["undelegated"] + t["reward"])
    BY <1>2, TotalSum
  <1>4. /\ t["liquid0"] \in Nat /\ t["liquid1"] \in Nat /\ t["receipts"] \in Nat
        /\ t["active"] \in Nat /\ t["undelegated"] \in Nat /\ t["reward"] \in Nat
    BY <1>2
  <1>5. /\ Total(t) \in Nat
        /\ Total(t) = 0 <=> /\ t["liquid0"] = 0 /\ t["liquid1"] = 0 /\ t["receipts"] = 0
                            /\ t["active"] = 0 /\ t["undelegated"] = 0 /\ t["reward"] = 0
    <2> DEFINE a == t["liquid0"]
               b == t["liquid1"]
               e == t["receipts"]
               x == t["active"]
               y == t["undelegated"]
               z == t["reward"]
               n == Total(t)
    <2>1. /\ a \in Nat /\ b \in Nat /\ e \in Nat /\ x \in Nat /\ y \in Nat /\ z \in Nat
          /\ n = (a + b + e) + (x + y + z)
      BY <1>3, <1>4
    <2> HIDE DEF a, b, e, x, y, z, n
    <2>2. n \in Nat /\ (n = 0 <=> a = 0 /\ b = 0 /\ e = 0 /\ x = 0 /\ y = 0 /\ z = 0)
      BY <2>1
    <2> QED BY <2>2 DEF a, b, e, x, y, z, n
  <1> QED BY <1>1, <1>5

IsExport(s, f, claim) ==
    /\ s \in Seq(LedgerRow) /\ Increasing(s)
    /\ f # "receipts" => \A i \in 1..Len(s) : Total(s[i].claim) > 0
    /\ \A i \in 1..Len(s) : s[i].claim = claim[s[i].key]
    /\ \A k \in Key : (\A i \in 1..Len(s) : s[i].key # k) => \A c \in Component : claim[k][c] = 0

(* What an export has: a row for each key with a claim. *)
LEMMA CsvRows ==
    ASSUME NEW claim \in [Key -> [Component -> Nat]], NEW s, s = Csv(claim), NEW f
    PROVE  IsExport(s, f, claim)
  <1> DEFINE S == {k \in Key : Total(claim[k]) # 0}
  <1>1. s = RowsOf(Sorted(S), claim)
    BY DEF Csv, RowsOf
  <1>2. S \in SUBSET Key /\ \A k \in Key : k \in S <=> Total(claim[k]) # 0
    OBVIOUS
  <1> HIDE DEF S
  <1>3. /\ s \in Seq(LedgerRow) /\ Increasing(s)
        /\ \A i \in 1..Len(s) : s[i].key \in S /\ s[i].claim = claim[s[i].key]
        /\ \A k \in S : \E i \in 1..Len(s) : s[i].key = k
    <2>1. AreRows(s, S, claim)
      BY <1>1, <1>2, KeyedRows
    <2> QED BY <2>1 DEF AreRows
  <1>4. \A k \in Key : claim[k] \in [Component -> Nat]
    OBVIOUS
  <1>5. ASSUME NEW i \in 1..Len(s)
        PROVE  Total(s[i].claim) > 0
    <2>1. s[i].key \in Key /\ Total(s[i].claim) # 0
      BY <1>2, <1>3
    <2>2. Total(s[i].claim) \in Nat
      BY <1>3, <1>4, <2>1, NothingInTotal
    <2> QED BY <2>1, <2>2
  <1>6. ASSUME NEW k \in Key, \A i \in 1..Len(s) : s[i].key # k
        PROVE  \A c \in Component : claim[k][c] = 0
    <2>1. k \notin S
      BY <1>3, <1>6
    <2>2. Total(claim[k]) = 0
      BY <1>2, <2>1
    <2> QED BY <1>4, <2>2, NothingInTotal
  <1> QED BY <1>3, <1>5, <1>6 DEF IsExport

(* Amounts are natural numbers. *)
LEMMA AmountNat ==
    ASSUME NEW l \in Liquids, NEW st \in Stakes, NEW t \in Seq(Receipt), NEW V \in SUBSET Key,
           NEW k \in Key, NEW c \in Component
    PROVE  Amount(l, st, t, V, k, c) \in Nat
  <1>1. l[0][k] \in Nat /\ l[1][k] \in Nat
    BY DEF Liquids, Shard
  <1>2. SumFunctionOnSet(Amounts(t), {i \in DOMAIN t : t[i].to = k}) \in Nat
    <2> DEFINE I == {i \in DOMAIN t : t[i].to = k}
               f == Amounts(t)
    <2>1. IsFiniteSet(DOMAIN t) /\ f \in [DOMAIN t -> Nat]
      BY TransitSum
    <2>2. I \in SUBSET DOMAIN t
      OBVIOUS
    <2>3. IsFiniteSet(I) /\ \A i \in I : f[i] \in Nat
      <3> HIDE DEF f
      <3> QED BY <2>1, <2>2, FS_Subset
    <2> HIDE DEF I, f
    <2>4. SumFunctionOnSet(f, I) \in Nat
      BY <2>3, NatOfSum
    <2> QED BY <2>4 DEF f, I
  <1>3. ASSUME c \in Part PROVE SumFunctionOnSet([v \in Key |-> st[v][k][c]], V) \in Nat
    <2> DEFINE f == [v \in Key |-> st[v][k][c]]
    <2>1. \A v \in V : f[v] \in Nat
      BY <1>3 DEF Stakes
    <2>2. IsFiniteSet(V)
      BY KeysFinite, FS_Subset
    <2> HIDE DEF f
    <2>3. SumFunctionOnSet(f, V) \in Nat
      BY <2>1, <2>2, NatOfSum
    <2> QED BY <2>3 DEF f
  <1>4. c \in {"liquid0", "liquid1", "receipts"} \/ c \in Part
    BY DEF Component
  <1> QED BY <1>1, <1>2, <1>3, <1>4 DEF Amount

(* The same of the claims. *)
LEMMA ClaimNat ==
    ASSUME ChainTypes, FileTypes
    PROVE  /\ Validators \in SUBSET Key
           /\ \A k \in Key, c \in Component : Claim(k, c) \in Nat
           /\ \A f \in Input, k \in Key : Share(f, k) \in [Component -> Nat]
  <1>1. Validators \in SUBSET Key
    BY DEF FileTypes, Validators, StakingValidators
  <1>2. liquid \in Liquids /\ stake \in Stakes /\ transit \in Seq(Receipt)
    BY DEF ChainTypes, Liquids, Stakes
  <1>3. \A k \in Key, c \in Component : Claim(k, c) \in Nat
    BY <1>1, <1>2, AmountNat DEF Claim
  <1> QED BY <1>1, <1>3 DEF Share

-----------------------------------------------------------------------------
(* The exports give each key its share *)

(* A csv file is such an export. *)
LEMMA CsvExports ==
    ASSUME NEW claim \in [Key -> [Component -> Nat]], NEW f
    PROVE  IsExport(Csv(claim), f, claim)
  BY CsvRows

(* The types of the rows. *)
LEMMA RowTypes ==
    ASSUME NEW s \in Seq(LedgerRow), NEW i \in 1..Len(s)
    PROVE  s[i].key \in Key /\ s[i].claim \in [Component -> Nat]
  <1>1. s[i] \in LedgerRow
    OBVIOUS
  <1> QED BY <1>1 DEF LedgerRow

(* An input is published. *)
LEMMA ExportKeeps ==
    ASSUME IInv, NEW f \in Input, NEW csv, NEW claim,
           phase \in Early \ {"live"}, phase' \in {"snapshot1", "staking", "receipts", "merge"},
           UNCHANGED chainVars, base' = base, faults' = faults, validatorList' = validatorList,
           cursor' = cursor, ledger' = ledger, summary' = summary, supply' = supply, formula' = formula,
           mode' \in [staking : Ways, supply : Ways, base : Ways],
           rows' = [rows EXCEPT ![f] = csv],
           IsExport(csv, f, claim), \A k \in Key : claim[k] = Share(f, k)',
           \A g \in Input \ {f} : phase' \in AfterInput(g) =>
               phase \in AfterInput(g) /\ \A k \in Key : Share(g, k)' = Share(g, k)
    PROVE  IInv'
  <1>1. phase # "live" /\ ledger = <<>> /\ summary = <<>> /\ cursor = [g \in Input |-> 1]
    BY DEF IInv, FileInv, Fresh
  <1>2. ChainInv' /\ BaseInv'
    BY <1>1, OfflineKeeps DEF IInv
  <1>3. rows \in [Input -> Seq(LedgerRow)] /\ csv \in Seq(LedgerRow) /\ Increasing(csv)
    BY DEF IInv, FileInv, FileTypes, IsExport
  <1>4. /\ rows' \in [Input -> Seq(LedgerRow)] /\ rows'[f] = csv
        /\ \A g \in Input \ {f} : rows'[g] = rows[g]
    BY <1>3
  <1>5. FileTypes'
    <2>1. /\ phase' \in Early \cup {"merge", "summary", "failed"} \cup Late
          /\ mode' \in [staking : Ways, supply : Ways, base : Ways]
          /\ validatorList' \subseteq Key
          /\ cursor' \in [Input -> Nat]
          /\ ledger' \in Seq(LedgerRow) /\ Increasing(ledger')
          /\ formula' \in Nat
      BY DEF IInv, FileInv, FileTypes, Early
    <2>2. \A g \in Input : Increasing(rows'[g])
      BY <1>3, <1>4 DEF IInv, FileInv, FileTypes
    <2>3. ASSUME NEW g \in Input \ {"receipts"}
          PROVE  \A i \in 1..Len(rows'[g]) : Total(rows'[g][i].claim) > 0
      <3>1. CASE g = f
        BY <1>4, <3>1 DEF IsExport
      <3>2. CASE g # f
        BY <1>4, <3>2 DEF IInv, FileInv, FileTypes
      <3> QED BY <3>1, <3>2
    <2>4. ASSUME NEW g \in Input
          PROVE  cursor'[g] \in 1..(Len(rows'[g]) + 1)
      <3>1. cursor'[g] = 1 /\ Len(rows'[g]) \in Nat
        BY <1>1, <1>4
      <3> QED BY <3>1
    <2> QED BY <1>4, <2>1, <2>2, <2>3, <2>4 DEF FileTypes
  <1>6. Fresh'
    BY <1>1 DEF Fresh
  <1>7. ASSUME NEW g \in Input, phase' \in AfterInput(g)
        PROVE  Exported(g)'
    <2>1. CASE g = f
      <3>1. \A i \in 1..Len(csv) : csv[i].key \in Key
        BY <1>3, RowTypes
      <3>2. \A i \in 1..Len(csv) : csv[i].claim = Share(f, csv[i].key)'
        BY <3>1 DEF IsExport
      <3>3. \A k \in Key : (\A i \in 1..Len(csv) : csv[i].key # k) => \A c \in Component : Share(f, k)'[c] = 0
        BY DEF IsExport
      <3>4. rows'[g] = csv /\ \A k : Share(g, k)' = Share(f, k)'
        BY <1>4, <2>1
      <3> QED BY <3>2, <3>3, <3>4 DEF Exported
    <2>2. CASE g # f
      <3>1. \A k \in Key : Share(g, k)' = Share(g, k)
        BY <1>7, <2>2
      <3>2. Exported(g) /\ rows'[g] = rows[g] /\ \A i \in 1..Len(rows[g]) : rows[g][i].key \in Key
        <4>1. Exported(g)
          BY <1>7, <2>2 DEF IInv, FileInv
        <4>2. \A i \in 1..Len(rows[g]) : rows[g][i].key \in Key
          BY <1>3, RowTypes
        <4> QED BY <1>4, <2>2, <4>1, <4>2
      <3> QED BY <3>1, <3>2 DEF Exported
    <2> QED BY <2>1, <2>2
  <1>8. Merging'
    <2>1. \A g \in Input : \A i \in 1..Len(rows'[g]) : ~(i < cursor'[g])
      BY <1>1, <1>4
    <2>2. Len(ledger') = 0
      BY <1>1
    <2> QED BY <2>1, <2>2 DEF Merging
  <1>9. LedgerRight' /\ SummaryRight'
    BY <1>1 DEF LedgerRight, SummaryRight, Late
  <1>10. phase' # "summary" /\ phase' \notin Late
    BY DEF Late
  <1>11. FileInv'
    BY <1>5, <1>6, <1>7, <1>8, <1>9, <1>10 DEF FileInv, Late
  <1> QED BY <1>2, <1>11 DEF IInv

(* The shares of the balances of one shard. *)
LEMMA LiquidShares ==
    ASSUME ChainTypes, NEW s \in Shard, NEW f, f = IF s = 0 THEN "liquid0" ELSE "liquid1",
           NEW k \in Key
    PROVE  /\ [NoClaim EXCEPT ![f] = liquid[s][k]] = Share(f, k)
           /\ [NoClaim EXCEPT ![f] = liquid[s][k]] \in [Component -> Nat]
  <1>1. f \in Component /\ liquid[s][k] \in Nat /\ f \in {"liquid0", "liquid1"} /\ f \notin Part
    BY DEF Component, ChainTypes, Part
  <1>2. \A c \in Component : From(c) = f <=> c = f
    BY <1>1 DEF From, Part
  <1>3. Claim(k, f) = liquid[s][k]
    BY DEF Claim, Amount, Shard
  <1>4. [NoClaim EXCEPT ![f] = liquid[s][k]] = [c \in Component |-> IF c = f THEN liquid[s][k] ELSE 0]
    BY DEF NoClaim
  <1>5. Share(f, k) = [c \in Component |-> IF c = f THEN Claim(k, f) ELSE 0]
    <2>1. Share(f, k) = [c \in Component |-> IF From(c) = f THEN Claim(k, c) ELSE 0]
      BY DEF Share
    <2>2. \A c \in Component : (IF From(c) = f THEN Claim(k, c) ELSE 0) = IF c = f THEN Claim(k, f) ELSE 0
      BY <1>2
    <2> QED BY <2>1, <2>2
  <1>6. [NoClaim EXCEPT ![f] = liquid[s][k]] = Share(f, k)
    BY <1>3, <1>4, <1>5
  <1>7. [c \in Component |-> IF c = f THEN liquid[s][k] ELSE 0] \in [Component -> Nat]
    BY <1>1
  <1> QED BY <1>4, <1>6, <1>7

(* account-snapshot of a shard. *)
LEMMA SnapshotKeeps ==
    ASSUME IInv, NEW s \in Shard, AccountSnapshot(s)
    PROVE  IInv'
  <1> DEFINE f == IF s = 0 THEN "liquid0" ELSE "liquid1"
             claim == [k \in Key |-> [NoClaim EXCEPT ![f] = liquid[s][k]]]
  <1>1. phase = IF s = 0 THEN "snapshot0" ELSE "snapshot1"
    BY DEF AccountSnapshot
  <1>2. CASE Fail
    BY <1>1, <1>2, FailKeeps
  <1>3. CASE UNCHANGED mode /\ Publish(f, account_snapshot(s))
    <2>1. /\ UNCHANGED chainVars /\ base' = base /\ faults' = faults /\ validatorList' = validatorList
          /\ cursor' = cursor /\ ledger' = ledger /\ summary' = summary /\ supply' = supply
          /\ formula' = formula /\ mode' = mode /\ phase' = After(phase)
          /\ rows' = [rows EXCEPT ![f] = account_snapshot(s)]
      BY <1>3 DEF Publish
    <2>2. account_snapshot(s) = Csv(claim)
      BY DEF account_snapshot
    <2>3. ChainTypes /\ FileTypes
      BY DEF IInv, ChainInv, FileInv
    <2>4. claim \in [Key -> [Component -> Nat]] /\ \A k \in Key : claim[k] = Share(f, k)
      BY <2>3, LiquidShares
    <2>5. f \in Input /\ phase \in Early \ {"live"}
      BY <1>1 DEF Input, Early
    <2>6. s \in {0, 1} /\ phase' = (IF s = 0 THEN "snapshot1" ELSE "staking")
      BY <1>1, <2>1, Phases DEF Shard
    <2>7. mode' \in [staking : Ways, supply : Ways, base : Ways]
      BY <2>1, <2>3 DEF FileTypes
    <2>8. \A g, k : Share(g, k)' = Share(g, k)
      BY <2>1, SameClaims DEF chainVars
    <2>9. ASSUME NEW g \in Input \ {f}, phase' \in AfterInput(g) PROVE phase \in AfterInput(g)
      BY <1>1, <2>6, <2>9 DEF Input, AfterInput
    <2> HIDE DEF claim, f
    <2>10. IsExport(Csv(claim), f, claim)
      BY <2>4, CsvExports
    <2>11. \A k \in Key : claim[k] = Share(f, k)'
      BY <2>4, <2>8
    <2>12. phase' \in {"snapshot1", "staking", "receipts", "merge"}
      BY <2>6
    <2> QED BY <2>1, <2>2, <2>5, <2>7, <2>8, <2>9, <2>10, <2>11, <2>12, ExportKeeps
  <1> QED BY <1>2, <1>3 DEF AccountSnapshot

(* staking-claims. *)
LEMMA StakingKeeps ==
    ASSUME IInv, StakingClaims
    PROVE  IInv'
  <1>1. phase = "staking"
    BY DEF StakingClaims
  <1>2. CASE Fail
    BY <1>1, <1>2, FailKeeps
  <1>3. ASSUME NEW how \in Discovery \ {"validator-only"},
               mode' = [mode EXCEPT !.staking = how],
               Publish("staking", staking_claims(StakingValidators(how)))
        PROVE  IInv'
    <2> DEFINE V == StakingValidators(how)
               claim == [k \in Key |-> [c \in Component |->
                   IF c \in Part THEN SumFunctionOnSet([v \in Key |-> stake[v][k][c]], V) ELSE 0]]
    <2>1. /\ UNCHANGED chainVars /\ base' = base /\ faults' = faults /\ validatorList' = validatorList
          /\ cursor' = cursor /\ ledger' = ledger /\ summary' = summary /\ supply' = supply
          /\ formula' = formula /\ phase' = "receipts"
          /\ rows' = [rows EXCEPT !["staking"] = staking_claims(V)]
          /\ liquid' = liquid /\ stake' = stake /\ transit' = transit /\ code' = code
      BY <1>1, <1>3, Phases DEF Publish, chainVars
    <2>2. staking_claims(V) = Csv(claim)
      BY DEF staking_claims
    <2>3. ChainTypes /\ FileTypes
      BY DEF IInv, ChainInv, FileInv
    <2>4. /\ mode' \in [staking : Ways, supply : Ways, base : Ways] /\ mode'.staking = how
      <3>1. how \in Ways /\ mode \in [staking : Ways, supply : Ways, base : Ways]
        BY <2>3, LedgerAssumption DEF LedgerAssumption, Ways, FileTypes
      <3> QED BY <1>3, <3>1
    <2>5. Validators' = V
      <3>1. \A k : Decodes("cutoff", k)' <=> Decodes("cutoff", k)
        BY <2>1 DEF Decodes, CodeAt
      <3> QED BY <2>1, <2>4, <3>1 DEF Validators, StakingValidators
    <2>6. V \in SUBSET Key
      BY <2>3 DEF FileTypes, StakingValidators
    <2>7. liquid \in Liquids /\ stake \in Stakes /\ transit \in Seq(Receipt)
      BY <2>3 DEF ChainTypes, Liquids, Stakes
    <2> HIDE DEF V
    <2>8. ASSUME NEW k \in Key
          PROVE  claim[k] = Share("staking", k)' /\ claim[k] \in [Component -> Nat]
      <3>1. \A c \in Component : Claim(k, c)' = Amount(liquid, stake, transit, V, k, c)
        BY <2>1, <2>5 DEF Claim
      <3>2. ASSUME NEW c \in Component
            PROVE  /\ (IF From(c) = "staking" THEN Claim(k, c)' ELSE 0)
                       = (IF c \in Part THEN SumFunctionOnSet([v \in Key |-> stake[v][k][c]], V) ELSE 0)
                   /\ (IF c \in Part THEN SumFunctionOnSet([v \in Key |-> stake[v][k][c]], V) ELSE 0) \in Nat
        <4>1. CASE c \in Part
          <5>1. Amount(liquid, stake, transit, V, k, c) = SumFunctionOnSet([v \in Key |-> stake[v][k][c]], V)
            BY <4>1 DEF Amount, Part
          <5>2. Amount(liquid, stake, transit, V, k, c) \in Nat
            BY <2>6, <2>7, AmountNat
          <5>3. From(c) = "staking"
            BY <4>1 DEF From
          <5> QED BY <3>1, <4>1, <5>1, <5>2, <5>3
        <4>2. CASE c \notin Part
          <5>1. From(c) # "staking"
            BY <4>2 DEF From, Component
          <5> QED BY <4>2, <5>1
        <4> QED BY <4>1, <4>2
      <3>3. claim[k] = [c \in Component |->
               IF c \in Part THEN SumFunctionOnSet([v \in Key |-> stake[v][k][c]], V) ELSE 0]
        OBVIOUS
      <3>4. Share("staking", k)' = [c \in Component |-> IF From(c) = "staking" THEN Claim(k, c)' ELSE 0]
        BY DEF Share
      <3> HIDE DEF claim
      <3>5. claim[k] = Share("staking", k)'
        BY <3>2, <3>3, <3>4
      <3>6. claim[k] \in [Component -> Nat]
        BY <3>2, <3>3
      <3> QED BY <3>5, <3>6
    <2>9. claim \in [Key -> [Component -> Nat]]
      BY <2>8
    <2>10. ASSUME NEW g \in Input \ {"staking"}, NEW k \in Key
           PROVE  Share(g, k)' = Share(g, k)
      <3>1. ASSUME NEW c \in Component, From(c) = g PROVE Claim(k, c)' = Claim(k, c)
        <4>1. c \notin Part
          BY <3>1 DEF From
        <4>2. c = "liquid0" \/ c = "liquid1" \/ c = "receipts"
          BY <4>1 DEF Component
        <4> QED BY <2>1, <4>2 DEF Claim, Amount
      <3> QED BY <3>1 DEF Share
    <2>11. \A g \in Input \ {"staking"} : phase' \in AfterInput(g) => phase \in AfterInput(g)
      BY <1>1, <2>1 DEF Input, AfterInput
    <2>12. "staking" \in Input /\ phase \in Early \ {"live"}
           /\ phase' \in {"snapshot1", "staking", "receipts", "merge"}
      BY <1>1, <2>1 DEF Input, Early
    <2> HIDE DEF claim
    <2>13. IsExport(Csv(claim), "staking", claim)
      BY <2>9, CsvExports
    <2>14. \A k \in Key : claim[k] = Share("staking", k)'
      BY <2>8
    <2> QED BY <2>1, <2>2, <2>4, <2>10, <2>11, <2>12, <2>13, <2>14, ExportKeeps
  <1> QED BY <1>2, <1>3 DEF StakingClaims

(* The pending receipts. *)
LEMMA ReceiptsKeep ==
    ASSUME IInv, LoadReceipts
    PROVE  IInv'
  <1> DEFINE S == {transit[i].to : i \in DOMAIN transit}
             amounts == Amounts(transit)
             claim == [k \in Key |-> [NoClaim EXCEPT !["receipts"] =
                          SumFunctionOnSet(amounts, {i \in DOMAIN transit : transit[i].to = k})]]
  <1>1. /\ phase = "receipts" /\ phase' = "merge"
        /\ UNCHANGED chainVars /\ base' = base /\ faults' = faults /\ validatorList' = validatorList
        /\ cursor' = cursor /\ ledger' = ledger /\ summary' = summary /\ supply' = supply
        /\ formula' = formula /\ mode' = mode
        /\ rows' = [rows EXCEPT !["receipts"] = load_pending_receipts]
    BY Phases DEF LoadReceipts, Publish
  <1>2. ChainTypes /\ FileTypes /\ transit \in Seq(Receipt)
    BY DEF IInv, ChainInv, ChainTypes, FileInv
  <1>3. S \in SUBSET Key
    <2>1. \A i \in DOMAIN transit : transit[i] \in Receipt
      BY <1>2
    <2> QED BY <2>1 DEF Receipt
  <1>4. ASSUME NEW k \in Key
        PROVE  /\ claim[k] = Share("receipts", k) /\ claim[k] \in [Component -> Nat]
               /\ k \notin S => \A c \in Component : claim[k][c] = 0
    <2> DEFINE n == SumFunctionOnSet(amounts, {i \in DOMAIN transit : transit[i].to = k})
    <2>1. Claim(k, "receipts") = n
      BY DEF Claim, Amount
    <2>2. n \in Nat
      BY <1>2, <2>1, ClaimNat DEF Component
    <2>3. k \notin S => n = 0
      <3>1. k \notin S => {i \in DOMAIN transit : transit[i].to = k} = {}
        OBVIOUS
      <3> QED BY <3>1, SumEmpty
    <2>4. claim[k] = [NoClaim EXCEPT !["receipts"] = n]
      OBVIOUS
    <2> HIDE DEF n, claim, S
    <2>5. claim[k] = [c \in Component |-> IF c = "receipts" THEN n ELSE 0]
      BY <2>4 DEF NoClaim
    <2>6. \A c \in Component : From(c) = "receipts" <=> c = "receipts"
      BY DEF From, Part
    <2>7. Share("receipts", k) = [c \in Component |-> IF c = "receipts" THEN n ELSE 0]
      <3>1. Share("receipts", k) = [c \in Component |-> IF From(c) = "receipts" THEN Claim(k, c) ELSE 0]
        BY DEF Share
      <3>2. \A c \in Component : (IF From(c) = "receipts" THEN Claim(k, c) ELSE 0) = IF c = "receipts" THEN n ELSE 0
        BY <2>1, <2>6
      <3> QED BY <3>1, <3>2
    <2>8. claim[k] \in [Component -> Nat]
      BY <2>2, <2>5
    <2>9. k \notin S => \A c \in Component : claim[k][c] = 0
      BY <2>3, <2>5
    <2> QED BY <2>5, <2>7, <2>8, <2>9
  <1>5. claim \in [Key -> [Component -> Nat]] /\ \A k \in Key : claim[k] = Share("receipts", k)
    <2>1. DOMAIN claim = Key /\ claim = [k \in Key |-> claim[k]]
      OBVIOUS
    <2> HIDE DEF claim, S, amounts
    <2> QED BY <1>4, <2>1
  <1>6. load_pending_receipts = RowsOf(Sorted(S), claim)
    <2>1. \A i \in DOMAIN Sorted(S) : Sorted(S)[i] \in Key
      <3> HIDE DEF S
      <3> QED BY <1>3, SortedKeys
    <2>2. \A i \in DOMAIN Sorted(S) : claim[Sorted(S)[i]] = [NoClaim EXCEPT !["receipts"] =
              SumFunctionOnSet(amounts, {n \in DOMAIN transit : transit[n].to = Sorted(S)[i]})]
      BY <2>1
    <2> QED BY <2>2 DEF load_pending_receipts, RowsOf, Amounts
  <1> HIDE DEF claim, S, amounts
  <1>7. AreRows(load_pending_receipts, S, claim)
    BY <1>3, <1>5, <1>6, KeyedRows
  <1>8. IsExport(load_pending_receipts, "receipts", claim)
    BY <1>4, <1>7 DEF AreRows, IsExport
  <1>9. \A g, k : Share(g, k)' = Share(g, k)
    BY <1>1, SameClaims DEF chainVars
  <1>10. \A g \in Input \ {"receipts"} : phase' \in AfterInput(g) => phase \in AfterInput(g)
    BY <1>1 DEF Input, AfterInput
  <1>11. "receipts" \in Input /\ phase \in Early \ {"live"}
         /\ phase' \in {"snapshot1", "staking", "receipts", "merge"}
    BY <1>1 DEF Input, Early
  <1>12. mode' \in [staking : Ways, supply : Ways, base : Ways]
    BY <1>1, <1>2 DEF FileTypes
  <1>13. \A k \in Key : claim[k] = Share("receipts", k)'
    BY <1>5, <1>9
  <1> QED BY <1>1, <1>8, <1>9, <1>10, <1>11, <1>12, <1>13, ExportKeeps

-----------------------------------------------------------------------------
(* The merge *)

(* The least key of the open inputs; it is larger than those in the ledger. *)
LEMMA LeastKey ==
    ASSUME FileTypes, Merging, Open # {}
    PROVE  /\ MergeKey \in Key /\ Current # {} /\ Current \subseteq Open /\ Open \subseteq Input
           /\ \A f \in Open : cursor[f] \in 1..Len(rows[f]) /\ Row(f) \in LedgerRow
           /\ \A f \in Open : MergeKey <= Row(f).key
           /\ \A f \in Open : f \in Current <=> Row(f).key = MergeKey
           /\ \A j \in 1..Len(ledger) : ledger[j].key < MergeKey
  <1>1. \A f \in Open : f \in Input /\ cursor[f] \in 1..Len(rows[f]) /\ Row(f) \in LedgerRow
    <2> SUFFICES ASSUME NEW f \in Open PROVE f \in Input /\ cursor[f] \in 1..Len(rows[f]) /\ Row(f) \in LedgerRow
      OBVIOUS
    <2>1. f \in Input /\ cursor[f] <= Len(rows[f]) /\ cursor[f] \in 1..(Len(rows[f]) + 1)
          /\ rows[f] \in Seq(LedgerRow)
      BY DEF Open, FileTypes
    <2>2. cursor[f] \in 1..Len(rows[f])
      BY <2>1
    <2> QED BY <2>1, <2>2 DEF Row
  <1> DEFINE T == {Row(f).key : f \in Open}
  <1>2. T \in SUBSET Nat /\ T \in SUBSET Key /\ T # {}
    <2>1. \A f \in Open : Row(f).key \in Key
      BY <1>1 DEF LedgerRow
    <2> QED BY <2>1, KeysFinite
  <1>3. \E k \in T : \A n \in T : k <= n
    <2> HIDE DEF T
    <2> QED BY <1>2, LeastNumber
  <1>4. \E k \in T : \A f \in Open : k <= Row(f).key
    BY <1>3
  <1>5. MergeKey \in T /\ \A f \in Open : MergeKey <= Row(f).key
    BY <1>4 DEF MergeKey
  <1>6. PICK g \in Open : Row(g).key = MergeKey
    BY <1>5
  <1>7. \A j \in 1..Len(ledger) : ledger[j].key < MergeKey
    <2>1. g \in Input /\ cursor[g] \in 1..Len(rows[g]) /\ cursor[g] >= cursor[g]
      BY <1>1
    <2>2. \A j \in 1..Len(ledger) : ledger[j].key < rows[g][cursor[g]].key
      BY <2>1 DEF Merging
    <2> QED BY <1>6, <2>2 DEF Row
  <1>8. Current # {} /\ Current \subseteq Open /\ \A f \in Open : f \in Current <=> Row(f).key = MergeKey
    BY <1>6 DEF Current
  <1> QED BY <1>1, <1>2, <1>5, <1>7, <1>8

(* The rows ahead of the merge, but for the current ones, have larger keys. *)
LEMMA RowsAhead ==
    ASSUME FileTypes, Merging, Open # {}, NEW f \in Input, NEW i \in 1..Len(rows[f]), i >= cursor[f],
           ~(f \in Current /\ i = cursor[f])
    PROVE  MergeKey < rows[f][i].key
  <1>1. /\ rows[f] \in Seq(LedgerRow) /\ Increasing(rows[f]) /\ cursor[f] \in Nat
        /\ cursor[f] \in 1..(Len(rows[f]) + 1) /\ Len(rows[f]) \in Nat
    BY DEF FileTypes
  <1>2. cursor[f] \in 1..Len(rows[f])
    BY <1>1
  <1>3. f \in Open
    BY <1>2 DEF Open
  <1>4. MergeKey \in Nat /\ Row(f).key \in Nat /\ rows[f][i].key \in Nat /\ MergeKey <= Row(f).key
    BY <1>1, <1>2, <1>3, LeastKey, RowTypes, KeysFinite DEF Row
  <1>5. CASE f \in Current
    <2>1. Row(f).key = MergeKey
      BY <1>3, <1>5, LeastKey
    <2>2. cursor[f] < i
      BY <1>1, <1>5
    <2>3. Row(f).key < rows[f][i].key
      BY <1>1, <1>2, <2>2 DEF Increasing, Row
    <2> QED BY <2>1, <2>3
  <1>6. CASE f \notin Current
    <2>1. Row(f).key # MergeKey
      BY <1>3, <1>6, LeastKey
    <2>2. i = cursor[f] \/ cursor[f] < i
      BY <1>1
    <2>3. rows[f][i].key = Row(f).key \/ Row(f).key < rows[f][i].key
      BY <1>1, <1>2, <2>2 DEF Increasing, Row
    <2> QED BY <1>4, <2>1, <2>3
  <1> QED BY <1>5, <1>6

(* What an input has for the merged key is its current row. *)
LEMMA CurrentShare ==
    ASSUME ChainTypes, FileTypes, Merging, Open # {}, NEW f \in Input, Exported(f)
    PROVE  /\ f \in Current => Row(f).claim = Share(f, MergeKey)
           /\ f \notin Current => \A c \in Component : Share(f, MergeKey)[c] = 0
  <1>1. ASSUME f \in Current PROVE Row(f).claim = Share(f, MergeKey)
    <2>1. cursor[f] \in 1..Len(rows[f]) /\ Row(f).key = MergeKey
      BY <1>1, LeastKey
    <2> QED BY <2>1 DEF Exported, Row
  <1>2. ASSUME f \notin Current, NEW i \in 1..Len(rows[f]) PROVE rows[f][i].key # MergeKey
    <2>1. /\ MergeKey \in Nat /\ rows[f] \in Seq(LedgerRow) /\ cursor[f] \in Nat
          /\ rows[f][i].key \in Nat
      <3>1. rows[f] \in Seq(LedgerRow) /\ cursor[f] \in Nat
        BY DEF FileTypes
      <3> QED BY <3>1, LeastKey, RowTypes, KeysFinite
    <2>2. CASE i < cursor[f]
      <3>1. PICK j \in 1..Len(ledger) : ledger[j].key = rows[f][i].key
        BY <2>2 DEF Merging
      <3>2. ledger[j].key < MergeKey
        BY LeastKey
      <3> QED BY <2>1, <3>1, <3>2
    <2>3. CASE i >= cursor[f]
      <3>1. MergeKey < rows[f][i].key
        BY <1>2, <2>3, RowsAhead
      <3> QED BY <2>1, <3>1
    <2> QED BY <2>1, <2>2, <2>3
  <1>3. ASSUME f \notin Current PROVE \A c \in Component : Share(f, MergeKey)[c] = 0
    <2>1. \A i \in 1..Len(rows[f]) : rows[f][i].key # MergeKey
      BY <1>2, <1>3
    <2> QED BY <2>1, LeastKey DEF Exported
  <1> QED BY <1>1, <1>3

(* The merged row is the whole claim of its key. *)
LEMMA MergedWhole ==
    ASSUME ChainTypes, FileTypes, Merging, Open # {}, \A f \in Input : Exported(f)
    PROVE  /\ MergedClaim \in [Component -> Nat]
           /\ \A c \in Component : MergedClaim[c] = Claim(MergeKey, c)
  <1>1. MergeKey \in Key /\ Current \in SUBSET Input
    BY LeastKey
  <1>2. IsFiniteSet(Current)
    BY <1>1, KeysFinite, FS_Subset
  <1>3. ASSUME NEW c \in Component
        PROVE  /\ SumFunction([f \in Current |-> Row(f).claim[c]]) = Claim(MergeKey, c)
               /\ Claim(MergeKey, c) \in Nat
    <2> DEFINE g == [f \in Current |-> Row(f).claim[c]]
               h == From(c)
    <2>1. h \in Input /\ Claim(MergeKey, c) \in Nat
      BY <1>1, ClaimNat DEF From, Component, Input
    <2>2. ASSUME NEW f \in Current
          PROVE  g[f] = IF f = h THEN Claim(MergeKey, c) ELSE 0
      <3>1. g[f] = Share(f, MergeKey)[c]
        BY <1>1, CurrentShare
      <3> QED BY <3>1 DEF Share
    <2>3. DOMAIN g = Current
      OBVIOUS
    <2> HIDE DEF g, h
    <2>4. \A f \in Current : g[f] \in Int
      BY <2>1, <2>2
    <2>5. SumFunction(g) = SumFunctionOnSet(g, Current)
      BY <2>3, SumOn
    <2>6. CASE h \in Current
      <3>1. \A f \in Current \ {h} : g[f] = 0
        BY <2>2
      <3>2. SumFunctionOnSet(g, Current) = SumFunctionOnSet(g, {h})
        BY <1>2, <2>4, <2>6, <3>1, SumZeros
      <3>3. SumFunctionOnSet(g, {h}) = g[h]
        BY <2>4, <2>6, SumOne
      <3>4. g[h] = Claim(MergeKey, c)
        BY <2>2, <2>6
      <3> QED BY <2>1, <2>5, <3>2, <3>3, <3>4 DEF g
    <2>7. CASE h \notin Current
      <3>1. \A f \in Current : g[f] = 0
        BY <2>2, <2>7
      <3>2. SumFunctionOnSet(g, Current) = 0
        BY <1>2, <3>1, ZeroSum, SumEmpty
      <3>3. Share(h, MergeKey)[c] = 0
        BY <2>1, <2>7, CurrentShare
      <3>4. Share(h, MergeKey)[c] = Claim(MergeKey, c)
        BY DEF Share, h
      <3> QED BY <2>1, <2>5, <3>2, <3>3, <3>4 DEF g
    <2> QED BY <2>6, <2>7
  <1>4. MergedClaim = [c \in Component |-> SumFunction([f \in Current |-> Row(f).claim[c]])]
    BY DEF MergedClaim
  <1>5. MergedClaim = [c \in Component |-> Claim(MergeKey, c)]
    BY <1>3, <1>4
  <1>6. [c \in Component |-> Claim(MergeKey, c)] \in [Component -> Nat]
    BY <1>3
  <1> QED BY <1>5, <1>6

(* A row is merged. *)
LEMMA MergeKeeps ==
    ASSUME IInv, MergeRow
    PROVE  IInv'
  <1>1. phase = "merge" /\ Open # {}
    BY DEF MergeRow
  <1>2. CASE Fail
    BY <1>1, <1>2, FailKeeps
  <1>3. CASE ~Fail
    <2> DEFINE m == MergeKey
               r == [key |-> MergeKey, claim |-> MergedClaim]
               n == Len(ledger)
    <2>1. /\ ledger' = Append(ledger, r)
          /\ cursor' = [f \in Input |-> IF f \in Current THEN cursor[f] + 1 ELSE cursor[f]]
          /\ UNCHANGED chainVars /\ phase' = phase /\ base' = base /\ faults' = faults
          /\ validatorList' = validatorList /\ mode' = mode /\ rows' = rows
          /\ summary' = summary /\ supply' = supply /\ formula' = formula
      BY <1>3 DEF MergeRow
    <2>2. /\ ChainTypes /\ FileTypes /\ Merging /\ LedgerRight /\ Fresh
          /\ \A f \in Input : Exported(f)
      BY <1>1 DEF IInv, ChainInv, FileInv, AfterInput
    <2>3. ChainInv' /\ BaseInv'
      BY <1>1, <2>1, OfflineKeeps DEF IInv
    <2>4. /\ \A k, c : Claim(k, c)' = Claim(k, c)
          /\ \A f, k : Share(f, k)' = Share(f, k)
      BY <2>1, SameClaims DEF chainVars
    <2>5. /\ m \in Key /\ m \in Nat /\ Current \subseteq Open /\ Open \subseteq Input
          /\ \A f \in Open : cursor[f] \in 1..Len(rows[f])
          /\ \A f \in Current : Row(f).key = m
          /\ \A j \in 1..n : ledger[j].key < m
      <3>1. MergeKey \in Key /\ MergeKey \in Nat
        BY <1>1, <2>2, LeastKey, KeysFinite
      <3> QED BY <1>1, <2>2, <3>1, LeastKey
    <2>6. /\ MergedClaim \in [Component -> Nat]
          /\ \A c \in Component : MergedClaim[c] = Claim(m, c)
      BY <1>1, <2>2, MergedWhole
    <2>7. /\ r \in LedgerRow /\ r.key = m /\ r.claim = MergedClaim /\ ledger \in Seq(LedgerRow)
          /\ Increasing(ledger) /\ n \in Nat
      <3>1. r.key = m /\ r.claim = MergedClaim
        OBVIOUS
      <3>2. r \in LedgerRow
        BY <2>5, <2>6 DEF LedgerRow
      <3>3. ledger \in Seq(LedgerRow) /\ Increasing(ledger)
        BY <2>2 DEF FileTypes
      <3> QED BY <3>1, <3>2, <3>3
    <2> HIDE DEF m, r
    <2>8. /\ ledger' \in Seq(LedgerRow) /\ Len(ledger') = n + 1
          /\ ledger'[n + 1] = r /\ \A j \in 1..n : ledger'[j] = ledger[j]
      BY <2>1, <2>7
    <2> HIDE DEF n
    <2>9. Increasing(ledger')
      <3>1. ASSUME NEW i \in 1..(n + 1), NEW j \in 1..(n + 1), i < j
            PROVE  ledger'[i].key < ledger'[j].key
        <4>1. i \in 1..n
          BY <2>7, <3>1
        <4>2. CASE j = n + 1
          BY <2>5, <2>7, <2>8, <4>1, <4>2
        <4>3. CASE j # n + 1
          <5>1. j \in 1..n
            BY <2>7, <4>3
          <5> QED BY <2>7, <2>8, <3>1, <4>1, <5>1 DEF Increasing, n
        <4> QED BY <4>2, <4>3
      <3> QED BY <2>8, <3>1 DEF Increasing
    <2>10. /\ cursor' \in [Input -> Nat]
           /\ \A f \in Input : cursor[f] \in Nat /\ cursor'[f] \in 1..(Len(rows[f]) + 1)
           /\ \A f \in Input : f \in Current => cursor'[f] = cursor[f] + 1
           /\ \A f \in Input : f \notin Current => cursor'[f] = cursor[f]
      <3>1. ASSUME NEW f \in Input
            PROVE  /\ cursor[f] \in Nat
                   /\ f \in Current => cursor[f] + 1 \in 1..(Len(rows[f]) + 1)
                   /\ f \notin Current => cursor[f] \in 1..(Len(rows[f]) + 1)
        <4>1. /\ cursor[f] \in Nat /\ cursor[f] \in 1..(Len(rows[f]) + 1) /\ Len(rows[f]) \in Nat
              /\ f \in Current => cursor[f] \in 1..Len(rows[f])
          BY <2>2, <2>5 DEF FileTypes
        <4> QED BY <4>1
      <3> QED BY <2>1, <3>1
    <2>11. FileTypes'
      BY <2>1, <2>2, <2>8, <2>9, <2>10 DEF FileTypes
    <2>12. Fresh'
      BY <1>1, <2>1, <2>2 DEF Fresh, Early
    <2>13. \A f \in Input : Exported(f)'
      BY <2>1, <2>2, <2>4 DEF Exported
    <2>14. ASSUME NEW f \in Input, NEW i \in 1..Len(rows[f])
           PROVE  /\ i < cursor'[f] => \E j \in 1..(n + 1) : ledger'[j].key = rows[f][i].key
                  /\ i >= cursor'[f] => \A j \in 1..(n + 1) : ledger'[j].key < rows[f][i].key
      <3>0. cursor[f] \in Nat /\ cursor'[f] \in Nat /\ i \in Nat
        BY <2>10
      <3>1. ASSUME i < cursor'[f] PROVE \E j \in 1..(n + 1) : ledger'[j].key = rows[f][i].key
        <4>1. CASE i < cursor[f]
          <5>1. PICK j \in 1..n : ledger[j].key = rows[f][i].key
            BY <2>2, <4>1 DEF Merging, n
          <5>2. j \in 1..(n + 1)
            BY <2>7
          <5> QED BY <2>8, <5>1, <5>2
        <4>2. CASE ~(i < cursor[f])
          <5>1. f \in Current /\ i = cursor[f]
            BY <2>10, <3>0, <3>1, <4>2
          <5>2. rows[f][i].key = m
            BY <2>5, <5>1 DEF Row
          <5>3. n + 1 \in 1..(n + 1)
            BY <2>7
          <5> QED BY <2>7, <2>8, <5>2, <5>3
        <4> QED BY <4>1, <4>2
      <3>2. ASSUME i >= cursor'[f], NEW j \in 1..(n + 1) PROVE ledger'[j].key < rows[f][i].key
        <4>1. i >= cursor[f] /\ ~(f \in Current /\ i = cursor[f])
          BY <2>10, <3>0, <3>2
        <4>2. CASE j = n + 1
          <5>1. m < rows[f][i].key
            BY <1>1, <2>2, <4>1, RowsAhead DEF m
          <5> QED BY <2>7, <2>8, <4>2, <5>1
        <4>3. CASE j # n + 1
          <5>1. j \in 1..n
            BY <2>7, <4>3
          <5>2. ledger[j].key < rows[f][i].key
            BY <2>2, <4>1, <5>1 DEF Merging, n
          <5> QED BY <2>8, <5>1, <5>2
        <4> QED BY <4>2, <4>3
      <3> QED BY <3>1, <3>2
    <2>15. Merging'
      BY <2>1, <2>8, <2>14 DEF Merging
    <2>16. LedgerRight'
      <3>1. ASSUME NEW j \in 1..(n + 1), NEW c \in Component
            PROVE  ledger'[j].claim[c] = Claim(ledger'[j].key, c)
        <4>1. CASE j = n + 1
          BY <2>6, <2>7, <2>8, <4>1
        <4>2. CASE j # n + 1
          <5>1. j \in 1..n
            BY <2>7, <4>2
          <5> QED BY <2>2, <2>8, <5>1 DEF LedgerRight, n
        <4> QED BY <4>1, <4>2
      <3> QED BY <2>4, <2>8, <3>1 DEF LedgerRight
    <2>17. SummaryRight'
      BY <1>1, <2>1, <2>12 DEF SummaryRight, Fresh, Late
    <2>18. FileInv'
      BY <1>1, <2>1, <2>11, <2>12, <2>13, <2>15, <2>16, <2>17 DEF FileInv
    <2> QED BY <2>3, <2>18 DEF IInv
  <1> QED BY <1>2, <1>3

(* The ledger is whole: no input has a row that is not in it. *)
LEMMA LedgerKeeps ==
    ASSUME IInv, PublishLedger
    PROVE  IInv'
  <1>1. phase = "merge" /\ Open = {}
    BY DEF PublishLedger
  <1>2. CASE Fail
    BY <1>1, <1>2, FailKeeps
  <1>3. CASE ~Fail
    <2>1. /\ phase' = "summary"
          /\ UNCHANGED chainVars /\ base' = base /\ faults' = faults
          /\ validatorList' = validatorList /\ mode' = mode /\ rows' = rows /\ cursor' = cursor
          /\ ledger' = ledger /\ summary' = summary /\ supply' = supply /\ formula' = formula
      BY <1>1, <1>3, Phases DEF PublishLedger, files
    <2>2. /\ ChainTypes /\ FileTypes /\ Merging /\ LedgerRight /\ Fresh
          /\ \A f \in Input : Exported(f)
      BY <1>1 DEF IInv, ChainInv, FileInv, AfterInput
    <2>3. ChainInv' /\ BaseInv'
      BY <1>1, <2>1, OfflineKeeps DEF IInv
    <2>4. \A k, c : Claim(k, c)' = Claim(k, c)
      BY <2>1, SameClaims DEF chainVars
    <2>5. ASSUME NEW k \in Key, \A j \in 1..Len(ledger) : ledger[j].key # k, NEW c \in Component
          PROVE  Claim(k, c) = 0
      <3> DEFINE f == From(c)
      <3>1. f \in Input
        BY DEF From, Component, Input
      <3> HIDE DEF f
      <3>2. ASSUME NEW i \in 1..Len(rows[f]) PROVE rows[f][i].key # k
        <4>1. cursor[f] \in Nat /\ Len(rows[f]) \in Nat /\ ~(cursor[f] <= Len(rows[f]))
          BY <1>1, <2>2, <3>1 DEF Open, FileTypes
        <4>2. i < cursor[f]
          BY <4>1
        <4>3. \E j \in 1..Len(ledger) : ledger[j].key = rows[f][i].key
          BY <2>2, <3>1, <4>2 DEF Merging
        <4> QED BY <2>5, <4>3
      <3>3. Share(f, k)[c] = 0
        BY <2>2, <3>1, <3>2 DEF Exported
      <3> QED BY <3>3 DEF Share, f
    <2>6. Covered'
      BY <2>1, <2>4, <2>5 DEF Covered
    <2>7. FileTypes' /\ Fresh'
      BY <1>1, <2>1, <2>2 DEF FileTypes, Fresh, Early
    <2>8. LedgerRight' /\ SummaryRight'
      BY <2>1, <2>2, <2>4, <2>7 DEF LedgerRight, SummaryRight, Fresh, Late
    <2>9. FileInv'
      BY <2>1, <2>6, <2>7, <2>8, PhaseGroups DEF FileInv
    <2> QED BY <2>3, <2>9 DEF IInv
  <1> QED BY <1>2, <1>3

(* The total of a component of the ledger is that of all keys. *)
LEMMA LedgerTotal ==
    ASSUME ChainTypes, FileTypes, LedgerRight, Covered, NEW c \in Component
    PROVE  SumFunction([i \in DOMAIN ledger |-> ledger[i].claim[c]]) = SumFunction([k \in Key |-> Claim(k, c)])
  <1> DEFINE n == Len(ledger)
             R == 1..n
             g == [i \in R |-> ledger[i].claim[c]]
             f == [k \in Key |-> Claim(k, c)]
             h == [i \in R |-> ledger[i].key]
             T == {h[i] : i \in R}
  <1>1. ledger \in Seq(LedgerRow) /\ Increasing(ledger) /\ n \in Nat /\ DOMAIN ledger = R
    BY DEF FileTypes
  <1>2. \A i \in R : ledger[i].key \in Key /\ ledger[i].key \in Nat /\ ledger[i].claim[c] \in Nat
    BY <1>1, RowTypes, KeysFinite
  <1>3. \A i \in R : ledger[i].claim[c] = Claim(ledger[i].key, c)
    BY DEF LedgerRight
  <1>4. \A k \in Key : Claim(k, c) \in Nat
    BY ClaimNat
  <1>5. IsFiniteSet(R) /\ IsFiniteSet(Key)
    BY <1>1, FS_Interval, KeyFinite
  <1>6. \A x, y \in R : h[x] = h[y] => x = y
    <2> SUFFICES ASSUME NEW x \in R, NEW y \in R, ledger[x].key = ledger[y].key PROVE x = y
      OBVIOUS
    <2>1. ~(x < y) /\ ~(y < x)
      BY <1>2 DEF Increasing, FileTypes
    <2> QED BY <1>1, <2>1
  <1>7. \A x \in R : g[x] = f[h[x]] /\ g[x] \in Int
    BY <1>2, <1>3
  <1>8. \A k \in Key : f[k] \in Int
    BY <1>4
  <1>9. T \in SUBSET Key
    BY <1>2
  <1>10. \A k \in Key \ T : f[k] = 0
    BY DEF Covered
  <1>11. DOMAIN f = Key /\ DOMAIN g = R
    OBVIOUS
  <1>12. g = [i \in DOMAIN ledger |-> ledger[i].claim[c]]
    BY <1>1
  <1> HIDE DEF R, f, g, h
  <1>13. SumFunctionOnSet(f, T) = SumFunctionOnSet(g, R)
    BY <1>5, <1>6, <1>7, SumReindex
  <1> HIDE DEF T
  <1>14. SumFunctionOnSet(f, Key) = SumFunctionOnSet(f, T)
    BY <1>5, <1>8, <1>9, <1>10, SumZeros
  <1>15. SumFunction(f) = SumFunctionOnSet(f, Key) /\ SumFunction(g) = SumFunctionOnSet(g, R)
    BY <1>11, SumOn
  <1>16. SumFunction(g) = SumFunction(f)
    BY <1>13, <1>14, <1>15
  <1> QED BY <1>12, <1>16 DEF f

(* The totals are published. *)
LEMMA SummaryKeeps ==
    ASSUME IInv, PublishSummary
    PROVE  IInv'
  <1>1. phase = "summary"
    BY DEF PublishSummary
  <1>2. CASE Fail
    BY <1>1, <1>2, FailKeeps
  <1>3. CASE ~Fail
    <2>1. /\ phase' = "supply"
          /\ summary' = [c \in Component |-> SumFunction([i \in DOMAIN ledger |-> ledger[i].claim[c]])]
          /\ UNCHANGED chainVars /\ base' = base /\ faults' = faults
          /\ validatorList' = validatorList /\ mode' = mode /\ rows' = rows /\ cursor' = cursor
          /\ ledger' = ledger /\ supply' = supply /\ formula' = formula
      BY <1>1, <1>3, Phases DEF PublishSummary
    <2>2. ChainTypes /\ FileTypes /\ LedgerRight /\ Covered
      BY <1>1 DEF IInv, ChainInv, FileInv
    <2>3. ChainInv' /\ BaseInv'
      BY <1>1, <2>1, OfflineKeeps DEF IInv
    <2>4. \A k, c : Claim(k, c)' = Claim(k, c)
      BY <2>1, SameClaims DEF chainVars
    <2>5. FileTypes' /\ Fresh'
      BY <2>1, <2>2, PhaseGroups DEF FileTypes, Fresh, Early, Late
    <2>6. LedgerRight'
      BY <2>1, <2>2, <2>4 DEF LedgerRight
    <2>7. SummaryRight'
      <3>1. \A c \in Component : SumFunction([i \in DOMAIN ledger |-> ledger[i].claim[c]])
                                   = SumFunction([k \in Key |-> Claim(k, c)])
        BY <2>2, LedgerTotal
      <3>2. summary' = [c \in Component |-> SumFunction([k \in Key |-> Claim(k, c)])]
        BY <2>1, <3>1
      <3>3. \A c : [k \in Key |-> Claim(k, c)'] = [k \in Key |-> Claim(k, c)]
        BY <2>4
      <3> QED BY <3>2, <3>3 DEF SummaryRight
    <2>8. \A f \in Input : phase' \notin AfterInput(f)
      BY <2>1, PhaseGroups DEF Late
    <2>9. FileInv'
      BY <2>1, <2>5, <2>6, <2>7, <2>8 DEF FileInv
    <2> QED BY <2>3, <2>9 DEF IInv
  <1> QED BY <1>2, <1>3

-----------------------------------------------------------------------------
(* The independent sum, the formula and the comparison *)

(* The validators found do not depend on the files. *)
LEMMA SameValidators ==
    ASSUME code' = code, base' = base, faults' = faults, validatorList' = validatorList
    PROVE  \A root, how : SupplyValidators(root, how)' = SupplyValidators(root, how)
  <1>1. \A root, k : Decodes(root, k)' <=> Decodes(root, k)
    BY DEF Decodes, CodeAt
  <1> QED BY <1>1 DEF SupplyValidators

(* They are keys. *)
LEMMA ValidatorsAreKeys ==
    ASSUME FileTypes, NEW root, NEW how \in Ways
    PROVE  SupplyValidators(root, how) \in SUBSET Key
  BY DEF FileTypes, SupplyValidators, Ways

(* What a step after the summary leaves as it is. *)
LEMMA LateKeeps ==
    ASSUME IInv, phase \in Late, phase' \in Late,
           UNCHANGED chainVars, base' = base, faults' = faults, validatorList' = validatorList,
           rows' = rows, cursor' = cursor, ledger' = ledger, summary' = summary,
           mode' \in [staking : Ways, supply : Ways, base : Ways], mode'.staking = mode.staking,
           formula' \in Nat,
           phase' \in {"formula", "verify", "passed"} => SupplyRight',
           phase' \in {"verify", "passed"} => FormulaRight',
           phase' = "passed" => Agrees'
    PROVE  IInv'
  <1>1. ChainInv' /\ BaseInv'
    BY OfflineKeeps DEF IInv, Late
  <1>2. \A k, c : Claim(k, c)' = Claim(k, c)
    BY SameClaims DEF chainVars
  <1>3. FileTypes' /\ Fresh'
    BY DEF IInv, FileInv, FileTypes, Fresh, Early, Late
  <1>4. LedgerRight'
    BY <1>2 DEF IInv, FileInv, LedgerRight
  <1>5. SummaryRight'
    BY <1>2 DEF IInv, FileInv, SummaryRight
  <1>6. \A f \in Input : phase' \notin AfterInput(f)
    BY PhaseGroups
  <1>7. phase' # "merge" /\ phase' # "summary"
    BY DEF Late
  <1>8. FileInv'
    BY <1>3, <1>4, <1>5, <1>6, <1>7 DEF FileInv
  <1> QED BY <1>1, <1>8 DEF IInv

(* actual-supply at the cutoff. *)
LEMMA SupplyKeeps ==
    ASSUME IInv, ActualSupply
    PROVE  IInv'
  <1>1. phase = "supply"
    BY DEF ActualSupply
  <1>2. CASE Fail
    BY <1>1, <1>2, FailKeeps
  <1>3. ASSUME NEW how \in Discovery, mode' = [mode EXCEPT !.supply = how],
               supply' = actual_supply(how), phase' = After(phase),
               UNCHANGED <<chainVars, base, faults, validatorList, rows, cursor, ledger, summary, formula>>
        PROVE  IInv'
    <2> DEFINE V == SupplyValidators("cutoff", how)
    <2>1. /\ phase' = "formula" /\ phase' \in Late /\ phase \in Late
          /\ UNCHANGED chainVars /\ base' = base /\ faults' = faults
          /\ validatorList' = validatorList /\ rows' = rows /\ cursor' = cursor
          /\ ledger' = ledger /\ summary' = summary /\ formula' = formula
          /\ liquid' = liquid /\ stake' = stake /\ lifetime' = lifetime /\ code' = code
      BY <1>1, <1>3, Phases DEF Late, chainVars
    <2>2. mode \in [staking : Ways, supply : Ways, base : Ways] /\ how \in Ways /\ formula \in Nat
      BY LedgerAssumption DEF LedgerAssumption, Ways, IInv, FileInv, FileTypes
    <2>3. /\ mode' \in [staking : Ways, supply : Ways, base : Ways]
          /\ mode'.supply = how /\ mode'.staking = mode.staking
      BY <1>3, <2>2
    <2>4. SupplyValidators("cutoff", mode.supply)' = V
      BY <2>1, <2>3, SameValidators
    <2>5. /\ supply'.lifetime = SumFunctionOnSet(lifetime, V)
          /\ how # "validator-only" => supply'.claims = SumFunction(liquid[0]) + Staked(stake, V)
      BY <1>3 DEF actual_supply, LifetimeOf, Staked, Held
    <2>6. SupplyRight'
      BY <2>1, <2>3, <2>4, <2>5 DEF SupplyRight
    <2> QED BY <2>1, <2>2, <2>3, <2>6, LateKeeps
  <1> QED BY <1>2, <1>3 DEF ActualSupply

(* The rewards of some validators. *)
LEMMA RewardsNat ==
    ASSUME NEW r \in [Key -> Nat], NEW V \in SUBSET Key
    PROVE  SumFunctionOnSet(r, V) \in Nat
  <1>1. IsFiniteSet(V) /\ \A v \in V : r[v] \in Nat
    BY KeysFinite, FS_Subset
  <1> QED BY <1>1, NatOfSum

(* The endpoint formula. *)
LEMMA FormulaKeeps ==
    ASSUME IInv, ReconstructFormula
    PROVE  IInv'
  <1>1. phase = "formula"
    BY DEF ReconstructFormula
  <1>2. CASE Fail
    BY <1>1, <1>2, FailKeeps
  <1>3. ASSUME NEW how \in Discovery,
               supply.lifetime >= LifetimeOf(SupplyValidators("base", how), base.lifetime),
               mode' = [mode EXCEPT !.base = how],
               formula' = reconstruct(LifetimeOf(SupplyValidators("base", how), base.lifetime), supply.lifetime),
               phase' = After(phase),
               UNCHANGED <<chainVars, base, faults, validatorList, rows, cursor, ledger, summary, supply>>
        PROVE  IInv'
    <2> DEFINE V == SupplyValidators("base", how)
               b == SumFunctionOnSet(base.lifetime, V)
               l == supply.lifetime
    <2>1. /\ phase' = "verify" /\ phase' \in Late /\ phase \in Late
          /\ UNCHANGED chainVars /\ base' = base /\ faults' = faults
          /\ validatorList' = validatorList /\ rows' = rows /\ cursor' = cursor
          /\ ledger' = ledger /\ summary' = summary /\ supply' = supply
          /\ liquid' = liquid /\ stake' = stake /\ lifetime' = lifetime /\ code' = code
      BY <1>1, <1>3, Phases DEF Late, chainVars
    <2>2. /\ mode \in [staking : Ways, supply : Ways, base : Ways] /\ how \in Ways /\ FileTypes
          /\ ChainTypes /\ SupplyRight /\ BaseInv
      BY <1>1, LedgerAssumption DEF LedgerAssumption, Ways, IInv, FileInv, FileTypes, ChainInv
    <2>3. /\ mode' \in [staking : Ways, supply : Ways, base : Ways]
          /\ mode'.base = how /\ mode'.staking = mode.staking /\ mode'.supply = mode.supply
      BY <1>3, <2>2
    <2>4. V \in SUBSET Key /\ SupplyValidators("cutoff", mode.supply) \in SUBSET Key
      <3>1. mode.supply \in Ways
        BY <2>2
      <3> QED BY <2>2, <3>1, ValidatorsAreKeys
    <2>5. base.lifetime \in [Key -> Nat] /\ base.accumulator \in Nat /\ lifetime \in [Key -> Nat]
      BY <1>1, <2>2 DEF BaseInv, ChainTypes
    <2>6. l \in Nat
      <3>1. l = SumFunctionOnSet(lifetime, SupplyValidators("cutoff", mode.supply))
        BY <2>2 DEF SupplyRight
      <3> HIDE DEF V, l
      <3> QED BY <2>4, <2>5, <3>1, RewardsNat
    <2>7. b \in Nat
      <3> HIDE DEF V
      <3> QED BY <2>4, <2>5, RewardsNat
    <2>8. formula' = Genesis + base.accumulator + (l - b) /\ l >= b /\ Genesis \in Nat
      BY <1>3, ChainAssumption DEF ChainAssumption, reconstruct, LifetimeOf
    <2>9. formula' \in Nat
      <3> HIDE DEF l, b
      <3> QED BY <2>5, <2>6, <2>7, <2>8
    <2>10. \A root, how2 : SupplyValidators(root, how2)' = SupplyValidators(root, how2)
      BY <2>1, SameValidators
    <2>11. FormulaRight'
      <3>1. SupplyValidators("base", mode.base)' = V
        BY <2>3, <2>10
      <3> QED BY <2>1, <2>8, <3>1 DEF FormulaRight
    <2>12. SupplyRight'
      <3>1. SupplyValidators("cutoff", mode.supply)' = SupplyValidators("cutoff", mode.supply)
        BY <2>3, <2>10
      <3> QED BY <2>1, <2>2, <2>3, <3>1 DEF SupplyRight
    <2> QED BY <2>1, <2>3, <2>9, <2>11, <2>12, LateKeeps
  <1> QED BY <1>2, <1>3 DEF ReconstructFormula

(* The comparison. *)
LEMMA VerifyKeeps ==
    ASSUME IInv, VerifyReconciliation
    PROVE  IInv'
  <1>1. phase = "verify"
    BY DEF VerifyReconciliation
  <1>2. CASE Fail
    BY <1>1, <1>2, FailKeeps
  <1>3. CASE ~Fail
    <2>1. /\ phase' = "passed" /\ phase' \in Late /\ phase \in Late
          /\ UNCHANGED chainVars /\ base' = base /\ faults' = faults
          /\ validatorList' = validatorList /\ mode' = mode /\ rows' = rows /\ cursor' = cursor
          /\ ledger' = ledger /\ summary' = summary /\ supply' = supply /\ formula' = formula
          /\ liquid' = liquid /\ stake' = stake /\ lifetime' = lifetime /\ code' = code
          /\ transit' = transit
      BY <1>1, <1>3 DEF VerifyReconciliation, files, Late, chainVars
    <2>2. supply.claims + summary["liquid1"] + PendingAtto = Total(summary)
      BY <1>3 DEF VerifyReconciliation
    <2>3. Agrees'
      BY <2>1, <2>2 DEF Agrees, PendingAtto
    <2>4. mode \in [staking : Ways, supply : Ways, base : Ways] /\ formula \in Nat /\ SupplyRight /\ FormulaRight
      BY <1>1 DEF IInv, FileInv, FileTypes
    <2>5. \A root, how : SupplyValidators(root, how)' = SupplyValidators(root, how)
      BY <2>1, SameValidators
    <2>6. SupplyRight'
      BY <2>1, <2>4, <2>5 DEF SupplyRight
    <2>7. FormulaRight'
      BY <2>1, <2>4, <2>5 DEF FormulaRight
    <2> QED BY <2>1, <2>3, <2>4, <2>6, <2>7, LateKeeps
  <1> QED BY <1>2, <1>3

(* Every step keeps the invariant. *)
LEMMA StepKeeps ==
    ASSUME IInv, [Next]_vars
    PROVE  IInv'
  <1>1. CASE UNCHANGED vars
    BY <1>1, StutterKeeps
  <1>2. CASE Next
    <2>1. CASE Run
      BY <2>1, RunKeeps
    <2>2. CASE TakeBase
      BY <2>2, BaseKeeps
    <2>3. CASE TakeCutoff
      BY <2>3, CutoffKeeps
    <2>4. CASE \E s \in Shard : AccountSnapshot(s)
      BY <2>4, SnapshotKeeps
    <2>5. CASE StakingClaims
      BY <2>5, StakingKeeps
    <2>6. CASE LoadReceipts
      BY <2>6, ReceiptsKeep
    <2>7. CASE MergeRow
      BY <2>7, MergeKeeps
    <2>8. CASE PublishLedger
      BY <2>8, LedgerKeeps
    <2>9. CASE PublishSummary
      BY <2>9, SummaryKeeps
    <2>10. CASE ActualSupply
      BY <2>10, SupplyKeeps
    <2>11. CASE ReconstructFormula
      BY <2>11, FormulaKeeps
    <2>12. CASE VerifyReconciliation
      BY <2>12, VerifyKeeps
    <2>13. CASE Ended
      BY <2>13, StutterKeeps DEF Ended
    <2> QED BY <1>2, <2>1, <2>2, <2>3, <2>4, <2>5, <2>6, <2>7, <2>8, <2>9, <2>10, <2>11, <2>12, <2>13 DEF Next
  <1> QED BY <1>1, <1>2

(* The invariant holds. *)
THEOREM Invariant == Spec => []IInv
  <1>1. Init => IInv
    BY InitInv
  <1>2. IInv /\ [Next]_vars => IInv'
    BY StepKeeps
  <1> QED BY <1>1, <1>2, PTL DEF Spec

-----------------------------------------------------------------------------
(* What the totals are *)

(* What all keys have of one part, with some validators. *)
PartOf(st, V, k, c) == SumFunctionOnSet([v \in Key |-> st[v][k][c]], V)
AllOf(st, V, c) == SumFunction([k \in Key |-> PartOf(st, V, k, c)])

(* A sum of three. *)
LEMMA SumPlusThree ==
    ASSUME NEW S, IsFiniteSet(S), NEW a, NEW u, NEW r, NEW t,
           \A x \in S : a[x] \in Nat /\ u[x] \in Nat /\ r[x] \in Nat,
           \A x \in S : t[x] = a[x] + u[x] + r[x],
           NEW n, n = SumFunctionOnSet(a, S) + SumFunctionOnSet(u, S) + SumFunctionOnSet(r, S)
    PROVE  /\ SumFunctionOnSet(a, S) \in Nat /\ SumFunctionOnSet(u, S) \in Nat
           /\ SumFunctionOnSet(r, S) \in Nat /\ n \in Nat
           /\ SumFunctionOnSet(t, S) = n
  <1> DEFINE b == [x \in S |-> a[x] + u[x]]
  <1>1. \A x \in S : b[x] = a[x] + u[x]
    OBVIOUS
  <1> HIDE DEF b
  <1>2. \A x \in S : a[x] \in Int /\ u[x] \in Int /\ b[x] = a[x] + u[x]
    BY <1>1
  <1>3. \A x \in S : b[x] \in Int /\ r[x] \in Int /\ t[x] = b[x] + r[x]
    BY <1>1
  <1>4. SumFunctionOnSet(b, S) = SumFunctionOnSet(a, S) + SumFunctionOnSet(u, S)
    BY <1>2, SumPlus
  <1>5. SumFunctionOnSet(t, S) = SumFunctionOnSet(b, S) + SumFunctionOnSet(r, S)
    BY <1>3, SumPlus
  <1>6. /\ SumFunctionOnSet(a, S) \in Nat /\ SumFunctionOnSet(u, S) \in Nat
        /\ SumFunctionOnSet(r, S) \in Nat
    BY NatOfSum
  <1> QED BY <1>4, <1>5, <1>6

(* The delegations of a key, wrapper by wrapper or part by part. *)
LEMMA KeyParts ==
    ASSUME NEW st \in Stakes, NEW V \in SUBSET Key, NEW k \in Key,
           NEW n, n = PartOf(st, V, k, "active") + PartOf(st, V, k, "undelegated") + PartOf(st, V, k, "reward")
    PROVE  /\ PartOf(st, V, k, "active") \in Nat /\ PartOf(st, V, k, "undelegated") \in Nat
           /\ PartOf(st, V, k, "reward") \in Nat /\ n \in Nat
           /\ SumFunctionOnSet([v \in Key |-> SumFunction(st[v][k])], V) = n
  <1> DEFINE a == [v \in Key |-> st[v][k]["active"]]
             u == [v \in Key |-> st[v][k]["undelegated"]]
             r == [v \in Key |-> st[v][k]["reward"]]
             t == [v \in Key |-> SumFunction(st[v][k])]
  <1>1. ASSUME NEW v \in V
        PROVE  /\ a[v] \in Nat /\ u[v] \in Nat /\ r[v] \in Nat
               /\ t[v] = a[v] + u[v] + r[v]
    <2> DEFINE q == st[v][k]
    <2>1. q \in [Part -> Nat] /\ v \in Key
      BY DEF Stakes
    <2>2. a[v] = q["active"] /\ u[v] = q["undelegated"] /\ r[v] = q["reward"] /\ t[v] = SumFunction(q)
      BY <2>1
    <2> HIDE DEF q, a, u, r, t
    <2>3. q["active"] \in Nat /\ q["undelegated"] \in Nat /\ q["reward"] \in Nat
      BY <2>1 DEF Part
    <2>4. SumFunction(q) = q["active"] + q["undelegated"] + q["reward"]
      BY <2>1, PartSum
    <2> QED BY <2>2, <2>3, <2>4
  <1>2. IsFiniteSet(V)
    BY KeysFinite, FS_Subset
  <1>3. n = SumFunctionOnSet(a, V) + SumFunctionOnSet(u, V) + SumFunctionOnSet(r, V)
    BY DEF PartOf
  <1>4. /\ PartOf(st, V, k, "active") = SumFunctionOnSet(a, V)
        /\ PartOf(st, V, k, "undelegated") = SumFunctionOnSet(u, V)
        /\ PartOf(st, V, k, "reward") = SumFunctionOnSet(r, V)
    BY DEF PartOf
  <1> HIDE DEF a, u, r, t
  <1>5. /\ SumFunctionOnSet(a, V) \in Nat /\ SumFunctionOnSet(u, V) \in Nat
        /\ SumFunctionOnSet(r, V) \in Nat /\ n \in Nat
        /\ SumFunctionOnSet(t, V) = n
    BY <1>1, <1>2, <1>3, SumPlusThree
  <1> QED BY <1>4, <1>5 DEF t

(* The delegations, wrapper by wrapper or part by part. *)
LEMMA PartTotals ==
    ASSUME NEW st \in Stakes, NEW V \in SUBSET Key
    PROVE  /\ AllOf(st, V, "active") \in Nat /\ AllOf(st, V, "undelegated") \in Nat
           /\ AllOf(st, V, "reward") \in Nat
           /\ Staked(st, V) = AllOf(st, V, "active") + AllOf(st, V, "undelegated") + AllOf(st, V, "reward")
  <1> DEFINE A == [k \in Key |-> PartOf(st, V, k, "active")]
             U == [k \in Key |-> PartOf(st, V, k, "undelegated")]
             R == [k \in Key |-> PartOf(st, V, k, "reward")]
             T == [k \in Key |-> SumFunctionOnSet([v \in Key |-> SumFunction(st[v][k])], V)]
             F == [v \in Key |-> [d \in Key |-> SumFunction(st[v][d])]]
             H == [v \in Key |-> Held(st, v)]
  <1>0. IsFiniteSet(V) /\ IsFiniteSet(Key)
    BY KeysFinite, FS_Subset
  <1>1. ASSUME NEW k \in Key
        PROVE  /\ A[k] \in Nat /\ U[k] \in Nat /\ R[k] \in Nat
               /\ T[k] = A[k] + U[k] + R[k]
    <2> DEFINE a == PartOf(st, V, k, "active")
               u == PartOf(st, V, k, "undelegated")
               r == PartOf(st, V, k, "reward")
               t == SumFunctionOnSet([v \in Key |-> SumFunction(st[v][k])], V)
    <2>1. PICK n : n = a + u + r
      OBVIOUS
    <2>2. a \in Nat /\ u \in Nat /\ r \in Nat /\ t = n
      BY <2>1, KeyParts
    <2>3. A[k] = a /\ U[k] = u /\ R[k] = r /\ T[k] = t
      OBVIOUS
    <2> HIDE DEF a, u, r, t, A, U, R, T
    <2> QED BY <2>1, <2>2, <2>3
  <1>2. DOMAIN A = Key /\ DOMAIN U = Key /\ DOMAIN R = Key
    OBVIOUS
  <1>3. /\ \A v \in V, d \in Key : F[v][d] \in Int
        /\ \A v \in V : H[v] = SumFunctionOnSet(F[v], Key)
        /\ \A d \in Key : T[d] = SumFunctionOnSet(Column(F, V, d), V)
    <2>1. ASSUME NEW v \in Key
          PROVE  /\ F[v] \in [Key -> Nat] /\ \A d \in Key : F[v][d] \in Int
                 /\ H[v] = SumFunctionOnSet(F[v], Key)
      <3>1. F[v] = [d \in Key |-> SumFunction(st[v][d])] /\ H[v] = Held(st, v)
        OBVIOUS
      <3>2. [d \in Key |-> SumFunction(st[v][d])] \in [Key -> Nat]
        BY HeldNat
      <3>3. Held(st, v) = SumFunction([d \in Key |-> SumFunction(st[v][d])])
        BY DEF Held
      <3> HIDE DEF F, H
      <3>4. F[v] \in [Key -> Nat] /\ Held(st, v) = SumFunction(F[v])
        BY <3>1, <3>2, <3>3
      <3>5. \A d \in Key : F[v][d] \in Int
        BY <3>4
      <3>6. H[v] = SumFunctionOnSet(F[v], Key)
        BY <1>0, <3>1, <3>4, SumNat
      <3> QED BY <3>4, <3>5, <3>6
    <2>2. ASSUME NEW d \in Key
          PROVE  T[d] = SumFunctionOnSet(Column(F, V, d), V)
      <3> DEFINE f == [v \in Key |-> SumFunction(st[v][d])]
                 g == Column(F, V, d)
      <3>1. ASSUME NEW v \in V PROVE f[v] = g[v] /\ f[v] \in Int
        <4>1. f[v] = SumFunction(st[v][d]) /\ g[v] = SumFunction(st[v][d])
          BY DEF Column
        <4>2. SumFunction(st[v][d]) \in Nat
          <5>1. st[v][d] \in [Part -> Nat]
            BY DEF Stakes
          <5> QED BY <5>1, PartSum
        <4> HIDE DEF f, g
        <4> QED BY <4>1, <4>2
      <3>2. T[d] = SumFunctionOnSet(f, V)
        OBVIOUS
      <3> HIDE DEF f, g
      <3>3. SumFunctionOnSet(f, V) = SumFunctionOnSet(g, V)
        BY <1>0, <3>1, SumSame
      <3>4. T[d] = SumFunctionOnSet(g, V)
        <4> HIDE DEF T
        <4> QED BY <3>2, <3>3
      <3> QED BY <3>4 DEF g
    <2> HIDE DEF F, H, T
    <2> QED BY <2>1, <2>2
  <1>4. Staked(st, V) = SumFunctionOnSet(H, V)
    BY DEF Staked
  <1>5. /\ AllOf(st, V, "active") = SumFunction(A) /\ AllOf(st, V, "undelegated") = SumFunction(U)
        /\ AllOf(st, V, "reward") = SumFunction(R)
    BY DEF AllOf
  <1> HIDE DEF A, U, R, T, F, H
  <1>6. SumFunctionOnSet(H, V) = SumFunctionOnSet(T, Key)
    BY <1>0, <1>3, SumExchange
  <1>7. PICK n : n = SumFunctionOnSet(A, Key) + SumFunctionOnSet(U, Key) + SumFunctionOnSet(R, Key)
    OBVIOUS
  <1>8. /\ SumFunctionOnSet(A, Key) \in Nat /\ SumFunctionOnSet(U, Key) \in Nat
        /\ SumFunctionOnSet(R, Key) \in Nat /\ SumFunctionOnSet(T, Key) = n
    BY <1>0, <1>1, <1>7, SumPlusThree
  <1>9. /\ SumFunction(A) = SumFunctionOnSet(A, Key) /\ SumFunction(U) = SumFunctionOnSet(U, Key)
        /\ SumFunction(R) = SumFunctionOnSet(R, Key)
    BY <1>2, SumOn
  <1>10. Staked(st, V) = n
    BY <1>4, <1>6, <1>8
  <1> QED BY <1>5, <1>7, <1>8, <1>9, <1>10

(* Wrappers hold everything that is staked, so a set that has them all has it. *)
LEMMA WrappersHoldAll ==
    ASSUME ChainTypes, OnlyWrappers, NEW V \in SUBSET Key, \A k \in Key : IsWrapper(k) => k \in V
    PROVE  /\ Staked(stake, V) = Staked(stake, Key)
           /\ SumFunctionOnSet(lifetime, V) = SumFunction(lifetime)
           /\ \A k \in Key : SumFunctionOnSet([v \in Key |-> SumFunction(stake[v][k])], V)
                               = SumFunction([v \in Key |-> SumFunction(stake[v][k])])
  <1>0. IsFiniteSet(Key) /\ stake \in Stakes /\ lifetime \in [Key -> Nat]
    BY KeyFinite DEF ChainTypes, Stakes
  <1>1. SumFunction(Nothing) = 0
    <2>1. Nothing \in [Part -> Nat] /\ Nothing["active"] = 0 /\ Nothing["undelegated"] = 0 /\ Nothing["reward"] = 0
      BY DEF Nothing, Part
    <2> QED BY <2>1, PartSum
  <1>2. ASSUME NEW v \in Key \ V
        PROVE  lifetime[v] = 0 /\ \A d \in Key : SumFunction(stake[v][d]) = 0
    BY <1>1, <1>2 DEF OnlyWrappers
  <1>3. Staked(stake, V) = Staked(stake, Key)
    <2> DEFINE H == [v \in Key |-> Held(stake, v)]
    <2>1. \A v \in Key : H[v] \in Int
      BY <1>0, HeldNat
    <2>2. ASSUME NEW v \in Key \ V PROVE H[v] = 0
      <3> DEFINE f == [d \in Key |-> SumFunction(stake[v][d])]
      <3>1. \A d \in Key : f[d] = 0
        BY <1>2
      <3>2. DOMAIN f = Key /\ H[v] = SumFunction(f)
        BY DEF Held
      <3> HIDE DEF f, H
      <3>3. SumFunctionOnSet(f, Key) = 0
        BY <1>0, <3>1, ZeroSum, SumEmpty
      <3> QED BY <3>2, <3>3, SumOn
    <2>3. Staked(stake, V) = SumFunctionOnSet(H, V) /\ Staked(stake, Key) = SumFunctionOnSet(H, Key)
      BY DEF Staked
    <2> HIDE DEF H
    <2> QED BY <1>0, <2>1, <2>2, <2>3, SumZeros
  <1>4. SumFunctionOnSet(lifetime, V) = SumFunction(lifetime)
    <2>1. (\A v \in Key : lifetime[v] \in Int) /\ \A v \in Key \ V : lifetime[v] = 0
      BY <1>0, <1>2
    <2>2. SumFunction(lifetime) = SumFunctionOnSet(lifetime, Key)
      BY <1>0, SumNat
    <2> QED BY <1>0, <2>1, <2>2, SumZeros
  <1>5. ASSUME NEW k \in Key
        PROVE  SumFunctionOnSet([v \in Key |-> SumFunction(stake[v][k])], V)
                 = SumFunction([v \in Key |-> SumFunction(stake[v][k])])
    <2> DEFINE f == [v \in Key |-> SumFunction(stake[v][k])]
    <2>1. \A v \in Key : f[v] \in Int
      <3>1. \A v \in Key : stake[v][k] \in [Part -> Nat]
        BY <1>0 DEF Stakes
      <3>2. \A v \in Key : SumFunction(stake[v][k]) \in Nat
        BY <3>1, PartSum
      <3> QED BY <3>2
    <2>2. \A v \in Key \ V : f[v] = 0
      BY <1>2
    <2>3. DOMAIN f = Key
      OBVIOUS
    <2> HIDE DEF f
    <2>4. SumFunctionOnSet(f, V) = SumFunction(f)
      BY <1>0, <2>1, <2>2, <2>3, SumZeros, SumOn
    <2> QED BY <2>4 DEF f
  <1> QED BY <1>3, <1>4, <1>5

(* The pending receipts, receiver by receiver. *)
LEMMA ReceiptTotal ==
    ASSUME NEW t \in Seq(Receipt)
    PROVE  SumFunction([k \in Key |-> SumFunctionOnSet(Amounts(t), {i \in DOMAIN t : t[i].to = k})]) = InTransit(t)
  <1> DEFINE f == Amounts(t)
             S == DOMAIN t
             h == [i \in S |-> t[i].to]
             g == [k \in Key |-> SumFunctionOnSet(Amounts(t), {i \in DOMAIN t : t[i].to = k})]
  <1>1. IsFiniteSet(S) /\ f \in [S -> Nat] /\ DOMAIN f = S
    BY TransitSum
  <1>2. \A i \in S : h[i] \in Key
    <2>1. \A i \in DOMAIN t : t[i] \in Receipt
      OBVIOUS
    <2> QED BY <2>1 DEF Receipt
  <1>3. \A k \in Key : {i \in DOMAIN t : t[i].to = k} = Class(h, S, k)
    BY DEF Class
  <1>4. \A k \in Key : g[k] = SumFunctionOnSet(f, Class(h, S, k))
    BY <1>3
  <1>5. DOMAIN g = Key
    OBVIOUS
  <1>6. InTransit(t) = SumFunction(f)
    BY DEF InTransit
  <1> HIDE DEF f, g, h, S
  <1>7. \A i \in S : h[i] \in Key /\ f[i] \in Int
    BY <1>1, <1>2
  <1>8. SumFunctionOnSet(g, Key) = SumFunctionOnSet(f, S)
    BY <1>1, <1>4, <1>7, KeyFinite, SumClasses
  <1>9. SumFunction(g) = SumFunction(f)
    BY <1>1, <1>5, <1>8, SumOn
  <1> QED BY <1>6, <1>9 DEF g

(* The published totals, in terms of the chain. *)
LEMMA SummaryTotals ==
    ASSUME ChainTypes, FileTypes,
           summary = [c \in Component |-> SumFunction([k \in Key |-> Claim(k, c)])]
    PROVE  /\ summary \in [Component -> Nat]
           /\ summary["liquid1"] = SumFunction(liquid[1])
           /\ summary["receipts"] = InTransit(transit)
           /\ Total(summary) = SumFunction(liquid[0]) + SumFunction(liquid[1])
                                 + Staked(stake, Validators) + InTransit(transit)
  <1> DEFINE V == Validators
             l == SumFunction(liquid[0])
             m == SumFunction(liquid[1])
             t == InTransit(transit)
             a == AllOf(stake, V, "active")
             u == AllOf(stake, V, "undelegated")
             r == AllOf(stake, V, "reward")
             s == Staked(stake, V)
  <1>1. /\ liquid \in Liquids /\ stake \in Stakes /\ transit \in Seq(Receipt)
        /\ l \in Nat /\ m \in Nat /\ t \in Nat
    BY ChainFacts DEF ChainTypes
  <1>2. V \in SUBSET Key
    BY ClaimNat
  <1>3. a \in Nat /\ u \in Nat /\ r \in Nat /\ s = a + u + r
    BY <1>1, <1>2, PartTotals
  <1>4. \A c \in Component : summary[c] = SumFunction([k \in Key |-> Claim(k, c)])
    OBVIOUS
  <1>5. /\ "liquid0" \in Component /\ "liquid1" \in Component /\ "receipts" \in Component
        /\ "active" \in Component /\ "undelegated" \in Component /\ "reward" \in Component
    BY DEF Component, Part
  <1>6. summary["liquid0"] = l /\ summary["liquid1"] = m
    <2>1. /\ [k \in Key |-> Claim(k, "liquid0")] = [k \in Key |-> liquid[0][k]]
          /\ [k \in Key |-> Claim(k, "liquid1")] = [k \in Key |-> liquid[1][k]]
      BY DEF Claim, Amount
    <2>2. liquid[0] = [k \in Key |-> liquid[0][k]] /\ liquid[1] = [k \in Key |-> liquid[1][k]]
      BY <1>1 DEF Liquids, Shard
    <2> QED BY <1>4, <1>5, <2>1, <2>2
  <1>7. summary["receipts"] = t
    <2>1. [k \in Key |-> Claim(k, "receipts")]
            = [k \in Key |-> SumFunctionOnSet(Amounts(transit), {i \in DOMAIN transit : transit[i].to = k})]
      BY DEF Claim, Amount
    <2> QED BY <1>1, <1>4, <1>5, <2>1, ReceiptTotal
  <1>8. summary["active"] = a /\ summary["undelegated"] = u /\ summary["reward"] = r
    <2>1. ASSUME NEW c \in Part PROVE summary[c] = AllOf(stake, V, c)
      <3>1. \A k \in Key : Claim(k, c) = PartOf(stake, V, k, c)
        BY <2>1 DEF Claim, Amount, PartOf, Part
      <3>2. [k \in Key |-> Claim(k, c)] = [k \in Key |-> PartOf(stake, V, k, c)]
        BY <3>1
      <3>3. c \in Component
        BY DEF Component
      <3> QED BY <1>4, <3>2, <3>3 DEF AllOf
    <2> QED BY <2>1 DEF Part
  <1> HIDE DEF V, l, m, t, a, u, r, s
  <1>9. \A c \in Component : summary[c] \in Nat
    <2>1. \A c \in Component : c \in {"liquid0", "liquid1", "receipts", "active", "undelegated", "reward"}
      BY DEF Component, Part
    <2> QED BY <1>1, <1>3, <1>6, <1>7, <1>8, <2>1
  <1>10. DOMAIN summary = Component /\ \A c \in Component : summary[c] \in Int
    BY <1>9
  <1>11. Total(summary) = (summary["liquid0"] + summary["liquid1"] + summary["receipts"])
                            + (summary["active"] + summary["undelegated"] + summary["reward"])
    BY <1>10, TotalSum
  <1>12. Total(summary) = l + m + s + t
    BY <1>1, <1>3, <1>6, <1>7, <1>8, <1>11
  <1> QED BY <1>6, <1>7, <1>9, <1>12 DEF V, l, m, t, s

(* With all wrappers, the totals are all the value there is. *)
LEMMA WholeSupply ==
    ASSUME ChainInv, NEW V \in SUBSET Key, \A k \in Key : IsWrapper(k) => k \in V
    PROVE  /\ SumFunction(liquid[0]) + SumFunction(liquid[1]) + Staked(stake, V) + InTransit(transit) = Supply
           /\ SumFunctionOnSet(lifetime, V) = accumulator
  <1>1. Staked(stake, V) = Staked(stake, Key) /\ SumFunctionOnSet(lifetime, V) = SumFunction(lifetime)
    BY WrappersHoldAll DEF ChainInv
  <1> QED BY <1>1 DEF ChainInv, Conserved, Rewarded

(* A row of the ledger is what its key owns, if no wrapper was missed. *)
LEMMA RowOwned ==
    ASSUME ChainInv, FileTypes, LedgerRight, \A k \in Key : IsWrapper(k) => k \in Validators,
           NEW j \in 1..Len(ledger)
    PROVE  Total(ledger[j].claim) = Owned(ledger[j].key)
  <1> DEFINE k == ledger[j].key
             y == ledger[j].claim
             V == Validators
             T == SumFunction([v \in Key |-> SumFunction(stake[v][k])])
             S == SumFunctionOnSet([v \in Key |-> SumFunction(stake[v][k])], V)
             R == SumFunctionOnSet(Amounts(transit), {i \in DOMAIN transit : transit[i].to = k})
             a == PartOf(stake, V, k, "active")
             u == PartOf(stake, V, k, "undelegated")
             r == PartOf(stake, V, k, "reward")
  <1>1. k \in Key /\ y \in [Component -> Nat] /\ ChainTypes /\ OnlyWrappers
    BY RowTypes DEF FileTypes, ChainInv
  <1>2. /\ liquid \in Liquids /\ stake \in Stakes /\ V \in SUBSET Key
    BY <1>1, ClaimNat, ChainFacts
  <1>3. liquid[0][k] \in Nat /\ liquid[1][k] \in Nat
    BY <1>1, <1>2 DEF Liquids, Shard
  <1>4. \A c \in Component : y[c] = Claim(k, c)
    BY DEF LedgerRight
  <1>5. /\ "liquid0" \in Component /\ "liquid1" \in Component /\ "receipts" \in Component
        /\ "active" \in Component /\ "undelegated" \in Component /\ "reward" \in Component
    BY DEF Component, Part
  <1>6. /\ y["liquid0"] = liquid[0][k] /\ y["liquid1"] = liquid[1][k] /\ y["receipts"] = R
        /\ y["active"] = a /\ y["undelegated"] = u /\ y["reward"] = r
    BY <1>4, <1>5 DEF Claim, Amount, PartOf
  <1>7. S = T
    BY <1>1, <1>2, WrappersHoldAll
  <1>8. PICK n : n = a + u + r
    OBVIOUS
  <1>9. a \in Nat /\ u \in Nat /\ r \in Nat /\ S = n
    BY <1>1, <1>2, <1>8, KeyParts
  <1>10. Owned(k) = liquid[0][k] + liquid[1][k] + T + R
    BY DEF Owned, Amounts
  <1> HIDE DEF k, y, V, T, S, R, a, u, r
  <1>11. DOMAIN y = Component /\ \A c \in Component : y[c] \in Int
    BY <1>1
  <1>12. Total(y) = (y["liquid0"] + y["liquid1"] + y["receipts"])
                      + (y["active"] + y["undelegated"] + y["reward"])
    BY <1>11, TotalSum
  <1>13. R \in Nat
    BY <1>1, <1>5, <1>6
  <1>14. Total(y) = Owned(k)
    <2> DEFINE l == liquid[0][k]
               m == liquid[1][k]
    <2>1. Total(y) = (l + m + R) + (a + u + r)
      BY <1>6, <1>12
    <2>2. Owned(k) = l + m + T + R /\ T = n /\ l \in Nat /\ m \in Nat
      BY <1>3, <1>7, <1>9, <1>10
    <2> HIDE DEF l, m
    <2>3. a + u + r = n /\ n \in Nat
      BY <1>8, <1>9
    <2>4. Total(y) = (l + m + R) + n
      BY <2>1, <2>3
    <2>5. Owned(k) = (l + m + R) + n
      BY <1>13, <2>2, <2>3
    <2> QED BY <2>4, <2>5
  <1> QED BY <1>14 DEF y, k

(* A ledger made from the state root with every code readable: the published  *)
(* totals are all the value there is, and each row is what its key owns.      *)
LEMMA LedgerExactHolds == IInv => LedgerExact
  <1> SUFFICES ASSUME IInv, summary # <<>>, mode.staking = "discover", AllFound
               PROVE  /\ Total(summary) = Supply
                      /\ \A i \in DOMAIN ledger : Total(ledger[i].claim) = Owned(ledger[i].key)
    BY DEF LedgerExact
  <1>1. ChainInv /\ ChainTypes /\ FileTypes /\ LedgerRight
    BY DEF IInv, ChainInv, FileInv
  <1>2. \A k \in Key : IsWrapper(k) => k \in Validators
    BY DEF AllFound, Validators, StakingValidators
  <1>3. Validators \in SUBSET Key
    BY <1>1, ClaimNat
  <1>4. summary = [c \in Component |-> SumFunction([k \in Key |-> Claim(k, c)])]
    BY DEF IInv, FileInv, SummaryRight
  <1>5. Total(summary) = Supply
    BY <1>1, <1>2, <1>3, <1>4, SummaryTotals, WholeSupply
  <1>6. DOMAIN ledger = 1..Len(ledger)
    BY <1>1 DEF FileTypes
  <1>7. \A i \in DOMAIN ledger : Total(ledger[i].claim) = Owned(ledger[i].key)
    BY <1>1, <1>2, <1>6, RowOwned
  <1> QED BY <1>5, <1>7

(* A csv of the model is a sequence of rows in increasing order. *)
LEMMA RowsAreCsv ==
    ASSUME NEW s \in Seq(LedgerRow), Increasing(s)
    PROVE  IsCsv(s) /\ DOMAIN s = 1..Len(s)
  <1>1. DOMAIN s = 1..Len(s) /\ Len(s) \in Nat
    OBVIOUS
  <1>2. ASSUME NEW i \in 1..Len(s) PROVE IsRow(s[i]) /\ (i > 1 => s[i - 1].key < s[i].key)
    <2>1. IsRow(s[i])
      BY RowTypes DEF IsRow
    <2>2. i > 1 => i - 1 \in 1..Len(s) /\ i - 1 < i
      BY <1>1
    <2> QED BY <2>1, <2>2 DEF Increasing
  <1> QED BY <1>1, <1>2 DEF IsCsv

(* The types of the model. *)
LEMMA TypesHold == IInv => TypeOK
  <1> SUFFICES ASSUME IInv PROVE TypeOK
    OBVIOUS
  <1>1. ChainTypes /\ FileTypes
    BY DEF IInv, ChainInv, FileInv
  <1>2. phase \in {"live", "failed"} \cup Range(Phase)
    BY <1>1, Phases DEF FileTypes
  <1>3. \A f \in Input : IsCsv(rows[f]) /\ DOMAIN rows[f] = 1..Len(rows[f])
    <2> SUFFICES ASSUME NEW f \in Input PROVE IsCsv(rows[f]) /\ DOMAIN rows[f] = 1..Len(rows[f])
      OBVIOUS
    <2>1. rows[f] \in Seq(LedgerRow) /\ Increasing(rows[f])
      BY <1>1 DEF FileTypes
    <2> QED BY <2>1, RowsAreCsv
  <1>4. /\ \A f \in Input : cursor[f] \in 1..(Len(rows[f]) + 1)
        /\ \A f \in Input \ {"receipts"} : \A i \in DOMAIN rows[f] : Total(rows[f][i].claim) > 0
        /\ validatorList \subseteq Key /\ formula \in Nat
    BY <1>1, <1>3 DEF FileTypes
  <1>5. IsCsv(ledger)
    <2>1. ledger \in Seq(LedgerRow) /\ Increasing(ledger)
      BY <1>1 DEF FileTypes
    <2> QED BY <2>1, RowsAreCsv
  <1>6. summary = <<>> \/ summary \in [Component -> Nat]
    <2> SUFFICES ASSUME summary # <<>> PROVE summary \in [Component -> Nat]
      OBVIOUS
    <2>1. summary = [c \in Component |-> SumFunction([k \in Key |-> Claim(k, c)])]
      BY DEF IInv, FileInv, SummaryRight
    <2> QED BY <1>1, <2>1, SummaryTotals
  <1>7. /\ liquid \in [Shard -> [Key -> Nat]]
        /\ code \in [Key -> {"none", "contract", "vc", "legacy"}]
        /\ stake \in [Key -> [Key -> [Part -> Nat]]] /\ lifetime \in [Key -> Nat]
        /\ Len(transit) <= MaxReceipts /\ accumulator \in 0..MaxReward /\ unbacked \in 0..MaxUnbacked
    BY <1>1 DEF ChainTypes, Codes
  <1> QED BY <1>2, <1>3, <1>4, <1>5, <1>6, <1>7 DEF TypeOK

(* A comparison that passed with a supply that visited the accounts. *)
LEMMA PassedTotal ==
    ASSUME IInv, phase = "passed", mode.supply # "validator-only",
           AllFound \/ (mode.supply = "list" /\ \A k \in Key : IsWrapper(k) => k \in validatorList)
    PROVE  Total(summary) = Supply
  <1> DEFINE V == SupplyValidators("cutoff", mode.supply)
             l == SumFunction(liquid[0])
             m == SumFunction(liquid[1])
             s == Staked(stake, V)
             t == InTransit(transit)
  <1>1. ChainInv /\ ChainTypes /\ FileTypes /\ SupplyRight /\ Agrees /\ mode.supply \in Ways
    BY DEF IInv, ChainInv, FileInv, FileTypes
  <1>2. V \in SUBSET Key
    BY <1>1, ValidatorsAreKeys
  <1>3. \A k \in Key : IsWrapper(k) => k \in V
    BY <1>1 DEF AllFound, SupplyValidators, Ways
  <1>4. l + m + s + t = Supply
    BY <1>1, <1>2, <1>3, WholeSupply
  <1>5. supply.claims = l + s
    BY <1>1 DEF SupplyRight
  <1>6. summary["liquid1"] = m
    <2>1. summary = [c \in Component |-> SumFunction([k \in Key |-> Claim(k, c)])]
      BY DEF IInv, FileInv, SummaryRight, Late
    <2> QED BY <1>1, <2>1, SummaryTotals
  <1>7. PendingAtto = t
    BY DEF PendingAtto, InTransit, Amounts
  <1>8. supply.claims + summary["liquid1"] + PendingAtto = Total(summary)
    BY <1>1 DEF Agrees
  <1>9. l \in Nat /\ m \in Nat /\ t \in Nat /\ s \in Nat
    <2>1. stake \in Stakes /\ l \in Nat /\ m \in Nat /\ t \in Nat
      BY <1>1, ChainFacts
    <2> QED BY <1>2, <2>1, StakedNat
  <1> HIDE DEF V, l, m, s, t
  <1> QED BY <1>4, <1>5, <1>6, <1>7, <1>8, <1>9

(* The comparison of the two sums finds a ledger that is not exact. *)
LEMMA VerifiedExactHolds == IInv => VerifiedExact
  BY TypesHold, PassedTotal DEF VerifiedExact

(* The formula of a passed reconciliation is the value issued. *)
LEMMA FormulaExactHolds == IInv => FormulaExact
  <1> SUFFICES ASSUME IInv, phase = "passed", AllFound, mode.base # "validator-only", mode.supply = "discover",
                      \A k \in Key : base.code[k] \in {"vc", "legacy"} => Decodes("base", k)
               PROVE  formula = Genesis + accumulator /\ ClaimGap = unbacked
    BY DEF FormulaExact
  <1> DEFINE V == SupplyValidators("cutoff", mode.supply)
             W == SupplyValidators("base", mode.base)
  <1>1. /\ ChainInv /\ ChainTypes /\ FileTypes /\ SupplyRight /\ FormulaRight /\ BaseInv
        /\ mode.supply \in Ways /\ mode.base \in Ways
    BY DEF IInv, ChainInv, FileInv, FileTypes
  <1>2. V \in SUBSET Key /\ W \in SUBSET Key
    BY <1>1, ValidatorsAreKeys
  <1>3. \A k \in Key : IsWrapper(k) => k \in V
    BY DEF AllFound, SupplyValidators
  <1>4. \A k \in Key : base.code[k] \in {"vc", "legacy"} => k \in W
    BY <1>1 DEF SupplyValidators, Ways
  <1>5. supply.lifetime = accumulator
    BY <1>1, <1>2, <1>3, WholeSupply DEF SupplyRight
  <1>6. /\ base.lifetime \in [Key -> Nat] /\ base.accumulator \in Nat
        /\ SumFunction(base.lifetime) = base.accumulator
        /\ \A k \in Key \ W : base.lifetime[k] = 0
    BY <1>1, <1>4 DEF BaseInv
  <1> DEFINE b == base.lifetime
  <1> HIDE DEF V, W
  <1>7. SumFunctionOnSet(b, W) = base.accumulator
    <2>1. b \in [Key -> Nat] /\ SumFunction(b) = base.accumulator /\ \A k \in Key \ W : b[k] = 0
      BY <1>6
    <2> HIDE DEF b
    <2>2. \A k \in Key : b[k] \in Int
      BY <2>1
    <2>3. SumFunctionOnSet(b, Key) = SumFunctionOnSet(b, W)
      BY <1>2, <2>1, <2>2, KeyFinite, SumZeros
    <2>4. SumFunction(b) = SumFunctionOnSet(b, Key)
      BY <2>1, KeyFinite, SumNat
    <2> QED BY <2>1, <2>3, <2>4
  <1>8. formula = Genesis + base.accumulator + (accumulator - base.accumulator)
    BY <1>1, <1>5, <1>7 DEF FormulaRight, W
  <1>9. Genesis \in Nat /\ accumulator \in Nat /\ unbacked \in Nat
    BY <1>1, ChainFacts
  <1>10. formula = Genesis + accumulator
    BY <1>6, <1>8, <1>9
  <1>11. Total(summary) = Genesis + accumulator + unbacked
    BY PassedTotal DEF Supply
  <1>12. ClaimGap = unbacked
    BY <1>9, <1>10, <1>11 DEF ClaimGap
  <1> QED BY <1>10, <1>12

(* Every reachable ledger made from the state root, with every code readable, *)
(* is exact: the four inputs merged lose no claim and take none twice.        *)
THEOREM LedgerIsExact == Spec => []LedgerExact
  BY Invariant, LedgerExactHolds, PTL

(* The types hold, and a passed comparison makes the ledger exact even if it  *)
(* was made from a list, when actual-supply visited the accounts.             *)
THEOREM VerifiedIsExact == Spec => []VerifiedExact
  BY Invariant, VerifiedExactHolds, PTL

(* The reconstructed formula of a passed reconciliation is genesis plus all   *)
(* rewards, and the gap is what the unbacked receipts credited.               *)
THEOREM FormulaIsExact == Spec => []FormulaExact
  BY Invariant, FormulaExactHolds, PTL

=============================================================================
