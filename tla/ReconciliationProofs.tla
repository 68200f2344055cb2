------------------------ MODULE ReconciliationProofs ------------------------
(***************************************************************************)
(* The proofs of two parts of the reconciliation that share no state: the  *)
(* audit of claims that are not issued (NonIssuance) and the closure of    *)
(* the supply at historical blocks (HistoricalClosure).                    *)
(***************************************************************************)
EXTENDS NonIssuance, HistoricalClosure, SumTheorems, TLAPS

-----------------------------------------------------------------------------
(***************************************************************************)
(* The withheld amounts for every set of addresses, claims, inventories    *)
(* and audits. What a table or a report says is kept per file              *)
(* (TablesSound, SummarySound, StagesSound), and what a run in progress    *)
(* holds is what it will write (RunIs). The leak of an address is at most  *)
(* what the receipts credited that some audit proves unbacked: the rows    *)
(* that count name different ones (CreditBounded).                         *)
(***************************************************************************)

(* The tables *)

(* Every row of a leak table withholds no more than unbacked receipts credited. *)
LeakTable(t) ==
  /\ DOMAIN t \subseteq Addresses
  /\ \A a \in DOMAIN t : t[a].claim = Claim[a] /\ t[a].cap \in Nat /\ t[a].cap <= LeakedTo(a)

RetainedTable(t) == DOMAIN t \subseteq Addresses /\ \A a \in DOMAIN t : t[a] \in 1..Balance[a]

(* What a report says of what it withholds, and of its tables.              *)
StatedIn(inv, a, x) == \E i \in Inventories : inv[i][a] # NoRow /\ x <= inv[i][a].claim

ReportSound(totals, withheld, inv, csv, leak) ==
  /\ withheld \in [Addresses -> Nat]
  /\ \A a \in Addresses : withheld[a] <= Claim[a] \/ StatedIn(inv, a, withheld[a])
  /\ totals.not_issued \in 0..Gross /\ totals.not_issued = SumFunction(withheld)
  /\ \A a \in Addresses : At(csv, a) <= withheld[a]
  /\ leak # NoFile => LeakTable(leak)
  /\ totals.hasLeak => \A a \in DOMAIN leak : leak[a].cap <= withheld[a]

(* The program at work holds a sound result; between its two files the       *)
(* first one is the table it wrote.                                          *)
RunIs ==
  \/ run = Idle
  \/ \E p \in {"leak", "leak summary"} : \E rows : run = [program |-> p, rows |-> rows] /\ LeakTable(rows)
  \/ \E p \in {"non-issuance", "non-issuance summary"} : \E retained, totals, withheld, inv :
       /\ run = [program |-> p, retained |-> retained, totals |-> totals, withheld |-> withheld, inventory |-> inv]
       /\ RetainedTable(retained)
       /\ ReportSound(totals, withheld, inv, retained, IF totals.hasLeak THEN leakCsv ELSE NoFile)
       /\ p = "non-issuance summary" => retainedCsv = retained

InputTypes ==
  /\ inventory \in [Inventories -> [Addresses -> ListedRows \cup {NoRow}]]
  /\ initial \in [Addresses -> 0..MaxPaid]
  /\ edits \in 0..MaxEdits

TablesSound ==
  /\ leakCsv # NoFile => LeakTable(leakCsv)
  /\ retainedCsv # NoFile => RetainedTable(retainedCsv)

SummarySound ==
  summary # NoFile => ReportSound(summary.totals, summary.withheld, summary.inventory, summary.csv, summary.leak)

(* The inventories' amounts together, and what the tables withhold.         *)
RowsOf(inv, i) == {a \in Addresses : inv[i][a] # NoRow}
ExistingOf(inv) == [a \in UNION {RowsOf(inv, i) : i \in Inventories} |->
                      SumFunction([i \in {j \in Inventories : a \in RowsOf(inv, j)} |-> inv[i][a].amount])]
HistoricalOf(csv, leak, a) == At(csv, a) + (IF leak = NoFile THEN 0 ELSE At(Caps(leak), a))

(* The stages were compiled from the sources they name.                     *)
StagesSound ==
  stages # NoFile =>
    /\ RetainedTable(stages.retained)
    /\ stages.existing = [a \in Addresses |-> At(ExistingOf(stages.inventory), a)]
    /\ stages.historical = [a \in Addresses |-> HistoricalOf(stages.retained, stages.leak, a)]
    /\ stages.existingTotal = SumFunction(stages.existing)
    /\ stages.historicalTotal = SumFunction(stages.historical)

PolicyInv == InputTypes /\ TablesSound /\ RunIs /\ SummarySound /\ StagesSound

-----------------------------------------------------------------------------
(* The sums *)

LEMMA PolicyConstants ==
  /\ IsFiniteSet(Addresses) /\ IsFiniteSet(Inventories)
  /\ \A a \in Addresses : Claim[a] \in Nat /\ Balance[a] \in Nat /\ Balance[a] <= Claim[a]
  /\ \A a \in Addresses : Wone[a] \in Nat /\ Qualification[a] \in Nat
  /\ DOMAIN Claim = Addresses /\ DOMAIN Wone = Addresses /\ RetainedWone \in Nat
  /\ \A x \in ListedRows : x.amount \in Nat /\ x.claim \in Nat
  /\ Threshold \in Nat /\ Threshold > 0 /\ MaxPaid \in Nat /\ MaxEdits \in Nat
  BY ClaimsAssumption, BoundAssumption DEF ClaimsAssumption, BoundAssumption

(* A function of amounts of some addresses. *)
AmountsOf(f) == DOMAIN f \subseteq Addresses /\ \A a \in DOMAIN f : f[a] \in Nat

LEMMA NatTotal ==
  ASSUME NEW f, IsFiniteSet(DOMAIN f), \A a \in DOMAIN f : f[a] \in Nat
  PROVE  SumFunction(f) \in Nat
  BY SumOn, NatOfSum DEF SumFunction

LEMMA AtNat ==
  ASSUME NEW f, AmountsOf(f), NEW a
  PROVE  At(f, a) \in Nat
  BY DEF AmountsOf, At

(* The addresses without an amount add nothing. *)
LEMMA SumAt ==
  ASSUME NEW f, AmountsOf(f)
  PROVE  /\ SumFunction(f) \in Nat
         /\ SumFunction([a \in Addresses |-> At(f, a)]) = SumFunction(f)
  <1> DEFINE g == [a \in Addresses |-> At(f, a)]
             D == DOMAIN f
  <1>1. D \in SUBSET Addresses /\ IsFiniteSet(D) /\ IsFiniteSet(Addresses)
    BY PolicyConstants, FS_Subset DEF AmountsOf
  <1>2. \A a \in Addresses : g[a] \in Nat
    BY AtNat
  <1>3. \A a \in D : g[a] = f[a] /\ f[a] \in Int
    BY <1>1 DEF At, AmountsOf
  <1>4. \A a \in Addresses \ D : g[a] = 0
    BY DEF At
  <1>5. SumFunction(g) = SumFunctionOnSet(g, Addresses)
    BY SumOn DEF SumFunction
  <1>6. SumFunction(f) = SumFunctionOnSet(f, D)
    BY SumOn DEF SumFunction
  <1> HIDE DEF g, D
  <1>7. SumFunctionOnSet(g, Addresses) = SumFunctionOnSet(g, D)
    BY <1>1, <1>2, <1>4, SumZeros
  <1>8. SumFunctionOnSet(f, D) = SumFunctionOnSet(g, D)
    <2>1. \A a \in D : f[a] = g[a] /\ f[a] \in Int
      BY <1>3
    <2> QED BY <1>1, <2>1, SumSame
  <1>9. SumFunction(f) \in Nat
    BY <1>1, NatTotal DEF AmountsOf, D
  <1> QED BY <1>5, <1>6, <1>7, <1>8, <1>9 DEF g

(* The sum of two functions of the addresses. *)
LEMMA SumBoth ==
  ASSUME NEW f, NEW g, NEW h, DOMAIN f = Addresses, DOMAIN g = Addresses, DOMAIN h = Addresses,
         \A a \in Addresses : f[a] \in Nat /\ g[a] \in Nat /\ h[a] = f[a] + g[a]
  PROVE  SumFunction(h) = SumFunction(f) + SumFunction(g) /\ SumFunction(f) \in Nat /\ SumFunction(g) \in Nat
  <1>1. IsFiniteSet(Addresses) /\ \A a \in Addresses : f[a] \in Int /\ g[a] \in Int /\ h[a] = f[a] + g[a]
    BY PolicyConstants
  <1>2. SumFunctionOnSet(h, Addresses) = SumFunctionOnSet(f, Addresses) + SumFunctionOnSet(g, Addresses)
    BY <1>1, SumPlus
  <1>3. /\ SumFunction(f) = SumFunctionOnSet(f, Addresses)
        /\ SumFunction(g) = SumFunctionOnSet(g, Addresses)
        /\ SumFunction(h) = SumFunctionOnSet(h, Addresses)
    BY SumOn DEF SumFunction
  <1>4. SumFunction(f) \in Nat /\ SumFunction(g) \in Nat
    BY <1>1, NatTotal
  <1> QED BY <1>2, <1>3, <1>4

(* The rows that count name different receipts: of two rows of one receipt   *)
(* the later one has its key, which was seen.                                *)
LEMMA PlacesAre ==
  ASSUME NEW list \in AuditLists
  PROVE  /\ IsFiniteSet(Places(list))
         /\ \A p \in Places(list) :
              /\ p = <<p[1], p[2]>> /\ p[1] \in Nat /\ p[2] \in Nat
              /\ RowAt(list, p) \in AuditRows
              /\ RowAt(list, p).receipt.to \in Addresses /\ AmountAt(list, p) \in Nat
  <1>1. list \in Seq(AuditNames) /\ \A i \in AuditNames : Audits[i] \in Seq(AuditRows)
    BY AuditsAssumption DEF AuditsAssumption
  <1>2. /\ DOMAIN list = 1..Len(list) /\ Len(list) \in Nat
        /\ \A k \in DOMAIN list : k \in Nat /\ list[k] \in AuditNames
    BY <1>1
  <1>3. \A i \in AuditNames :
          /\ DOMAIN Audits[i] = 1..Len(Audits[i]) /\ Len(Audits[i]) \in Nat
          /\ \A j \in DOMAIN Audits[i] : j \in Nat /\ Audits[i][j] \in AuditRows
    BY <1>1
  <1> DEFINE R == [k \in DOMAIN list |-> {k} \X DOMAIN Audits[list[k]]]
  <1>4. Places(list) = UNION {R[k] : k \in DOMAIN list}
    BY DEF Places
  <1>5. IsFiniteSet(DOMAIN list)
    BY <1>2, FS_Interval
  <1>6. \A k \in DOMAIN list : IsFiniteSet(R[k])
    <2> SUFFICES ASSUME NEW k \in DOMAIN list PROVE IsFiniteSet({k} \X DOMAIN Audits[list[k]])
      OBVIOUS
    <2>1. PICK n \in Nat : DOMAIN Audits[list[k]] = 1..n
      BY <1>2, <1>3
    <2>2. IsFiniteSet({k})
      BY FS_Singleton
    <2>3. IsFiniteSet(1..n)
      BY FS_Interval
    <2>4. IsFiniteSet(DOMAIN Audits[list[k]])
      BY <2>1, <2>3
    <2> QED BY <2>2, <2>4, FS_Product
  <1>7. IsFiniteSet(Places(list))
    <2>1. IsFiniteSet({R[k] : k \in DOMAIN list})
      <3> HIDE DEF R
      <3> QED BY <1>5, ImageFinite
    <2>2. \A x \in {R[k] : k \in DOMAIN list} : IsFiniteSet(x)
      BY <1>6
    <2> HIDE DEF R
    <2> QED BY <1>4, <2>1, <2>2, FS_UNION
  <1>8. ASSUME NEW p \in Places(list)
        PROVE  /\ p = <<p[1], p[2]>> /\ p[1] \in DOMAIN list /\ p[2] \in DOMAIN Audits[list[p[1]]]
    BY DEF Places
  <1>9. ASSUME NEW p \in Places(list)
        PROVE  /\ p[1] \in Nat /\ p[2] \in Nat /\ RowAt(list, p) \in AuditRows
    BY <1>2, <1>3, <1>8 DEF RowAt
  <1>10. \A row \in AuditRows : row.receipt.to \in Addresses /\ row.receipt.amount \in Nat
    BY AuditsAssumption DEF AuditsAssumption
  <1> QED BY <1>7, <1>8, <1>9, <1>10 DEF AmountAt

LEMMA CountedOnce ==
  ASSUME NEW list \in AuditLists, NEW p \in Counted(list), NEW q \in Counted(list),
         RowAt(list, p).receipt = RowAt(list, q).receipt
  PROVE  p = q
  <1>1. p \in LeakPlaces(list) /\ q \in LeakPlaces(list) /\ p \in Places(list) /\ q \in Places(list)
    BY DEF Counted, LeakPlaces
  <1>2. RowAt(list, p).key = RowAt(list, q).key
    <2>1. RowAt(list, p) \in AuditRows /\ RowAt(list, q) \in AuditRows
      BY <1>1, PlacesAre
    <2>2. RowAt(list, p).classification \in LeakClasses /\ RowAt(list, q).classification \in LeakClasses
      BY <1>1 DEF LeakPlaces
    <2> QED BY <2>1, <2>2, KeysIdentify DEF KeysIdentify
  <1>3. ~Before(p, q) /\ ~Before(q, p)
    BY <1>1, <1>2 DEF Counted
  <1>4. /\ p = <<p[1], p[2]>> /\ p[1] \in Nat /\ p[2] \in Nat
        /\ q = <<q[1], q[2]>> /\ q[1] \in Nat /\ q[2] \in Nat
    BY <1>1, PlacesAre
  <1>5. p[1] = q[1] /\ p[2] = q[2]
    BY <1>3, <1>4 DEF Before
  <1> QED BY <1>4, <1>5

(* The receipts some audit proves unbacked. *)
LEMMA UnbackedIs ==
  /\ IsFiniteSet(ProvenLeaks)
  /\ \A r \in ProvenLeaks : r.to \in Addresses /\ r.amount \in Nat
  <1>1. \A i \in AuditNames : IsFiniteSet({Audits[i][j] : j \in DOMAIN Audits[i]})
    <2> SUFFICES ASSUME NEW i \in AuditNames PROVE IsFiniteSet({Audits[i][j] : j \in DOMAIN Audits[i]})
      OBVIOUS
    <2>1. Audits[i] \in Seq(AuditRows)
      BY AuditsAssumption DEF AuditsAssumption
    <2>2. DOMAIN Audits[i] = 1..Len(Audits[i]) /\ Len(Audits[i]) \in Nat
      BY <2>1
    <2>3. IsFiniteSet(DOMAIN Audits[i])
      BY <2>2, FS_Interval
    <2> DEFINE A == Audits[i]
    <2> HIDE DEF A
    <2>4. IsFiniteSet({A[j] : j \in DOMAIN A})
      BY <2>3, ImageFinite DEF A
    <2> QED BY <2>4 DEF A
  <1>2. IsFiniteSet(AuditRows)
    <2> DEFINE f == [i \in AuditNames |-> {Audits[i][j] : j \in DOMAIN Audits[i]}]
    <2>1. AuditRows = UNION {f[i] : i \in AuditNames}
      BY DEF AuditRows
    <2>2. \A x \in {f[i] : i \in AuditNames} : IsFiniteSet(x)
      BY <1>1
    <2>3. IsFiniteSet(AuditNames)
      BY AuditsAssumption DEF AuditsAssumption
    <2> HIDE DEF f
    <2>4. IsFiniteSet({f[i] : i \in AuditNames})
      BY <2>3, ImageFinite
    <2> QED BY <2>1, <2>2, <2>4, FS_UNION
  <1>3. IsFiniteSet(ProvenLeaks)
    <2> DEFINE L == {x \in AuditRows : x.classification \in LeakClasses}
               h == [x \in L |-> x.receipt]
    <2>1. IsFiniteSet(L)
      BY <1>2, FS_Subset
    <2>2. ProvenLeaks = {h[x] : x \in L}
      BY DEF ProvenLeaks
    <2> HIDE DEF L, h
    <2>3. IsFiniteSet({h[x] : x \in L})
      BY <2>1, ImageFinite
    <2> QED BY <2>2, <2>3
  <1>4. \A row \in AuditRows : row.receipt.to \in Addresses /\ row.receipt.amount \in Nat
    BY AuditsAssumption DEF AuditsAssumption
  <1> QED BY <1>3, <1>4 DEF ProvenLeaks

(* A part of a sum of naturals. *)
LEMMA PartOfSum ==
  ASSUME NEW f, NEW S, IsFiniteSet(S), NEW R \in SUBSET S, \A x \in S : f[x] \in Nat
  PROVE  SumFunctionOnSet(f, R) \in Nat /\ SumFunctionOnSet(f, R) <= SumFunctionOnSet(f, S)
  <1>1. IsFiniteSet(R) /\ IsFiniteSet(S \ R) /\ S = R \cup (S \ R)
    BY FS_Subset
  <1> DEFINE T == S \ R
  <1>2. IsFiniteSet(T) /\ R \cap T = {} /\ \A x \in R \cup T : f[x] \in Int
    BY <1>1
  <1>3. S = R \cup T /\ \A x \in T : f[x] \in Nat
    BY <1>1
  <1> HIDE DEF T
  <1>4. SumFunctionOnSet(f, R \cup T) = SumFunctionOnSet(f, R) + SumFunctionOnSet(f, T)
    BY <1>1, <1>2, SumDisjoint
  <1>5. SumFunctionOnSet(f, R) \in Nat /\ SumFunctionOnSet(f, T) \in Nat
    BY <1>1, <1>2, <1>3, NatOfSum
  <1> QED BY <1>3, <1>4, <1>5

(* What the passed audits credit an address, each receipt once. *)
LEMMA CreditBounded ==
  ASSUME NEW list \in AuditLists, NEW a \in Addresses
  PROVE  Credit[list][a] \in Nat /\ LeakedTo(a) \in Nat /\ Credit[list][a] <= LeakedTo(a)
  <1> DEFINE S == {q \in Counted(list) : RowAt(list, q).receipt.to = a}
             U == {x \in ProvenLeaks : x.to = a}
             g == [p \in S |-> AmountAt(list, p)]
             f == [r \in U |-> r.amount]
             h == [p \in S |-> RowAt(list, p).receipt]
  <1>1. IsFiniteSet(S) /\ IsFiniteSet(U)
    <2>1. S \subseteq Places(list) /\ U \subseteq ProvenLeaks
      BY DEF Counted, LeakPlaces
    <2> HIDE DEF S, U
    <2> QED BY <2>1, PlacesAre, UnbackedIs, FS_Subset
  <1>2. Credit[list][a] = SumFunction(g) /\ LeakedTo(a) = SumFunction(f)
    BY DEF Credit, LeakedTo
  <1>3. \A p \in S : h[p] \in U
    <2> SUFFICES ASSUME NEW p \in S PROVE RowAt(list, p).receipt \in ProvenLeaks
      OBVIOUS
    <2>1. p \in Places(list) /\ RowAt(list, p).classification \in LeakClasses
      BY DEF Counted, LeakPlaces
    <2>2. RowAt(list, p) \in AuditRows
      BY <2>1, PlacesAre
    <2> QED BY <2>1, <2>2 DEF ProvenLeaks
  <1>4. \A p, q \in S : h[p] = h[q] => p = q
    BY CountedOnce
  <1>5. \A p \in S : g[p] = f[h[p]] /\ g[p] \in Nat
    <2>1. \A p \in S : AmountAt(list, p) \in Nat /\ AmountAt(list, p) = RowAt(list, p).receipt.amount
      BY PlacesAre DEF Counted, LeakPlaces, AmountAt
    <2> QED BY <1>3, <2>1
  <1>6. \A r \in U : f[r] \in Nat
    BY UnbackedIs
  <1>7. DOMAIN g = S /\ DOMAIN f = U
    OBVIOUS
  <1> HIDE DEF S, U, f, g, h
  <1>8. {h[p] : p \in S} \in SUBSET U
    BY <1>3
  <1>9. SumFunctionOnSet(f, {h[p] : p \in S}) = SumFunctionOnSet(g, S)
    BY <1>1, <1>4, <1>5, SumReindex
  <1>10. SumFunctionOnSet(f, {h[p] : p \in S}) \in Nat /\ SumFunctionOnSet(f, {h[p] : p \in S}) <= SumFunctionOnSet(f, U)
    BY <1>1, <1>6, <1>8, PartOfSum
  <1>11. SumFunction(g) = SumFunctionOnSet(g, S) /\ SumFunction(f) = SumFunctionOnSet(f, U)
    BY <1>7, SumOn
  <1>12. SumFunctionOnSet(f, U) \in Nat
    BY <1>1, <1>6, NatOfSum
  <1> QED BY <1>2, <1>9, <1>10, <1>11, <1>12

(* What a leak takes from a claim. *)
LEMMA LeakAmountIs ==
  ASSUME NEW credit \in Nat, NEW claim \in Nat, NEW prior \in Int
  PROVE  /\ LeakAmount(credit, claim, prior) \in Nat
         /\ LeakAmount(credit, claim, prior) <= credit
         /\ prior >= 0 /\ prior <= claim => prior + LeakAmount(credit, claim, prior) <= claim
  <1>1. CASE claim > prior
    BY <1>1 DEF LeakAmount
  <1>2. CASE ~(claim > prior)
    BY <1>2 DEF LeakAmount
  <1> QED BY <1>1, <1>2

(* The inventories' amounts. *)
LEMMA ExistingIs ==
  ASSUME InputTypes
  PROVE  /\ AmountsOf(Existing) /\ Existing = ExistingOf(inventory)
         /\ InventoriesValid => \A a \in DOMAIN Existing : StatedIn(inventory, a, Existing[a])
  <1> DEFINE D == UNION {Rows(i) : i \in Inventories}
             I(a) == {j \in Inventories : a \in Rows(j)}
             f(a) == [i \in I(a) |-> inventory[i][a].amount]
  <1>1. D \subseteq Addresses /\ DOMAIN Existing = D
    BY DEF Existing, Rows
  <1>2. \A a \in D : Existing[a] = SumFunction(f(a))
    BY DEF Existing
  <1>3. \A i \in Inventories : \A a \in Rows(i) : inventory[i][a].amount \in Nat /\ a \in Addresses
    <2> SUFFICES ASSUME NEW i \in Inventories, NEW a \in Rows(i) PROVE inventory[i][a].amount \in Nat /\ a \in Addresses
      OBVIOUS
    <2>1. inventory[i][a] \in ListedRows \cup {NoRow} /\ inventory[i][a] # NoRow /\ a \in Addresses
      BY DEF InputTypes, Rows
    <2> QED BY <2>1, PolicyConstants
  <1>4. ASSUME NEW a \in D
        PROVE  /\ IsFiniteSet(I(a)) /\ DOMAIN f(a) = I(a) /\ \A i \in I(a) : f(a)[i] = inventory[i][a].amount /\ f(a)[i] \in Nat
               /\ SumFunction(f(a)) \in Nat
    <2> DEFINE J == I(a)
               g == f(a)
    <2>1. IsFiniteSet(J) /\ J \subseteq Inventories
      BY PolicyConstants, FS_Subset
    <2>2. DOMAIN g = J /\ \A i \in J : g[i] = inventory[i][a].amount /\ g[i] \in Nat
      BY <1>3
    <2> HIDE DEF J, g
    <2>3. SumFunction(g) \in Nat
      BY <2>1, <2>2, NatTotal
    <2> QED BY <2>1, <2>2, <2>3 DEF J, g
  <1>5. AmountsOf(Existing)
    BY <1>1, <1>2, <1>4 DEF AmountsOf
  <1>6. Existing = ExistingOf(inventory)
    BY DEF Existing, ExistingOf, Rows, RowsOf
  <1>7. ASSUME InventoriesValid, NEW a \in D PROVE StatedIn(inventory, a, SumFunction(f(a)))
    <2> DEFINE g == f(a)
    <2>1. PICK k \in Inventories : a \in Rows(k)
      OBVIOUS
    <2>2. I(a) = {k}
      BY <1>7, <2>1 DEF InventoriesValid
    <2>3. DOMAIN g = {k} /\ g[k] = inventory[k][a].amount /\ g[k] \in Nat
      BY <1>3, <2>1, <2>2
    <2>4. g[k] <= inventory[k][a].claim /\ inventory[k][a] # NoRow
      BY <1>7, <2>1, <2>3 DEF InventoriesValid, Rows
    <2> HIDE DEF g
    <2>5. SumFunction(g) = SumFunctionOnSet(g, {k})
      BY <2>3, SumOn DEF SumFunction
    <2>6. SumFunctionOnSet(g, {k}) = g[k]
      <3>1. IsFiniteSet({}) /\ k \notin {} /\ {k} = {} \cup {k} /\ \A y \in {} \cup {k} : g[y] \in Int
        BY <2>3, FS_EmptySet
      <3>2. SumFunctionOnSet(g, {} \cup {k}) = SumFunctionOnSet(g, {}) + g[k]
        BY <3>1, SumAdd
      <3>3. SumFunctionOnSet(g, {}) = 0
        BY SumEmpty
      <3> QED BY <2>3, <3>1, <3>2, <3>3
    <2>7. SumFunction(g) <= inventory[k][a].claim
      BY <2>4, <2>5, <2>6
    <2> QED BY <2>1, <2>4, <2>7 DEF g, StatedIn
  <1> QED BY <1>1, <1>2, <1>5, <1>6, <1>7

(* The retained balances. *)
LEMMA RetainedIs ==
  ASSUME InputTypes
  PROVE  RetainedTable(Retained) /\ AmountsOf(Retained) /\ \A a \in DOMAIN Retained : Retained[a] <= Claim[a]
  <1>1. \A a \in Addresses : RetainedCap(a) \in Nat /\ RetainedCap(a) <= Balance[a]
    BY PolicyConstants DEF RetainedCap, InputTypes
  <1>2. /\ DOMAIN Retained \subseteq Addresses
        /\ \A a \in DOMAIN Retained : Retained[a] = RetainedCap(a) /\ RetainedCap(a) > 0
    BY DEF Retained
  <1> QED BY <1>1, <1>2, PolicyConstants DEF RetainedTable, AmountsOf

LEMMA RetainedAmounts == ASSUME NEW t, RetainedTable(t) PROVE AmountsOf(t)
  BY PolicyConstants DEF RetainedTable, AmountsOf

LEMMA LeakAmounts ==
  ASSUME NEW t, LeakTable(t)
  PROVE  AmountsOf(Caps(t)) /\ DOMAIN Caps(t) = DOMAIN t /\ \A a \in DOMAIN t : Caps(t)[a] = t[a].cap
  BY DEF LeakTable, AmountsOf, Caps

LEMMA GrossNat == Gross \in Nat
  BY PolicyConstants, NatTotal DEF Gross

-----------------------------------------------------------------------------
(* The steps *)

LEMMA PolicyInvInit == PolicyInit => PolicyInv
  <1> SUFFICES ASSUME PolicyInit PROVE PolicyInv
    OBVIOUS
  <1>1. InputTypes
    <2>1. 0 \in 0..MaxEdits
      BY PolicyConstants
    <2> QED BY <2>1 DEF PolicyInit, InputTypes
  <1> QED BY <1>1 DEF PolicyInit, PolicyInv, TablesSound, RunIs, SummarySound, StagesSound

(* The inputs are edited: what was written stays as it was. *)
LEMMA EditSteps ==
  ASSUME PolicyInv,
         \/ \E i \in Inventories, a \in Addresses, x \in ListedRows \cup {NoRow} : EditInventory(i, a, x)
         \/ \E a \in Addresses, x \in 0..MaxPaid : EditInitial(a, x)
  PROVE  PolicyInv'
  <1>1. /\ run' = run /\ leakCsv' = leakCsv /\ leakSummary' = leakSummary /\ retainedCsv' = retainedCsv
        /\ summary' = summary /\ stages' = stages
    BY DEF EditInventory, EditInitial, reports
  <1>2. InputTypes'
    <2>1. edits' \in 0..MaxEdits
      BY PolicyConstants DEF PolicyInv, InputTypes, EditInventory, EditInitial
    <2>2. ASSUME NEW i \in Inventories, NEW a \in Addresses, NEW x \in ListedRows \cup {NoRow}, EditInventory(i, a, x)
          PROVE  inventory' \in [Inventories -> [Addresses -> ListedRows \cup {NoRow}]] /\ initial' = initial
      BY <2>2 DEF PolicyInv, InputTypes, EditInventory
    <2>3. ASSUME NEW a \in Addresses, NEW x \in 0..MaxPaid, EditInitial(a, x)
          PROVE  initial' \in [Addresses -> 0..MaxPaid] /\ inventory' = inventory
      BY <2>3 DEF PolicyInv, InputTypes, EditInitial
    <2> QED BY <2>1, <2>2, <2>3 DEF PolicyInv, InputTypes
  <1>3. TablesSound' /\ RunIs' /\ SummarySound'
    BY <1>1 DEF PolicyInv, TablesSound, RunIs, SummarySound
  <1>4. StagesSound'
    BY <1>1 DEF PolicyInv, StagesSound
  <1> QED BY <1>2, <1>3, <1>4 DEF PolicyInv

(* What the leak program is about to write. *)
LEMMA LeakRowsTable ==
  ASSUME NEW list \in AuditLists, NEW prior, \A a \in Addresses : prior[a] \in Int
  PROVE  LeakTable(LeakRows(list, prior))
  <1> DEFINE t == LeakRows(list, prior)
             cap(a) == LeakAmount(Credit[list][a], Claim[a], prior[a])
  <1>1. \A a \in Addresses : cap(a) \in Nat /\ cap(a) <= LeakedTo(a)
    <2> SUFFICES ASSUME NEW a \in Addresses PROVE cap(a) \in Nat /\ cap(a) <= LeakedTo(a)
      OBVIOUS
    <2>1. Credit[list][a] \in Nat /\ Credit[list][a] <= LeakedTo(a) /\ LeakedTo(a) \in Nat
      BY CreditBounded
    <2>2. cap(a) \in Nat /\ cap(a) <= Credit[list][a]
      BY <2>1, PolicyConstants, LeakAmountIs
    <2> HIDE DEF cap
    <2> QED BY <2>1, <2>2
  <1>2. /\ DOMAIN t \subseteq Addresses
        /\ \A a \in DOMAIN t : t[a] = [credit |-> Credit[list][a], claim |-> Claim[a], prior |-> prior[a], cap |-> cap(a)]
    BY DEF LeakRows
  <1> HIDE DEF t, cap
  <1>3. \A a \in DOMAIN t : t[a].claim = Claim[a] /\ t[a].cap = cap(a)
    BY <1>2
  <1>4. LeakTable(t)
    BY <1>1, <1>2, <1>3 DEF LeakTable
  <1> QED BY <1>4 DEF t

(* The shape of the state of the program at work. *)
LEMMA RunShape ==
  ASSUME RunIs
  PROVE  /\ run.program \in {"leak", "leak summary"} =>
              \E rows : run = [program |-> run.program, rows |-> rows] /\ LeakTable(rows)
         /\ run.program \in {"non-issuance", "non-issuance summary"} =>
              \E retained, totals, withheld, inv :
                /\ run = [program |-> run.program, retained |-> retained, totals |-> totals, withheld |-> withheld, inventory |-> inv]
                /\ RetainedTable(retained)
                /\ ReportSound(totals, withheld, inv, retained, IF totals.hasLeak THEN leakCsv ELSE NoFile)
                /\ run.program = "non-issuance summary" => retainedCsv = retained
  <1>1. CASE run = Idle
    BY <1>1 DEF Idle
  <1>2. ASSUME NEW p \in {"leak", "leak summary"}, NEW rows, run = [program |-> p, rows |-> rows], LeakTable(rows)
        PROVE  run.program = p /\ run.program \in {"leak", "leak summary"}
               /\ run.program \notin {"non-issuance", "non-issuance summary"}
    BY <1>2
  <1>3. ASSUME NEW p \in {"non-issuance", "non-issuance summary"}, NEW retained, NEW totals, NEW withheld, NEW inv,
               run = [program |-> p, retained |-> retained, totals |-> totals, withheld |-> withheld, inventory |-> inv]
        PROVE  run.program = p /\ run.program \in {"non-issuance", "non-issuance summary"}
               /\ run.program \notin {"leak", "leak summary"}
    BY <1>3
  <1>4. CASE \E p \in {"leak", "leak summary"} : \E rows : run = [program |-> p, rows |-> rows] /\ LeakTable(rows)
    <2>1. PICK rows, p : run = [program |-> p, rows |-> rows] /\ LeakTable(rows) /\ p \in {"leak", "leak summary"}
      BY <1>4
    <2>2. /\ run.program = p /\ run.program \in {"leak", "leak summary"}
          /\ run.program \notin {"non-issuance", "non-issuance summary"}
      BY <1>2, <2>1
    <2> QED BY <2>1, <2>2
  <1>5. CASE \E p \in {"non-issuance", "non-issuance summary"} : \E retained, totals, withheld, inv :
               /\ run = [program |-> p, retained |-> retained, totals |-> totals, withheld |-> withheld, inventory |-> inv]
               /\ RetainedTable(retained)
               /\ ReportSound(totals, withheld, inv, retained, IF totals.hasLeak THEN leakCsv ELSE NoFile)
               /\ p = "non-issuance summary" => retainedCsv = retained
    <2>1. PICK p, retained, totals, withheld, inv :
               /\ run = [program |-> p, retained |-> retained, totals |-> totals, withheld |-> withheld, inventory |-> inv]
               /\ RetainedTable(retained)
               /\ ReportSound(totals, withheld, inv, retained, IF totals.hasLeak THEN leakCsv ELSE NoFile)
               /\ p = "non-issuance summary" => retainedCsv = retained
               /\ p \in {"non-issuance", "non-issuance summary"}
      BY <1>5
    <2>2. /\ run.program = p /\ run.program \in {"non-issuance", "non-issuance summary"}
          /\ run.program \notin {"leak", "leak summary"}
      BY <1>3, <2>1
    <2> QED BY <2>1, <2>2
  <1> QED BY <1>1, <1>4, <1>5 DEF RunIs

LEMMA LeakSteps ==
  ASSUME PolicyInv,
         \/ \E list \in AuditLists, b \in BOOLEAN : StartLeak(list, b)
         \/ \E b \in BOOLEAN : WriteLeakCsv(b)
         \/ WriteLeakSummary
  PROVE  PolicyInv'
  <1>1. ASSUME NEW list \in AuditLists, NEW b \in BOOLEAN, StartLeak(list, b) PROVE PolicyInv'
    <2> DEFINE prior == [a \in Addresses |-> At(Existing, a) + (IF b THEN At(retainedCsv, a) ELSE 0)]
    <2>1. /\ run = Idle /\ (b => retainedCsv # NoFile)
          /\ run' = [program |-> "leak", rows |-> LeakRows(list, prior)]
          /\ inventory' = inventory /\ initial' = initial /\ edits' = edits
          /\ leakCsv' = leakCsv /\ leakSummary' = leakSummary /\ retainedCsv' = retainedCsv
          /\ summary' = summary /\ stages' = stages
      BY <1>1 DEF StartLeak, inputs, reports
    <2>2. InputTypes /\ (b => RetainedTable(retainedCsv))
      BY <2>1 DEF PolicyInv, TablesSound
    <2>3. \A a \in Addresses : At(Existing, a) \in Nat /\ (b => At(retainedCsv, a) \in Nat)
      BY <2>2, ExistingIs, RetainedAmounts, AtNat
    <2>4. \A a \in Addresses : prior[a] \in Int
      BY <2>3
    <2> HIDE DEF prior
    <2>5. LeakTable(LeakRows(list, prior))
      BY <2>4, LeakRowsTable
    <2>6. RunIs'
      BY <2>1, <2>5 DEF RunIs
    <2> QED BY <2>1, <2>6 DEF PolicyInv, InputTypes, TablesSound, SummarySound, StagesSound
  <1>2. ASSUME NEW b \in BOOLEAN, WriteLeakCsv(b) PROVE PolicyInv'
    <2>1. /\ run.program = "leak" /\ leakCsv' = run.rows /\ run' = [run EXCEPT !.program = "leak summary"]
          /\ inventory' = inventory /\ initial' = initial /\ edits' = edits
          /\ leakSummary' = leakSummary /\ retainedCsv' = retainedCsv
          /\ summary' = summary /\ stages' = stages
      BY <1>2 DEF WriteLeakCsv, inputs
    <2>2. PICK rows : run = [program |-> "leak", rows |-> rows] /\ LeakTable(rows)
      BY <2>1, RunShape DEF PolicyInv
    <2>3. run' = [program |-> "leak summary", rows |-> rows] /\ leakCsv' = rows
      BY <2>1, <2>2
    <2>4. RunIs'
      BY <2>2, <2>3 DEF RunIs
    <2>5. TablesSound'
      BY <2>1, <2>2, <2>3 DEF PolicyInv, TablesSound
    <2> QED BY <2>1, <2>4, <2>5 DEF PolicyInv, InputTypes, SummarySound, StagesSound
  <1>3. ASSUME WriteLeakSummary PROVE PolicyInv'
    <2>1. /\ run' = Idle /\ inventory' = inventory /\ initial' = initial /\ edits' = edits
          /\ leakCsv' = leakCsv /\ retainedCsv' = retainedCsv /\ summary' = summary /\ stages' = stages
      BY <1>3 DEF WriteLeakSummary, inputs
    <2> QED BY <2>1 DEF PolicyInv, InputTypes, TablesSound, RunIs, SummarySound, StagesSound
  <1> QED BY <1>1, <1>2, <1>3

(* What the program is about to report: nothing is withheld twice from a     *)
(* claim, and the totals are those of the addresses.                         *)
LEMMA ReportIs ==
  ASSUME PolicyInv, InventoriesValid, DOMAIN Existing \cap DOMAIN Retained = {},
         NEW withLeak \in BOOLEAN, withLeak => LeakAccepted,
         NEW leak, leak = IF withLeak THEN Caps(leakCsv) ELSE <<>>,
         NEW combined, combined = SumFunction(Existing) + SumFunction(Retained) + SumFunction(leak), combined <= Gross,
         NEW withheld, withheld = [a \in Addresses |-> At(Existing, a) + At(Retained, a) + At(leak, a)],
         NEW totals, totals.hasLeak = withLeak, totals.not_issued = combined
  PROVE  ReportSound(totals, withheld, inventory, Retained, IF totals.hasLeak THEN leakCsv ELSE NoFile)
  <1> DEFINE E == [a \in Addresses |-> At(Existing, a)]
             R == [a \in Addresses |-> At(Retained, a)]
             L == [a \in Addresses |-> At(leak, a)]
             ER == [a \in Addresses |-> At(Existing, a) + At(Retained, a)]
  <1>1. InputTypes /\ AmountsOf(Existing) /\ AmountsOf(Retained) /\ RetainedTable(Retained)
        /\ (\A a \in DOMAIN Existing : StatedIn(inventory, a, Existing[a]))
        /\ (\A a \in DOMAIN Retained : Retained[a] <= Claim[a])
    BY ExistingIs, RetainedIs DEF PolicyInv
  <1>2. withLeak => leakCsv # NoFile /\ LeakTable(leakCsv)
    BY DEF LeakAccepted, PolicyInv, TablesSound
  <1>3. AmountsOf(leak)
    <2>1. CASE withLeak
      BY <1>2, <2>1, LeakAmounts
    <2>2. CASE ~withLeak
      BY <2>2 DEF AmountsOf
    <2> QED BY <2>1, <2>2
  <1>4. \A a \in Addresses : At(Existing, a) \in Nat /\ At(Retained, a) \in Nat /\ At(leak, a) \in Nat
    BY <1>1, <1>3, AtNat
  <1>5. \A a \in Addresses :
          \/ At(Existing, a) + At(Retained, a) <= Claim[a]
          \/ StatedIn(inventory, a, At(Existing, a) + At(Retained, a))
    <2> SUFFICES ASSUME NEW a \in Addresses
                 PROVE  \/ At(Existing, a) + At(Retained, a) <= Claim[a]
                        \/ StatedIn(inventory, a, At(Existing, a) + At(Retained, a))
      OBVIOUS
    <2>1. Claim[a] \in Nat
      BY PolicyConstants
    <2>2. CASE a \in DOMAIN Existing
      <3>1. a \notin DOMAIN Retained
        BY <2>2
      <3>2. At(Retained, a) = 0 /\ At(Existing, a) = Existing[a] /\ StatedIn(inventory, a, Existing[a])
        BY <1>1, <2>2, <3>1 DEF At
      <3>3. At(Existing, a) + At(Retained, a) = Existing[a]
        BY <1>4, <3>2
      <3> QED BY <3>2, <3>3
    <2>3. CASE a \notin DOMAIN Existing
      <3>1. At(Existing, a) = 0 /\ (At(Retained, a) = 0 \/ (a \in DOMAIN Retained /\ At(Retained, a) = Retained[a]))
        BY <2>3 DEF At
      <3>2. At(Retained, a) = 0 \/ At(Retained, a) <= Claim[a]
        BY <1>1, <3>1
      <3>3. At(Existing, a) = 0 /\ At(Retained, a) \in Nat
        BY <1>4, <3>1
      <3> QED BY <2>1, <3>2, <3>3
    <2> QED BY <2>2, <2>3
  <1>6. \A a \in Addresses :
          \/ At(Existing, a) + At(Retained, a) + At(leak, a) <= Claim[a]
          \/ StatedIn(inventory, a, At(Existing, a) + At(Retained, a) + At(leak, a))
    <2> SUFFICES ASSUME NEW a \in Addresses
                 PROVE  \/ At(Existing, a) + At(Retained, a) + At(leak, a) <= Claim[a]
                        \/ StatedIn(inventory, a, At(Existing, a) + At(Retained, a) + At(leak, a))
      OBVIOUS
    <2>1. CASE withLeak /\ a \in DOMAIN leakCsv
      <3> DEFINE row == leakCsv[a]
                 prior == At(Retained, a) + At(Existing, a)
      <3>1. At(leak, a) = row.cap
        BY <1>2, <2>1, LeakAmounts DEF At
      <3>2. row.prior = prior /\ row.cap = LeakAmount(row.credit, row.claim, row.prior) /\ row.cap > 0
        BY <2>1 DEF LeakAccepted
      <3>3. row.claim = Claim[a] /\ Claim[a] \in Nat
        BY <1>2, <2>1, PolicyConstants DEF LeakTable
      <3>4. prior \in Nat
        BY <1>4
      <3> HIDE DEF row
      <3>5. row.cap = LeakAmount(row.credit, Claim[a], prior)
        BY <3>2, <3>3
      <3>6. row.cap \in Nat /\ row.cap > 0
        BY <1>4, <3>1, <3>2
      <3>7. prior + row.cap <= Claim[a]
        <4> DEFINE left == IF Claim[a] > prior THEN Claim[a] - prior ELSE 0
        <4>1. row.cap = IF row.credit < left THEN row.credit ELSE left
          BY <3>5 DEF LeakAmount
        <4>2. left \in Nat /\ (left > 0 => prior + left = Claim[a])
          BY <3>3, <3>4
        <4> HIDE DEF left
        <4>3. row.cap <= left
          BY <3>6, <4>1, <4>2
        <4> QED BY <3>3, <3>4, <3>6, <4>2, <4>3
      <3> QED BY <1>4, <3>1, <3>6, <3>7
    <2>2. CASE ~(withLeak /\ a \in DOMAIN leakCsv)
      <3>1. At(leak, a) = 0
        <4>1. CASE withLeak
          BY <1>2, <2>2, <4>1, LeakAmounts DEF At
        <4>2. CASE ~withLeak
          BY <4>2 DEF At
        <4> QED BY <4>1, <4>2
      <3>2. At(Existing, a) + At(Retained, a) + At(leak, a) = At(Existing, a) + At(Retained, a)
        BY <1>4, <3>1
      <3> QED BY <1>5, <3>2
    <2> QED BY <2>1, <2>2
  <1>7. SumFunction(withheld) = combined /\ combined \in Nat
    <2>1. /\ SumFunction(E) = SumFunction(Existing) /\ SumFunction(R) = SumFunction(Retained) /\ SumFunction(L) = SumFunction(leak)
      BY <1>1, <1>3, SumAt
    <2>2. \A a \in Addresses : E[a] \in Nat /\ R[a] \in Nat /\ ER[a] = E[a] + R[a]
      BY <1>4
    <2> DEFINE W == withheld
    <2>3. \A a \in Addresses : ER[a] \in Nat /\ L[a] \in Nat /\ W[a] = ER[a] + L[a]
      BY <1>4
    <2>4. DOMAIN E = Addresses /\ DOMAIN R = Addresses /\ DOMAIN L = Addresses /\ DOMAIN ER = Addresses
          /\ DOMAIN W = Addresses
      OBVIOUS
    <2> HIDE DEF E, R, L, ER, W
    <2>5. SumFunction(ER) = SumFunction(E) + SumFunction(R) /\ SumFunction(E) \in Nat /\ SumFunction(R) \in Nat
      BY <2>2, <2>4, SumBoth
    <2>6. SumFunction(W) = SumFunction(ER) + SumFunction(L) /\ SumFunction(L) \in Nat
      BY <2>3, <2>4, SumBoth
    <2> QED BY <2>1, <2>5, <2>6 DEF W
  <1>8. /\ withheld \in [Addresses -> Nat]
        /\ \A a \in Addresses : withheld[a] <= Claim[a] \/ StatedIn(inventory, a, withheld[a])
    BY <1>4, <1>6
  <1>9. totals.not_issued \in 0..Gross /\ totals.not_issued = SumFunction(withheld)
    BY <1>7, GrossNat
  <1>10. \A a \in Addresses : At(Retained, a) <= withheld[a]
    BY <1>4
  <1>11. withLeak => \A a \in DOMAIN leakCsv : leakCsv[a].cap <= withheld[a]
    <2> SUFFICES ASSUME withLeak, NEW a \in DOMAIN leakCsv PROVE leakCsv[a].cap <= withheld[a]
      OBVIOUS
    <2>1. a \in Addresses /\ At(leak, a) = leakCsv[a].cap
      BY <1>2, LeakAmounts DEF LeakTable, At
    <2> QED BY <1>4, <2>1
  <1>12. CASE withLeak
    BY <1>2, <1>8, <1>9, <1>10, <1>11, <1>12 DEF ReportSound
  <1>13. CASE ~withLeak
    BY <1>8, <1>9, <1>10, <1>13 DEF ReportSound
  <1> QED BY <1>12, <1>13

LEMMA StartNonIssuanceStep ==
  ASSUME PolicyInv, NEW withLeak \in BOOLEAN, StartNonIssuance(withLeak)
  PROVE  PolicyInv'
  <1> DEFINE leak == IF withLeak THEN Caps(leakCsv) ELSE <<>>
             combined == SumFunction(Existing) + SumFunction(Retained) + SumFunction(leak)
             totals == [existing |-> SumFunction(Existing), retained |-> SumFunction(Retained), leak |-> SumFunction(leak),
                        hasLeak |-> withLeak, not_issued |-> combined, remaining |-> Gross - combined]
             withheld == [a \in Addresses |-> At(Existing, a) + At(Retained, a) + At(leak, a)]
  <1>1. /\ InventoriesValid /\ DOMAIN Existing \cap DOMAIN Retained = {} /\ (withLeak => LeakAccepted)
        /\ combined <= Gross
        /\ run' = [program |-> "non-issuance", retained |-> Retained, totals |-> totals, withheld |-> withheld,
                   inventory |-> inventory]
        /\ inventory' = inventory /\ initial' = initial /\ edits' = edits
        /\ leakCsv' = leakCsv /\ leakSummary' = leakSummary /\ retainedCsv' = retainedCsv
        /\ summary' = summary /\ stages' = stages
    BY DEF StartNonIssuance, inputs, reports
  <1>2. totals.hasLeak = withLeak /\ totals.not_issued = combined
    OBVIOUS
  <1> HIDE DEF totals
  <1>3. ReportSound(totals, withheld, inventory, Retained, IF totals.hasLeak THEN leakCsv ELSE NoFile)
    BY <1>1, <1>2, ReportIs
  <1>4. RetainedTable(Retained)
    BY RetainedIs DEF PolicyInv
  <1> HIDE DEF withheld
  <1>5. RunIs'
    <2>1. PICK R, I : R = Retained /\ I = inventory
      OBVIOUS
    <2>2. /\ run' = [program |-> "non-issuance", retained |-> R, totals |-> totals, withheld |-> withheld, inventory |-> I]
          /\ RetainedTable(R)
          /\ ReportSound(totals, withheld, I, R, IF totals.hasLeak THEN leakCsv' ELSE NoFile)
      BY <1>1, <1>3, <1>4, <2>1
    <2>3. PICK T, W : T = totals /\ W = withheld
      OBVIOUS
    <2>4. /\ run' = [program |-> "non-issuance", retained |-> R, totals |-> T, withheld |-> W, inventory |-> I]
          /\ RetainedTable(R)
          /\ ReportSound(T, W, I, R, IF T.hasLeak THEN leakCsv' ELSE NoFile)
      BY <2>2, <2>3
    <2> QED BY <2>4 DEF RunIs
  <1> QED BY <1>1, <1>5 DEF PolicyInv, InputTypes, TablesSound, SummarySound, StagesSound

WithProgram(x, q) == [x EXCEPT !.program = q]

IsReport(x, p, r, t, w, i) ==
  x = [program |-> p, retained |-> r, totals |-> t, withheld |-> w, inventory |-> i]

LEMMA NextProgram ==
  ASSUME NEW x, NEW p, NEW q, NEW r, NEW t, NEW w, NEW i, IsReport(x, p, r, t, w, i)
  PROVE  IsReport(WithProgram(x, q), q, r, t, w, i)
  BY DEF WithProgram, IsReport

LEMMA WriteSteps ==
  ASSUME PolicyInv,
         \/ \E b \in BOOLEAN : WriteRetainedCsv(b)
         \/ WriteSummary
         \/ Dies
  PROVE  PolicyInv'
  <1>1. ASSUME NEW b \in BOOLEAN, WriteRetainedCsv(b) PROVE PolicyInv'
    <2>1. /\ run.program = "non-issuance" /\ retainedCsv' = run.retained
          /\ run' = [run EXCEPT !.program = "non-issuance summary"]
          /\ inventory' = inventory /\ initial' = initial /\ edits' = edits
          /\ leakCsv' = leakCsv /\ leakSummary' = leakSummary
          /\ summary' = summary /\ stages' = stages
      BY <1>1 DEF WriteRetainedCsv, inputs
    <2>2. PICK retained, totals, withheld, inv :
            /\ run = [program |-> run.program, retained |-> retained, totals |-> totals, withheld |-> withheld, inventory |-> inv]
            /\ RetainedTable(retained)
            /\ ReportSound(totals, withheld, inv, retained, IF totals.hasLeak THEN leakCsv ELSE NoFile)
      BY <2>1, RunShape DEF PolicyInv
    <2>0. PICK program : program = run.program
      OBVIOUS
    <2>2a. IsReport(run, program, retained, totals, withheld, inv)
      BY <2>0, <2>2 DEF IsReport
    <2>2b. run.retained = retained
      BY <2>2a DEF IsReport
    <2>2c. IsReport(WithProgram(run, "non-issuance summary"), "non-issuance summary", retained, totals, withheld, inv)
      BY <2>2a, NextProgram
    <2>2d. run' = WithProgram(run, "non-issuance summary")
      BY <2>1 DEF WithProgram
    <2>3. /\ run' = [program |-> "non-issuance summary", retained |-> retained, totals |-> totals, withheld |-> withheld, inventory |-> inv]
          /\ retainedCsv' = retained
      BY <2>1, <2>2b, <2>2c, <2>2d DEF IsReport
    <2>4. RunIs'
      BY <2>1, <2>2, <2>3 DEF RunIs
    <2>5. TablesSound'
      BY <2>1, <2>2, <2>3 DEF PolicyInv, TablesSound
    <2> QED BY <2>1, <2>4, <2>5 DEF PolicyInv, InputTypes, SummarySound, StagesSound
  <1>2. ASSUME WriteSummary PROVE PolicyInv'
    <2>1. /\ run.program = "non-issuance summary" /\ run' = Idle
          /\ summary' = [totals |-> run.totals, csv |-> retainedCsv, rows |-> Cardinality(DOMAIN run.retained),
                         leak |-> IF run.totals.hasLeak THEN leakCsv ELSE NoFile,
                         withheld |-> run.withheld, inventory |-> run.inventory]
          /\ inventory' = inventory /\ initial' = initial /\ edits' = edits
          /\ leakCsv' = leakCsv /\ leakSummary' = leakSummary /\ retainedCsv' = retainedCsv
          /\ stages' = stages
      BY <1>2 DEF WriteSummary, inputs
    <2>2. PICK retained, totals, withheld, inv :
            /\ run = [program |-> run.program, retained |-> retained, totals |-> totals, withheld |-> withheld, inventory |-> inv]
            /\ RetainedTable(retained)
            /\ ReportSound(totals, withheld, inv, retained, IF totals.hasLeak THEN leakCsv ELSE NoFile)
            /\ run.program = "non-issuance summary" => retainedCsv = retained
      BY <2>1, RunShape DEF PolicyInv
    <2>0. PICK program : program = run.program
      OBVIOUS
    <2>2a. run = [program |-> program, retained |-> retained, totals |-> totals, withheld |-> withheld, inventory |-> inv]
      BY <2>0, <2>2
    <2>3. run.totals = totals /\ run.withheld = withheld /\ run.inventory = inv
      BY <2>2a
    <2>4. PICK leak : leak = IF totals.hasLeak THEN leakCsv ELSE NoFile
      OBVIOUS
    <2>5. summary'.totals = totals /\ summary'.withheld = withheld /\ summary'.inventory = inv /\ summary'.csv = retained /\ summary'.leak = leak
      BY <2>1, <2>2, <2>3, <2>4
    <2>6. ReportSound(totals, withheld, inv, retained, leak)
      BY <2>2, <2>4
    <2>7. SummarySound'
      BY <2>5, <2>6 DEF SummarySound
    <2>8. RunIs'
      BY <2>1 DEF RunIs
    <2> QED BY <2>1, <2>7, <2>8 DEF PolicyInv, InputTypes, TablesSound, StagesSound
  <1>3. ASSUME Dies PROVE PolicyInv'
    <2>1. /\ run' = Idle /\ inventory' = inventory /\ initial' = initial /\ edits' = edits
          /\ leakCsv' = leakCsv /\ retainedCsv' = retainedCsv /\ summary' = summary /\ stages' = stages
      BY <1>3 DEF Dies, inputs, reports
    <2> QED BY <2>1 DEF PolicyInv, InputTypes, TablesSound, RunIs, SummarySound, StagesSound
  <1> QED BY <1>1, <1>2, <1>3

LEMMA CompileStep ==
  ASSUME PolicyInv, CompileStages
  PROVE  PolicyInv'
  <1>1. /\ retainedCsv # NoFile
        /\ inventory' = inventory /\ initial' = initial /\ edits' = edits /\ run' = run
        /\ leakCsv' = leakCsv /\ leakSummary' = leakSummary /\ retainedCsv' = retainedCsv
        /\ summary' = summary
    BY DEF CompileStages, inputs, reports
  <1>2. PICK s : s = stages'
    OBVIOUS
  <1>3. /\ s.inventory = inventory /\ s.retained = retainedCsv /\ s.leak = leakCsv
        /\ s.existing = [a \in Addresses |-> At(Existing, a)]
        /\ s.historical = [a \in Addresses |-> Historical(a)]
        /\ s.existingTotal = SumFunction(s.existing) /\ s.historicalTotal = SumFunction(s.historical)
    BY <1>2 DEF CompileStages
  <1>4. /\ Existing = ExistingOf(inventory)
        /\ \A a : Historical(a) = HistoricalOf(retainedCsv, leakCsv, a)
    BY ExistingIs DEF PolicyInv, Historical, HistoricalOf
  <1>5. RetainedTable(retainedCsv)
    BY <1>1 DEF PolicyInv, TablesSound
  <1>6. StagesSound'
    BY <1>2, <1>3, <1>4, <1>5 DEF StagesSound
  <1>7. RunIs'
    BY <1>1 DEF PolicyInv, RunIs
  <1> QED BY <1>1, <1>6, <1>7 DEF PolicyInv, InputTypes, TablesSound, SummarySound

LEMMA PolicyInvNext == PolicyInv /\ [PolicyNext]_policyVars => PolicyInv'
  <1> SUFFICES ASSUME PolicyInv, [PolicyNext]_policyVars PROVE PolicyInv'
    OBVIOUS
  <1>1. CASE UNCHANGED policyVars
    <2>1. /\ inventory' = inventory /\ initial' = initial /\ edits' = edits /\ run' = run
          /\ leakCsv' = leakCsv /\ leakSummary' = leakSummary /\ retainedCsv' = retainedCsv
          /\ summary' = summary /\ stages' = stages
      BY <1>1 DEF policyVars, inputs, reports
    <2>2. RunIs' /\ StagesSound'
      BY <2>1 DEF PolicyInv, RunIs, StagesSound
    <2> QED BY <2>1, <2>2 DEF PolicyInv, InputTypes, TablesSound, SummarySound
  <1> QED BY <1>1, EditSteps, LeakSteps, StartNonIssuanceStep, WriteSteps, CompileStep DEF PolicyNext

(* Every table and every report is sound, whatever is edited and wherever a   *)
(* program dies: an inductive invariant for all inventories, claims and leaks.*)
THEOREM NonIssuanceInvariant == PolicySpec => []PolicyInv
  BY PolicyInvInit, PolicyInvNext, PTL DEF PolicySpec

-----------------------------------------------------------------------------
(* The properties *)

LEMMA WithheldFits == ASSUME PolicyInv PROVE WithheldWithinClaim
  BY DEF PolicyInv, SummarySound, ReportSound, StatedIn, WithheldWithinClaim

LEMMA LeakCounted == ASSUME PolicyInv PROVE LeakOnce
  BY DEF PolicyInv, SummarySound, ReportSound, LeakTable, LeakOnce

LEMMA PolicyTypesHold == ASSUME PolicyInv PROVE PolicyTypeOK
  BY DEF PolicyInv, InputTypes, TablesSound, RetainedTable, SummarySound, ReportSound, PolicyTypeOK

LEMMA Verified == ASSUME PolicyInv PROVE VerifiedDescribesTables
  <1> SUFFICES ASSUME VerifyNonIssuance
               PROVE  /\ \A a \in Addresses : At(retainedCsv, a) <= summary.withheld[a]
                      /\ summary.totals.not_issued = SumFunction(summary.withheld)
                      /\ summary.totals.hasLeak => \A a \in DOMAIN leakCsv : leakCsv[a].cap <= summary.withheld[a]
    BY PolicyTypesHold DEF VerifiedDescribesTables
  <1>1. summary # NoFile /\ retainedCsv = summary.csv /\ (summary.totals.hasLeak => leakCsv = summary.leak)
    BY DEF VerifyNonIssuance, RetainedConfirmed, LeakConfirmed
  <1>2. ReportSound(summary.totals, summary.withheld, summary.inventory, summary.csv, summary.leak)
    BY <1>1 DEF PolicyInv, SummarySound
  <1> QED BY <1>1, <1>2 DEF ReportSound

(* When the sources are the ones the stages were compiled from. *)
LEMMA StagesAre ==
  ASSUME PolicyInv, TotalsAgree
  PROVE  /\ stages.existing = [a \in Addresses |-> At(Existing, a)]
         /\ stages.historical = [a \in Addresses |-> Historical(a)]
         /\ stages.existingTotal = SumFunction(stages.existing)
         /\ stages.historicalTotal = SumFunction(stages.historical)
         /\ \A a \in Addresses :
              /\ stages.existing[a] \in Nat /\ stages.historical[a] \in Nat
              /\ WithheldNow(a) = stages.existing[a] + stages.historical[a]
  <1>1. /\ stages # NoFile
        /\ inventory = stages.inventory /\ retainedCsv = stages.retained /\ leakCsv = stages.leak
    BY DEF TotalsAgree, SourcesUnchanged
  <1>2. Existing = ExistingOf(inventory) /\ AmountsOf(Existing)
    BY ExistingIs DEF PolicyInv
  <1>3. \A a : Historical(a) = HistoricalOf(retainedCsv, leakCsv, a)
    BY DEF Historical, HistoricalOf
  <1>4. RetainedTable(retainedCsv) /\ (leakCsv # NoFile => LeakTable(leakCsv))
    BY <1>1 DEF PolicyInv, StagesSound, TablesSound
  <1>5. \A a \in Addresses : At(Existing, a) \in Nat /\ At(retainedCsv, a) \in Nat
           /\ (leakCsv # NoFile => At(Caps(leakCsv), a) \in Nat)
    BY <1>2, <1>4, AtNat, RetainedAmounts, LeakAmounts
  <1>6. \A a \in Addresses : Historical(a) \in Nat
    BY <1>5 DEF Historical
  <1>7. /\ stages.existing = [a \in Addresses |-> At(ExistingOf(inventory), a)]
        /\ stages.historical = [a \in Addresses |-> HistoricalOf(retainedCsv, leakCsv, a)]
        /\ stages.existingTotal = SumFunction(stages.existing)
        /\ stages.historicalTotal = SumFunction(stages.historical)
    BY <1>1 DEF PolicyInv, StagesSound
  <1>8. /\ stages.existing = [a \in Addresses |-> At(Existing, a)]
        /\ stages.historical = [a \in Addresses |-> Historical(a)]
    BY <1>2, <1>3, <1>7
  <1>9. \A a \in Addresses : stages.existing[a] = At(Existing, a) /\ stages.historical[a] = Historical(a)
    BY <1>8
  <1> QED BY <1>5, <1>6, <1>7, <1>8, <1>9 DEF WithheldNow

(* A row of the stages. *)
LEMMA RowIs ==
  ASSUME PolicyInv, TotalsAgree, NEW plan \in Plans, RowsPass(plan), NEW a \in Qualified
  PROVE  LET row == StageRow(a, plan.offset[a])
         IN  /\ a \in Addresses
             /\ row.offset = plan.offset[a] /\ row.offset \in Nat
             /\ row.contract \in Nat /\ (a \in Wallets => row.contract = 0)
             /\ row.allocation \in Nat
             /\ row.allocation = Allocated(a) - WithheldNow(a) - row.offset - row.contract
             /\ Allocated(a) \in Nat /\ WithheldNow(a) \in Nat
             /\ WithheldNow(a) = row.existing + row.historical
             /\ row.existing \in Nat /\ row.historical \in Nat
             /\ RowAccepted(a, row, plan.stage[a])
  <1> DEFINE row == StageRow(a, plan.offset[a])
             left == Allocated(a) - stages.existing[a] - stages.historical[a] - plan.offset[a]
             contract == IF a \in Wallets \cup Multisigs THEN 0 ELSE left
  <1>1. a \in Addresses /\ Claim[a] \in Nat /\ Wone[a] \in Nat
    BY PolicyConstants DEF Qualified
  <1>2. Allocated(a) \in Nat
    BY <1>1 DEF Allocated
  <1>3. /\ stages.existing[a] \in Nat /\ stages.historical[a] \in Nat
        /\ WithheldNow(a) = stages.existing[a] + stages.historical[a]
    BY <1>1, StagesAre
  <1>4. Reserve \in Nat
    BY PolicyConstants, NatTotal DEF Reserve
  <1>5. plan.offset[a] \in Nat
    <2>1. plan.offset \in [Qualified -> 0..Reserve]
      BY DEF Plans
    <2>2. plan.offset[a] \in 0..Reserve
      BY <2>1
    <2> QED BY <1>4, <2>2
  <1>6. row = [existing |-> stages.existing[a], historical |-> stages.historical[a], offset |-> plan.offset[a],
               contract |-> contract, allocation |-> left - contract]
    BY DEF StageRow
  <1>7. RowAccepted(a, row, plan.stage[a])
    BY DEF RowsPass
  <1>8. left \in Int /\ contract \in Int
    BY <1>2, <1>3, <1>5
  <1>9. a \in Wallets => contract = 0
    OBVIOUS
  <1> HIDE DEF row, contract
  <1>10. /\ row.existing = stages.existing[a] /\ row.historical = stages.historical[a]
         /\ row.offset = plan.offset[a] /\ row.contract = contract /\ row.allocation = left - contract
    BY <1>6
  <1>11. row.contract >= 0 /\ row.allocation >= 0
    BY <1>7 DEF RowAccepted
  <1>12. row.contract \in Nat /\ row.allocation \in Nat
    BY <1>8, <1>10, <1>11
  <1>13. row.allocation = Allocated(a) - WithheldNow(a) - row.offset - row.contract
    BY <1>2, <1>3, <1>5, <1>8, <1>10
  <1>14. WithheldNow(a) \in Nat /\ WithheldNow(a) = row.existing + row.historical
    BY <1>3, <1>10
  <1> QED BY <1>1, <1>2, <1>3, <1>5, <1>7, <1>9, <1>10, <1>12, <1>13, <1>14 DEF row

(* A sum over some of the addresses, with zero for the others. *)
LEMMA SumPadded ==
  ASSUME NEW S \in SUBSET Addresses, NEW f, DOMAIN f = S, \A a \in S : f[a] \in Int,
         NEW g, DOMAIN g = Addresses, \A a \in Addresses : g[a] = IF a \in S THEN f[a] ELSE 0
  PROVE  SumFunction(g) = SumFunction(f) /\ SumFunction(f) \in Int
  <1>1. IsFiniteSet(Addresses) /\ IsFiniteSet(S)
    BY PolicyConstants, FS_Subset
  <1>2. \A a \in Addresses : g[a] \in Int
    OBVIOUS
  <1>3. \A a \in Addresses \ S : g[a] = 0
    OBVIOUS
  <1>4. SumFunctionOnSet(g, Addresses) = SumFunctionOnSet(g, S)
    BY <1>1, <1>2, <1>3, SumZeros
  <1>5. \A a \in S : f[a] = g[a] /\ f[a] \in Int
    OBVIOUS
  <1>6. SumFunctionOnSet(f, S) = SumFunctionOnSet(g, S)
    BY <1>1, <1>5, SumSame
  <1>7. SumFunction(f) = SumFunctionOnSet(f, S) /\ SumFunction(g) = SumFunctionOnSet(g, Addresses)
    BY SumOn
  <1>8. SumFunctionOnSet(f, S) \in Int
    BY <1>1, <1>5, IntOfSum
  <1> QED BY <1>4, <1>6, <1>7, <1>8

(* The sum of two functions of the addresses, the terms integers. *)
LEMMA SumTwo ==
  ASSUME NEW f, NEW g, NEW h, DOMAIN f = Addresses, DOMAIN g = Addresses, DOMAIN h = Addresses,
         \A a \in Addresses : f[a] \in Int /\ g[a] \in Int /\ h[a] = f[a] + g[a]
  PROVE  SumFunction(h) = SumFunction(f) + SumFunction(g) /\ SumFunction(f) \in Int /\ SumFunction(g) \in Int
  <1>1. IsFiniteSet(Addresses)
    BY PolicyConstants
  <1>2. /\ SumFunctionOnSet(h, Addresses) = SumFunctionOnSet(f, Addresses) + SumFunctionOnSet(g, Addresses)
        /\ SumFunctionOnSet(f, Addresses) \in Int /\ SumFunctionOnSet(g, Addresses) \in Int
    BY <1>1, SumPlus
  <1>3. /\ SumFunction(f) = SumFunctionOnSet(f, Addresses)
        /\ SumFunction(g) = SumFunctionOnSet(g, Addresses)
        /\ SumFunction(h) = SumFunctionOnSet(h, Addresses)
    BY SumOn
  <1> QED BY <1>2, <1>3

(* Every claim and every issued WONE is withheld, offset, frozen, in one of  *)
(* the two issued stages or held by the others. The sums are taken over all  *)
(* addresses, with zero where a part does not apply.                         *)
LEMMA PolicyAddsUp == ASSUME PolicyInv PROVE PolicyCloses
  <1> SUFFICES ASSUME TotalsAgree, NEW plan \in Plans, RowsPass(plan)
               PROVE  LET issued == {a \in Qualified : plan.stage[a] \in {"initial", "next_stage"}}
                          left(a) == Allocated(a) - WithheldNow(a)
                                       - (IF a \in Qualified THEN plan.offset[a] + StageRow(a, plan.offset[a]).contract ELSE 0)
                          held == SumFunction([a \in Addresses \ issued |-> left(a)])
                      IN  \A deferred \in 0..Gross : StagesClose(plan, deferred) => deferred = held
    BY DEF PolicyCloses
  <1> DEFINE row(a) == StageRow(a, plan.offset[a])
             issued == {a \in Qualified : plan.stage[a] \in {"initial", "next_stage"}}
             left(a) == Allocated(a) - WithheldNow(a)
                          - (IF a \in Qualified THEN plan.offset[a] + StageRow(a, plan.offset[a]).contract ELSE 0)
             held == SumFunction([a \in Addresses \ issued |-> left(a)])
             In(k) == {x \in Qualified : plan.stage[x] = k}
             F(k) == [a \in In(k) |-> row(a).allocation]
             FI == F("initial")
             FN == F("next_stage")
             FH == [a \in Addresses \ issued |-> left(a)]
             FC == [a \in Qualified |-> row(a).contract]
             FO == plan.offset
             GI == [a \in Addresses |-> IF a \in In("initial") THEN row(a).allocation ELSE 0]
             GN == [a \in Addresses |-> IF a \in In("next_stage") THEN row(a).allocation ELSE 0]
             GH == [a \in Addresses |-> IF a \in Addresses \ issued THEN left(a) ELSE 0]
             GC == [a \in Addresses |-> IF a \in Qualified THEN row(a).contract ELSE 0]
             GO == [a \in Addresses |-> IF a \in Qualified THEN plan.offset[a] ELSE 0]
             S1 == [a \in Addresses |-> GI[a] + GN[a]]
             S2 == [a \in Addresses |-> S1[a] + GH[a]]
             S3 == [a \in Addresses |-> S2[a] + GC[a]]
             S4 == [a \in Addresses |-> S3[a] + GO[a]]
             S5 == [a \in Addresses |-> S4[a] + stages.existing[a]]
             S6 == [a \in Addresses |-> S5[a] + stages.historical[a]]
  <1>1. \A a \in Qualified :
          /\ a \in Addresses /\ row(a).offset = plan.offset[a] /\ plan.offset[a] \in Nat
          /\ row(a).contract \in Nat /\ row(a).allocation \in Nat
          /\ row(a).allocation = Allocated(a) - WithheldNow(a) - plan.offset[a] - row(a).contract
    BY RowIs
  <1>2. \A a \in Addresses :
          /\ stages.existing[a] \in Nat /\ stages.historical[a] \in Nat
          /\ WithheldNow(a) = stages.existing[a] + stages.historical[a]
          /\ Claim[a] \in Nat /\ Wone[a] \in Nat /\ Allocated(a) = Claim[a] + Wone[a]
    BY StagesAre, PolicyConstants DEF Allocated
  <1>3. \A a \in Addresses : left(a) \in Int /\ WithheldNow(a) \in Int /\ Allocated(a) \in Int
    BY <1>1, <1>2
  <1>4. \A a \in Addresses : GI[a] \in Int /\ GN[a] \in Int /\ GH[a] \in Int /\ GC[a] \in Int /\ GO[a] \in Int
    BY <1>1, <1>3
  <1>5. \A a \in Addresses : S6[a] = Claim[a] + Wone[a]
    <2> SUFFICES ASSUME NEW a \in Addresses
                 PROVE  GI[a] + GN[a] + GH[a] + GC[a] + GO[a] + stages.existing[a] + stages.historical[a] = Claim[a] + Wone[a]
      OBVIOUS
    <2>1. CASE a \in In("initial")
      <3>1. a \in Qualified /\ a \in issued /\ a \notin In("next_stage")
        BY <2>1
      <3>2. GI[a] = row(a).allocation /\ GN[a] = 0 /\ GH[a] = 0 /\ GC[a] = row(a).contract /\ GO[a] = plan.offset[a]
        BY <2>1, <3>1
      <3> HIDE DEF GI, GN, GH, GC, GO, row
      <3> QED BY <1>1, <1>2, <3>1, <3>2
    <2>2. CASE a \in In("next_stage")
      <3>1. a \in Qualified /\ a \in issued /\ a \notin In("initial")
        BY <2>2
      <3>2. GI[a] = 0 /\ GN[a] = row(a).allocation /\ GH[a] = 0 /\ GC[a] = row(a).contract /\ GO[a] = plan.offset[a]
        BY <2>2, <3>1
      <3> HIDE DEF GI, GN, GH, GC, GO, row
      <3> QED BY <1>1, <1>2, <3>1, <3>2
    <2>3. CASE a \in Qualified \ issued
      <3>1. a \notin In("initial") /\ a \notin In("next_stage")
        BY <2>3
      <3>2. /\ GI[a] = 0 /\ GN[a] = 0 /\ GC[a] = row(a).contract /\ GO[a] = plan.offset[a]
            /\ GH[a] = Allocated(a) - WithheldNow(a) - (plan.offset[a] + row(a).contract)
        BY <2>3, <3>1
      <3> HIDE DEF GI, GN, GH, GC, GO, row
      <3> QED BY <1>1, <1>2, <2>3, <3>2
    <2>4. CASE a \notin Qualified
      <3>1. GI[a] = 0 /\ GN[a] = 0 /\ GC[a] = 0 /\ GO[a] = 0 /\ GH[a] = Allocated(a) - WithheldNow(a) - 0
        BY <2>4
      <3> HIDE DEF GI, GN, GH, GC, GO
      <3> QED BY <1>2, <3>1
    <2> QED BY <2>1, <2>2, <2>3, <2>4
  <1>6. /\ DOMAIN FI = In("initial") /\ DOMAIN FN = In("next_stage") /\ DOMAIN FH = Addresses \ issued
        /\ DOMAIN FC = Qualified /\ DOMAIN FO = Qualified
        /\ In("initial") \in SUBSET Addresses /\ In("next_stage") \in SUBSET Addresses /\ Qualified \in SUBSET Addresses
        /\ Addresses \ issued \in SUBSET Addresses
    BY DEF Plans, Qualified
  <1>7. /\ \A a \in In("initial") : FI[a] \in Int
        /\ \A a \in In("next_stage") : FN[a] \in Int
        /\ \A a \in Addresses \ issued : FH[a] \in Int
        /\ \A a \in Qualified : FC[a] \in Int /\ FO[a] \in Int
    BY <1>1, <1>3
  <1>8. /\ \A a \in Addresses : GI[a] = IF a \in In("initial") THEN FI[a] ELSE 0
        /\ \A a \in Addresses : GN[a] = IF a \in In("next_stage") THEN FN[a] ELSE 0
        /\ \A a \in Addresses : GH[a] = IF a \in Addresses \ issued THEN FH[a] ELSE 0
        /\ \A a \in Addresses : GC[a] = IF a \in Qualified THEN FC[a] ELSE 0
        /\ \A a \in Addresses : GO[a] = IF a \in Qualified THEN FO[a] ELSE 0
    OBVIOUS
  <1>9. /\ DOMAIN GI = Addresses /\ DOMAIN GN = Addresses /\ DOMAIN GH = Addresses /\ DOMAIN GC = Addresses /\ DOMAIN GO = Addresses
        /\ DOMAIN S1 = Addresses /\ DOMAIN S2 = Addresses /\ DOMAIN S3 = Addresses
        /\ DOMAIN S4 = Addresses /\ DOMAIN S5 = Addresses /\ DOMAIN S6 = Addresses
    OBVIOUS
  <1>10. \A a \in Addresses :
           /\ S1[a] = GI[a] + GN[a] /\ S2[a] = S1[a] + GH[a] /\ S3[a] = S2[a] + GC[a] /\ S4[a] = S3[a] + GO[a]
           /\ S5[a] = S4[a] + stages.existing[a] /\ S6[a] = S5[a] + stages.historical[a]
    OBVIOUS
  <1>11. /\ Staged(plan, "initial") = SumFunction(FI) /\ Staged(plan, "next_stage") = SumFunction(FN)
         /\ Frozen(plan) = SumFunction(FC) /\ SumFunction(FO) = Reserve /\ held = SumFunction(FH)
    BY DEF Staged, Frozen, RowsPass
  <1>12. /\ DOMAIN stages.existing = Addresses /\ DOMAIN stages.historical = Addresses
         /\ stages.existingTotal = SumFunction(stages.existing) /\ stages.historicalTotal = SumFunction(stages.historical)
    BY StagesAre
  <1> HIDE DEF F, FI, FN, FH, FC, FO, GI, GN, GH, GC, GO, S1, S2, S3, S4, S5, S6, In, issued, row, left, held
  <1>13. /\ SumFunction(GI) = SumFunction(FI) /\ SumFunction(GN) = SumFunction(FN)
    BY <1>6, <1>7, <1>8, <1>9, SumPadded
  <1>14. /\ SumFunction(GH) = SumFunction(FH)
    BY <1>6, <1>7, <1>8, <1>9, SumPadded
  <1>15. /\ SumFunction(GC) = SumFunction(FC) /\ SumFunction(GO) = SumFunction(FO)
    BY <1>6, <1>7, <1>8, <1>9, SumPadded
  <1>16. \A a \in Addresses : S1[a] \in Int /\ S2[a] \in Int /\ S3[a] \in Int /\ S4[a] \in Int /\ S5[a] \in Int
    BY <1>2, <1>4, <1>10
  <1>17. /\ SumFunction(S1) = SumFunction(GI) + SumFunction(GN) /\ SumFunction(GI) \in Int /\ SumFunction(GN) \in Int
    <2>1. DOMAIN GI = Addresses /\ DOMAIN GN = Addresses /\ DOMAIN S1 = Addresses
      BY <1>9
    <2>2. \A a \in Addresses : GI[a] \in Int /\ GN[a] \in Int /\ S1[a] = GI[a] + GN[a]
      BY <1>4, <1>10, <1>16
    <2> QED BY <2>1, <2>2, SumTwo
  <1>18. /\ SumFunction(S2) = SumFunction(S1) + SumFunction(GH) /\ SumFunction(GH) \in Int
    <2>1. DOMAIN S1 = Addresses /\ DOMAIN GH = Addresses /\ DOMAIN S2 = Addresses
      BY <1>9
    <2>2. \A a \in Addresses : S1[a] \in Int /\ GH[a] \in Int /\ S2[a] = S1[a] + GH[a]
      BY <1>4, <1>10, <1>16
    <2> QED BY <2>1, <2>2, SumTwo
  <1>19. /\ SumFunction(S3) = SumFunction(S2) + SumFunction(GC) /\ SumFunction(GC) \in Int
    <2>1. DOMAIN S2 = Addresses /\ DOMAIN GC = Addresses /\ DOMAIN S3 = Addresses
      BY <1>9
    <2>2. \A a \in Addresses : S2[a] \in Int /\ GC[a] \in Int /\ S3[a] = S2[a] + GC[a]
      BY <1>4, <1>10, <1>16
    <2> QED BY <2>1, <2>2, SumTwo
  <1>20. /\ SumFunction(S4) = SumFunction(S3) + SumFunction(GO) /\ SumFunction(GO) \in Int
    <2>1. DOMAIN S3 = Addresses /\ DOMAIN GO = Addresses /\ DOMAIN S4 = Addresses
      BY <1>9
    <2>2. \A a \in Addresses : S3[a] \in Int /\ GO[a] \in Int /\ S4[a] = S3[a] + GO[a]
      BY <1>4, <1>10, <1>16
    <2> QED BY <2>1, <2>2, SumTwo
  <1>21. /\ SumFunction(S5) = SumFunction(S4) + stages.existingTotal /\ stages.existingTotal \in Int
    <2>0. PICK g : g = stages.existing
      OBVIOUS
    <2>1. DOMAIN S4 = Addresses /\ DOMAIN g = Addresses /\ DOMAIN S5 = Addresses
      BY <1>9, <1>12, <2>0
    <2>2. \A a \in Addresses : S4[a] \in Int /\ g[a] \in Int /\ S5[a] = S4[a] + g[a]
      BY <1>4, <1>10, <1>16, <1>2, <2>0
    <2>3. SumFunction(S5) = SumFunction(S4) + SumFunction(g) /\ SumFunction(g) \in Int
      BY <2>1, <2>2, SumTwo
    <2> QED BY <2>0, <2>3, <1>12
  <1>22. /\ SumFunction(S6) = SumFunction(S5) + stages.historicalTotal /\ stages.historicalTotal \in Int
    <2>0. PICK g : g = stages.historical
      OBVIOUS
    <2>1. DOMAIN S5 = Addresses /\ DOMAIN g = Addresses /\ DOMAIN S6 = Addresses
      BY <1>9, <1>12, <2>0
    <2>2. \A a \in Addresses : S5[a] \in Int /\ g[a] \in Int /\ S6[a] = S5[a] + g[a]
      BY <1>4, <1>10, <1>16, <1>2, <2>0
    <2>3. SumFunction(S6) = SumFunction(S5) + SumFunction(g) /\ SumFunction(g) \in Int
      BY <2>1, <2>2, SumTwo
    <2> QED BY <2>0, <2>3, <1>12
  <1>23. SumFunction(S6) = Gross + SumFunction(Wone) /\ Gross \in Int /\ SumFunction(Wone) \in Int
    <2>1. DOMAIN Claim = Addresses /\ DOMAIN Wone = Addresses
      BY PolicyConstants
    <2>2. \A a \in Addresses : Claim[a] \in Int /\ Wone[a] \in Int /\ S6[a] = Claim[a] + Wone[a]
      BY <1>2, <1>5
    <2> QED BY <1>9, <2>1, <2>2, SumTwo DEF Gross
  <1>24. Reserve = SumFunction(Wone) + RetainedWone /\ RetainedWone \in Int
    BY PolicyConstants DEF Reserve
  <1>25. ASSUME NEW deferred \in 0..Gross, StagesClose(plan, deferred) PROVE deferred = held
    <2>1. /\ deferred \in Int
          /\ SumFunction(FI) + SumFunction(FN) + deferred
               = Gross - stages.existingTotal - stages.historicalTotal - RetainedWone - SumFunction(FC)
      BY <1>11, <1>23, <1>25 DEF StagesClose, MigrationTotal
    <2>2. /\ SumFunction(S1) = SumFunction(FI) + SumFunction(FN) /\ SumFunction(FI) \in Int /\ SumFunction(FN) \in Int
          /\ SumFunction(FH) \in Int /\ SumFunction(FC) \in Int /\ SumFunction(FO) \in Int
      BY <1>13, <1>14, <1>15, <1>17, <1>18, <1>19, <1>20
    <2>3. Gross + SumFunction(Wone) = SumFunction(FI) + SumFunction(FN) + SumFunction(FH) + SumFunction(FC)
                                        + (SumFunction(Wone) + RetainedWone) + stages.existingTotal + stages.historicalTotal
      BY <2>2, <1>11, <1>14, <1>15, <1>18, <1>19, <1>20, <1>21, <1>22, <1>23, <1>24
    <2>4. deferred = SumFunction(FH)
      BY <2>1, <2>2, <2>3, <1>21, <1>22, <1>23, <1>24
    <2> QED BY <2>4, <1>11
  <1> QED BY <1>25 DEF held, left, issued

LEMMA CohortExact == ASSUME PolicyInv PROVE InitialCohortExact
  <1> SUFFICES ASSUME TotalsAgree, NEW plan \in Plans, RowsPass(plan), NEW a \in Qualified
               PROVE  LET earns == a \in Wallets \cap Active /\ Qualification[a] - WithheldNow(a) >= Threshold
                      IN  /\ plan.stage[a] = "initial" => earns
                          /\ earns /\ Allocated(a) - WithheldNow(a) - plan.offset[a] > 0 =>
                               plan.stage[a] \in {"initial", "next_stage"}
    BY DEF InitialCohortExact
  <1> DEFINE row == StageRow(a, plan.offset[a])
             stage == plan.stage[a]
  <1>1. /\ a \in Addresses /\ row.offset = plan.offset[a] /\ row.offset \in Nat
        /\ row.contract \in Nat /\ (a \in Wallets => row.contract = 0) /\ row.allocation \in Nat
        /\ row.allocation = Allocated(a) - WithheldNow(a) - row.offset - row.contract
        /\ Allocated(a) \in Nat /\ WithheldNow(a) \in Nat
        /\ WithheldNow(a) = row.existing + row.historical /\ row.existing \in Nat /\ row.historical \in Nat
        /\ RowAccepted(a, row, stage)
    BY RowIs
  <1>2. stage \in {"initial", "next_stage", "deferred", ""}
    BY DEF Plans
  <1>3. Qualification[a] \in Nat /\ Threshold \in Nat
    BY <1>1, PolicyConstants
  <1> HIDE DEF row, stage
  <1>4. MeetsThreshold(a, row) <=> Qualification[a] - WithheldNow(a) >= Threshold
    <2>1. Qualification[a] - WithheldNow(a) = Qualification[a] - row.existing - row.historical
      BY <1>1, <1>3
    <2> QED BY <2>1 DEF MeetsThreshold
  <1>5. /\ (stage # "") = (row.allocation > 0)
        /\ stage = "initial" => a \in Wallets /\ MeetsThreshold(a, row) /\ a \in Active
        /\ stage = "deferred" /\ a \in Wallets => ~(MeetsThreshold(a, row) /\ a \in Active)
    BY <1>1 DEF RowAccepted
  <1>6. ASSUME a \in Wallets, Allocated(a) - WithheldNow(a) - plan.offset[a] > 0 PROVE stage # ""
    <2>1. row.allocation = Allocated(a) - WithheldNow(a) - plan.offset[a]
      BY <1>1, <1>6
    <2> QED BY <1>5, <1>6, <2>1
  <1> QED BY <1>2, <1>4, <1>5, <1>6 DEF stage

(* No address loses more than its claim or the one its inventory states,      *)
(* whatever was edited between the programs that withhold.                    *)
THEOREM WithheldFitsClaim == PolicySpec => []WithheldWithinClaim
  BY NonIssuanceInvariant, WithheldFits, PTL

(* A leak is withheld once, however many rows of audits list its receipts.    *)
THEOREM LeakIsOnce == PolicySpec => []LeakOnce
  BY NonIssuanceInvariant, LeakCounted, PTL

(* A report that passes describes the tables beside it; the types hold.       *)
THEOREM VerifiedIsOfTables == PolicySpec => []VerifiedDescribesTables
  BY NonIssuanceInvariant, Verified, PTL

(* In a policy that passes the figure for deferred wallets is what the        *)
(* addresses outside the issued stages hold.                                  *)
THEOREM PolicyIsClosed == PolicySpec => []PolicyCloses
  BY NonIssuanceInvariant, PolicyAddsUp, PTL

(* The initial cohort is the active wallets with the threshold left.          *)
THEOREM CohortIsExact == PolicySpec => []InitialCohortExact
  BY NonIssuanceInvariant, CohortExact, PTL

-----------------------------------------------------------------------------
(***************************************************************************)
(* The figures of the closure for every set of delegators, validators and  *)
(* receipts and every length of the chain. The shard 1 balance at a block  *)
(* is the initial one plus the receipts applied by then less the backed    *)
(* ones sent by then (Shard1Is); what was minted is what the pending       *)
(* entries tell (MintedIs), as only a repeating validator holds an entry   *)
(* that is overdue (Holdings); the claims of an archived state are the     *)
(* sums by delegator (Archived). The theorems then are sums over finite    *)
(* sets of rows.                                                           *)
(***************************************************************************)

Deposit == [active : Nat, reward : Nat, undelegations : SUBSET [epoch : Nat, amount : Nat \ {0}]]
Snapshot == [liquid : [Delegators -> Nat], staking : [Validators -> [Delegators -> Deposit]],
             shard1 : Nat, acc : Nat, minted : Nat, recovered : Nat, claims : Nat]
Receipt == [from : {0, 1}, amount : Nat \ {0}, backed : BOOLEAN, sent : Blocks, applied : Nat]

(* A stake of the chain: typed, and with finitely many pending entries.    *)
IsStake(stake) ==
  /\ stake \in [Validators -> [Delegators -> Deposit]]
  /\ \A v \in Validators, d \in Delegators : IsFiniteSet(stake[v][d].undelegations)

(* What is pending at block t was undelegated before its end; up to the    *)
(* fix only a repeating validator has an entry that was paid already.      *)
PendingSince(stake, t) ==
  \A v \in Validators, d \in Delegators : \A u \in stake[v][d].undelegations :
    /\ u.epoch <= t
    /\ t <= First /\ v \notin Repeating => t <= u.epoch + LockPeriod

(* The amounts of rows of a table, and the balance of shard 1 after block t *)
(* as the receipts of a table tell it.                                      *)
AmountIn(table, rows) == Sum([i \in rows |-> table[i].amount])
CreditedBy(table, t) == {i \in DOMAIN table : table[i].from = 0 /\ table[i].applied \in 1..t}
DebitedBy(table, t) == {i \in DOMAIN table : table[i].from = 1 /\ table[i].backed /\ table[i].sent <= t}
Shard1By(table, t) == InitialShard1 + AmountIn(table, CreditedBy(table, t)) - AmountIn(table, DebitedBy(table, t))

(* All payouts beyond the first one of what is pending at block t.         *)
MintIn(t, entries) == Sum([u \in entries |-> repeated_mint(t, u)])
MintTable(stake, t) ==
  [v \in Validators |-> [d \in Delegators |-> MintIn(t, stake[v][d].undelegations)]]
MintOf(stake, t) == SumTable(MintTable(stake, t))
ClaimTable(stake) == [v \in Validators |-> [d \in Delegators |-> ClaimOf(stake[v][d])]]
ClaimsIn(accounts, stake) == Sum(accounts) + SumTable(ClaimTable(stake))

Counters ==
  /\ now \in 1..(Cutoff + 2) /\ hist \in Seq(Snapshot) /\ Len(hist) = now - 1
  /\ acc \in Nat /\ minted \in Nat /\ recovered \in Nat /\ shard1 \in Nat /\ events \in 0..MaxEvents

Holdings ==
  /\ liquid \in [Delegators -> Nat]
  /\ IsStake(staking) /\ PendingSince(staking, now)

ReceiptsSound ==
  /\ receipts \in Seq(Receipt)
  /\ \A i \in DOMAIN receipts :
       /\ receipts[i].sent <= now /\ receipts[i].applied <= now
       /\ receipts[i].applied # Never => receipts[i].sent <= receipts[i].applied
                                         /\ receipts[i].applied \in Blocks

(* The archived states.                                                    *)
Archived ==
  \A t \in 1..(now - 1) :
    /\ IsStake(hist[t].staking)
    /\ hist[t].claims = ClaimsIn(hist[t].liquid, hist[t].staking)

(* The balance of shard 1 is what its receipts moved.                      *)
Shard1Is ==
  /\ shard1 = Shard1By(receipts, now)
  /\ \A t \in 1..(now - 1) : hist[t].shard1 = Shard1By(receipts, t)

(* Up to the fix, what was minted is what the pending entries tell.        *)
MintedIs ==
  /\ now <= First => minted = MintOf(staking, now)
  /\ \A t \in 1..(now - 1) : t <= First => hist[t].minted = MintOf(hist[t].staking, t)

ToolsSound ==
  /\ labels = None \/ (labels \in [DOMAIN receipts -> Labels] /\ now \notin Blocks)
  /\ mapped \subseteq {i \in DOMAIN receipts : receipts[i].from = 0}
  /\ derived = None \/ derived \in [{First, Cleanup} -> Nat]
  /\ summarized = None \/ summarized \in [Checkpoints -> Nat]
  /\ published = None \/ published \in [Fields -> Int]
  /\ mapped # {} => now \notin Blocks
  /\ derived # None => now \notin Blocks /\ labels # None
  /\ summarized # None => now \notin Blocks
  /\ published # None => now \notin Blocks

IInv == Counters /\ Holdings /\ ReceiptsSound /\ Archived /\ Shard1Is /\ MintedIs /\ ToolsSound


-----------------------------------------------------------------------------
(* Sums of functions, of tables and of the amounts of receipts.            *)

LEMMA SumIs ==
  ASSUME NEW S, IsFiniteSet(S), NEW f \in [S -> Int]
  PROVE  Sum(f) \in Int /\ Sum(f) = SumFunctionOnSet(f, S)
  <1>1. DOMAIN f = S /\ \A x \in S : f[x] \in Int
    OBVIOUS
  <1>2. SumFunction(f) = SumFunctionOnSet(f, S)
    BY <1>1, SumOn
  <1>3. SumFunctionOnSet(f, S) \in Int
    BY <1>1, IntOfSum
  <1> QED BY <1>2, <1>3 DEF Sum

LEMMA SumNat ==
  ASSUME NEW S, IsFiniteSet(S), NEW f \in [S -> Nat]
  PROVE  Sum(f) \in Nat
  <1>1. f \in [S -> Int] /\ \A x \in S : f[x] \in Nat
    OBVIOUS
  <1>2. Sum(f) = SumFunctionOnSet(f, S)
    BY <1>1, SumIs
  <1>3. SumFunctionOnSet(f, S) \in Nat
    BY <1>1, NatOfSum
  <1> QED BY <1>2, <1>3

LEMMA SumOfSums ==
  ASSUME NEW S, IsFiniteSet(S), NEW f \in [S -> Int], NEW g \in [S -> Int], NEW h \in [S -> Int],
         \A x \in S : h[x] = f[x] + g[x]
  PROVE  Sum(h) = Sum(f) + Sum(g)
  <1>1. \A x \in S : f[x] \in Int /\ g[x] \in Int /\ h[x] = f[x] + g[x]
    OBVIOUS
  <1>2. SumFunctionOnSet(h, S) = SumFunctionOnSet(f, S) + SumFunctionOnSet(g, S)
    BY <1>1, SumPlus
  <1>3. Sum(f) = SumFunctionOnSet(f, S)
    BY SumIs
  <1>4. Sum(g) = SumFunctionOnSet(g, S)
    BY SumIs
  <1>5. Sum(h) = SumFunctionOnSet(h, S)
    BY SumIs
  <1> QED BY <1>2, <1>3, <1>4, <1>5

Tables == [Validators -> [Delegators -> Int]]
RowSums(f) == [v \in Validators |-> Sum(f[v])]

LEMMA FiniteSides == IsFiniteSet(Validators) /\ IsFiniteSet(Delegators)
  BY StakeAssumption

LEMMA RowSumsAre ==
  ASSUME NEW f \in Tables
  PROVE  /\ RowSums(f) \in [Validators -> Int] /\ SumTable(f) = Sum(RowSums(f)) /\ SumTable(f) \in Int
         /\ \A v \in Validators : RowSums(f)[v] = SumFunctionOnSet(f[v], Delegators)
  <1>1. \A v \in Validators : f[v] \in [Delegators -> Int]
    BY DEF Tables
  <1>2. \A v \in Validators : Sum(f[v]) \in Int /\ Sum(f[v]) = SumFunctionOnSet(f[v], Delegators)
    BY <1>1, SumIs, FiniteSides
  <1>3. RowSums(f) \in [Validators -> Int] /\ \A v \in Validators : RowSums(f)[v] = Sum(f[v])
    BY <1>2 DEF RowSums
  <1>4. SumTable(f) = Sum(RowSums(f))
    BY DEF SumTable, RowSums
  <1>5. Sum(RowSums(f)) \in Int
    BY <1>3, SumIs, FiniteSides
  <1> QED BY <1>2, <1>3, <1>4, <1>5

LEMMA TableOfSums ==
  ASSUME NEW f \in Tables, NEW g \in Tables, NEW h \in Tables,
         \A v \in Validators, d \in Delegators : h[v][d] = f[v][d] + g[v][d]
  PROVE  SumTable(h) = SumTable(f) + SumTable(g)
  <1>1. ASSUME NEW v \in Validators PROVE Sum(h[v]) = Sum(f[v]) + Sum(g[v])
    <2>1. f[v] \in [Delegators -> Int] /\ g[v] \in [Delegators -> Int] /\ h[v] \in [Delegators -> Int]
      BY DEF Tables
    <2>2. \A d \in Delegators : h[v][d] = f[v][d] + g[v][d]
      OBVIOUS
    <2> QED BY <2>1, <2>2, SumOfSums, FiniteSides
  <1>2. \A v \in Validators : RowSums(h)[v] = RowSums(f)[v] + RowSums(g)[v]
    BY <1>1 DEF RowSums
  <1>3. /\ RowSums(f) \in [Validators -> Int] /\ SumTable(f) = Sum(RowSums(f))
        /\ RowSums(g) \in [Validators -> Int] /\ SumTable(g) = Sum(RowSums(g))
        /\ RowSums(h) \in [Validators -> Int] /\ SumTable(h) = Sum(RowSums(h))
    BY RowSumsAre
  <1>4. Sum(RowSums(h)) = Sum(RowSums(f)) + Sum(RowSums(g))
    BY <1>2, <1>3, SumOfSums, FiniteSides
  <1> QED BY <1>3, <1>4

LEMMA TableNat ==
  ASSUME NEW f \in [Validators -> [Delegators -> Nat]]
  PROVE  SumTable(f) \in Nat /\ f \in Tables
  <1>1. f \in Tables /\ \A v \in Validators : f[v] \in [Delegators -> Nat]
    BY DEF Tables
  <1>2. \A v \in Validators : Sum(f[v]) \in Nat
    BY <1>1, SumNat, FiniteSides
  <1>3. RowSums(f) \in [Validators -> Nat]
    BY <1>2 DEF RowSums
  <1>4. Sum(RowSums(f)) \in Nat
    BY <1>3, SumNat, FiniteSides
  <1> QED BY <1>1, <1>4, RowSumsAre

(* The sum of a table by delegator.                                        *)
LEMMA TableByDelegator ==
  ASSUME NEW f \in Tables,
         NEW columns \in [Delegators -> Int],
         \A d \in Delegators : columns[d] = Sum([v \in Validators |-> f[v][d]])
  PROVE  SumTable(f) = Sum(columns)
  <1>1. \A v \in Validators, d \in Delegators : f[v][d] \in Int
    BY DEF Tables
  <1>2. ASSUME NEW d \in Delegators
        PROVE  columns[d] = SumFunctionOnSet(Column(f, Validators, d), Validators)
    <2>1. [v \in Validators |-> f[v][d]] = Column(f, Validators, d)
      BY DEF Column
    <2>2. Column(f, Validators, d) \in [Validators -> Int]
      BY <1>1 DEF Column
    <2>3. Sum(Column(f, Validators, d)) = SumFunctionOnSet(Column(f, Validators, d), Validators)
      BY <2>2, SumIs, FiniteSides
    <2> QED BY <2>1, <2>3
  <1>3. /\ RowSums(f) \in [Validators -> Int] /\ SumTable(f) = Sum(RowSums(f))
        /\ \A v \in Validators : RowSums(f)[v] = SumFunctionOnSet(f[v], Delegators)
    BY RowSumsAre
  <1>4. SumFunctionOnSet(RowSums(f), Validators) = SumFunctionOnSet(columns, Delegators)
    BY <1>1, <1>2, <1>3, FiniteSides, SumExchange
  <1>5. Sum(RowSums(f)) = SumFunctionOnSet(RowSums(f), Validators)
    BY <1>3, SumIs, FiniteSides
  <1>6. Sum(columns) = SumFunctionOnSet(columns, Delegators)
    BY SumIs, FiniteSides
  <1> QED BY <1>3, <1>4, <1>5, <1>6

Priced(table, rows) == \A i \in rows : table[i].amount \in Nat
Amounts(table, rows) == [i \in rows |-> table[i].amount]

LEMMA AmountsAre ==
  ASSUME NEW table, NEW rows, IsFiniteSet(rows), Priced(table, rows)
  PROVE  AmountIn(table, rows) \in Nat /\ AmountIn(table, rows) = SumFunctionOnSet(Amounts(table, rows), rows)
  <1>1. Amounts(table, rows) \in [rows -> Nat] /\ Amounts(table, rows) \in [rows -> Int]
    BY DEF Amounts, Priced
  <1>2. AmountIn(table, rows) = Sum(Amounts(table, rows))
    BY DEF AmountIn, Amounts
  <1>3. Sum(Amounts(table, rows)) \in Nat
    BY <1>1, SumNat
  <1>4. Sum(Amounts(table, rows)) = SumFunctionOnSet(Amounts(table, rows), rows)
    BY <1>1, SumIs
  <1> QED BY <1>2, <1>3, <1>4

LEMMA AmountSame ==
  ASSUME NEW table, NEW other, NEW rows, \A i \in rows : table[i].amount = other[i].amount
  PROVE  AmountIn(table, rows) = AmountIn(other, rows)
  <1>1. [i \in rows |-> table[i].amount] = [i \in rows |-> other[i].amount]
    OBVIOUS
  <1> QED BY <1>1 DEF AmountIn

Parts(all, rows, rest) == all = rows \cup rest /\ rows \cap rest = {}

LEMMA AmountSplit ==
  ASSUME NEW table, NEW all, NEW rows, NEW rest, IsFiniteSet(all), Priced(table, all),
         Parts(all, rows, rest)
  PROVE  /\ AmountIn(table, all) = AmountIn(table, rows) + AmountIn(table, rest)
         /\ AmountIn(table, rows) \in Nat /\ AmountIn(table, rest) \in Nat /\ AmountIn(table, all) \in Nat
  <1>0. all = rows \cup rest /\ rows \cap rest = {}
    BY DEF Parts
  <1>1. IsFiniteSet(rows) /\ IsFiniteSet(rest)
    BY <1>0, FS_Subset
  <1>2. Priced(table, rows) /\ Priced(table, rest)
    BY <1>0 DEF Priced
  <1> DEFINE f == Amounts(table, all)
             g == Amounts(table, rows)
             h == Amounts(table, rest)
  <1>3. /\ \A i \in rows \cup rest : f[i] \in Int
        /\ \A i \in rows : f[i] = g[i] /\ f[i] \in Int
        /\ \A i \in rest : f[i] = h[i] /\ f[i] \in Int
    BY <1>0 DEF Amounts, Priced
  <1>4. /\ AmountIn(table, all) = SumFunctionOnSet(f, all) /\ AmountIn(table, all) \in Nat
    BY AmountsAre
  <1>5. /\ AmountIn(table, rows) = SumFunctionOnSet(g, rows) /\ AmountIn(table, rows) \in Nat
    BY <1>1, <1>2, AmountsAre
  <1>6. /\ AmountIn(table, rest) = SumFunctionOnSet(h, rest) /\ AmountIn(table, rest) \in Nat
    BY <1>1, <1>2, AmountsAre
  <1> HIDE DEF f, g, h
  <1>7. SumFunctionOnSet(f, rows) = SumFunctionOnSet(g, rows)
    BY <1>1, <1>3, SumSame
  <1>8. SumFunctionOnSet(f, rest) = SumFunctionOnSet(h, rest)
    BY <1>1, <1>3, SumSame
  <1>9. SumFunctionOnSet(f, rows \cup rest) = SumFunctionOnSet(f, rows) + SumFunctionOnSet(f, rest)
    BY <1>0, <1>1, <1>3, SumDisjoint
  <1> QED BY <1>0, <1>4, <1>5, <1>6, <1>7, <1>8, <1>9

-----------------------------------------------------------------------------
(* The claims and the mint of a stake.                                     *)

Entries == SUBSET [epoch : Nat, amount : Nat \ {0}]

LEMMA Constants ==
  /\ First \in Nat \ {0} /\ Cleanup \in Nat /\ Cutoff \in Nat /\ LockPeriod \in Nat \ {0}
  /\ First < Cleanup /\ Cleanup < Cutoff
  /\ Blocks = 1..(Cutoff + 1) /\ Never = 0
  BY CheckpointsAssumption DEF Blocks, Never

LEMMA EntriesOf ==
  ASSUME NEW stake, IsStake(stake), NEW v \in Validators, NEW d \in Delegators
  PROVE  /\ stake[v][d] \in Deposit /\ stake[v][d].active \in Nat /\ stake[v][d].reward \in Nat
         /\ stake[v][d].undelegations \in Entries
         /\ IsFiniteSet(stake[v][d].undelegations)
  BY DEF IsStake, Deposit, Entries

LEMMA PendingNat ==
  ASSUME NEW entries \in Entries, IsFiniteSet(entries)
  PROVE  Pending(entries) \in Nat
  <1> DEFINE f == [u \in entries |-> u.amount]
  <1>1. f \in [entries -> Nat]
    BY DEF Entries
  <1> HIDE DEF f
  <1>2. Sum(f) \in Nat
    BY <1>1, SumNat
  <1> QED BY <1>2 DEF Pending, f

LEMMA ClaimsNat ==
  ASSUME NEW stake, IsStake(stake)
  PROVE  /\ \A v \in Validators, d \in Delegators : ClaimOf(stake[v][d]) \in Nat
         /\ ClaimTable(stake) \in Tables /\ SumTable(ClaimTable(stake)) \in Nat
  <1>1. ASSUME NEW v \in Validators, NEW d \in Delegators
        PROVE  ClaimOf(stake[v][d]) \in Nat
    <2>1. Pending(stake[v][d].undelegations) \in Nat
      BY EntriesOf, PendingNat
    <2> QED BY <2>1, EntriesOf DEF ClaimOf
  <1>2. ClaimTable(stake) \in [Validators -> [Delegators -> Nat]]
    BY <1>1 DEF ClaimTable
  <1> QED BY <1>1, <1>2, TableNat

LEMMA ProductNat == ASSUME NEW a \in Nat, NEW n \in Nat PROVE a * n \in Nat
  OBVIOUS

LEMMA NextMultiple == ASSUME NEW a \in Int, NEW n \in Int PROVE a * (n + 1) = a * n + a
  OBVIOUS

LEMMA OnceMore == ASSUME NEW a \in Int PROVE a * 1 = a
  OBVIOUS

(* One epoch later an entry that is overdue has been paid once more.       *)
LEMMA RepeatedMint ==
  ASSUME NEW t \in Nat, NEW entries \in Entries, NEW u \in entries
  PROVE  /\ repeated_mint(t, u) \in Nat /\ repeated_mint(t + 1, u) \in Nat
         /\ u.epoch + LockPeriod >= t - 1 => repeated_mint(t, u) = 0
         /\ u.epoch + LockPeriod >= t => repeated_mint(t + 1, u) = 0
         /\ repeated_mint(t + 1, u)
              = repeated_mint(t, u) + (IF u.epoch + LockPeriod < t THEN u.amount ELSE 0)
  <1> DEFINE n == (t - 1) - (u.epoch + LockPeriod)
             a == u.amount
  <1>1. a \in Nat /\ u.epoch \in Nat /\ n \in Int
    BY Constants DEF Entries
  <1>2. /\ repeated_mint(t, u) = (IF n <= 0 THEN 0 ELSE a * n)
        /\ repeated_mint(t + 1, u) = (IF n + 1 <= 0 THEN 0 ELSE a * (n + 1))
    <2>1. repeated_payouts(t, u) = n /\ repeated_payouts(t + 1, u) = n + 1
      BY <1>1, Constants DEF repeated_payouts
    <2> QED BY <2>1 DEF repeated_mint
  <1>3. /\ (u.epoch + LockPeriod >= t - 1) = (n <= 0)
        /\ (u.epoch + LockPeriod >= t) = (n + 1 <= 0)
        /\ (u.epoch + LockPeriod < t) = (n + 1 > 0)
    BY <1>1, Constants
  <1>4. (n > 0 => a * n \in Nat) /\ (n + 1 > 0 => a * (n + 1) \in Nat)
    <2>1. (n > 0 => n \in Nat) /\ (n + 1 > 0 => n + 1 \in Nat)
      BY <1>1
    <2> HIDE DEF n, a
    <2> QED BY <1>1, <2>1, ProductNat
  <1>5. a * (n + 1) = a * n + a /\ a * 1 = a
    <2> HIDE DEF n, a
    <2> QED BY <1>1, NextMultiple, OnceMore
  <1> HIDE DEF n
  <1>6. CASE n > 0
    BY <1>1, <1>2, <1>3, <1>4, <1>5, <1>6
  <1>7. CASE n = 0
    <2>1. a * (n + 1) = a
      BY <1>5, <1>7
    <2> QED BY <1>1, <1>2, <1>3, <1>7, <2>1
  <1>8. CASE n < 0
    BY <1>1, <1>2, <1>3, <1>8
  <1> QED BY <1>1, <1>6, <1>7, <1>8

MintRow(t, entries) == [u \in entries |-> repeated_mint(t, u)]

LEMMA MintNat ==
  ASSUME NEW t \in Nat, NEW entries \in Entries, IsFiniteSet(entries)
  PROVE  /\ MintIn(t, entries) \in Nat /\ MintIn(t, entries) = SumFunctionOnSet(MintRow(t, entries), entries)
         /\ MintRow(t, entries) \in [entries -> Nat]
  <1>1. MintRow(t, entries) \in [entries -> Nat] /\ MintRow(t, entries) \in [entries -> Int]
    BY RepeatedMint DEF MintRow
  <1>2. MintIn(t, entries) = Sum(MintRow(t, entries))
    BY DEF MintIn, MintRow
  <1>3. Sum(MintRow(t, entries)) \in Nat
    BY <1>1, SumNat
  <1>4. Sum(MintRow(t, entries)) = SumFunctionOnSet(MintRow(t, entries), entries)
    BY <1>1, SumIs
  <1> QED BY <1>1, <1>2, <1>3, <1>4

LEMMA MintTableIs ==
  ASSUME NEW t \in Nat, NEW stake, IsStake(stake)
  PROVE  MintTable(stake, t) \in Tables /\ MintOf(stake, t) \in Nat
  <1>1. ASSUME NEW v \in Validators, NEW d \in Delegators
        PROVE  MintIn(t, stake[v][d].undelegations) \in Nat
    BY EntriesOf, MintNat
  <1>2. MintTable(stake, t) \in [Validators -> [Delegators -> Nat]]
    BY <1>1 DEF MintTable
  <1> QED BY <1>2, TableNat DEF MintOf

(* An entry of the running epoch adds nothing.                             *)
LEMMA MintOfNew ==
  ASSUME NEW t \in Nat, NEW entries \in Entries, IsFiniteSet(entries),
         NEW u, entries \cup {u} \in Entries, u.epoch = t
  PROVE  MintIn(t, entries \cup {u}) = MintIn(t, entries)
  <1> DEFINE all == entries \cup {u}
             f == MintRow(t, all)
             g == MintRow(t, entries)
  <1>1. IsFiniteSet(all)
    BY FS_AddElement
  <1>2. \A x \in all : f[x] \in Int /\ f[x] = repeated_mint(t, x)
    BY RepeatedMint DEF MintRow
  <1>3. \A x \in entries : f[x] = g[x] /\ f[x] \in Int
    BY <1>2 DEF MintRow
  <1>4. repeated_mint(t, u) = 0
    <2>1. u \in all /\ u.epoch + LockPeriod >= t - 1
      BY Constants
    <2> QED BY <2>1, RepeatedMint
  <1>5. \A x \in all \ entries : f[x] = 0
    BY <1>2, <1>4
  <1>6. MintIn(t, all) = SumFunctionOnSet(f, all) /\ MintIn(t, entries) = SumFunctionOnSet(g, entries)
    BY <1>1, MintNat
  <1>7. entries \in SUBSET all
    OBVIOUS
  <1> HIDE DEF f, g, all
  <1>8. SumFunctionOnSet(f, all) = SumFunctionOnSet(f, entries)
    BY <1>1, <1>2, <1>5, <1>7, SumZeros
  <1>9. SumFunctionOnSet(f, entries) = SumFunctionOnSet(g, entries)
    BY <1>3, SumSame
  <1> QED BY <1>6, <1>8, <1>9 DEF all

(* A payout that keeps the overdue entries mints what they are paid again. *)
LEMMA MintOfPayout ==
  ASSUME NEW t \in Nat, NEW entries \in Entries, IsFiniteSet(entries),
         NEW kept \in SUBSET entries,
         \A u \in entries \ kept : u.epoch + LockPeriod = t
  PROVE  MintIn(t + 1, kept) = MintIn(t, entries) + Pending({u \in entries : u.epoch + LockPeriod < t})
  <1> DEFINE again == {u \in entries : u.epoch + LockPeriod < t}
             f == MintRow(t, entries)
             g == [u \in entries |-> IF u \in again THEN u.amount ELSE 0]
             h == MintRow(t + 1, entries)
             k == MintRow(t + 1, kept)
             p == [u \in again |-> u.amount]
  <1>0. t + 1 \in Nat /\ kept \in Entries /\ again \in SUBSET entries /\ again \in Entries
    BY DEF Entries
  <1>1. IsFiniteSet(kept) /\ IsFiniteSet(again)
    BY <1>0, FS_Subset
  <1>2. \A u \in entries : u.amount \in Nat
    BY DEF Entries
  <1>3. \A u \in entries : f[u] \in Int /\ g[u] \in Int /\ h[u] = f[u] + g[u] /\ h[u] \in Int
    <2>1. \A u \in entries : repeated_mint(t + 1, u)
              = repeated_mint(t, u) + (IF u.epoch + LockPeriod < t THEN u.amount ELSE 0)
      BY RepeatedMint
    <2>2. \A u \in entries : f[u] = repeated_mint(t, u) /\ h[u] = repeated_mint(t + 1, u)
                             /\ f[u] \in Int /\ h[u] \in Int
      BY RepeatedMint DEF MintRow
    <2>3. \A u \in entries : g[u] = (IF u.epoch + LockPeriod < t THEN u.amount ELSE 0)
      OBVIOUS
    <2> HIDE DEF f, g, h
    <2> QED BY <1>2, <2>1, <2>2, <2>3
  <1>4. \A u \in entries \ kept : h[u] = 0
    <2>1. \A u \in entries : u.epoch + LockPeriod >= t => h[u] = 0
      BY RepeatedMint DEF MintRow
    <2>2. \A u \in entries : u.epoch \in Nat
      BY DEF Entries
    <2> HIDE DEF h
    <2> QED BY <2>1, <2>2, Constants
  <1>5. \A u \in kept : h[u] = k[u] /\ h[u] \in Int
    BY <1>3 DEF MintRow
  <1>6. \A u \in entries \ again : g[u] = 0
    OBVIOUS
  <1>7. \A u \in again : g[u] = p[u] /\ g[u] \in Int
    BY <1>2
  <1>8. MintIn(t, entries) = SumFunctionOnSet(f, entries)
    BY MintNat
  <1>9. MintIn(t + 1, kept) = SumFunctionOnSet(k, kept)
    BY <1>0, <1>1, MintNat
  <1>10. Pending(again) = SumFunctionOnSet(p, again)
    <2>1. p \in [again -> Int]
      BY <1>2
    <2>2. Pending(again) = Sum(p)
      BY DEF Pending
    <2> HIDE DEF p, again
    <2> QED BY <1>1, <2>1, <2>2, SumIs
  <1> HIDE DEF f, g, h, k, p, again
  <1>11. SumFunctionOnSet(h, entries) = SumFunctionOnSet(f, entries) + SumFunctionOnSet(g, entries)
    BY <1>3, SumPlus
  <1>12. SumFunctionOnSet(h, entries) = SumFunctionOnSet(h, kept)
    BY <1>3, <1>4, SumZeros
  <1>13. SumFunctionOnSet(h, kept) = SumFunctionOnSet(k, kept)
    BY <1>1, <1>5, SumSame
  <1>14. SumFunctionOnSet(g, entries) = SumFunctionOnSet(g, again)
    BY <1>0, <1>3, <1>6, SumZeros
  <1>15. SumFunctionOnSet(g, again) = SumFunctionOnSet(p, again)
    BY <1>1, <1>7, SumSame
  <1> QED BY <1>8, <1>9, <1>10, <1>11, <1>12, <1>13, <1>14, <1>15 DEF again

-----------------------------------------------------------------------------
(* The balance of shard 1 as a table of receipts tells it.                 *)

LEMMA RowTyped ==
  ASSUME NEW table \in Seq(Receipt), NEW i \in DOMAIN table
  PROVE  /\ table[i] \in Receipt /\ table[i].from \in {0, 1} /\ table[i].amount \in Nat \ {0}
         /\ table[i].backed \in BOOLEAN /\ table[i].sent \in Blocks /\ table[i].sent \in Nat
         /\ table[i].applied \in Nat
  <1>1. table[i] \in Receipt
    OBVIOUS
  <1>2. Blocks \subseteq Nat
    BY Constants
  <1> QED BY <1>1, <1>2 DEF Receipt

LEMMA RowsFinite ==
  ASSUME NEW table \in Seq(Receipt), NEW rows \in SUBSET DOMAIN table
  PROVE  IsFiniteSet(rows) /\ Priced(table, rows)
  <1>1. DOMAIN table = 1..Len(table) /\ Len(table) \in Nat /\ \A i \in DOMAIN table : table[i] \in Receipt
    OBVIOUS
  <1>2. IsFiniteSet(1..Len(table))
    BY <1>1, FS_Interval
  <1>3. IsFiniteSet(rows)
    BY <1>1, <1>2, FS_Subset
  <1> QED BY <1>1, <1>3 DEF Priced, Receipt

LEMMA AmountAdd ==
  ASSUME NEW table, NEW rows, NEW i, i \notin rows, IsFiniteSet(rows), Priced(table, rows \cup {i})
  PROVE  AmountIn(table, rows \cup {i}) = AmountIn(table, rows) + table[i].amount
  <1> DEFINE all == rows \cup {i}
             f == Amounts(table, all)
             g == Amounts(table, rows)
  <1>1. IsFiniteSet(all) /\ Priced(table, rows)
    BY FS_AddElement DEF Priced
  <1>2. /\ \A k \in rows \cup {i} : f[k] \in Int
        /\ \A k \in rows : f[k] = g[k] /\ f[k] \in Int
        /\ f[i] = table[i].amount
    BY DEF Amounts, Priced
  <1>3. AmountIn(table, all) = SumFunctionOnSet(f, all)
    BY <1>1, AmountsAre
  <1>4. AmountIn(table, rows) = SumFunctionOnSet(g, rows)
    BY <1>1, AmountsAre
  <1> HIDE DEF f, g
  <1>5. SumFunctionOnSet(f, rows \cup {i}) = SumFunctionOnSet(f, rows) + f[i]
    BY <1>2, SumAdd
  <1>6. SumFunctionOnSet(f, rows) = SumFunctionOnSet(g, rows)
    BY <1>2, SumSame
  <1> QED BY <1>2, <1>3, <1>4, <1>5, <1>6

LEMMA Shard1Int ==
  ASSUME NEW table \in Seq(Receipt), NEW t \in Nat
  PROVE  /\ AmountIn(table, CreditedBy(table, t)) \in Nat /\ AmountIn(table, DebitedBy(table, t)) \in Nat
         /\ Shard1By(table, t) \in Int
  <1>1. CreditedBy(table, t) \in SUBSET DOMAIN table /\ DebitedBy(table, t) \in SUBSET DOMAIN table
    BY DEF CreditedBy, DebitedBy
  <1>2. AmountIn(table, CreditedBy(table, t)) \in Nat
    BY <1>1, RowsFinite, AmountsAre
  <1>3. AmountIn(table, DebitedBy(table, t)) \in Nat
    BY <1>1, RowsFinite, AmountsAre
  <1>4. InitialShard1 \in Nat
    BY StakeAssumption
  <1> QED BY <1>2, <1>3, <1>4 DEF Shard1By

(* A receipt that leaves shard 1 with its debit takes its amount.          *)
LEMMA Shard1Sent ==
  ASSUME NEW table \in Seq(Receipt), NEW r \in Receipt, r.applied = Never, NEW t \in Nat
  PROVE  Shard1By(Append(table, r), t)
           = Shard1By(table, t) - (IF r.from = 1 /\ r.backed /\ r.sent <= t THEN r.amount ELSE 0)
  <1>1. PICK other : other = Append(table, r)
    OBVIOUS
  <1>2. PICK n : n = Len(table) + 1
    OBVIOUS
  <1>3. /\ other \in Seq(Receipt) /\ DOMAIN other = DOMAIN table \cup {n} /\ n \notin DOMAIN table
        /\ \A i \in DOMAIN table : other[i] = table[i]
        /\ other[n] = r
    BY <1>1, <1>2
  <1>4. CreditedBy(other, t) = CreditedBy(table, t)
    <2>1. r.applied \notin 1..t
      BY Constants
    <2> QED BY <1>3, <2>1 DEF CreditedBy
  <1>5. AmountIn(other, CreditedBy(other, t)) = AmountIn(table, CreditedBy(table, t))
    <2>1. \A i \in CreditedBy(table, t) : table[i].amount = other[i].amount
      BY <1>3 DEF CreditedBy
    <2> QED BY <1>4, <2>1, AmountSame
  <1>6. AmountIn(other, DebitedBy(table, t)) = AmountIn(table, DebitedBy(table, t))
    <2>1. \A i \in DebitedBy(table, t) : table[i].amount = other[i].amount
      BY <1>3 DEF DebitedBy
    <2> QED BY <2>1, AmountSame
  <1>7. CASE r.from = 1 /\ r.backed /\ r.sent <= t
    <2>1. DebitedBy(other, t) = DebitedBy(table, t) \cup {n} /\ n \notin DebitedBy(table, t)
      BY <1>3, <1>7 DEF DebitedBy
    <2>2. DebitedBy(table, t) \cup {n} \in SUBSET DOMAIN other /\ DebitedBy(table, t) \in SUBSET DOMAIN table
      BY <1>3 DEF DebitedBy
    <2>3. IsFiniteSet(DebitedBy(table, t)) /\ Priced(other, DebitedBy(table, t) \cup {n})
      BY <1>3, <2>2, RowsFinite
    <2>4a. AmountIn(other, DebitedBy(table, t) \cup {n}) = AmountIn(other, DebitedBy(table, t)) + other[n].amount
      BY <2>1, <2>3, AmountAdd
    <2>4. AmountIn(other, DebitedBy(other, t)) = AmountIn(other, DebitedBy(table, t)) + r.amount
      BY <1>3, <2>1, <2>4a
    <2>5. AmountIn(other, DebitedBy(other, t)) = AmountIn(table, DebitedBy(table, t)) + r.amount
      BY <1>6, <2>4
    <2>6. r.amount \in Nat /\ InitialShard1 \in Nat
      BY StakeAssumption DEF Receipt
    <2>7. Shard1By(other, t) = Shard1By(table, t) - r.amount
      <3> DEFINE credited == AmountIn(table, CreditedBy(table, t))
                 debited == AmountIn(table, DebitedBy(table, t))
      <3>1. credited \in Nat /\ debited \in Nat
        BY Shard1Int
      <3>2. /\ Shard1By(table, t) = InitialShard1 + credited - debited
            /\ Shard1By(other, t) = InitialShard1 + credited - (debited + r.amount)
        BY <1>5, <2>5 DEF Shard1By
      <3> HIDE DEF credited, debited
      <3> QED BY <2>6, <3>1, <3>2
    <2> QED BY <1>1, <1>7, <2>7
  <1>8. CASE ~(r.from = 1 /\ r.backed /\ r.sent <= t)
    <2>1. DebitedBy(other, t) = DebitedBy(table, t)
      BY <1>3, <1>8 DEF DebitedBy
    <2>2. Shard1By(other, t) = Shard1By(table, t)
      BY <1>5, <1>6, <2>1 DEF Shard1By
    <2> QED BY <1>1, <1>8, <2>2, Shard1Int
  <1> QED BY <1>7, <1>8

(* A receipt applied to shard 1 brings its amount.                         *)
WithApplied(table, i, b) == [table EXCEPT ![i].applied = b]

LEMMA AppliedRow ==
  ASSUME NEW table \in Seq(Receipt), NEW i \in DOMAIN table, NEW b \in Nat
  PROVE  /\ WithApplied(table, i, b) \in Seq(Receipt)
         /\ DOMAIN WithApplied(table, i, b) = DOMAIN table
         /\ \A k \in DOMAIN table \ {i} : WithApplied(table, i, b)[k] = table[k]
         /\ WithApplied(table, i, b)[i].applied = b
         /\ WithApplied(table, i, b)[i].sent = table[i].sent
         /\ WithApplied(table, i, b)[i].from = table[i].from
         /\ WithApplied(table, i, b)[i].amount = table[i].amount
         /\ WithApplied(table, i, b)[i].backed = table[i].backed
  <1>1. table[i] \in Receipt /\ \A k \in DOMAIN table : table[k] \in Receipt
    OBVIOUS
  <1>2. PICK row : row = [table[i] EXCEPT !.applied = b]
    OBVIOUS
  <1>3. /\ row \in Receipt /\ row.applied = b /\ row.sent = table[i].sent /\ row.from = table[i].from
        /\ row.amount = table[i].amount /\ row.backed = table[i].backed
    BY <1>1, <1>2 DEF Receipt
  <1>4. WithApplied(table, i, b) = [table EXCEPT ![i] = row]
    BY <1>2 DEF WithApplied
  <1>5. [table EXCEPT ![i] = row] \in Seq(Receipt)
    BY <1>3
  <1>6. WithApplied(table, i, b)[i] = row
    BY <1>4
  <1> QED BY <1>2, <1>3, <1>4, <1>5, <1>6

LEMMA Shard1Applied ==
  ASSUME NEW table \in Seq(Receipt), NEW i \in DOMAIN table, table[i].applied = Never,
         NEW b \in Nat \ {0}, NEW t \in Nat
  PROVE  Shard1By(WithApplied(table, i, b), t)
           = Shard1By(table, t) + (IF table[i].from = 0 /\ b <= t THEN table[i].amount ELSE 0)
  <1>1. PICK other : other = WithApplied(table, i, b)
    OBVIOUS
  <1>2. /\ other \in Seq(Receipt) /\ DOMAIN other = DOMAIN table
        /\ \A k \in DOMAIN table \ {i} : other[k] = table[k]
        /\ other[i].applied = b /\ other[i].sent = table[i].sent /\ other[i].from = table[i].from
        /\ other[i].amount = table[i].amount /\ other[i].backed = table[i].backed
    <2>1. b \in Nat
      OBVIOUS
    <2>2. /\ WithApplied(table, i, b) \in Seq(Receipt) /\ DOMAIN WithApplied(table, i, b) = DOMAIN table
          /\ \A k \in DOMAIN table \ {i} : WithApplied(table, i, b)[k] = table[k]
      BY <2>1, AppliedRow
    <2>3. /\ WithApplied(table, i, b)[i].applied = b /\ WithApplied(table, i, b)[i].sent = table[i].sent
          /\ WithApplied(table, i, b)[i].from = table[i].from
          /\ WithApplied(table, i, b)[i].amount = table[i].amount
          /\ WithApplied(table, i, b)[i].backed = table[i].backed
      BY <2>1, AppliedRow
    <2> QED BY <1>1, <2>2, <2>3
  <1>3. \A k \in DOMAIN table : /\ other[k].sent = table[k].sent /\ other[k].from = table[k].from
                                /\ other[k].amount = table[k].amount /\ other[k].backed = table[k].backed
    BY <1>2
  <1>4. DebitedBy(other, t) = DebitedBy(table, t)
    BY <1>2, <1>3 DEF DebitedBy
  <1>5. AmountIn(other, DebitedBy(other, t)) = AmountIn(table, DebitedBy(table, t))
    <2>1. \A k \in DebitedBy(table, t) : table[k].amount = other[k].amount
      BY <1>3 DEF DebitedBy
    <2> QED BY <1>4, <2>1, AmountSame
  <1>6. AmountIn(other, CreditedBy(table, t)) = AmountIn(table, CreditedBy(table, t))
    <2>1. \A k \in CreditedBy(table, t) : table[k].amount = other[k].amount
      BY <1>3 DEF CreditedBy
    <2> QED BY <2>1, AmountSame
  <1>7. i \notin CreditedBy(table, t)
    BY Constants DEF CreditedBy
  <1>8. CASE table[i].from = 0 /\ b <= t
    <2>1. CreditedBy(other, t) = CreditedBy(table, t) \cup {i}
      BY <1>2, <1>3, <1>8 DEF CreditedBy
    <2>2. CreditedBy(table, t) \cup {i} \in SUBSET DOMAIN other /\ CreditedBy(table, t) \in SUBSET DOMAIN table
      BY <1>2 DEF CreditedBy
    <2>3. IsFiniteSet(CreditedBy(table, t)) /\ Priced(other, CreditedBy(table, t) \cup {i})
      BY <1>2, <2>2, RowsFinite
    <2>4a. AmountIn(other, CreditedBy(table, t) \cup {i}) = AmountIn(other, CreditedBy(table, t)) + other[i].amount
      BY <1>7, <2>3, AmountAdd
    <2>4. AmountIn(other, CreditedBy(other, t)) = AmountIn(other, CreditedBy(table, t)) + other[i].amount
      BY <2>1, <2>4a
    <2>5. AmountIn(other, CreditedBy(other, t)) = AmountIn(table, CreditedBy(table, t)) + table[i].amount
      BY <1>2, <1>6, <2>4
    <2>6. table[i].amount \in Nat /\ InitialShard1 \in Nat
      BY StakeAssumption, RowTyped
    <2>7. Shard1By(other, t) = Shard1By(table, t) + table[i].amount
      <3> DEFINE credited == AmountIn(table, CreditedBy(table, t))
                 debited == AmountIn(table, DebitedBy(table, t))
      <3>1. credited \in Nat /\ debited \in Nat
        BY Shard1Int
      <3>2. /\ Shard1By(table, t) = InitialShard1 + credited - debited
            /\ Shard1By(other, t) = InitialShard1 + (credited + table[i].amount) - debited
        BY <1>5, <2>5 DEF Shard1By
      <3> HIDE DEF credited, debited
      <3> QED BY <2>6, <3>1, <3>2
    <2> QED BY <1>1, <1>8, <2>7
  <1>9. CASE ~(table[i].from = 0 /\ b <= t)
    <2>1. CreditedBy(other, t) = CreditedBy(table, t)
      BY <1>2, <1>3, <1>7, <1>9 DEF CreditedBy
    <2>2. Shard1By(other, t) = Shard1By(table, t)
      BY <1>5, <1>6, <2>1 DEF Shard1By
    <2> QED BY <1>1, <1>9, <2>2, Shard1Int
  <1> QED BY <1>8, <1>9

(* No receipt moves anything after the last block it knows.                *)
LEMMA Shard1Later ==
  ASSUME NEW table \in Seq(Receipt), NEW t \in Nat,
         \A i \in DOMAIN table : table[i].sent <= t /\ table[i].applied <= t
  PROVE  Shard1By(table, t + 1) = Shard1By(table, t)
  <1>1. \A i \in DOMAIN table : table[i].sent \in Int /\ table[i].applied \in Nat
    BY RowTyped
  <1>2. CreditedBy(table, t + 1) = CreditedBy(table, t) /\ DebitedBy(table, t + 1) = DebitedBy(table, t)
    BY <1>1 DEF CreditedBy, DebitedBy
  <1> QED BY <1>2 DEF Shard1By

-----------------------------------------------------------------------------
(* The inductive invariant.                                                *)

WithDeposit(stake, v, d, x) == [stake EXCEPT ![v][d] = x]

LEMMA DepositIs ==
  ASSUME NEW stake, IsStake(stake), NEW v \in Validators, NEW d \in Delegators,
         NEW x \in Deposit, IsFiniteSet(x.undelegations)
  PROVE  /\ IsStake(WithDeposit(stake, v, d, x))
         /\ WithDeposit(stake, v, d, x)[v][d] = x
         /\ \A w \in Validators, e \in Delegators :
              w # v \/ e # d => WithDeposit(stake, v, d, x)[w][e] = stake[w][e]
  <1>1. stake \in [Validators -> [Delegators -> Deposit]]
        /\ \A w \in Validators, e \in Delegators : IsFiniteSet(stake[w][e].undelegations)
    BY DEF IsStake
  <1>2. PICK other : other = WithDeposit(stake, v, d, x)
    OBVIOUS
  <1>3. other \in [Validators -> [Delegators -> Deposit]]
    BY <1>1, <1>2 DEF WithDeposit
  <1>4. /\ other[v][d] = x
        /\ \A w \in Validators, e \in Delegators : w # v \/ e # d => other[w][e] = stake[w][e]
    BY <1>1, <1>2 DEF WithDeposit
  <1>5. \A w \in Validators, e \in Delegators : IsFiniteSet(other[w][e].undelegations)
    BY <1>1, <1>4
  <1> QED BY <1>2, <1>3, <1>4, <1>5 DEF IsStake

(* A deposit whose entries tell the same mint.                             *)
LEMMA SameMint ==
  ASSUME NEW t \in Nat, NEW stake, NEW other,
         \A v \in Validators, d \in Delegators :
           MintIn(t, stake[v][d].undelegations) = MintIn(t, other[v][d].undelegations)
  PROVE  MintOf(stake, t) = MintOf(other, t)
  <1>1. MintTable(stake, t) = MintTable(other, t)
    BY DEF MintTable
  <1> QED BY <1>1 DEF MintOf

LEMMA OwnDouble == ASSUME NEW x \in Int, x = x + x PROVE x = 0
  OBVIOUS

LEMMA InvInit == Init => IInv
  <1> SUFFICES ASSUME Init PROVE IInv
    OBVIOUS
  <1>1. /\ now = 1 /\ liquid = InitialLiquid /\ staking = InitialStake /\ shard1 = InitialShard1
        /\ acc = 0 /\ minted = 0 /\ recovered = 0 /\ receipts = <<>> /\ hist = <<>> /\ events = 0
        /\ labels = None /\ mapped = {} /\ derived = None /\ summarized = None /\ published = None
    BY DEF Init
  <1>2. /\ InitialLiquid \in [Delegators -> Nat] /\ InitialShard1 \in Nat /\ MaxEvents \in Nat
        /\ InitialStake \in [Validators -> [Delegators ->
             [active : Nat, reward : {0}, undelegations : SUBSET [epoch : {0}, amount : Nat \ {0}]]]]
        /\ \A v \in Validators, d \in Delegators : IsFiniteSet(InitialStake[v][d].undelegations)
    BY StakeAssumption
  <1>3. Counters
    BY <1>1, <1>2, Constants DEF Counters
  <1>4. IsStake(staking)
    <2>1. [active : Nat, reward : {0}, undelegations : SUBSET [epoch : {0}, amount : Nat \ {0}]] \subseteq Deposit
      BY DEF Deposit
    <2>2. InitialStake \in [Validators -> [Delegators -> Deposit]]
      BY <1>2, <2>1
    <2> QED BY <1>1, <1>2, <2>2 DEF IsStake
  <1>5. \A v \in Validators, d \in Delegators : \A u \in staking[v][d].undelegations : u.epoch = 0
    <2> TAKE v \in Validators, d \in Delegators
    <2>1. InitialStake[v][d] \in
             [active : Nat, reward : {0}, undelegations : SUBSET [epoch : {0}, amount : Nat \ {0}]]
      BY <1>2
    <2>2. staking[v][d].undelegations \in SUBSET [epoch : {0}, amount : Nat \ {0}]
      BY <1>1, <2>1
    <2> QED BY <2>2
  <1>6. Holdings
    <2>1. PendingSince(staking, now)
      BY <1>1, <1>5, Constants DEF PendingSince
    <2> QED BY <1>1, <1>2, <1>4, <2>1 DEF Holdings
  <1>7. ReceiptsSound
    BY <1>1 DEF ReceiptsSound
  <1>8. 1..(now - 1) = {}
    BY <1>1
  <1>9. Archived
    BY <1>8 DEF Archived
  <1>10. Shard1Is
    <2>1. CreditedBy(receipts, now) = {} /\ DebitedBy(receipts, now) = {}
      BY <1>1 DEF CreditedBy, DebitedBy
    <2>2. AmountIn(receipts, {}) = 0
      <3>1. IsFiniteSet({}) /\ Priced(receipts, {})
        BY FS_EmptySet DEF Priced
      <3> QED BY <3>1, AmountsAre, SumEmpty
    <2>3. shard1 = Shard1By(receipts, now)
      <3>1. Shard1By(receipts, now) = InitialShard1 + 0 - 0
        BY <2>1, <2>2 DEF Shard1By
      <3>2. InitialShard1 + 0 - 0 = InitialShard1
        BY <1>2
      <3> QED BY <1>1, <3>1, <3>2
    <2> QED BY <1>8, <2>3 DEF Shard1Is
  <1>11. MintedIs
    <2>1. \A v \in Validators, d \in Delegators : MintIn(1, staking[v][d].undelegations) = 0
      <3> TAKE v \in Validators, d \in Delegators
      <3> DEFINE U == staking[v][d].undelegations
      <3>1. U \in Entries /\ IsFiniteSet(U) /\ \A u \in U : u.epoch = 0
        BY <1>4, <1>5, EntriesOf
      <3> HIDE DEF U
      <3>2. 1 \in Nat /\ \A u \in U : u.epoch + LockPeriod >= 1 - 1
        BY <3>1, Constants
      <3>3. \A u \in U : MintRow(1, U)[u] = 0
        BY <3>1, <3>2, RepeatedMint DEF MintRow
      <3>4. MintIn(1, U) = SumFunctionOnSet(MintRow(1, U), U)
        BY <3>1, MintNat
      <3>5. {} \in SUBSET U /\ \A u \in U : MintRow(1, U)[u] \in Int
        BY <3>3
      <3>6. SumFunctionOnSet(MintRow(1, U), U) = SumFunctionOnSet(MintRow(1, U), {})
        BY <3>1, <3>3, <3>5, SumZeros
      <3>7. MintIn(1, U) = 0
        BY <3>4, <3>6, SumEmpty
      <3> QED BY <3>7 DEF U
    <2>2. MintOf(staking, 1) = 0
      <3> DEFINE f == MintTable(staking, 1)
      <3>1. f \in Tables /\ SumTable(f) \in Int
        BY <1>4, MintTableIs, RowSumsAre
      <3>2. \A v \in Validators, d \in Delegators : f[v][d] = 0
        BY <2>1 DEF MintTable
      <3> HIDE DEF f
      <3>3. \A v \in Validators, d \in Delegators : f[v][d] = f[v][d] + f[v][d]
        BY <3>2
      <3>4. SumTable(f) = SumTable(f) + SumTable(f)
        BY <3>1, <3>3, TableOfSums
      <3>5. SumTable(f) = 0
        BY <3>1, <3>4, OwnDouble
      <3> QED BY <3>5 DEF MintOf, f
    <2> QED BY <1>1, <1>8, <2>2 DEF MintedIs
  <1>12. ToolsSound
    BY <1>1 DEF ToolsSound
  <1> QED BY <1>3, <1>6, <1>7, <1>9, <1>10, <1>11, <1>12 DEF IInv

(* What a step of the chain leaves to the tools.                           *)
LEMMA ChainRuns ==
  ASSUME IInv, now \in Blocks
  PROVE  /\ mapped = {} /\ derived = None /\ summarized = None /\ published = None
         /\ labels = None \/ labels \in [DOMAIN receipts -> Labels]
  BY DEF IInv, ToolsSound

LEMMA HistShape ==
  ASSUME IInv
  PROVE  /\ now \in Nat \ {0} /\ now \in 1..(Cutoff + 2) /\ hist \in Seq(Snapshot) /\ Len(hist) = now - 1
         /\ acc \in Nat /\ minted \in Nat /\ recovered \in Nat /\ shard1 \in Nat
         /\ events \in 0..MaxEvents
         /\ liquid \in [Delegators -> Nat] /\ IsStake(staking) /\ PendingSince(staking, now)
         /\ receipts \in Seq(Receipt)
  BY Constants DEF IInv, Counters, Holdings, ReceiptsSound

LEMMA UndelegateStep ==
  ASSUME IInv, NEW v \in Validators, NEW d \in Delegators, Undelegate(v, d),
         UNCHANGED <<labels, mapped, files, published>>
  PROVE  IInv'
  <1> DEFINE x == Undelegated(staking[v][d], now)
             old == staking[v][d].undelegations
             new == [epoch |-> now, amount |-> 1]
  <1>1. /\ labels = None /\ now \in Blocks /\ events < MaxEvents /\ events' = events + 1
        /\ staking[v][d].active > 0 /\ \A u \in old : u.epoch # now
        /\ now' = now /\ liquid' = liquid /\ shard1' = shard1 /\ acc' = acc /\ minted' = minted
        /\ receipts' = receipts /\ hist' = hist
        /\ labels' = labels /\ mapped' = mapped /\ published' = published
        /\ recovered' = recovered /\ derived' = derived /\ summarized' = summarized
    BY DEF Undelegate, Event, Sampling, files
  <1>1a. staking' = WithDeposit(staking, v, d, x)
    BY DEF Undelegate, WithDeposit
  <1>2. /\ now \in Nat \ {0} /\ events \in 0..MaxEvents /\ IsStake(staking) /\ PendingSince(staking, now)
    BY HistShape
  <1>3. /\ staking[v][d] \in Deposit /\ staking[v][d].active \in Nat
        /\ old \in Entries /\ IsFiniteSet(old)
    BY <1>2, EntriesOf
  <1>4. old \cup {new} \in Entries /\ IsFiniteSet(old \cup {new}) /\ new.epoch = now
    <2>1. new \in [epoch : Nat, amount : Nat \ {0}]
      BY <1>2
    <2>2. IsFiniteSet(old \cup {new})
      BY <1>3, FS_AddElement
    <2> QED BY <1>3, <2>1, <2>2 DEF Entries
  <1>5. x \in Deposit /\ x.undelegations = old \cup {new}
    <2>1. PICK y : y = staking[v][d]
      OBVIOUS
    <2>2. PICK more : more = old \cup {new}
      OBVIOUS
    <2>3. x = [y EXCEPT !.active = y.active - 1, !.undelegations = more]
      BY <2>1, <2>2 DEF Undelegated
    <2>4. y \in Deposit /\ y.active - 1 \in Nat /\ more \in Entries
      BY <1>1, <1>3, <1>4, <2>1, <2>2
    <2> HIDE DEF x
    <2>5. x \in Deposit /\ x.undelegations = more
      BY <2>3, <2>4 DEF Deposit, Entries
    <2> QED BY <2>2, <2>5
  <1> HIDE DEF x, old, new
  <1>6. /\ IsStake(staking') /\ staking'[v][d].undelegations = old \cup {new}
        /\ \A w \in Validators, e \in Delegators :
             w # v \/ e # d => staking'[w][e].undelegations = staking[w][e].undelegations
    <2>1. IsStake(staking) /\ x \in Deposit /\ IsFiniteSet(x.undelegations)
      BY <1>2, <1>4, <1>5
    <2>2. IsStake(WithDeposit(staking, v, d, x))
      BY <2>1, DepositIs
    <2>3. /\ WithDeposit(staking, v, d, x)[v][d] = x
          /\ \A w \in Validators, e \in Delegators :
               w # v \/ e # d => WithDeposit(staking, v, d, x)[w][e] = staking[w][e]
      BY <2>1, DepositIs
    <2> QED BY <1>1a, <1>5, <2>2, <2>3
  <1>7. PendingSince(staking', now)
    <2> SUFFICES ASSUME NEW w \in Validators, NEW e \in Delegators, NEW u \in staking'[w][e].undelegations
                 PROVE  u.epoch <= now /\ (now <= First /\ w \notin Repeating => now <= u.epoch + LockPeriod)
      BY DEF PendingSince
    <2>1. CASE u \in staking[w][e].undelegations
      BY <1>2, <2>1 DEF PendingSince
    <2>2. CASE u \notin staking[w][e].undelegations
      <3>1. u = new
        BY <1>6, <2>2 DEF old
      <3> QED BY <1>2, <1>4, <3>1, Constants
    <2> QED BY <2>1, <2>2
  <1>8. MintOf(staking', now) = MintOf(staking, now)
    <2>1. MintIn(now, old \cup {new}) = MintIn(now, old)
      BY <1>2, <1>3, <1>4, MintOfNew
    <2>2. \A w \in Validators, e \in Delegators :
            MintIn(now, staking'[w][e].undelegations) = MintIn(now, staking[w][e].undelegations)
      BY <1>6, <2>1 DEF old
    <2>3. PICK stake : stake = staking'
      OBVIOUS
    <2>4. MintOf(stake, now) = MintOf(staking, now)
      BY <1>2, <2>2, <2>3, SameMint
    <2> QED BY <2>3, <2>4
  <1>9. Counters'
    BY <1>1, <1>2, StakeAssumption DEF IInv, Counters
  <1>10. Holdings'
    BY <1>1, <1>6, <1>7 DEF IInv, Holdings
  <1>11. ReceiptsSound' /\ Archived' /\ Shard1Is'
    BY <1>1 DEF IInv, ReceiptsSound, Archived, Shard1Is
  <1>12. MintedIs'
    BY <1>1, <1>8 DEF IInv, MintedIs
  <1>13. ToolsSound'
    BY <1>1 DEF IInv, ToolsSound
  <1> QED BY <1>9, <1>10, <1>11, <1>12, <1>13 DEF IInv

LEMMA RewardStep ==
  ASSUME IInv, NEW v \in Validators, NEW d \in Delegators, NEW committed \in BOOLEAN,
         Reward(v, d, committed), UNCHANGED <<labels, mapped, files, published>>
  PROVE  IInv'
  <1> DEFINE x == Rewarded(staking[v][d])
  <1>1. /\ events < MaxEvents /\ events' = events + 1
        /\ acc' = acc + 1
        /\ now' = now /\ liquid' = liquid /\ shard1' = shard1 /\ minted' = minted
        /\ receipts' = receipts /\ hist' = hist
        /\ labels' = labels /\ mapped' = mapped /\ published' = published
        /\ recovered' = recovered /\ derived' = derived /\ summarized' = summarized
    BY DEF Reward, Event, files
  <1>1a. staking' = IF committed THEN WithDeposit(staking, v, d, x) ELSE staking
    BY DEF Reward, WithDeposit
  <1>2. /\ now \in Nat \ {0} /\ events \in 0..MaxEvents /\ acc \in Nat
        /\ IsStake(staking) /\ PendingSince(staking, now)
    BY HistShape
  <1>3. /\ staking[v][d] \in Deposit /\ staking[v][d].reward \in Nat
        /\ IsFiniteSet(staking[v][d].undelegations)
    BY <1>2, EntriesOf
  <1>4. x \in Deposit /\ x.undelegations = staking[v][d].undelegations
    <2>1. PICK y : y = staking[v][d]
      OBVIOUS
    <2>2. x = [y EXCEPT !.reward = y.reward + 1]
      BY <2>1 DEF Rewarded
    <2>3. y \in Deposit /\ y.reward + 1 \in Nat
      BY <1>3, <2>1
    <2> HIDE DEF x
    <2>4. x \in Deposit /\ x.undelegations = y.undelegations
      BY <2>2, <2>3 DEF Deposit
    <2> QED BY <2>1, <2>4
  <1> HIDE DEF x
  <1>5. /\ IsStake(staking')
        /\ \A w \in Validators, e \in Delegators :
             staking'[w][e].undelegations = staking[w][e].undelegations
    <2>1. CASE committed
      <3>1. staking' = WithDeposit(staking, v, d, x)
        BY <1>1a, <2>1
      <3>2. /\ IsStake(WithDeposit(staking, v, d, x)) /\ WithDeposit(staking, v, d, x)[v][d] = x
            /\ \A w \in Validators, e \in Delegators :
                 w # v \/ e # d => WithDeposit(staking, v, d, x)[w][e] = staking[w][e]
        BY <1>2, <1>3, <1>4, DepositIs
      <3> QED BY <1>4, <3>1, <3>2
    <2>2. CASE ~committed
      BY <1>1a, <1>2, <2>2
    <2> QED BY <2>1, <2>2
  <1>6. PendingSince(staking', now)
    BY <1>2, <1>5 DEF PendingSince
  <1>7. MintOf(staking', now) = MintOf(staking, now)
    <2>1. PICK stake : stake = staking'
      OBVIOUS
    <2>2. MintOf(stake, now) = MintOf(staking, now)
      BY <1>2, <1>5, <2>1, SameMint
    <2> QED BY <2>1, <2>2
  <1>8. Counters'
    BY <1>1, <1>2, StakeAssumption DEF IInv, Counters
  <1>9. Holdings'
    BY <1>1, <1>5, <1>6 DEF IInv, Holdings
  <1>10. ReceiptsSound' /\ Archived' /\ Shard1Is'
    BY <1>1 DEF IInv, ReceiptsSound, Archived, Shard1Is
  <1>11. MintedIs'
    BY <1>1, <1>7 DEF IInv, MintedIs
  <1>12. ToolsSound'
    BY <1>1 DEF IInv, ToolsSound
  <1> QED BY <1>8, <1>9, <1>10, <1>11, <1>12 DEF IInv

LEMMA SendStep ==
  ASSUME IInv, NEW from \in {0, 1}, NEW backed \in BOOLEAN, Send(from, backed),
         UNCHANGED <<labels, mapped, files, published>>
  PROVE  IInv'
  <1> DEFINE r == [from |-> from, amount |-> 1, backed |-> backed, sent |-> now, applied |-> Never]
  <1>1. /\ now \in Blocks /\ events < MaxEvents /\ events' = events + 1 /\ labels = None
        /\ receipts' = Append(receipts, r)
        /\ now' = now /\ staking' = staking /\ acc' = acc /\ minted' = minted /\ hist' = hist
        /\ labels' = labels /\ mapped' = mapped /\ published' = published
        /\ recovered' = recovered /\ derived' = derived /\ summarized' = summarized
    BY DEF Send, Event, Sampling, files
  <1>2. IF ~ backed THEN liquid' = liquid /\ shard1' = shard1
        ELSE IF from = 0
        THEN liquid[Trader] > 0 /\ liquid' = [liquid EXCEPT ![Trader] = @ - 1] /\ shard1' = shard1
        ELSE shard1 > 0 /\ shard1' = shard1 - 1 /\ liquid' = liquid
    BY DEF Send
  <1>3. /\ now \in Nat \ {0} /\ shard1 \in Nat /\ events \in 0..MaxEvents
        /\ liquid \in [Delegators -> Nat] /\ receipts \in Seq(Receipt)
    BY HistShape
  <1>4. r \in Receipt /\ r.applied = Never /\ r.amount = 1 /\ r.sent = now /\ r.from = from /\ r.backed = backed
    BY <1>1, Constants DEF Receipt
  <1> HIDE DEF r
  <1>5. /\ Len(receipts') = Len(receipts) + 1 /\ receipts' \in Seq(Receipt)
        /\ DOMAIN receipts' = DOMAIN receipts \cup {Len(receipts) + 1}
        /\ \A i \in DOMAIN receipts : receipts'[i] = receipts[i]
        /\ receipts'[Len(receipts) + 1] = r
    BY <1>1, <1>3, <1>4
  <1>6. liquid' \in [Delegators -> Nat] /\ shard1' \in Nat
    <2>1. Trader \in Delegators
      BY CheckpointsAssumption
    <2>2. liquid[Trader] > 0 => liquid[Trader] - 1 \in Nat
      BY <1>3, <2>1
    <2>3. shard1 > 0 => shard1 - 1 \in Nat
      BY <1>3
    <2> QED BY <1>2, <1>3, <2>2, <2>3
  <1>7. Counters'
    BY <1>1, <1>3, <1>6, StakeAssumption DEF IInv, Counters
  <1>8. Holdings'
    BY <1>1, <1>6 DEF IInv, Holdings
  <1>9. ReceiptsSound'
    <2>1. \A i \in DOMAIN receipts' :
            /\ receipts'[i].sent <= now /\ receipts'[i].applied <= now
            /\ receipts'[i].applied # Never => receipts'[i].sent <= receipts'[i].applied
                                               /\ receipts'[i].applied \in Blocks
      <3> TAKE i \in DOMAIN receipts'
      <3>1. CASE i \in DOMAIN receipts
        BY <1>5, <3>1 DEF IInv, ReceiptsSound
      <3>2. CASE i = Len(receipts) + 1
        BY <1>3, <1>4, <1>5, <3>2, Constants
      <3> QED BY <1>5, <3>1, <3>2
    <2> QED BY <1>1, <1>5, <2>1 DEF ReceiptsSound
  <1>10. Archived'
    BY <1>1 DEF IInv, Archived
  <1>11. Shard1Is'
    <2>1. \A t \in Nat : Shard1By(receipts', t)
             = Shard1By(receipts, t) - (IF from = 1 /\ backed /\ now <= t THEN 1 ELSE 0)
      BY <1>1, <1>3, <1>4, Shard1Sent
    <2>2. \A t \in 1..(now - 1) : t \in Nat /\ ~(now <= t)
      BY <1>3
    <2>3. \A t \in Nat : Shard1By(receipts, t) \in Int
      BY <1>3, Shard1Int
    <2>4. \A t \in 1..(now - 1) : Shard1By(receipts', t) = Shard1By(receipts, t)
      BY <2>1, <2>2, <2>3
    <2>5. shard1 = Shard1By(receipts, now)
          /\ \A t \in 1..(now - 1) : hist[t].shard1 = Shard1By(receipts, t)
      BY DEF IInv, Shard1Is
    <2>6. Shard1By(receipts', now) = Shard1By(receipts, now) - (IF from = 1 /\ backed THEN 1 ELSE 0)
      BY <1>3, <2>1
    <2>7. shard1' = Shard1By(receipts', now)
      BY <1>2, <1>3, <2>5, <2>6
    <2>8. \A t \in 1..(now - 1) : hist[t].shard1 = Shard1By(receipts', t)
      BY <2>4, <2>5
    <2> QED BY <1>1, <2>7, <2>8 DEF Shard1Is
  <1>12. MintedIs'
    BY <1>1 DEF IInv, MintedIs
  <1>13. ToolsSound'
    BY <1>1, ChainRuns DEF ToolsSound
  <1> QED BY <1>7, <1>8, <1>9, <1>10, <1>11, <1>12, <1>13 DEF IInv

LEMMA ApplyStep ==
  ASSUME IInv, NEW i \in DOMAIN receipts, Apply(i), UNCHANGED <<labels, mapped, files, published>>
  PROVE  IInv'
  <1> DEFINE amount == receipts[i].amount
  <1>1. /\ now \in Blocks /\ labels = None /\ receipts[i].applied = Never
        /\ receipts' = WithApplied(receipts, i, now)
        /\ IF receipts[i].from = 0
           THEN shard1' = shard1 + amount /\ liquid' = liquid
           ELSE liquid' = [liquid EXCEPT ![Trader] = @ + amount] /\ shard1' = shard1
        /\ now' = now /\ staking' = staking /\ acc' = acc /\ minted' = minted /\ hist' = hist
        /\ events' = events
        /\ labels' = labels /\ mapped' = mapped /\ published' = published
        /\ recovered' = recovered /\ derived' = derived /\ summarized' = summarized
    BY DEF Apply, Sampling, WithApplied, files
  <1>2. /\ now \in Nat \ {0} /\ shard1 \in Nat
        /\ liquid \in [Delegators -> Nat] /\ receipts \in Seq(Receipt)
    BY HistShape
  <1>3. amount \in Nat /\ receipts[i].from \in {0, 1}
    BY <1>2, RowTyped
  <1>4. now \in Nat
    BY <1>2
  <1>5. /\ receipts' \in Seq(Receipt) /\ DOMAIN receipts' = DOMAIN receipts
        /\ \A k \in DOMAIN receipts \ {i} : receipts'[k] = receipts[k]
    BY <1>1, <1>2, <1>4, AppliedRow
  <1>6. /\ receipts'[i].applied = now /\ receipts'[i].sent = receipts[i].sent
        /\ receipts'[i].from = receipts[i].from
    <2>1. /\ WithApplied(receipts, i, now)[i].applied = now
          /\ WithApplied(receipts, i, now)[i].sent = receipts[i].sent
          /\ WithApplied(receipts, i, now)[i].from = receipts[i].from
      BY <1>2, <1>4, AppliedRow
    <2> QED BY <1>1, <2>1
  <1> HIDE DEF amount
  <1>7. liquid' \in [Delegators -> Nat] /\ shard1' \in Nat
    <2>1. Trader \in Delegators
      BY CheckpointsAssumption
    <2>2. liquid[Trader] + amount \in Nat /\ shard1 + amount \in Nat
      BY <1>2, <1>3, <2>1
    <2> QED BY <1>1, <1>2, <2>2
  <1>8. Counters'
    BY <1>1, <1>7 DEF IInv, Counters
  <1>9. Holdings'
    BY <1>1, <1>7 DEF IInv, Holdings
  <1>10. ReceiptsSound'
    <2>1. \A k \in DOMAIN receipts' :
            /\ receipts'[k].sent <= now /\ receipts'[k].applied <= now
            /\ receipts'[k].applied # Never => receipts'[k].sent <= receipts'[k].applied
                                               /\ receipts'[k].applied \in Blocks
      <3> TAKE k \in DOMAIN receipts'
      <3>1. receipts[k].sent <= now /\ receipts[k].applied <= now
            /\ (receipts[k].applied # Never => receipts[k].sent <= receipts[k].applied
                                               /\ receipts[k].applied \in Blocks)
        BY <1>5 DEF IInv, ReceiptsSound
      <3>2. CASE k = i
        BY <1>1, <1>4, <1>6, <3>1, <3>2
      <3>3. CASE k # i
        BY <1>5, <3>1, <3>3
      <3> QED BY <3>2, <3>3
    <2> QED BY <1>1, <1>5, <2>1 DEF ReceiptsSound
  <1>11. Archived'
    BY <1>1 DEF IInv, Archived
  <1>12. Shard1Is'
    <2>1. \A t \in Nat : Shard1By(receipts', t)
             = Shard1By(receipts, t) + (IF receipts[i].from = 0 /\ now <= t THEN amount ELSE 0)
      BY <1>1, <1>2, Shard1Applied DEF amount
    <2>2. \A t \in 1..(now - 1) : t \in Nat /\ ~(now <= t)
      BY <1>2
    <2>3. \A t \in Nat : Shard1By(receipts, t) \in Int
      BY <1>2, Shard1Int
    <2>4. \A t \in 1..(now - 1) : Shard1By(receipts', t) = Shard1By(receipts, t)
      BY <2>1, <2>2, <2>3
    <2>5. shard1 = Shard1By(receipts, now)
          /\ \A t \in 1..(now - 1) : hist[t].shard1 = Shard1By(receipts, t)
      BY DEF IInv, Shard1Is
    <2>6. Shard1By(receipts', now) = Shard1By(receipts, now) + (IF receipts[i].from = 0 THEN amount ELSE 0)
      BY <1>4, <2>1
    <2>7. shard1' = Shard1By(receipts', now)
      BY <1>1, <1>2, <1>3, <2>5, <2>6
    <2>8. \A t \in 1..(now - 1) : hist[t].shard1 = Shard1By(receipts', t)
      BY <2>4, <2>5
    <2> QED BY <1>1, <2>7, <2>8 DEF Shard1Is
  <1>13. MintedIs'
    BY <1>1 DEF IInv, MintedIs
  <1>14. ToolsSound'
    BY <1>1, ChainRuns DEF ToolsSound
  <1> QED BY <1>8, <1>9, <1>10, <1>11, <1>12, <1>13, <1>14 DEF IInv

LEMMA RecoverStep ==
  ASSUME IInv, Recover, UNCHANGED <<labels, mapped, files, published>>
  PROVE  IInv'
  <1>1. /\ events < MaxEvents /\ events' = events + 1 /\ recovered' = recovered + 1
        /\ liquid' = [liquid EXCEPT ![Trader] = @ + 1]
        /\ now' = now /\ staking' = staking /\ shard1' = shard1 /\ acc' = acc /\ minted' = minted
        /\ receipts' = receipts /\ hist' = hist
        /\ labels' = labels /\ mapped' = mapped /\ published' = published
        /\ derived' = derived /\ summarized' = summarized
    BY DEF Recover, Event, files
  <1>2. recovered \in Nat /\ events \in 0..MaxEvents /\ liquid \in [Delegators -> Nat]
    BY HistShape
  <1>3. liquid' \in [Delegators -> Nat]
    <2>1. Trader \in Delegators
      BY CheckpointsAssumption
    <2>2. liquid[Trader] + 1 \in Nat
      BY <1>2, <2>1
    <2> QED BY <1>1, <1>2, <2>2
  <1>4. Counters'
    BY <1>1, <1>2, StakeAssumption DEF IInv, Counters
  <1>5. Holdings'
    BY <1>1, <1>3 DEF IInv, Holdings
  <1>6. ReceiptsSound' /\ Archived' /\ Shard1Is' /\ MintedIs' /\ ToolsSound'
    BY <1>1 DEF IInv, ReceiptsSound, Archived, Shard1Is, MintedIs, ToolsSound
  <1> QED BY <1>4, <1>5, <1>6 DEF IInv

WithEntries(x, entries) == [x EXCEPT !.undelegations = entries]

LEMMA EntriesReplaced ==
  ASSUME NEW x \in Deposit, NEW entries \in Entries
  PROVE  /\ WithEntries(x, entries) \in Deposit /\ WithEntries(x, entries).undelegations = entries
  BY DEF WithEntries, Deposit, Entries

(* What is kept and what is paid at the end of a block.                    *)
LEMMA PayoutIs ==
  ASSUME IInv, NEW v \in Validators, NEW d \in Delegators
  PROVE  /\ Kept(v, d) \in SUBSET staking[v][d].undelegations
         /\ Finished(v, d) \in SUBSET staking[v][d].undelegations
         /\ Kept(v, d) \in Entries /\ IsFiniteSet(Kept(v, d))
         /\ Paid(v, d) \in Nat /\ PaidAgain(v, d) \in Nat
         /\ now < First =>
              /\ \A u \in staking[v][d].undelegations \ Kept(v, d) : u.epoch + LockPeriod = now
              /\ PaidAgain(v, d) = Pending({u \in staking[v][d].undelegations : u.epoch + LockPeriod < now})
              /\ v \notin Repeating => \A u \in Kept(v, d) : now + 1 <= u.epoch + LockPeriod
  <1> DEFINE U == staking[v][d].undelegations
  <1>1. now \in Nat /\ IsStake(staking) /\ PendingSince(staking, now)
    BY HistShape
  <1>2. U \in Entries /\ IsFiniteSet(U)
    BY <1>1, EntriesOf
  <1>3. Kept(v, d) = {u \in U : u.epoch + LockPeriod > now \/ (v \in Repeating /\ now < First)}
    BY DEF Kept
  <1>4. Finished(v, d) = {u \in U : IF now < First THEN u.epoch + LockPeriod <= now
                                    ELSE u.epoch + LockPeriod = now}
    BY DEF Finished
  <1>5. \A u \in U : u.epoch \in Nat /\ (now <= First /\ v \notin Repeating => now <= u.epoch + LockPeriod)
    BY <1>1, <1>2 DEF PendingSince, Entries
  <1> HIDE DEF U
  <1>6. PICK again : again = {u \in Finished(v, d) : u.epoch + LockPeriod < now}
    OBVIOUS
  <1>7. /\ Kept(v, d) \in SUBSET U /\ Finished(v, d) \in SUBSET U /\ again \in SUBSET U
        /\ Kept(v, d) \in Entries /\ Finished(v, d) \in Entries /\ again \in Entries
    BY <1>2, <1>3, <1>4, <1>6 DEF Entries
  <1>8. IsFiniteSet(Kept(v, d)) /\ IsFiniteSet(Finished(v, d)) /\ IsFiniteSet(again)
    BY <1>2, <1>7, FS_Subset
  <1>9. Paid(v, d) \in Nat
    BY <1>7, <1>8, PendingNat DEF Paid
  <1>10. PaidAgain(v, d) = Pending(again)
    BY <1>6 DEF PaidAgain
  <1>11. PaidAgain(v, d) \in Nat
    BY <1>7, <1>8, <1>10, PendingNat
  <1>12. ASSUME now < First
         PROVE  /\ \A u \in U \ Kept(v, d) : u.epoch + LockPeriod = now
                /\ again = {u \in U : u.epoch + LockPeriod < now}
                /\ v \notin Repeating => \A u \in Kept(v, d) : now + 1 <= u.epoch + LockPeriod
    <2>1. \A u \in U : u.epoch + LockPeriod \in Int
      BY <1>5, Constants
    <2>2. \A u \in U \ Kept(v, d) : v \notin Repeating /\ ~(u.epoch + LockPeriod > now)
      BY <1>12, <1>3
    <2>3. \A u \in U \ Kept(v, d) : u.epoch + LockPeriod = now
      BY <1>12, <1>1, <1>5, <2>1, <2>2, Constants
    <2>4. again = {u \in U : u.epoch + LockPeriod < now}
      BY <1>12, <1>1, <1>4, <1>6, <2>1
    <2>5. v \notin Repeating => \A u \in Kept(v, d) : now + 1 <= u.epoch + LockPeriod
      BY <1>1, <1>3, <2>1
    <2> QED BY <2>3, <2>4, <2>5
  <1> QED BY <1>7, <1>8, <1>9, <1>10, <1>11, <1>12 DEF U

LEMMA BlockStep ==
  ASSUME IInv, NextBlock, UNCHANGED <<labels, mapped, files, published>>
  PROVE  IInv'
  <1> DEFINE shot == [liquid |-> liquid, staking |-> staking, shard1 |-> shard1,
                      acc |-> acc, minted |-> minted, recovered |-> recovered,
                      claims |-> AccountAndStakingClaims]
             again == [v \in Validators |-> [d \in Delegators |-> PaidAgain(v, d)]]
  <1>1. /\ now \in Blocks /\ labels = None /\ hist' = Append(hist, shot)
        /\ minted' = minted + SumTable(again)
        /\ now' = now + 1 /\ shard1' = shard1 /\ acc' = acc /\ receipts' = receipts /\ events' = events
        /\ labels' = labels /\ mapped' = mapped /\ published' = published
        /\ recovered' = recovered /\ derived' = derived /\ summarized' = summarized
    BY DEF NextBlock, Sampling, files
  <1>2. liquid' = [d \in Delegators |-> liquid[d] + Sum([v \in Validators |-> Paid(v, d)])]
    BY DEF NextBlock
  <1>3. staking' = [v \in Validators |-> [d \in Delegators |-> WithEntries(staking[v][d], Kept(v, d))]]
    BY DEF NextBlock, WithEntries
  <1>4. /\ now \in Nat \ {0} /\ now \in 1..(Cutoff + 1) /\ hist \in Seq(Snapshot) /\ Len(hist) = now - 1
        /\ acc \in Nat /\ minted \in Nat /\ recovered \in Nat /\ shard1 \in Nat
        /\ events \in 0..MaxEvents
        /\ liquid \in [Delegators -> Nat] /\ IsStake(staking) /\ PendingSince(staking, now)
        /\ receipts \in Seq(Receipt)
    BY <1>1, HistShape, Constants
  <1>5. AccountAndStakingClaims = ClaimsIn(liquid, staking) /\ AccountAndStakingClaims \in Nat
    <2>1. AccountAndStakingClaims = ClaimsIn(liquid, staking)
      BY DEF AccountAndStakingClaims, ClaimsIn, ClaimTable
    <2>2. Sum(liquid) \in Nat
      BY <1>4, SumNat, FiniteSides
    <2>3. SumTable(ClaimTable(staking)) \in Nat
      BY <1>4, ClaimsNat
    <2>4. ClaimsIn(liquid, staking) \in Nat
      BY <2>2, <2>3 DEF ClaimsIn
    <2> QED BY <2>1, <2>4
  <1>6. /\ shot \in Snapshot /\ shot.liquid = liquid /\ shot.staking = staking /\ shot.shard1 = shard1
        /\ shot.minted = minted /\ shot.claims = ClaimsIn(liquid, staking)
    <2>1. staking \in [Validators -> [Delegators -> Deposit]]
      BY <1>4 DEF IsStake
    <2> QED BY <1>4, <1>5, <2>1 DEF Snapshot
  <1> HIDE DEF shot
  <1>7. /\ hist' \in Seq(Snapshot) /\ Len(hist') = now /\ hist'[now] = shot
        /\ \A t \in 1..(now - 1) : hist'[t] = hist[t]
    BY <1>1, <1>4, <1>6
  <1>8. liquid' \in [Delegators -> Nat]
    <2>1. ASSUME NEW d \in Delegators
          PROVE  liquid[d] + Sum([v \in Validators |-> Paid(v, d)]) \in Nat
      <3> DEFINE f == [v \in Validators |-> Paid(v, d)]
      <3>1. f \in [Validators -> Nat]
        BY PayoutIs
      <3> HIDE DEF f
      <3>2. Sum(f) \in Nat
        BY <3>1, SumNat, FiniteSides
      <3> QED BY <1>4, <3>2 DEF f
    <2> QED BY <1>2, <2>1
  <1>9. again \in [Validators -> [Delegators -> Nat]]
    BY PayoutIs
  <1>10. again \in Tables /\ SumTable(again) \in Nat
    <2> HIDE DEF again
    <2> QED BY <1>9, TableNat
  <1>11. IsStake(staking')
         /\ \A v \in Validators, d \in Delegators : staking'[v][d].undelegations = Kept(v, d)
    <2>1. \A v \in Validators, d \in Delegators :
            /\ staking'[v][d] = WithEntries(staking[v][d], Kept(v, d))
      BY <1>3
    <2>2. ASSUME NEW v \in Validators, NEW d \in Delegators
          PROVE  /\ WithEntries(staking[v][d], Kept(v, d)) \in Deposit
                 /\ WithEntries(staking[v][d], Kept(v, d)).undelegations = Kept(v, d)
                 /\ IsFiniteSet(Kept(v, d))
      <3>1. staking[v][d] \in Deposit
        BY <1>4, EntriesOf
      <3>2. Kept(v, d) \in Entries /\ IsFiniteSet(Kept(v, d))
        BY PayoutIs
      <3> QED BY <3>1, <3>2, EntriesReplaced
    <2>3. staking' \in [Validators -> [Delegators -> Deposit]]
      BY <1>3, <2>2
    <2>4. \A v \in Validators, d \in Delegators :
            staking'[v][d].undelegations = Kept(v, d) /\ IsFiniteSet(staking'[v][d].undelegations)
      BY <2>1, <2>2
    <2> QED BY <2>3, <2>4 DEF IsStake
  <1>12. PendingSince(staking', now + 1)
    <2> SUFFICES ASSUME NEW v \in Validators, NEW d \in Delegators, NEW u \in staking'[v][d].undelegations
                 PROVE  u.epoch <= now + 1 /\ (now + 1 <= First /\ v \notin Repeating => now + 1 <= u.epoch + LockPeriod)
      BY DEF PendingSince
    <2>1. u \in Kept(v, d) /\ u \in staking[v][d].undelegations
      BY <1>11, PayoutIs
    <2>2. u.epoch <= now /\ u.epoch \in Nat
      <3>1. staking[v][d].undelegations \in Entries
        BY <1>4, EntriesOf
      <3> QED BY <1>4, <2>1, <3>1 DEF PendingSince, Entries
    <2>3. now + 1 <= First => now < First
      BY <1>4, Constants
    <2>4. now < First /\ v \notin Repeating => now + 1 <= u.epoch + LockPeriod
      BY <2>1, PayoutIs
    <2> QED BY <1>4, <2>2, <2>3, <2>4
  <1>13. ASSUME now < First PROVE minted' = MintOf(staking', now + 1)
    <2>1. PICK stake : stake = staking'
      OBVIOUS
    <2>2. IsStake(stake) /\ now + 1 \in Nat /\ now \in Nat
      BY <1>4, <1>11, <2>1
    <2>3. ASSUME NEW v \in Validators, NEW d \in Delegators
          PROVE  MintTable(stake, now + 1)[v][d] = MintTable(staking, now)[v][d] + again[v][d]
      <3>1. PICK entries : entries = staking[v][d].undelegations
        OBVIOUS
      <3>2. entries \in Entries /\ IsFiniteSet(entries) /\ Kept(v, d) \in SUBSET entries
        BY <1>4, <3>1, EntriesOf, PayoutIs
      <3>3. /\ \A u \in entries \ Kept(v, d) : u.epoch + LockPeriod = now
            /\ PaidAgain(v, d) = Pending({u \in entries : u.epoch + LockPeriod < now})
        BY <1>13, <3>1, PayoutIs
      <3>4. MintIn(now + 1, Kept(v, d)) = MintIn(now, entries) + PaidAgain(v, d)
        BY <2>2, <3>2, <3>3, MintOfPayout
      <3>5. MintTable(stake, now + 1)[v][d] = MintIn(now + 1, Kept(v, d))
        BY <1>11, <2>1 DEF MintTable
      <3>6. MintTable(staking, now)[v][d] = MintIn(now, entries)
        BY <3>1 DEF MintTable
      <3> QED BY <3>4, <3>5, <3>6
    <2>4. MintTable(stake, now + 1) \in Tables /\ MintTable(staking, now) \in Tables
      BY <1>4, <2>2, MintTableIs
    <2> HIDE DEF again
    <2>5. SumTable(MintTable(stake, now + 1)) = SumTable(MintTable(staking, now)) + SumTable(again)
      BY <1>10, <2>3, <2>4, TableOfSums
    <2>6. minted = MintOf(staking, now)
      BY <1>4, <1>13, Constants DEF IInv, MintedIs
    <2>7. minted' = SumTable(MintTable(stake, now + 1))
      BY <1>1, <2>5, <2>6 DEF MintOf
    <2> QED BY <2>1, <2>7 DEF MintOf
  <1> HIDE DEF again
  <1>14. Counters'
    <2>1. now + 1 \in 1..(Cutoff + 2) /\ minted + SumTable(again) \in Nat /\ now = (now + 1) - 1
      BY <1>4, <1>10, Constants
    <2> QED BY <1>1, <1>4, <1>7, <2>1 DEF Counters
  <1>15. Holdings'
    BY <1>1, <1>8, <1>11, <1>12 DEF Holdings
  <1>16. ReceiptsSound'
    <2>1. \A i \in DOMAIN receipts : receipts[i].sent \in Int /\ receipts[i].applied \in Int
      BY <1>4, RowTyped
    <2>2. \A i \in DOMAIN receipts : receipts[i].sent <= now + 1 /\ receipts[i].applied <= now + 1
      BY <1>4, <2>1 DEF IInv, ReceiptsSound
    <2> QED BY <1>1, <2>2 DEF IInv, ReceiptsSound
  <1>17. Archived'
    <2>1. \A t \in 1..now : IsStake(hist'[t].staking) /\ hist'[t].claims = ClaimsIn(hist'[t].liquid, hist'[t].staking)
      <3> TAKE t \in 1..now
      <3>1. CASE t = now
        BY <1>4, <1>6, <1>7, <3>1
      <3>2. CASE t # now
        <4>1. t \in 1..(now - 1)
          BY <1>4, <3>2
        <4>2. IsStake(hist[t].staking) /\ hist[t].claims = ClaimsIn(hist[t].liquid, hist[t].staking)
          BY <4>1 DEF IInv, Archived
        <4> QED BY <1>7, <4>1, <4>2
      <3> QED BY <3>1, <3>2
    <2>2. now' - 1 = now
      BY <1>1, <1>4
    <2> QED BY <2>1, <2>2 DEF Archived
  <1>18. Shard1Is'
    <2>1. Shard1By(receipts, now + 1) = Shard1By(receipts, now)
      <3>1. \A i \in DOMAIN receipts : receipts[i].sent <= now /\ receipts[i].applied <= now
        BY DEF IInv, ReceiptsSound
      <3> QED BY <1>4, <3>1, Shard1Later
    <2>2. shard1 = Shard1By(receipts, now)
          /\ \A t \in 1..(now - 1) : hist[t].shard1 = Shard1By(receipts, t)
      BY DEF IInv, Shard1Is
    <2>3. \A t \in 1..now : hist'[t].shard1 = Shard1By(receipts, t)
      <3> TAKE t \in 1..now
      <3>1. CASE t = now
        BY <1>6, <1>7, <2>2, <3>1
      <3>2. CASE t # now
        <4>1. t \in 1..(now - 1)
          BY <1>4, <3>2
        <4> QED BY <1>7, <2>2, <4>1
      <3> QED BY <3>1, <3>2
    <2>4. now' - 1 = now
      BY <1>1, <1>4
    <2> QED BY <1>1, <2>1, <2>2, <2>3, <2>4 DEF Shard1Is
  <1>19. MintedIs'
    <2>1. now' <= First => now < First
      BY <1>1, <1>4, Constants
    <2>2. now' <= First => minted' = MintOf(staking', now')
      BY <1>1, <1>13, <2>1
    <2>3. ASSUME NEW t \in 1..now, t <= First
          PROVE  hist'[t].minted = MintOf(hist'[t].staking, t)
      <3>1. CASE t = now
        <4>1. minted = MintOf(staking, now)
          BY <2>3, <3>1 DEF IInv, MintedIs
        <4>2. hist'[t].minted = minted /\ hist'[t].staking = staking
          BY <1>6, <1>7, <3>1
        <4> QED BY <3>1, <4>1, <4>2
      <3>2. CASE t # now
        <4>1. t \in 1..(now - 1)
          BY <1>4, <3>2
        <4>2. hist[t].minted = MintOf(hist[t].staking, t)
          BY <2>3, <4>1 DEF IInv, MintedIs
        <4> QED BY <1>7, <4>1, <4>2
      <3> QED BY <3>1, <3>2
    <2>4. now' - 1 = now
      BY <1>1, <1>4
    <2> QED BY <2>2, <2>3, <2>4 DEF MintedIs
  <1>20. ToolsSound'
    BY <1>1, ChainRuns DEF ToolsSound
  <1> QED BY <1>14, <1>15, <1>16, <1>17, <1>18, <1>19, <1>20 DEF IInv

-----------------------------------------------------------------------------
(* The figures of the tools, when the chain has passed the cutoff.         *)

LEMMA Archives ==
  ASSUME IInv, NEW t \in 1..(now - 1)
  PROVE  /\ t \in Nat \ {0} /\ hist[t] \in Snapshot /\ IsStake(hist[t].staking)
         /\ hist[t].liquid \in [Delegators -> Nat]
         /\ hist[t].acc \in Nat /\ hist[t].minted \in Nat /\ hist[t].shard1 \in Nat
         /\ hist[t].recovered \in Nat
         /\ hist[t].claims \in Nat /\ hist[t].claims = ClaimsIn(hist[t].liquid, hist[t].staking)
         /\ hist[t].shard1 = Shard1By(receipts, t)
  <1>1. now \in Nat /\ hist \in Seq(Snapshot) /\ Len(hist) = now - 1
    BY HistShape
  <1>2. hist[t] \in Snapshot
    BY <1>1
  <1>3. IsStake(hist[t].staking) /\ hist[t].claims = ClaimsIn(hist[t].liquid, hist[t].staking)
    BY DEF IInv, Archived
  <1>4. hist[t].shard1 = Shard1By(receipts, t)
    BY DEF IInv, Shard1Is
  <1>5. /\ hist[t].liquid \in [Delegators -> Nat] /\ hist[t].acc \in Nat /\ hist[t].minted \in Nat
        /\ hist[t].shard1 \in Nat /\ hist[t].recovered \in Nat /\ hist[t].claims \in Nat
    BY <1>2 DEF Snapshot
  <1> QED BY <1>1, <1>2, <1>3, <1>4, <1>5

LEMMA ReconstructedIs ==
  ASSUME IInv, NEW t \in 1..(now - 1)
  PROVE  Reconstructed(t) = MintOf(hist[t].staking, t) /\ Reconstructed(t) \in Nat
  <1> DEFINE f == MintTable(hist[t].staking, t)
             columns == delegator_totals(t)
  <1>1. t \in Nat /\ IsStake(hist[t].staking)
    BY Archives
  <1>2. f \in Tables /\ MintOf(hist[t].staking, t) \in Nat
    BY <1>1, MintTableIs
  <1>3. \A d \in Delegators, v \in Validators :
          f[v][d] = Sum([u \in hist[t].staking[v][d].undelegations |-> repeated_mint(t, u)])
    BY DEF MintTable, MintIn
  <1>4. \A d \in Delegators : columns[d] = Sum([v \in Validators |-> f[v][d]])
    <2> TAKE d \in Delegators
    <2>1. [v \in Validators |-> f[v][d]]
            = [v \in Validators |->
                 Sum([u \in hist[t].staking[v][d].undelegations |-> repeated_mint(t, u)])]
      BY <1>3
    <2> QED BY <2>1 DEF delegator_totals
  <1>5. columns \in [Delegators -> Int]
    <2>1. ASSUME NEW d \in Delegators PROVE Sum([v \in Validators |-> f[v][d]]) \in Int
      <3> DEFINE g == [v \in Validators |-> f[v][d]]
      <3>1. g \in [Validators -> Int]
        BY <1>2 DEF Tables
      <3> HIDE DEF g
      <3>2. Sum(g) \in Int
        BY <3>1, SumIs, FiniteSides
      <3> QED BY <3>2 DEF g
    <2>2. columns = [d \in Delegators |-> columns[d]]
      BY DEF delegator_totals
    <2> HIDE DEF columns
    <2> QED BY <1>4, <2>1, <2>2
  <1>6. Reconstructed(t) = Sum(columns)
    BY DEF Reconstructed
  <1> HIDE DEF f, columns
  <1>7. SumTable(f) = Sum(columns)
    BY <1>2, <1>4, <1>5, TableByDelegator
  <1> QED BY <1>2, <1>6, <1>7 DEF MintOf, f

LEMMA AtEnd ==
  ASSUME IInv, now \notin Blocks
  PROVE  /\ now - 1 = Cutoff + 1 /\ First \in 1..(now - 1) /\ Cleanup \in 1..(now - 1) /\ Cutoff \in 1..(now - 1)
         /\ mapped \subseteq {i \in DOMAIN receipts : receipts[i].from = 0}
         /\ receipts \in Seq(Receipt)
  <1>1. now \in 1..(Cutoff + 2) /\ receipts \in Seq(Receipt)
    BY HistShape
  <1>2. now = Cutoff + 2
    BY <1>1, Constants
  <1> QED BY <1>1, <1>2, Constants DEF IInv, ToolsSound

LEMMA AmountIs ==
  ASSUME NEW rows
  PROVE  AmountOf(rows) = AmountIn(receipts, rows)
  BY DEF AmountOf, AmountIn

LEMMA AmountNat ==
  ASSUME receipts \in Seq(Receipt), NEW rows \in SUBSET DOMAIN receipts
  PROVE  AmountOf(rows) \in Nat
  <1>1. AmountIn(receipts, rows) \in Nat
    BY RowsFinite, AmountsAre
  <1> QED BY <1>1, AmountIs

LEMMA DeriveInt ==
  ASSUME IInv, now \notin Blocks, NEW c
  PROVE  /\ sum_later_credits(c) \in Nat /\ sum_later_valid_debits(c) \in Nat /\ derive(c) \in Int
         /\ hist[Cutoff].shard1 \in Nat
  <1> DEFINE credits == {i \in mapped : receipts[i].applied # Never /\ Later(c, receipts[i].applied)}
             debits == {i \in DOMAIN receipts : receipts[i].from = 1 /\ labels[i] = "valid_source_debit"
                                                /\ Later(c, receipts[i].sent)}
  <1>1. credits \in SUBSET DOMAIN receipts /\ debits \in SUBSET DOMAIN receipts
    BY AtEnd
  <1>2. sum_later_credits(c) = AmountOf(credits) /\ sum_later_valid_debits(c) = AmountOf(debits)
    BY DEF sum_later_credits, sum_later_valid_debits
  <1> HIDE DEF credits, debits
  <1>3. AmountOf(credits) \in Nat /\ AmountOf(debits) \in Nat
    BY <1>1, AtEnd, AmountNat
  <1>4. hist[Cutoff].shard1 \in Nat
    BY AtEnd, Archives
  <1> QED BY <1>2, <1>3, <1>4 DEF derive

Unbacked(t) == {i \in DOMAIN receipts : labels[i] = "unbacked" /\ receipts[i].applied \in 1..t}

LEMMA UnbackedNat ==
  ASSUME IInv, now \notin Blocks, NEW t
  PROVE  UnbackedCredit(t) \in Nat /\ UnbackedCredit(t) = AmountOf(Unbacked(t))
  <1>1. UnbackedCredit(t) = AmountOf(Unbacked(t))
    BY DEF UnbackedCredit, Unbacked
  <1>2. Unbacked(t) \in SUBSET DOMAIN receipts
    BY DEF Unbacked
  <1> QED BY <1>1, <1>2, AtEnd, AmountNat

LEMMA GenesisNat == Genesis \in Nat
  <1>1. SumTable(ClaimTable(InitialStake)) \in Nat
    <2>1. IsStake(InitialStake)
      <3>1. [active : Nat, reward : {0}, undelegations : SUBSET [epoch : {0}, amount : Nat \ {0}]] \subseteq Deposit
        BY DEF Deposit
      <3>2. InitialStake \in [Validators -> [Delegators -> Deposit]]
        BY <3>1, StakeAssumption
      <3> QED BY <3>2, StakeAssumption DEF IsStake
    <2> QED BY <2>1, ClaimsNat
  <1>2. Sum(InitialLiquid) \in Nat /\ InitialShard1 \in Nat
    BY StakeAssumption, SumNat, FiniteSides
  <1>3. Genesis = InitialShard1 + Sum(InitialLiquid) + SumTable(ClaimTable(InitialStake))
    BY DEF Genesis, ClaimTable
  <1> QED BY <1>1, <1>2, <1>3

LEMMA FiguresInt ==
  ASSUME IInv, now \notin Blocks, FilesPresent, NEW t \in Checkpoints
  PROVE  /\ Shard1Claims(t) \in Int /\ FormulaGap(t) \in Int /\ Residual(t) \in Int
         /\ Reconstructed(First) \in Nat /\ summarized[t] \in Nat /\ hist[t].recovered \in Nat
  <1>1. t \in 1..(now - 1) /\ First \in 1..(now - 1)
    BY AtEnd DEF Checkpoints
  <1>2. hist[t].claims \in Nat /\ hist[t].acc \in Nat /\ hist[t].recovered \in Nat
    BY <1>1, Archives
  <1>3. derived \in [{First, Cleanup} -> Nat] /\ summarized \in [Checkpoints -> Nat]
    BY DEF FilesPresent, IInv, ToolsSound
  <1>4. Shard1Claims(t) \in Int
    <2>1. hist[Cutoff].shard1 \in Nat
      BY AtEnd, Archives
    <2>2. t # Cutoff => derived[t] \in Nat
      BY <1>3 DEF Checkpoints
    <2> QED BY <2>1, <2>2 DEF Shard1Claims
  <1>5. Reconstructed(First) \in Nat
    BY <1>1, ReconstructedIs
  <1>6. summarized[t] \in Nat
    BY <1>3
  <1>7. FormulaGap(t) \in Int
    <2>1. FormulaGap(t) = hist[t].claims + Shard1Claims(t) - (Genesis + hist[t].acc)
      BY DEF FormulaGap, Shard0Claims
    <2> QED BY <1>2, <1>4, <2>1, GenesisNat
  <1>8. Residual(t) \in Int
    BY <1>2, <1>5, <1>6, <1>7 DEF Residual
  <1> QED BY <1>2, <1>4, <1>5, <1>6, <1>7, <1>8

LEMMA ComputedInt ==
  ASSUME IInv, now \notin Blocks, FilesPresent
  PROVE  Computed \in [Fields -> Int]
  <1>1. First \in Checkpoints /\ Cleanup \in Checkpoints /\ Cutoff \in Checkpoints
    BY DEF Checkpoints
  <1>2. /\ Residual(First) \in Int /\ Residual(Cleanup) \in Int /\ Residual(Cutoff) \in Int
        /\ Reconstructed(First) \in Int /\ summarized[Cutoff] \in Int /\ hist[Cutoff].recovered \in Int
    BY <1>1, FiguresInt
  <1>3. Change(First, Cleanup) \in Int /\ Change(Cleanup, Cutoff) \in Int
    BY <1>2 DEF Change
  <1>4. Fields = {"pre_existing", "december", "hip30", "cross_shard", "max_rate", "rounding",
                  "pre_existing_net_deficit"}
    BY DEF Fields, Components
  <1> DEFINE Figure(c) ==
        CASE c \in {"pre_existing", "pre_existing_net_deficit"} -> Residual(First)
          [] c = "december"     -> Reconstructed(First)
          [] c = "hip30"        -> hist[Cutoff].recovered
          [] c = "cross_shard"  -> summarized[Cutoff]
          [] c = "max_rate"     -> Change(First, Cleanup)
          [] c = "rounding"     -> Change(Cleanup, Cutoff)
  <1>5. \A c \in Fields : Figure(c) \in Int
    BY <1>2, <1>3, <1>4
  <1>6. Computed = [c \in Fields |-> Figure(c)]
    BY DEF Computed
  <1> HIDE DEF Figure
  <1> QED BY <1>5, <1>6

(* A step of the tools leaves the chain as it is.                          *)
LEMMA ChainKept ==
  ASSUME IInv, UNCHANGED chain, ToolsSound'
  PROVE  IInv'
  <1>1. /\ now' = now /\ liquid' = liquid /\ staking' = staking /\ shard1' = shard1 /\ acc' = acc
        /\ minted' = minted /\ recovered' = recovered /\ receipts' = receipts /\ hist' = hist
        /\ events' = events
    BY DEF chain
  <1>2. Counters' /\ Holdings' /\ ReceiptsSound' /\ Archived' /\ Shard1Is' /\ MintedIs'
    BY <1>1 DEF IInv, Counters, Holdings, ReceiptsSound, Archived, Shard1Is, MintedIs
  <1> QED BY <1>2 DEF IInv

LEMMA ToolStep ==
  ASSUME IInv,
         \/ \E minimum \in {0, First}, allowMissing \in BOOLEAN : Audit(minimum, allowMissing)
         \/ WriteBalances \/ WriteSummaryOfAudit
         \/ \E to \in Components : Publish(to)
         \/ \E i \in DOMAIN receipts : Relabel(i)
  PROVE  IInv'
  <1>1. ASSUME NEW minimum \in {0, First}, NEW allowMissing \in BOOLEAN, Audit(minimum, allowMissing)
        PROVE  IInv'
    <2>1. /\ now \notin Blocks /\ labels' \in [DOMAIN receipts -> Labels]
          /\ mapped' = Selected(minimum) /\ published' = published /\ UNCHANGED chain
          /\ derived' = derived /\ summarized' = summarized
      BY <1>1 DEF Audit, files
    <2>2. now' = now /\ receipts' = receipts
      BY <2>1 DEF chain
    <2>3. mapped' \subseteq {i \in DOMAIN receipts : receipts[i].from = 0}
      BY <2>1 DEF Selected
    <2>4. derived = None
      BY <1>1 DEF Audit, Sampling, IInv, ToolsSound
    <2>5. ToolsSound'
      BY <2>1, <2>2, <2>3, <2>4 DEF IInv, ToolsSound
    <2> QED BY <2>1, <2>5, ChainKept
  <1>2. ASSUME WriteBalances PROVE IInv'
    <2>1. /\ labels # None /\ labels' = labels /\ mapped' = mapped /\ published' = published
          /\ \A c \in {First, Cleanup} : derive(c) >= 0
          /\ derived' = [c \in {First, Cleanup} |-> derive(c)] /\ summarized' = summarized /\ UNCHANGED chain
      BY <1>2 DEF WriteBalances
    <2>2. now' = now /\ receipts' = receipts
      BY <2>1 DEF chain
    <2>3. now \notin Blocks
      BY <2>1 DEF IInv, ToolsSound
    <2>4. \A c \in {First, Cleanup} : derive(c) \in Nat
      <3>1. \A c \in {First, Cleanup} : derive(c) \in Int
        BY <2>3, DeriveInt
      <3> QED BY <2>1, <3>1
    <2>5. derived' \in [{First, Cleanup} -> Nat]
      BY <2>1, <2>4
    <2>6. ToolsSound'
      BY <2>1, <2>2, <2>3, <2>5 DEF IInv, ToolsSound
    <2> QED BY <2>1, <2>6, ChainKept
  <1>3. ASSUME WriteSummaryOfAudit PROVE IInv'
    <2>1. /\ labels # None /\ labels' = labels /\ mapped' = mapped /\ published' = published
          /\ summarized' = [t \in Checkpoints |-> UnbackedCredit(t)] /\ derived' = derived /\ UNCHANGED chain
      BY <1>3 DEF WriteSummaryOfAudit
    <2>2. now' = now /\ receipts' = receipts
      BY <2>1 DEF chain
    <2>3. now \notin Blocks
      BY <2>1 DEF IInv, ToolsSound
    <2>4. \A t \in Checkpoints : UnbackedCredit(t) \in Nat
      BY <2>3, UnbackedNat
    <2>5. summarized' \in [Checkpoints -> Nat]
      BY <2>1, <2>4
    <2>6. ToolsSound'
      BY <2>1, <2>2, <2>3, <2>5 DEF IInv, ToolsSound, Checkpoints
    <2> QED BY <2>1, <2>6, ChainKept
  <1>4. ASSUME NEW to \in Components, Publish(to) PROVE IInv'
    <2>1. /\ FilesPresent /\ labels' = labels /\ mapped' = mapped /\ UNCHANGED chain
          /\ derived' = derived /\ summarized' = summarized
          /\ published' = [[Computed EXCEPT !["cross_shard"] = @ - 1] EXCEPT ![to] = @ + 1]
      BY <1>4 DEF Publish, files
    <2>2. now' = now /\ receipts' = receipts
      BY <2>1 DEF chain
    <2>3. now \notin Blocks
      BY <2>1 DEF FilesPresent, IInv, ToolsSound
    <2>4. published' \in [Fields -> Int]
      <3>1. PICK figures : figures = Computed
        OBVIOUS
      <3>2. figures \in [Fields -> Int]
        BY <2>1, <2>3, <3>1, ComputedInt
      <3>3. to \in Fields /\ "cross_shard" \in Fields
        BY DEF Fields, Components
      <3>4. PICK booked : booked = [figures EXCEPT !["cross_shard"] = @ - 1]
        OBVIOUS
      <3>5. booked \in [Fields -> Int]
        BY <3>2, <3>3, <3>4
      <3>6. published' = [booked EXCEPT ![to] = @ + 1]
        BY <2>1, <3>1, <3>4
      <3> QED BY <3>3, <3>5, <3>6
    <2>5. ToolsSound'
      BY <2>1, <2>2, <2>3, <2>4 DEF IInv, ToolsSound
    <2> QED BY <2>1, <2>5, ChainKept
  <1>5. ASSUME NEW i \in DOMAIN receipts, Relabel(i) PROVE IInv'
    <2>1. /\ published # None /\ mapped' = mapped /\ published' = published /\ UNCHANGED chain
          /\ derived' = derived /\ summarized' = summarized
      BY <1>5 DEF Relabel, files
    <2>2. PICK l \in Labels : labels' = [labels EXCEPT ![i] = l]
      BY <1>5 DEF Relabel
    <2>3. now' = now /\ receipts' = receipts
      BY <2>1 DEF chain
    <2>4. now \notin Blocks
      BY <2>1 DEF IInv, ToolsSound
    <2>5. labels' = None \/ labels' \in [DOMAIN receipts -> Labels]
      <3>1. CASE labels = None
        <4>1. labels' = None
          BY <2>2, <3>1 DEF None
        <4> QED BY <4>1
      <3>2. CASE labels \in [DOMAIN receipts -> Labels]
        BY <2>2, <3>2
      <3> QED BY <3>1, <3>2 DEF IInv, ToolsSound
    <2>6. derived' # None => labels' # None
      <3>1. CASE labels = None
        BY <2>1, <3>1 DEF IInv, ToolsSound
      <3>2. CASE labels \in [DOMAIN receipts -> Labels]
        <4>1. i \in DOMAIN labels'
          BY <2>2, <3>2
        <4> QED BY <4>1 DEF None
      <3> QED BY <3>1, <3>2 DEF IInv, ToolsSound
    <2>7. ToolsSound'
      BY <2>1, <2>3, <2>4, <2>5, <2>6 DEF IInv, ToolsSound
    <2> QED BY <2>1, <2>7, ChainKept
  <1> QED BY <1>1, <1>2, <1>3, <1>4, <1>5

LEMMA InvNext == IInv /\ [Next]_vars => IInv'
  <1> SUFFICES ASSUME IInv, [Next]_vars PROVE IInv'
    OBVIOUS
  <1>1. ASSUME ChainStep PROVE IInv'
    <2>1. UNCHANGED <<labels, mapped, files, published>>
      BY <1>1 DEF ChainStep
    <2>2. ASSUME NEW v \in Validators, NEW d \in Delegators, Undelegate(v, d) PROVE IInv'
      BY <2>1, <2>2, UndelegateStep
    <2>3. ASSUME NEW v \in Validators, NEW d \in Delegators, NEW committed \in BOOLEAN, Reward(v, d, committed)
          PROVE  IInv'
      BY <2>1, <2>3, RewardStep
    <2>4. ASSUME NEW from \in {0, 1}, NEW backed \in BOOLEAN, Send(from, backed) PROVE IInv'
      BY <2>1, <2>4, SendStep
    <2>5. ASSUME NEW i \in DOMAIN receipts, Apply(i) PROVE IInv'
      BY <2>1, <2>5, ApplyStep
    <2>6. ASSUME Recover PROVE IInv'
      BY <2>1, <2>6, RecoverStep
    <2>7. ASSUME NextBlock PROVE IInv'
      BY <2>1, <2>7, BlockStep
    <2> QED BY <1>1, <2>2, <2>3, <2>4, <2>5, <2>6, <2>7 DEF ChainStep
  <1>2. CASE UNCHANGED vars
    <2>1. /\ now' = now /\ liquid' = liquid /\ staking' = staking /\ shard1' = shard1 /\ acc' = acc
          /\ minted' = minted /\ receipts' = receipts /\ hist' = hist /\ events' = events
          /\ labels' = labels /\ mapped' = mapped /\ published' = published
          /\ recovered' = recovered /\ derived' = derived /\ summarized' = summarized
      BY <1>2 DEF vars, chain, files
    <2> QED BY <2>1 DEF IInv, Counters, Holdings, ReceiptsSound, Archived, Shard1Is, MintedIs, ToolsSound
  <1>3. ASSUME \E to \in BookedUnder : Publish(to) PROVE \E to \in Components : Publish(to)
    BY <1>3, BookedAssumption
  <1> QED BY <1>1, <1>2, <1>3, ToolStep DEF Next

(* The chain is what its receipts and payouts tell, at every archived block. *)
THEOREM ClosureInvariant == Spec => []IInv
  BY InvInit, InvNext, PTL DEF Spec

-----------------------------------------------------------------------------
(* The properties.                                                         *)

LEMMA MintTold == ASSUME IInv PROVE MintExact
  <1> SUFFICES ASSUME Len(hist) \in 1..First PROVE Reconstructed(Len(hist)) = hist[Len(hist)].minted
    BY DEF MintExact
  <1> DEFINE t == Len(hist)
  <1>1. t \in 1..(now - 1) /\ t <= First
    BY HistShape, Constants
  <1> HIDE DEF t
  <1>2. Reconstructed(t) = MintOf(hist[t].staking, t)
    BY <1>1, ReconstructedIs
  <1>3. hist[t].minted = MintOf(hist[t].staking, t)
    BY <1>1 DEF IInv, MintedIs
  <1> QED BY <1>2, <1>3 DEF t

StakingClaims(t) == [d \in Delegators |-> StakingClaim(t, d)]

LEMMA ClaimsByDelegator ==
  ASSUME IInv, NEW t \in 1..(now - 1)
  PROVE  /\ StakingClaims(t) \in [Delegators -> Int]
         /\ Shard0Claims(t) = Sum(hist[t].liquid) + Sum(StakingClaims(t))
  <1> DEFINE f == ClaimTable(hist[t].staking)
             columns == StakingClaims(t)
  <1>1. IsStake(hist[t].staking) /\ Shard0Claims(t) = Sum(hist[t].liquid) + SumTable(f)
    BY Archives DEF Shard0Claims, ClaimsIn
  <1>2. f \in Tables
    BY <1>1, ClaimsNat
  <1>3. \A d \in Delegators : columns[d] = Sum([v \in Validators |-> f[v][d]])
    <2> TAKE d \in Delegators
    <2>1. [v \in Validators |-> f[v][d]] = [v \in Validators |-> ClaimOf(hist[t].staking[v][d])]
      BY DEF ClaimTable
    <2> QED BY <2>1 DEF StakingClaims, StakingClaim
  <1>4. columns \in [Delegators -> Int]
    <2>1. ASSUME NEW d \in Delegators PROVE Sum([v \in Validators |-> f[v][d]]) \in Int
      <3> DEFINE g == [v \in Validators |-> f[v][d]]
      <3>1. g \in [Validators -> Int]
        BY <1>2 DEF Tables
      <3> HIDE DEF g
      <3>2. Sum(g) \in Int
        BY <3>1, SumIs, FiniteSides
      <3> QED BY <3>2 DEF g
    <2>2. columns = [d \in Delegators |-> StakingClaim(t, d)]
      BY DEF StakingClaims
    <2>3. \A d \in Delegators : StakingClaim(t, d) \in Int
      BY <1>3, <2>1 DEF StakingClaims
    <2> HIDE DEF columns
    <2> QED BY <2>2, <2>3
  <1> HIDE DEF f, columns
  <1>5. SumTable(f) = Sum(columns)
    BY <1>2, <1>3, <1>4, TableByDelegator
  <1> QED BY <1>1, <1>4, <1>5 DEF columns

AllClaims(t) == [d \in Delegators |-> hist[t].liquid[d] + StakingClaim(t, d)]

LEMMA AllClaimsAre ==
  ASSUME IInv, NEW t \in 1..(now - 1)
  PROVE  /\ AllClaims(t) \in [Delegators -> Int] /\ Shard0Claims(t) = Sum(AllClaims(t))
         /\ \A d \in Delegators : /\ hist[t].liquid[d] \in Int /\ StakingClaim(t, d) \in Int
                                 /\ AllClaims(t)[d] = hist[t].liquid[d] + StakingClaim(t, d)
  <1>1. StakingClaims(t) \in [Delegators -> Int] /\ Shard0Claims(t) = Sum(hist[t].liquid) + Sum(StakingClaims(t))
    BY ClaimsByDelegator
  <1>2. hist[t].liquid \in [Delegators -> Nat]
    BY Archives
  <1>3. PICK L : L = hist[t].liquid
    OBVIOUS
  <1>4. PICK C : C = StakingClaims(t)
    OBVIOUS
  <1>5. L \in [Delegators -> Int] /\ C \in [Delegators -> Int] /\ Shard0Claims(t) = Sum(L) + Sum(C)
    BY <1>1, <1>2, <1>3, <1>4
  <1>6. \A d \in Delegators : C[d] = StakingClaim(t, d)
    BY <1>4 DEF StakingClaims
  <1>7. \A d \in Delegators : AllClaims(t)[d] = L[d] + C[d]
    BY <1>3, <1>6 DEF AllClaims
  <1>8. AllClaims(t) \in [Delegators -> Int]
    BY <1>3, <1>5, <1>6 DEF AllClaims
  <1>9. Sum(AllClaims(t)) = Sum(L) + Sum(C)
    BY <1>5, <1>7, <1>8, SumOfSums, FiniteSides
  <1> QED BY <1>3, <1>5, <1>6, <1>7, <1>8, <1>9

LEMMA DelegatorSums ==
  ASSUME NEW f \in [Delegators -> Int], NEW g \in [Delegators -> Int], NEW h \in [Delegators -> Int],
         \A d \in Delegators : h[d] = f[d] + g[d]
  PROVE  Sum(h) = Sum(f) + Sum(g)
  BY SumOfSums, FiniteSides

(* An account that no table lists has the same claims at both blocks.      *)
LEMMA ClaimsDiffTold == ASSUME IInv PROVE ClaimsDiffExact
  <1> SUFFICES ASSUME NEW old \in 1..(Len(hist) - 1)
               PROVE  ClaimDelta(old, Len(hist)) = Shard0Claims(Len(hist)) - Shard0Claims(old)
    BY DEF ClaimsDiffExact
  <1> DEFINE new == Len(hist)
  <1>1. new \in 1..(now - 1) /\ old \in 1..(now - 1)
    BY HistShape
  <1> HIDE DEF new
  <1> DEFINE listed == LiquidDiff(old, new)
             staked == {d \in Delegators : StakingClaim(old, d) # 0 \/ StakingClaim(new, d) # 0}
             all == listed \cup staked
             liquidDelta(d) == IF d \in listed THEN hist[new].liquid[d] - hist[old].liquid[d] ELSE 0
             delta == [d \in all |-> liquidDelta(d) + StakingClaim(new, d) - StakingClaim(old, d)]
             diff == [d \in Delegators |-> AllClaims(new)[d] - AllClaims(old)[d]]
  <1>2. ClaimDelta(old, new) = Sum(delta)
    BY DEF ClaimDelta
  <1>3. /\ AllClaims(new) \in [Delegators -> Int] /\ Shard0Claims(new) = Sum(AllClaims(new))
        /\ AllClaims(old) \in [Delegators -> Int] /\ Shard0Claims(old) = Sum(AllClaims(old))
    BY <1>1, AllClaimsAre
  <1>5. diff \in [Delegators -> Int] /\ \A d \in Delegators : AllClaims(new)[d] = AllClaims(old)[d] + diff[d]
    <2>1. \A d \in Delegators : AllClaims(new)[d] \in Int /\ AllClaims(old)[d] \in Int
      BY <1>3
    <2> QED BY <2>1
  <1>6. Sum(AllClaims(new)) = Sum(AllClaims(old)) + Sum(diff)
    <2> HIDE DEF diff
    <2> QED BY <1>3, <1>5, DelegatorSums
  <1>7. all \in SUBSET Delegators
    BY DEF LiquidDiff
  <1>8. \A d \in Delegators : /\ StakingClaim(old, d) \in Int /\ StakingClaim(new, d) \in Int
                              /\ hist[old].liquid[d] \in Int /\ hist[new].liquid[d] \in Int
                              /\ diff[d] = (hist[new].liquid[d] + StakingClaim(new, d))
                                             - (hist[old].liquid[d] + StakingClaim(old, d))
    <2> TAKE d \in Delegators
    <2>1. /\ StakingClaim(old, d) \in Int /\ StakingClaim(new, d) \in Int
          /\ hist[old].liquid[d] \in Int /\ hist[new].liquid[d] \in Int
          /\ AllClaims(old)[d] = hist[old].liquid[d] + StakingClaim(old, d)
          /\ AllClaims(new)[d] = hist[new].liquid[d] + StakingClaim(new, d)
      BY <1>1, AllClaimsAre
    <2> QED BY <2>1
  <1>9. \A d \in Delegators \ all : diff[d] = 0
    <2> TAKE d \in Delegators \ all
    <2>1. hist[old].liquid[d] = hist[new].liquid[d]
      BY DEF LiquidDiff
    <2>2. StakingClaim(old, d) = 0 /\ StakingClaim(new, d) = 0
      OBVIOUS
    <2> HIDE DEF diff
    <2> QED BY <1>8, <2>1, <2>2
  <1>10. \A d \in all : diff[d] = delta[d] /\ diff[d] \in Int
    <2> TAKE d \in all
    <2>1. liquidDelta(d) = hist[new].liquid[d] - hist[old].liquid[d]
      <3>1. d \in Delegators
        BY <1>7
      <3>2. d \notin listed => hist[new].liquid[d] = hist[old].liquid[d]
        BY <3>1 DEF LiquidDiff
      <3>3. hist[new].liquid[d] \in Int /\ hist[old].liquid[d] \in Int
        BY <1>8, <3>1
      <3> HIDE DEF listed
      <3> QED BY <3>2, <3>3
    <2>2. delta[d] = liquidDelta(d) + StakingClaim(new, d) - StakingClaim(old, d)
      OBVIOUS
    <2>3. d \in Delegators
      BY <1>7
    <2>4. /\ StakingClaim(old, d) \in Int /\ StakingClaim(new, d) \in Int
          /\ hist[old].liquid[d] \in Int /\ hist[new].liquid[d] \in Int
          /\ diff[d] = (hist[new].liquid[d] + StakingClaim(new, d))
                         - (hist[old].liquid[d] + StakingClaim(old, d))
      BY <1>8, <2>3
    <2> HIDE DEF diff, delta, liquidDelta, all
    <2>5. PICK x, y, a, b : /\ x = hist[old].liquid[d] /\ y = hist[new].liquid[d]
                            /\ a = StakingClaim(old, d) /\ b = StakingClaim(new, d)
      OBVIOUS
    <2>6. /\ x \in Int /\ y \in Int /\ a \in Int /\ b \in Int
          /\ diff[d] = (y + b) - (x + a) /\ liquidDelta(d) = y - x
          /\ delta[d] = liquidDelta(d) + b - a
      BY <2>1, <2>2, <2>4, <2>5
    <2> QED BY <2>6
  <1>11. DOMAIN delta = all /\ IsFiniteSet(all)
    BY <1>7, FiniteSides, FS_Subset
  <1> HIDE DEF listed, staked, all, liquidDelta, delta, diff
  <1>12. Sum(diff) = SumFunctionOnSet(diff, Delegators)
    BY <1>5, SumIs, FiniteSides
  <1>13. SumFunctionOnSet(diff, Delegators) = SumFunctionOnSet(diff, all)
    <2>1. \A d \in Delegators : diff[d] \in Int
      BY <1>5
    <2> QED BY <1>7, <1>9, <2>1, SumZeros, FiniteSides
  <1>14. SumFunctionOnSet(diff, all) = SumFunctionOnSet(delta, all)
    BY <1>10, <1>11, SumSame
  <1>15. Sum(delta) = SumFunctionOnSet(delta, all)
    BY <1>11, SumOn DEF Sum
  <1>16. Sum(diff) \in Int /\ Sum(AllClaims(old)) \in Int
    BY <1>3, <1>5, SumIs, FiniteSides
  <1>17. ClaimDelta(old, new) = Shard0Claims(new) - Shard0Claims(old)
    BY <1>2, <1>3, <1>6, <1>12, <1>13, <1>14, <1>15, <1>16
  <1> QED BY <1>17 DEF new

LaterCredits(c) == {i \in mapped : receipts[i].applied # Never /\ Later(c, receipts[i].applied)}
LaterDebits(c) ==
  {i \in DOMAIN receipts :
     receipts[i].from = 1 /\ labels[i] = "valid_source_debit" /\ Later(c, receipts[i].sent)}

LEMMA DeriveIs ==
  ASSUME IInv, now \notin Blocks, NEW c
  PROVE  /\ derive(c) = hist[Cutoff].shard1 - AmountOf(LaterCredits(c)) + AmountOf(LaterDebits(c))
         /\ AmountOf(LaterCredits(c)) \in Nat /\ AmountOf(LaterDebits(c)) \in Nat
  <1>1. sum_later_credits(c) = AmountOf(LaterCredits(c))
    BY DEF sum_later_credits, LaterCredits
  <1>2. sum_later_valid_debits(c) = AmountOf(LaterDebits(c))
    BY DEF sum_later_valid_debits, LaterDebits
  <1> QED BY <1>1, <1>2, DeriveInt DEF derive


LEMMA ArchivedShard1 ==
  ASSUME IInv, NEW t \in 1..(now - 1)
  PROVE  /\ hist[t].shard1 = InitialShard1 + AmountOf(CreditedBy(receipts, t)) - AmountOf(DebitedBy(receipts, t))
         /\ AmountOf(CreditedBy(receipts, t)) \in Nat /\ AmountOf(DebitedBy(receipts, t)) \in Nat
         /\ InitialShard1 \in Nat
  <1>1. t \in Nat /\ hist[t].shard1 = Shard1By(receipts, t) /\ receipts \in Seq(Receipt)
    BY Archives, HistShape
  <1>2. /\ AmountIn(receipts, CreditedBy(receipts, t)) \in Nat /\ AmountIn(receipts, DebitedBy(receipts, t)) \in Nat
    BY <1>1, Shard1Int
  <1> QED BY <1>1, <1>2, AmountIs, StakeAssumption DEF Shard1By

LEMMA AmountsSplit ==
  ASSUME receipts \in Seq(Receipt), NEW all \in SUBSET DOMAIN receipts, NEW rows, NEW rest,
         Parts(all, rows, rest)
  PROVE  /\ AmountOf(all) = AmountOf(rows) + AmountOf(rest)
         /\ AmountOf(all) \in Nat /\ AmountOf(rows) \in Nat /\ AmountOf(rest) \in Nat
  <1>1. IsFiniteSet(all) /\ Priced(receipts, all)
    BY RowsFinite
  <1>2. /\ AmountIn(receipts, all) = AmountIn(receipts, rows) + AmountIn(receipts, rest)
        /\ AmountIn(receipts, rows) \in Nat /\ AmountIn(receipts, rest) \in Nat /\ AmountIn(receipts, all) \in Nat
    BY <1>1, AmountSplit
  <1> QED BY <1>2, AmountIs

(* A credit moves shard 1 at the block it is applied, a debit at the block  *)
(* it is sent: what is between a checkpoint and the cutoff is taken back.   *)
LEMMA DerivedTold == ASSUME IInv PROVE DerivedExact
  <1> SUFFICES ASSUME labels # None,
                      \A i \in DOMAIN receipts : receipts[i].from = 1 => LabelledRight(i),
                      NEW c \in {First, Cleanup}, DestinationsComplete(c)
               PROVE  derive(c) = hist[c].shard1
    BY DEF DerivedExact
  <1>1. now \notin Blocks
    BY DEF IInv, ToolsSound
  <1>2. /\ receipts \in Seq(Receipt) /\ c \in 1..(now - 1) /\ Cutoff \in 1..(now - 1)
        /\ mapped \subseteq {i \in DOMAIN receipts : receipts[i].from = 0}
        /\ c \in Nat /\ Cutoff \in Nat /\ c < Cutoff
    BY <1>1, AtEnd, Constants
  <1>3. \A i \in DOMAIN receipts : receipts[i].applied \in Nat /\ receipts[i].sent \in Nat \ {0}
    BY <1>2, RowTyped, Constants
  <1>4. Parts(CreditedBy(receipts, Cutoff), CreditedBy(receipts, c), LaterCredits(c))
    <2>1. \A i \in DOMAIN receipts : i \in LaterCredits(c) <=>
            receipts[i].from = 0 /\ receipts[i].applied \in (c + 1)..Cutoff
      <3> TAKE i \in DOMAIN receipts
      <3>1. i \in LaterCredits(c) <=> i \in mapped /\ receipts[i].applied # Never /\ Later(c, receipts[i].applied)
        BY <1>2 DEF LaterCredits
      <3>2. receipts[i].applied # Never /\ Later(c, receipts[i].applied) <=> receipts[i].applied \in (c + 1)..Cutoff
        BY <1>2, <1>3, Constants DEF Later
      <3>3. receipts[i].from = 0 /\ receipts[i].applied \in (c + 1)..Cutoff => i \in mapped
        BY <3>2 DEF DestinationsComplete
      <3> QED BY <1>2, <3>1, <3>2, <3>3
    <2>2. LaterCredits(c) \subseteq DOMAIN receipts
      BY <1>2 DEF LaterCredits
    <2>3. \A i \in DOMAIN receipts :
            receipts[i].applied \in 1..Cutoff <=> receipts[i].applied \in 1..c \/ receipts[i].applied \in (c + 1)..Cutoff
      BY <1>2, <1>3
    <2>4. \A i \in DOMAIN receipts : ~(receipts[i].applied \in 1..c /\ receipts[i].applied \in (c + 1)..Cutoff)
      BY <1>2, <1>3
    <2> QED BY <2>1, <2>2, <2>3, <2>4 DEF CreditedBy, Parts
  <1>5. Parts(DebitedBy(receipts, Cutoff), DebitedBy(receipts, c), LaterDebits(c))
    <2>1. \A i \in DOMAIN receipts : i \in LaterDebits(c) <=>
            receipts[i].from = 1 /\ receipts[i].backed /\ c < receipts[i].sent /\ receipts[i].sent <= Cutoff
      <3> TAKE i \in DOMAIN receipts
      <3>1. receipts[i].from = 1 => (labels[i] = "valid_source_debit" <=> receipts[i].backed)
        BY DEF LabelledRight
      <3>2. i \in LaterDebits(c) <=> receipts[i].from = 1 /\ labels[i] = "valid_source_debit"
                                      /\ c < receipts[i].sent /\ receipts[i].sent <= Cutoff
        BY DEF LaterDebits, Later
      <3> QED BY <3>1, <3>2
    <2>2. LaterDebits(c) \subseteq DOMAIN receipts
      BY DEF LaterDebits
    <2>3. \A i \in DOMAIN receipts :
            receipts[i].sent <= Cutoff <=> receipts[i].sent <= c \/ (c < receipts[i].sent /\ receipts[i].sent <= Cutoff)
      BY <1>2, <1>3
    <2>4. \A i \in DOMAIN receipts : ~(receipts[i].sent <= c /\ c < receipts[i].sent)
      BY <1>2, <1>3
    <2> QED BY <2>1, <2>2, <2>3, <2>4 DEF DebitedBy, Parts
  <1>6. CreditedBy(receipts, Cutoff) \in SUBSET DOMAIN receipts /\ DebitedBy(receipts, Cutoff) \in SUBSET DOMAIN receipts
    BY DEF CreditedBy, DebitedBy
  <1>7. AmountOf(CreditedBy(receipts, Cutoff)) = AmountOf(CreditedBy(receipts, c)) + AmountOf(LaterCredits(c))
    BY <1>2, <1>4, <1>6, AmountsSplit
  <1>8. AmountOf(DebitedBy(receipts, Cutoff)) = AmountOf(DebitedBy(receipts, c)) + AmountOf(LaterDebits(c))
    BY <1>2, <1>5, <1>6, AmountsSplit
  <1>9. /\ hist[c].shard1 = InitialShard1 + AmountOf(CreditedBy(receipts, c)) - AmountOf(DebitedBy(receipts, c))
        /\ hist[Cutoff].shard1
             = InitialShard1 + AmountOf(CreditedBy(receipts, Cutoff)) - AmountOf(DebitedBy(receipts, Cutoff))
        /\ InitialShard1 \in Nat
        /\ AmountOf(CreditedBy(receipts, c)) \in Nat /\ AmountOf(DebitedBy(receipts, c)) \in Nat
    BY <1>2, ArchivedShard1
  <1>10. /\ derive(c) = hist[Cutoff].shard1 - AmountOf(LaterCredits(c)) + AmountOf(LaterDebits(c))
         /\ AmountOf(LaterCredits(c)) \in Nat /\ AmountOf(LaterDebits(c)) \in Nat
    BY <1>1, DeriveIs
  <1> QED BY <1>7, <1>8, <1>9, <1>10

-----------------------------------------------------------------------------
(* The published components.                                               *)

LEMMA SumOfSix ==
  ASSUME NEW f \in [Components -> Int]
  PROVE  Sum(f) = f["pre_existing"] + f["december"] + f["hip30"] + f["cross_shard"] + f["max_rate"] + f["rounding"]
  <1>1. Components = {"pre_existing", "december", "hip30", "cross_shard", "max_rate", "rounding"}
    BY DEF Components
  <1>2. \A c \in Components : f[c] \in Int
    OBVIOUS
  <1> DEFINE A == {"pre_existing"}
             B == A \cup {"december"}
             C == B \cup {"hip30"}
             D == C \cup {"cross_shard"}
             E == D \cup {"max_rate"}
             F == E \cup {"rounding"}
  <1>3. F = Components /\ A = {} \cup {"pre_existing"}
    BY <1>1
  <1>4. IsFiniteSet({}) /\ IsFiniteSet(A) /\ IsFiniteSet(B) /\ IsFiniteSet(C) /\ IsFiniteSet(D) /\ IsFiniteSet(E)
        /\ IsFiniteSet(F)
    <2>1. IsFiniteSet({})
      BY FS_EmptySet
    <2>2. IsFiniteSet(A)
      BY FS_Singleton
    <2>3. IsFiniteSet(B)
      BY <2>2, FS_AddElement
    <2>4. IsFiniteSet(C)
      BY <2>3, FS_AddElement
    <2>5. IsFiniteSet(D)
      BY <2>4, FS_AddElement
    <2>6. IsFiniteSet(E)
      BY <2>5, FS_AddElement
    <2>7. IsFiniteSet(F)
      BY <2>6, FS_AddElement
    <2> QED BY <2>1, <2>2, <2>3, <2>4, <2>5, <2>6, <2>7
  <1>5. /\ "pre_existing" \notin {} /\ "december" \notin A /\ "hip30" \notin B /\ "cross_shard" \notin C
        /\ "max_rate" \notin D /\ "rounding" \notin E
    OBVIOUS
  <1>6. /\ \A c \in {} \cup {"pre_existing"} : f[c] \in Int
        /\ \A c \in A \cup {"december"} : f[c] \in Int
        /\ \A c \in B \cup {"hip30"} : f[c] \in Int
        /\ \A c \in C \cup {"cross_shard"} : f[c] \in Int
        /\ \A c \in D \cup {"max_rate"} : f[c] \in Int
        /\ \A c \in E \cup {"rounding"} : f[c] \in Int
    BY <1>1, <1>2
  <1> HIDE DEF A, B, C, D, E
  <1>7. SumFunctionOnSet(f, {} \cup {"pre_existing"}) = SumFunctionOnSet(f, {}) + f["pre_existing"]
    BY <1>4, <1>5, <1>6, SumAdd
  <1>8. SumFunctionOnSet(f, A \cup {"december"}) = SumFunctionOnSet(f, A) + f["december"]
    BY <1>4, <1>5, <1>6, SumAdd
  <1>9. SumFunctionOnSet(f, B \cup {"hip30"}) = SumFunctionOnSet(f, B) + f["hip30"]
    BY <1>4, <1>5, <1>6, SumAdd
  <1>10. SumFunctionOnSet(f, C \cup {"cross_shard"}) = SumFunctionOnSet(f, C) + f["cross_shard"]
    BY <1>4, <1>5, <1>6, SumAdd
  <1>11. SumFunctionOnSet(f, D \cup {"max_rate"}) = SumFunctionOnSet(f, D) + f["max_rate"]
    BY <1>4, <1>5, <1>6, SumAdd
  <1>12. SumFunctionOnSet(f, E \cup {"rounding"}) = SumFunctionOnSet(f, E) + f["rounding"]
    BY <1>4, <1>5, <1>6, SumAdd
  <1>13. SumFunctionOnSet(f, {}) = 0
    BY SumEmpty
  <1>14. Sum(f) = SumFunctionOnSet(f, Components)
    BY <1>3, <1>4, SumIs
  <1>15. f["pre_existing"] \in Int
    BY <1>6
  <1>16. SumFunctionOnSet(f, A) = f["pre_existing"]
    BY <1>3, <1>7, <1>13, <1>15
  <1>17. SumFunctionOnSet(f, B) = f["pre_existing"] + f["december"]
    BY <1>8, <1>16 DEF B
  <1>18. SumFunctionOnSet(f, C) = f["pre_existing"] + f["december"] + f["hip30"]
    BY <1>9, <1>17 DEF C
  <1>19. SumFunctionOnSet(f, D) = f["pre_existing"] + f["december"] + f["hip30"] + f["cross_shard"]
    BY <1>10, <1>18 DEF D
  <1>20. SumFunctionOnSet(f, E) = f["pre_existing"] + f["december"] + f["hip30"] + f["cross_shard"] + f["max_rate"]
    BY <1>11, <1>19 DEF E
  <1>21. SumFunctionOnSet(f, Components) = f["pre_existing"] + f["december"] + f["hip30"] + f["cross_shard"] + f["max_rate"] + f["rounding"]
    BY <1>3, <1>12, <1>20
  <1> QED BY <1>14, <1>21

LEMMA TypesHold == ASSUME IInv PROVE TypeOK
  <1>1. /\ now \in 1..(Cutoff + 2) /\ now \in Nat /\ acc \in Nat /\ minted \in Nat /\ recovered \in Nat /\ shard1 \in Nat
        /\ events \in 0..MaxEvents /\ liquid \in [Delegators -> Nat] /\ IsStake(staking)
        /\ PendingSince(staking, now) /\ receipts \in Seq(Receipt)
    BY HistShape
  <1>2. ASSUME NEW v \in Validators, NEW d \in Delegators
        PROVE  /\ staking[v][d].active \in Nat /\ staking[v][d].reward \in Nat
               /\ \A u \in staking[v][d].undelegations : u.epoch \in 0..now /\ u.amount \in Nat \ {0}
    <2>1. /\ staking[v][d].active \in Nat /\ staking[v][d].reward \in Nat
          /\ staking[v][d].undelegations \in Entries
      BY <1>1, EntriesOf
    <2>2. \A u \in staking[v][d].undelegations : u.epoch \in Nat /\ u.amount \in Nat \ {0} /\ u.epoch <= now
      BY <1>1, <2>1 DEF Entries, PendingSince
    <2> QED BY <1>1, <2>1, <2>2
  <1>3. \A i \in DOMAIN receipts :
          /\ receipts[i].sent \in Blocks
          /\ receipts[i].applied # Never => receipts[i].applied >= receipts[i].sent
    <2>1. \A i \in DOMAIN receipts : receipts[i].sent \in Blocks /\ receipts[i].sent \in Nat /\ receipts[i].applied \in Nat
      BY <1>1, RowTyped
    <2>2. \A i \in DOMAIN receipts : receipts[i].applied # Never => receipts[i].sent <= receipts[i].applied
      BY DEF IInv, ReceiptsSound
    <2> QED BY <2>1, <2>2
  <1>4. /\ labels = None \/ labels \in [DOMAIN receipts -> Labels]
        /\ mapped \subseteq DOMAIN receipts
        /\ derived = None \/ derived \in [{First, Cleanup} -> Nat]
        /\ summarized = None \/ summarized \in [Checkpoints -> Nat]
        /\ published = None \/ published \in [Fields -> Int]
    BY DEF IInv, ToolsSound
  <1> QED BY <1>1, <1>2, <1>3, <1>4 DEF TypeOK

LEMMA CrossShardTold == ASSUME IInv PROVE CrossShardPinned
  <1>1. TypeOK
    BY TypesHold
  <1>2. ASSUME VerifyReconciliation
        PROVE  published["cross_shard"] - summarized[Cutoff] =
                 (published["pre_existing_net_deficit"] - published["pre_existing"])
                   + (hist[Cutoff].recovered - published["hip30"])
    <2>1. published # None /\ FilesPresent /\ ComponentsClose /\ ClosureReproduced
      BY <1>2 DEF VerifyReconciliation
    <2>2. now \notin Blocks /\ published \in [Fields -> Int]
      BY <2>1 DEF IInv, ToolsSound
    <2> DEFINE f == [c \in Components |-> published[c]]
    <2>3. f \in [Components -> Int]
      BY <2>2 DEF Fields
    <2>4. /\ f["pre_existing"] = published["pre_existing"] /\ f["december"] = published["december"]
          /\ f["hip30"] = published["hip30"] /\ f["cross_shard"] = published["cross_shard"]
          /\ f["max_rate"] = published["max_rate"] /\ f["rounding"] = published["rounding"]
      BY DEF Components
    <2>5. /\ published["pre_existing"] \in Int /\ published["december"] \in Int /\ published["hip30"] \in Int
          /\ published["cross_shard"] \in Int /\ published["max_rate"] \in Int /\ published["rounding"] \in Int
          /\ published["pre_existing_net_deficit"] \in Int
      BY <2>2 DEF Fields, Components
    <2>6. Sum(f) = FormulaGap(Cutoff)
      BY <2>1 DEF ComponentsClose
    <2> HIDE DEF f
    <2>7. FormulaGap(Cutoff) = published["pre_existing"] + published["december"] + published["hip30"]
                                 + published["cross_shard"] + published["max_rate"] + published["rounding"]
      BY <2>3, <2>4, <2>6, SumOfSix
    <2>8. /\ Residual(First) = published["pre_existing_net_deficit"]
          /\ Residual(Cutoff) = Residual(First) + published["max_rate"] + published["rounding"]
          /\ Reconstructed(First) = published["december"]
      BY <2>1 DEF ClosureReproduced
    <2>9. Residual(Cutoff)
            = FormulaGap(Cutoff) - (hist[Cutoff].recovered + Reconstructed(First) + summarized[Cutoff])
      BY DEF Residual
    <2>10. FormulaGap(Cutoff) \in Int /\ hist[Cutoff].recovered \in Int /\ summarized[Cutoff] \in Int
      BY <2>1, <2>2, FiguresInt DEF Checkpoints
    <2> QED BY <2>5, <2>7, <2>8, <2>9, <2>10
  <1> QED BY <1>1, <1>2 DEF CrossShardPinned


-----------------------------------------------------------------------------
(* A wrong label between two checkpoints.                                  *)

From(shard) == {i \in DOMAIN receipts : receipts[i].from = shard}
UnbackedFrom(shard) == {i \in From(shard) : labels[i] = "unbacked"}
ValidFrom(shard) == {i \in From(shard) : labels[i] = "valid_source_debit"}
TrulyUnbacked(shard) == {i \in From(shard) : ~ receipts[i].backed}
TrulyBacked(shard) == {i \in From(shard) : receipts[i].backed}
LabelledUnbacked == {i \in DOMAIN receipts : labels[i] = "unbacked"}
NotBacked == {i \in DOMAIN receipts : ~ receipts[i].backed}

(* f is the amount of the row on part of all rows and 0 on the others.     *)
Indicates(f, all, part) == \A i \in all : f[i] = IF i \in part THEN receipts[i].amount ELSE 0

(* The amount of a part of the rows, as a sum over all of them.            *)
LEMMA PartOfRows ==
  ASSUME receipts \in Seq(Receipt), NEW all \in SUBSET DOMAIN receipts, NEW part \in SUBSET all,
         NEW f, Indicates(f, all, part)
  PROVE  /\ AmountOf(part) = SumFunctionOnSet(f, all) /\ AmountOf(part) \in Nat
         /\ \A i \in all : f[i] \in Int
  <1> DEFINE g == Amounts(receipts, part)
  <1>1. IsFiniteSet(all) /\ IsFiniteSet(part) /\ Priced(receipts, all) /\ Priced(receipts, part)
    BY RowsFinite
  <1>2. \A i \in all : f[i] \in Int /\ (i \notin part => f[i] = 0)
    BY <1>1 DEF Priced, Indicates
  <1>3. \A i \in part : f[i] = g[i] /\ f[i] \in Int
    BY <1>2 DEF Amounts, Indicates
  <1>4. AmountOf(part) = SumFunctionOnSet(g, part) /\ AmountOf(part) \in Nat
    BY <1>1, AmountsAre, AmountIs
  <1> HIDE DEF g
  <1>5. SumFunctionOnSet(f, all) = SumFunctionOnSet(f, part)
    BY <1>1, <1>2, SumZeros
  <1>6. SumFunctionOnSet(f, part) = SumFunctionOnSet(g, part)
    BY <1>1, <1>3, SumSame
  <1> QED BY <1>2, <1>4, <1>5, <1>6

LEMMA MislabelledIs ==
  ASSUME receipts \in Seq(Receipt)
  PROVE  /\ AmountOf(UnbackedFrom(0)) \in Nat /\ AmountOf(TrulyUnbacked(0)) \in Nat
         /\ Sum([i \in From(0) |-> MislabelledCredit(i)])
              = AmountOf(UnbackedFrom(0)) - AmountOf(TrulyUnbacked(0))
  <1> DEFINE all == From(0)
             f == [i \in all |-> IF i \in UnbackedFrom(0) THEN receipts[i].amount ELSE 0]
             g == [i \in all |-> IF i \in TrulyUnbacked(0) THEN receipts[i].amount ELSE 0]
             m == [i \in all |-> MislabelledCredit(i)]
  <1>1. /\ all \in SUBSET DOMAIN receipts /\ UnbackedFrom(0) \in SUBSET all /\ TrulyUnbacked(0) \in SUBSET all
    BY DEF From, UnbackedFrom, TrulyUnbacked
  <1>2. Indicates(f, all, UnbackedFrom(0)) /\ Indicates(g, all, TrulyUnbacked(0))
    BY DEF Indicates
  <1>3. \A i \in all : m[i] = f[i] - g[i]
    BY DEF MislabelledCredit, UnbackedFrom, TrulyUnbacked
  <1>4. IsFiniteSet(all) /\ DOMAIN m = all
    BY <1>1, RowsFinite
  <1>5. Sum(m) = SumFunctionOnSet(m, all)
    BY <1>4, SumOn DEF Sum
  <1> HIDE DEF f, g, m, all
  <1>6. /\ AmountOf(UnbackedFrom(0)) = SumFunctionOnSet(f, all) /\ AmountOf(UnbackedFrom(0)) \in Nat
        /\ \A i \in all : f[i] \in Int
    BY <1>1, <1>2, PartOfRows
  <1>7. /\ AmountOf(TrulyUnbacked(0)) = SumFunctionOnSet(g, all) /\ AmountOf(TrulyUnbacked(0)) \in Nat
        /\ \A i \in all : g[i] \in Int
    BY <1>1, <1>2, PartOfRows
  <1>8. \A i \in all : g[i] \in Int /\ m[i] \in Int /\ f[i] = g[i] + m[i]
    BY <1>3, <1>6, <1>7
  <1>9. /\ SumFunctionOnSet(g, all) \in Int /\ SumFunctionOnSet(m, all) \in Int
        /\ SumFunctionOnSet(f, all) = SumFunctionOnSet(g, all) + SumFunctionOnSet(m, all)
    BY <1>4, <1>8, SumPlus
  <1>10. Sum(m) = AmountOf(UnbackedFrom(0)) - AmountOf(TrulyUnbacked(0))
    BY <1>5, <1>6, <1>7, <1>9
  <1> QED BY <1>6, <1>7, <1>10 DEF m, all

LEMMA NoAmount == AmountOf({}) = 0
  <1>1. IsFiniteSet({}) /\ Priced(receipts, {})
    BY FS_EmptySet DEF Priced
  <1>2. AmountIn(receipts, {}) = 0
    BY <1>1, AmountsAre, SumEmpty
  <1> QED BY <1>2, AmountIs

(* All receipts are of one window, and the table lists those it needs.     *)
OneWindow(from, to) ==
  /\ \A i \in DOMAIN receipts : Conclusive(i) /\ Within(i, from, to)
  /\ DestinationsComplete(from)

LEMMA WindowRows ==
  ASSUME IInv, labels # None, NEW from \in {First, Cleanup}, NEW to \in {Cleanup, Cutoff}, from < to,
         OneWindow(from, to)
  PROVE  \A i \in DOMAIN receipts :
           /\ receipts[i].from \in {0, 1} /\ receipts[i].backed \in BOOLEAN
           /\ receipts[i].applied \in Nat /\ receipts[i].sent \in Nat
           /\ receipts[i].applied # Never
           /\ from < receipts[i].sent /\ receipts[i].sent <= to
           /\ from < receipts[i].applied /\ receipts[i].applied <= to
           /\ labels[i] \in {"valid_source_debit", "unbacked"}
  <1>1. receipts \in Seq(Receipt)
    BY HistShape
  <1>2. labels \in [DOMAIN receipts -> Labels]
    BY DEF IInv, ToolsSound
  <1> SUFFICES ASSUME NEW i \in DOMAIN receipts
               PROVE  /\ receipts[i].from \in {0, 1} /\ receipts[i].backed \in BOOLEAN
                      /\ receipts[i].applied \in Nat /\ receipts[i].sent \in Nat
                      /\ receipts[i].applied # Never
                      /\ from < receipts[i].sent /\ receipts[i].sent <= to
                      /\ from < receipts[i].applied /\ receipts[i].applied <= to
                      /\ labels[i] \in {"valid_source_debit", "unbacked"}
    OBVIOUS
  <1>3. Conclusive(i) /\ Within(i, from, to)
    BY DEF OneWindow
  <1>4. labels[i] \in {"valid_source_debit", "unbacked"}
    BY <1>2, <1>3 DEF Conclusive, Labels
  <1>5. /\ receipts[i].applied # Never
        /\ from < receipts[i].sent /\ receipts[i].sent <= to
        /\ from < receipts[i].applied /\ receipts[i].applied <= to
    BY <1>3 DEF Within
  <1>6. /\ receipts[i].from \in {0, 1} /\ receipts[i].backed \in BOOLEAN
        /\ receipts[i].applied \in Nat /\ receipts[i].sent \in Nat
    BY <1>1, RowTyped
  <1> QED BY <1>4, <1>5, <1>6

LEMMA WindowSets ==
  ASSUME IInv, labels # None, NEW from \in {First, Cleanup}, NEW to \in {Cleanup, Cutoff}, from < to,
         OneWindow(from, to)
  PROVE  /\ Unbacked(from) = {} /\ Unbacked(to) = LabelledUnbacked
         /\ CreditedBy(receipts, from) = {} /\ DebitedBy(receipts, from) = {}
         /\ CreditedBy(receipts, to) = From(0) /\ DebitedBy(receipts, to) = TrulyBacked(1)
         /\ CreditedBy(receipts, Cutoff) = From(0) /\ DebitedBy(receipts, Cutoff) = TrulyBacked(1)
         /\ LaterCredits(from) = From(0) /\ LaterDebits(from) = ValidFrom(1)
         /\ LaterCredits(to) = {} /\ LaterDebits(to) = {}
         /\ Parts(LabelledUnbacked, UnbackedFrom(0), UnbackedFrom(1))
         /\ Parts(NotBacked, TrulyUnbacked(0), TrulyUnbacked(1))
         /\ Parts(From(1), ValidFrom(1), UnbackedFrom(1))
         /\ Parts(From(1), TrulyBacked(1), TrulyUnbacked(1))
  <1>1. now \notin Blocks
    BY DEF IInv, ToolsSound
  <1>2. /\ mapped \subseteq {i \in DOMAIN receipts : receipts[i].from = 0}
        /\ from \in Nat \ {0} /\ to \in Nat /\ Cutoff \in Nat /\ from <= Cutoff /\ to <= Cutoff
    BY <1>1, AtEnd, Constants
  <1>3. \A i \in DOMAIN receipts :
           /\ receipts[i].from \in {0, 1} /\ receipts[i].backed \in BOOLEAN
           /\ receipts[i].applied \in Nat /\ receipts[i].sent \in Nat
           /\ receipts[i].applied # Never
           /\ from < receipts[i].sent /\ receipts[i].sent <= to
           /\ from < receipts[i].applied /\ receipts[i].applied <= to
           /\ labels[i] \in {"valid_source_debit", "unbacked"}
    BY WindowRows
  <1>4. \A i \in DOMAIN receipts :
          /\ receipts[i].applied \notin 1..from /\ receipts[i].applied \in 1..to
          /\ receipts[i].applied \in 1..Cutoff /\ ~(receipts[i].sent <= from)
          /\ receipts[i].sent <= to /\ receipts[i].sent <= Cutoff
          /\ Later(from, receipts[i].applied) /\ Later(from, receipts[i].sent)
          /\ ~Later(to, receipts[i].applied) /\ ~Later(to, receipts[i].sent)
    BY <1>2, <1>3 DEF Later
  <1>5. Unbacked(from) = {} /\ Unbacked(to) = LabelledUnbacked
    BY <1>4 DEF Unbacked, LabelledUnbacked
  <1>6. CreditedBy(receipts, from) = {} /\ DebitedBy(receipts, from) = {}
    BY <1>4 DEF CreditedBy, DebitedBy
  <1>7. /\ CreditedBy(receipts, to) = From(0) /\ DebitedBy(receipts, to) = TrulyBacked(1)
        /\ CreditedBy(receipts, Cutoff) = From(0) /\ DebitedBy(receipts, Cutoff) = TrulyBacked(1)
    BY <1>4 DEF CreditedBy, DebitedBy, From, TrulyBacked
  <1>8. LaterCredits(from) = From(0)
    <2>1. \A i \in DOMAIN receipts : receipts[i].from = 0 => i \in mapped
      BY <1>3, <1>4 DEF OneWindow, DestinationsComplete
    <2> QED BY <1>2, <1>3, <1>4, <2>1 DEF LaterCredits, From
  <1>9. LaterDebits(from) = ValidFrom(1)
    BY <1>4 DEF LaterDebits, ValidFrom, From
  <1>10. LaterCredits(to) = {} /\ LaterDebits(to) = {}
    BY <1>2, <1>4 DEF LaterCredits, LaterDebits
  <1>11. Parts(LabelledUnbacked, UnbackedFrom(0), UnbackedFrom(1))
    BY <1>3 DEF Parts, LabelledUnbacked, UnbackedFrom, From
  <1>12. Parts(NotBacked, TrulyUnbacked(0), TrulyUnbacked(1))
    BY <1>3 DEF Parts, NotBacked, TrulyUnbacked, From
  <1>13. Parts(From(1), ValidFrom(1), UnbackedFrom(1))
    BY <1>3 DEF Parts, From, ValidFrom, UnbackedFrom
  <1>14. Parts(From(1), TrulyBacked(1), TrulyUnbacked(1))
    BY <1>3 DEF Parts, From, TrulyBacked, TrulyUnbacked
  <1> QED BY <1>5, <1>6, <1>7, <1>8, <1>9, <1>10, <1>11, <1>12, <1>13, <1>14

LEMMA ResidualIs ==
  ASSUME FilesCurrent, NEW t \in Checkpoints
  PROVE  /\ Residual(t) = (hist[t].claims + Shard1Claims(t) - (Genesis + hist[t].acc))
                            - (hist[t].recovered + Reconstructed(First) + UnbackedCredit(t))
         /\ Shard1Claims(t) = IF t = Cutoff THEN hist[Cutoff].shard1 ELSE derive(t)
  <1>1. FormulaGap(t) = hist[t].claims + Shard1Claims(t) - (Genesis + hist[t].acc)
    BY DEF FormulaGap, Shard0Claims
  <1>2. Residual(t) = FormulaGap(t) - (hist[t].recovered + Reconstructed(First) + summarized[t])
    BY DEF Residual
  <1>3. summarized[t] = UnbackedCredit(t)
    BY DEF FilesCurrent
  <1>4. t # Cutoff => derived[t] = derive(t)
    BY DEF FilesCurrent, Checkpoints
  <1> QED BY <1>1, <1>2, <1>3, <1>4 DEF Shard1Claims

LEMMA WindowChange ==
  ASSUME IInv, labels # None, FilesCurrent, NEW from \in {First, Cleanup}, NEW to \in {Cleanup, Cutoff}, from < to,
         OneWindow(from, to)
  PROVE  Change(from, to) - (TrueResidual(to) - TrueResidual(from))
           = - Sum([i \in From(0) |-> MislabelledCredit(i)])
  <1>1. now \notin Blocks
    BY DEF IInv, ToolsSound
  <1>2. /\ receipts \in Seq(Receipt) /\ from \in 1..(now - 1) /\ to \in 1..(now - 1)
        /\ Cutoff \in 1..(now - 1) /\ First \in 1..(now - 1) /\ from # Cutoff
    BY <1>1, AtEnd, Constants
  <1> DEFINE unbacked == AmountOf(LabelledUnbacked)
             unbacked0 == AmountOf(UnbackedFrom(0))
             unbacked1 == AmountOf(UnbackedFrom(1))
             owed0 == AmountOf(TrulyUnbacked(0))
             owed1 == AmountOf(TrulyUnbacked(1))
             owed == AmountOf(NotBacked)
             valid1 == AmountOf(ValidFrom(1))
             backed1 == AmountOf(TrulyBacked(1))
             sent0 == AmountOf(From(0))
             sent1 == AmountOf(From(1))
  <1>3. /\ LabelledUnbacked \in SUBSET DOMAIN receipts /\ NotBacked \in SUBSET DOMAIN receipts
        /\ From(1) \in SUBSET DOMAIN receipts /\ From(0) \in SUBSET DOMAIN receipts
    BY DEF LabelledUnbacked, NotBacked, From
  <1>4. unbacked = unbacked0 + unbacked1 /\ unbacked0 \in Nat /\ unbacked1 \in Nat
    <2>1. Parts(LabelledUnbacked, UnbackedFrom(0), UnbackedFrom(1))
      BY WindowSets
    <2>2. /\ unbacked = unbacked0 + unbacked1
          /\ unbacked0 \in Nat
          /\ unbacked1 \in Nat
      <3>1. receipts \in Seq(Receipt) /\ LabelledUnbacked \in SUBSET DOMAIN receipts
        BY <1>2, <1>3
      <3>2. /\ AmountOf(LabelledUnbacked) = AmountOf(UnbackedFrom(0)) + AmountOf(UnbackedFrom(1))
            /\ AmountOf(UnbackedFrom(0)) \in Nat /\ AmountOf(UnbackedFrom(1)) \in Nat
        BY <2>1, <3>1, AmountsSplit
      <3> QED BY <3>2
    <2> QED BY <2>2
  <1>5. owed = owed0 + owed1 /\ owed0 \in Nat /\ owed1 \in Nat
    <2>1. Parts(NotBacked, TrulyUnbacked(0), TrulyUnbacked(1))
      BY WindowSets
    <2>2. /\ owed = owed0 + owed1
          /\ owed0 \in Nat
          /\ owed1 \in Nat
      <3>1. receipts \in Seq(Receipt) /\ NotBacked \in SUBSET DOMAIN receipts
        BY <1>2, <1>3
      <3>2. /\ AmountOf(NotBacked) = AmountOf(TrulyUnbacked(0)) + AmountOf(TrulyUnbacked(1))
            /\ AmountOf(TrulyUnbacked(0)) \in Nat /\ AmountOf(TrulyUnbacked(1)) \in Nat
        BY <2>1, <3>1, AmountsSplit
      <3> QED BY <3>2
    <2> QED BY <2>2
  <1>6. sent1 = valid1 + unbacked1 /\ valid1 \in Nat
    <2>1. Parts(From(1), ValidFrom(1), UnbackedFrom(1))
      BY WindowSets
    <2>2. /\ sent1 = valid1 + unbacked1
          /\ valid1 \in Nat
      BY <1>2, <1>3, <2>1, AmountsSplit
    <2> QED BY <2>2
  <1>7. sent1 = backed1 + owed1 /\ backed1 \in Nat
    <2>1. Parts(From(1), TrulyBacked(1), TrulyUnbacked(1))
      BY WindowSets
    <2>2. /\ sent1 = backed1 + owed1
          /\ backed1 \in Nat
      BY <1>2, <1>3, <2>1, AmountsSplit
    <2> QED BY <2>2
  <1>8. sent0 \in Nat
    BY <1>2, <1>3, AmountNat
  <1>9. /\ UnbackedCredit(from) = 0 /\ UnbackedCredit(to) = unbacked
    BY <1>1, UnbackedNat, WindowSets, NoAmount
  <1>10. /\ hist[from].shard1 = InitialShard1 + AmountOf({}) - AmountOf({})
         /\ hist[to].shard1 = InitialShard1 + sent0 - backed1
         /\ hist[Cutoff].shard1 = InitialShard1 + sent0 - backed1
         /\ InitialShard1 \in Nat
    BY <1>2, ArchivedShard1, WindowSets
  <1>11. /\ derive(from) = hist[Cutoff].shard1 - sent0 + valid1
         /\ derive(to) = hist[Cutoff].shard1 - AmountOf({}) + AmountOf({})
    BY <1>1, DeriveIs, WindowSets
  <1>12. Shard1Claims(from) = derive(from) /\ Shard1Claims(to) \in {hist[Cutoff].shard1, derive(to)}
    <2>1. from \in Checkpoints /\ to \in Checkpoints
      BY DEF Checkpoints
    <2> QED BY <1>2, <2>1, ResidualIs
  <1>13. /\ {i \in DOMAIN receipts : ~ receipts[i].backed /\ receipts[i].applied \in 1..from} = {}
         /\ {i \in DOMAIN receipts : ~ receipts[i].backed /\ receipts[i].applied \in 1..to} = NotBacked
    <2>1. from \in Nat /\ to \in Nat
      BY Constants
    <2>2. \A i \in DOMAIN receipts : receipts[i].applied \notin 1..from /\ receipts[i].applied \in 1..to
      <3> TAKE i \in DOMAIN receipts
      <3>1. receipts[i].applied \in Nat /\ from < receipts[i].applied /\ receipts[i].applied <= to
        BY WindowRows
      <3> QED BY <2>1, <3>1
    <2> QED BY <2>2 DEF NotBacked
  <1> DEFINE G(t) == hist[t].claims - (Genesis + hist[t].acc)
  <1>14. G(from) \in Int /\ G(to) \in Int /\ hist[First].minted \in Int /\ Reconstructed(First) \in Int
    <2>1. /\ hist[from].claims \in Nat /\ hist[from].acc \in Nat
          /\ hist[to].claims \in Nat /\ hist[to].acc \in Nat /\ hist[First].minted \in Nat
      BY <1>2, Archives
    <2>2. Reconstructed(First) \in Nat
      BY <1>2, ReconstructedIs
    <2> QED BY <2>1, <2>2, GenesisNat
  <1>15. /\ hist[from].claims \in Nat /\ hist[from].acc \in Nat
         /\ hist[from].recovered \in Nat /\ hist[to].recovered \in Nat
         /\ hist[to].claims \in Nat /\ hist[to].acc \in Nat /\ Genesis \in Nat
    BY <1>2, Archives, GenesisNat
  <1>16. /\ Residual(from) = (hist[from].claims + Shard1Claims(from) - (Genesis + hist[from].acc))
                               - (hist[from].recovered + Reconstructed(First) + UnbackedCredit(from))
         /\ Residual(to) = (hist[to].claims + Shard1Claims(to) - (Genesis + hist[to].acc))
                               - (hist[to].recovered + Reconstructed(First) + UnbackedCredit(to))
    <2>1. from \in Checkpoints /\ to \in Checkpoints
      BY DEF Checkpoints
    <2> QED BY <2>1, ResidualIs
  <1>17. /\ TrueResidual(from) = hist[from].claims + hist[from].shard1 - (Genesis + hist[from].acc)
                                   - hist[from].recovered - hist[First].minted - AmountOf({})
         /\ TrueResidual(to) = hist[to].claims + hist[to].shard1 - (Genesis + hist[to].acc)
                                   - hist[to].recovered - hist[First].minted - owed
    BY <1>13 DEF TrueResidual, Shard0Claims
  <1>18. Sum([i \in From(0) |-> MislabelledCredit(i)]) = unbacked0 - owed0
    BY <1>2, MislabelledIs
  <1>19. Change(from, to) = Residual(to) - Residual(from)
    BY DEF Change
  <1> HIDE DEF unbacked, unbacked0, unbacked1, owed, owed0, owed1, valid1, backed1, sent0, sent1, G
  <1>20. /\ hist[from].shard1 = InitialShard1 /\ hist[Cutoff].shard1 = hist[to].shard1
         /\ Shard1Claims(to) = hist[to].shard1
         /\ Shard1Claims(from) = InitialShard1 - backed1 + valid1
         /\ hist[to].shard1 \in Int
    <2>1. AmountOf({}) = 0
      BY NoAmount
    <2>2. hist[Cutoff].shard1 \in Int /\ hist[to].shard1 \in Int
      BY <1>7, <1>8, <1>10
    <2>3. derive(to) = hist[Cutoff].shard1
      BY <1>11, <2>1, <2>2
    <2>4. Shard1Claims(to) = hist[Cutoff].shard1
      BY <1>12, <2>3
    <2> QED BY <1>6, <1>7, <1>8, <1>10, <1>11, <1>12, <2>1, <2>2, <2>4
  <1>21. Residual(to) - Residual(from) - (TrueResidual(to) - TrueResidual(from))
           = (InitialShard1 - (InitialShard1 - backed1 + valid1)) - unbacked + owed
    <2>1. PICK h : h = hist[to].shard1
      OBVIOUS
    <2>2. PICK x : x = hist[from].claims - (Genesis + hist[from].acc) - hist[from].recovered
      OBVIOUS
    <2>3. PICK y : y = hist[to].claims - (Genesis + hist[to].acc) - hist[to].recovered
      OBVIOUS
    <2>4. PICK m : m = hist[First].minted
      OBVIOUS
    <2>5. PICK r : r = Reconstructed(First)
      OBVIOUS
    <2>6. PICK s : s = Shard1Claims(from)
      OBVIOUS
    <2>7. /\ h \in Int /\ x \in Int /\ y \in Int /\ m \in Int /\ r \in Int /\ s \in Int
          /\ unbacked \in Int /\ owed \in Int /\ InitialShard1 \in Int
      BY <1>4, <1>5, <1>6, <1>7, <1>10, <1>14, <1>15, <1>20, <2>1, <2>2, <2>3, <2>4, <2>5, <2>6
    <2>8. Residual(from) = x + s - r
      BY <1>9, <1>15, <1>16, <2>2, <2>5, <2>6, <2>7
    <2>9. Residual(to) = y + h - r - unbacked
      BY <1>9, <1>15, <1>16, <1>20, <2>1, <2>3, <2>5, <2>7
    <2>10. TrueResidual(from) = x + InitialShard1 - m
      BY <1>15, <1>17, <1>20, <2>2, <2>4, <2>7, NoAmount
    <2>11. TrueResidual(to) = y + h - m - owed
      BY <1>15, <1>17, <2>1, <2>3, <2>4, <2>7
    <2>12. s = InitialShard1 - backed1 + valid1
      BY <1>20, <2>6
    <2> QED BY <2>7, <2>8, <2>9, <2>10, <2>11, <2>12, <1>6, <1>7
  <1> QED BY <1>4, <1>5, <1>6, <1>7, <1>10, <1>18, <1>19, <1>21

LEMMA ChangeTold == ASSUME IInv PROVE ChangeBlindToShard1
  <1> SUFFICES ASSUME FilesCurrent, NEW p \in {<<First, Cleanup>>, <<Cleanup, Cutoff>>},
                      \A i \in DOMAIN receipts : Conclusive(i) /\ Within(i, p[1], p[2]),
                      DestinationsComplete(p[1])
               PROVE  Change(p[1], p[2]) - (TrueResidual(p[2]) - TrueResidual(p[1]))
                        = - Sum([i \in {k \in DOMAIN receipts : receipts[k].from = 0} |-> MislabelledCredit(i)])
    BY DEF ChangeBlindToShard1
  <1>1. PICK from : from = p[1]
    OBVIOUS
  <1>2. PICK to : to = p[2]
    OBVIOUS
  <1>3. from \in {First, Cleanup} /\ to \in {Cleanup, Cutoff} /\ from < to /\ labels # None
    BY <1>1, <1>2, Constants DEF FilesCurrent, FilesPresent, IInv, ToolsSound
  <1>4. OneWindow(from, to)
    BY <1>1, <1>2 DEF OneWindow
  <1>5. Change(from, to) - (TrueResidual(to) - TrueResidual(from))
          = - Sum([i \in From(0) |-> MislabelledCredit(i)])
    BY <1>3, <1>4, WindowChange
  <1> QED BY <1>1, <1>2, <1>5 DEF From

(* The December reconstruction is the mint, at every block up to the fix.  *)
THEOREM MintIsExact == Spec => []MintExact
  BY ClosureInvariant, MintTold, PTL

(* The difference of two claims tables is the difference of all claims.    *)
THEOREM ClaimsDiffIsExact == Spec => []ClaimsDiffExact
  BY ClosureInvariant, ClaimsDiffTold, PTL

(* The derived balance of shard 1 is the archived one.                     *)
THEOREM DerivedIsExact == Spec => []DerivedExact
  BY ClosureInvariant, DerivedTold, PTL

(* Only the labels of receipts sent by shard 0 show in a change of the     *)
(* residual.                                                               *)
THEOREM ChangeIsBlind == Spec => []ChangeBlindToShard1
  BY ClosureInvariant, ChangeTold, PTL

(* A verified reconciliation shows the unbacked credit of the summary, but *)
(* for what the components of the earlier deficit and of HIP-30 hold       *)
(* beside their own figures.                                               *)
THEOREM CrossShardIsPinned == Spec => []CrossShardPinned
  BY ClosureInvariant, CrossShardTold, PTL

=============================================================================
