----------------------------- MODULE SumTheorems -----------------------------
(***************************************************************************)
(* Sums over finite sets: what SumFunctionOnSet of the community modules   *)
(* computes.  It is defined by recursion on the subsets of a set, in an    *)
(* order left to CHOOSE, so the rules below need two facts: that the       *)
(* recursion has one solution (SumRecExists, SumRecUnique), and that the   *)
(* order does not matter (SumRemove).  Both are by induction on the        *)
(* cardinality; induction is stated for a SET of numbers (NatClosed) or of *)
(* subsets (SubsetInduction), so that the provers can instantiate it.      *)
(***************************************************************************)
EXTENDS Integers, FiniteSets, Functions, FiniteSetTheorems, WellFoundedInduction, TLAPS

(* Every nonempty set of naturals has a least element. *)
LEMMA LeastNumber ==
    ASSUME NEW T \in SUBSET Nat, T # {}
    PROVE  \E m \in T : \A n \in T : m <= n
  <1>1. IsWellFoundedOn(OpToRel(<,Nat), Nat)
    BY NatLessThanWellFounded
  <1> DEFINE R == OpToRel(<,Nat)
  <1>2. \E x \in T : \A y \in T : ~(<<y, x>> \in R)
    <2> HIDE DEF R
    <2>1. IsWellFoundedOn(R, Nat)
      BY <1>1 DEF R
    <2> QED BY <2>1, WFMin
  <1>3. \A x, y \in Nat : <<y, x>> \in R <=> y < x
    BY DEF OpToRel
  <1> HIDE DEF R
  <1>4. PICK m \in T : \A y \in T : ~(<<y, m>> \in R)
    BY <1>2
  <1>5. \A y \in T : y \in Nat /\ m \in Nat /\ ~(y < m)
    BY <1>3, <1>4
  <1> QED BY <1>5

(* Induction over Nat, for a set of numbers. *)
LEMMA NatClosed ==
    ASSUME NEW T, 0 \in T, \A n \in Nat : n \in T => n + 1 \in T
    PROVE  Nat \subseteq T
  <1> SUFFICES ASSUME Nat \ T # {} PROVE FALSE
    OBVIOUS
  <1>1. PICK m \in Nat \ T : \A n \in Nat \ T : m <= n
    BY LeastNumber
  <1>2. m # 0 /\ m - 1 \in Nat /\ ~(m <= m - 1) /\ (m - 1) + 1 = m
    BY <1>1
  <1>3. m - 1 \in T
    BY <1>1, <1>2
  <1> QED BY <1>2, <1>3, <1>1

(* The term taken first, the step of the recursion and its solution. *)
Pick(s) == CHOOSE x \in s : TRUE
SumDef(f, g, s) == IF s = {} THEN 0 ELSE f[Pick(s)] + g[s \ {Pick(s)}]
SumSolves(f, g, S) == \A s \in SUBSET S : g[s] = SumDef(f, g, s)
SumRec(f, S) == CHOOSE g : g = [s \in SUBSET S |-> SumDef(f, g, s)]

(* The chosen term is a term. *)
LEMMA PickIn == ASSUME NEW s, s # {} PROVE Pick(s) \in s
  BY DEF Pick

(* Taking an element out of a subset makes it smaller by one. *)
LEMMA SmallerSubset ==
    ASSUME NEW S, IsFiniteSet(S), NEW s \in SUBSET S, s # {}, NEW x \in s
    PROVE  /\ IsFiniteSet(s) /\ Cardinality(s) \in Nat /\ IsFiniteSet(s \ {x})
           /\ Cardinality(s \ {x}) = Cardinality(s) - 1
           /\ Cardinality(s \ {x}) \in Nat
           /\ Cardinality(s) <= Cardinality(S)
  <1>1. IsFiniteSet(s) /\ Cardinality(s) <= Cardinality(S)
    BY FS_Subset
  <1>2. IsFiniteSet(s \ {x}) /\ Cardinality(s \ {x}) = Cardinality(s) - 1
    BY <1>1, FS_RemoveElement
  <1> QED BY <1>1, <1>2, FS_CardinalityType

(* The definition of the community modules is this recursion. *)
LEMMA SumIsRec == ASSUME NEW f, NEW S PROVE SumFunctionOnSet(f, S) = SumRec(f, S)[S]
  BY Zenon DEF SumFunctionOnSet, FoldFunctionOnSet, MapThenFoldSet, SumRec, SumDef, Pick

(* The recursion has a solution: one is built for the subsets of at most n   *)
(* elements, n by n.                                                          *)
LEMMA SumRecExists ==
    ASSUME NEW f, NEW S, IsFiniteSet(S)
    PROVE  \E g : g = [s \in SUBSET S |-> SumDef(f, g, s)]
  <1> DEFINE D(n) == {s \in SUBSET S : Cardinality(s) <= n}
             T == {n \in Nat : \E g : g = [s \in D(n) |-> SumDef(f, g, s)]}
  <1>0. \A s \in SUBSET S : IsFiniteSet(s) /\ Cardinality(s) \in Nat /\ Cardinality(s) <= Cardinality(S)
    BY FS_Subset, FS_CardinalityType
  <1>1. 0 \in T
    <2> DEFINE g == [s \in D(0) |-> 0]
    <2>1. \A s \in D(0) : s = {}
      BY <1>0, FS_EmptySet
    <2>2. g = [s \in D(0) |-> SumDef(f, g, s)]
      BY <2>1 DEF SumDef
    <2> QED BY <2>2
  <1>2. ASSUME NEW n \in Nat, n \in T PROVE n + 1 \in T
    <2>1. PICK g : g = [s \in D(n) |-> SumDef(f, g, s)]
      BY <1>2
    <2> DEFINE h == [s \in D(n + 1) |-> SumDef(f, g, s)]
    <2>2. ASSUME NEW s \in D(n + 1) PROVE SumDef(f, g, s) = SumDef(f, h, s)
      <3>1. CASE s = {}
        BY <3>1 DEF SumDef
      <3>2. CASE s # {}
        <4> DEFINE t == s \ {Pick(s)}
        <4>1. t \in SUBSET S /\ Cardinality(t) <= n /\ Cardinality(t) <= n + 1 
          BY <3>2, PickIn, SmallerSubset
        <4>2. g[t] = SumDef(f, g, t) /\ h[t] = SumDef(f, g, t)
          <5> HIDE DEF t
          <5>1. t \in D(n) /\ t \in D(n + 1)
            BY <4>1
          <5> QED BY <2>1, <5>1
        <4> QED BY <3>2, <4>2 DEF SumDef
      <3> QED BY <3>1, <3>2
    <2>3. h = [s \in D(n + 1) |-> SumDef(f, h, s)]
      <3> HIDE DEF D
      <3>1. \A s \in D(n + 1) : SumDef(f, g, s) = SumDef(f, h, s)
        BY <2>2
      <3> QED BY <3>1
    <2>4. \E k : k = [s \in D(n + 1) |-> SumDef(f, k, s)]
      <3> WITNESS h
      <3> QED BY <2>3
    <2>5. n + 1 \in Nat
      OBVIOUS
    <2> HIDE DEF D
    <2> QED BY <2>4, <2>5
  <1>3. Cardinality(S) \in T
    <2> HIDE DEF T
    <2> QED BY <1>1, <1>2, NatClosed, FS_CardinalityType
  <1>4. D(Cardinality(S)) = SUBSET S
    BY <1>0
  <1> QED BY <1>3, <1>4

(* So the function CHOOSE returns is one. *)
LEMMA SumRecSolves ==
    ASSUME NEW f, NEW S, IsFiniteSet(S)
    PROVE  SumSolves(f, SumRec(f, S), S)
  <1>1. \E g : g = [s \in SUBSET S |-> SumDef(f, g, s)]
    BY SumRecExists
  <1>2. SumRec(f, S) = [s \in SUBSET S |-> SumDef(f, SumRec(f, S), s)]
    BY <1>1 DEF SumRec
  <1> DEFINE g == SumRec(f, S)
  <1> HIDE DEF g
  <1>3. g = [s \in SUBSET S |-> SumDef(f, g, s)]
    BY <1>2 DEF g
  <1>4. \A s \in SUBSET S : g[s] = SumDef(f, g, s)
    BY <1>3
  <1> QED BY <1>4 DEF g, SumSolves

(* Two solutions agree, by induction on the size of the subset. *)
LEMMA SumRecUnique ==
    ASSUME NEW f, NEW S, IsFiniteSet(S), NEW g, NEW h,
           SumSolves(f, g, S), SumSolves(f, h, S)
    PROVE  \A s \in SUBSET S : g[s] = h[s]
  <1> DEFINE T == {n \in Nat : \A s \in SUBSET S : Cardinality(s) = n => g[s] = h[s]}
  <1>0. \A s \in SUBSET S : IsFiniteSet(s) /\ Cardinality(s) \in Nat
    BY FS_Subset, FS_CardinalityType
  <1>1. 0 \in T
    <2>1. \A s \in SUBSET S : Cardinality(s) = 0 => s = {}
      BY <1>0, FS_EmptySet
    <2> QED BY <2>1 DEF SumDef, SumSolves
  <1>2. ASSUME NEW n \in Nat, n \in T PROVE n + 1 \in T
    <2> SUFFICES ASSUME NEW s \in SUBSET S, Cardinality(s) = n + 1 PROVE g[s] = h[s]
      OBVIOUS
    <2>1. s # {}
      <3>1. Cardinality({}) = 0
        BY FS_EmptySet
      <3> QED BY <3>1
    <2> DEFINE t == s \ {Pick(s)}
    <2>2. t \in SUBSET S /\ Cardinality(t) = n
      BY <2>1, PickIn, SmallerSubset
    <2>3. g[t] = h[t]
      <3> HIDE DEF t
      <3> QED BY <1>2, <2>2
    <2>4. g[s] = f[Pick(s)] + g[t] /\ h[s] = f[Pick(s)] + h[t]
      BY <2>1 DEF SumDef, SumSolves
    <2> QED BY <2>3, <2>4
  <1>3. Nat \subseteq T
    <2> HIDE DEF T
    <2> QED BY <1>1, <1>2, NatClosed
  <1> QED BY <1>0, <1>3

(* One step of the sum; the sum over the smaller set is the same recursion.  *)
LEMMA SumUnfold ==
    ASSUME NEW f, NEW S, IsFiniteSet(S)
    PROVE  /\ S = {} => SumFunctionOnSet(f, S) = 0
           /\ S # {} => SumFunctionOnSet(f, S) = f[Pick(S)] + SumFunctionOnSet(f, S \ {Pick(S)})
  <1> DEFINE g == SumRec(f, S)
  <1>1. \A s \in SUBSET S : g[s] = SumDef(f, g, s)
    BY SumRecSolves DEF SumSolves
  <1>2. S = {} => SumFunctionOnSet(f, S) = 0
    BY <1>1, SumIsRec DEF SumDef
  <1>3. ASSUME S # {} PROVE SumFunctionOnSet(f, S) = f[Pick(S)] + SumFunctionOnSet(f, S \ {Pick(S)})
    <2> DEFINE t == S \ {Pick(S)}
               h == SumRec(f, t)
    <2>1. IsFiniteSet(t)
      BY FS_Subset
    <2>2. \A s \in SUBSET t : h[s] = SumDef(f, h, s)
      <3> HIDE DEF t
      <3> QED BY <2>1, SumRecSolves DEF SumSolves
    <2>3. \A s \in SUBSET t : g[s] = SumDef(f, g, s)
      <3> HIDE DEF g
      <3> QED BY <1>1
    <2>4. g[t] = h[t]
      <3> HIDE DEF g, h, t
      <3>1. SumSolves(f, g, t) /\ SumSolves(f, h, t)
        BY <2>2, <2>3 DEF SumSolves
      <3>2. \A s \in SUBSET t : g[s] = h[s]
        BY <2>1, <3>1, SumRecUnique
      <3> QED BY <3>2
    <2>5. SumFunctionOnSet(f, S) = g[S] /\ SumFunctionOnSet(f, t) = h[t]
      BY SumIsRec
    <2>6. g[S] = f[Pick(S)] + g[t]
      <3> HIDE DEF g
      <3> QED BY <1>1, <1>3 DEF SumDef
    <2> HIDE DEF g, h
    <2> QED BY <2>4, <2>5, <2>6
  <1> QED BY <1>2, <1>3

-----------------------------------------------------------------------------
(* Induction over the subsets of a finite set, for a family F of them. *)
LEMMA SubsetInduction ==
    ASSUME NEW S, IsFiniteSet(S), NEW F, {} \in F,
           \A s \in SUBSET S : \A x \in S \ s : s \in F => s \cup {x} \in F
    PROVE  S \in F
  <1> DEFINE T == {n \in Nat : \A s \in SUBSET S : Cardinality(s) = n => s \in F}
  <1>0. \A s \in SUBSET S : IsFiniteSet(s) /\ Cardinality(s) \in Nat
    BY FS_Subset, FS_CardinalityType
  <1>1. 0 \in T
    <2>1. \A s \in SUBSET S : Cardinality(s) = 0 => s = {}
      BY <1>0, FS_EmptySet
    <2> QED BY <2>1
  <1>2. ASSUME NEW n \in Nat, n \in T PROVE n + 1 \in T
    <2> SUFFICES ASSUME NEW s \in SUBSET S, Cardinality(s) = n + 1 PROVE s \in F
      OBVIOUS
    <2>1. s # {}
      <3>1. Cardinality({}) = 0
        BY FS_EmptySet
      <3> QED BY <3>1
    <2> DEFINE t == s \ {Pick(s)}
    <2>2. Pick(s) \in s
      BY <2>1, PickIn
    <2>3. t \in SUBSET S /\ Cardinality(t) = n
      <3>1. Cardinality(t) = Cardinality(s) - 1
        BY <2>1, <2>2, SmallerSubset
      <3> QED BY <3>1
    <2>4. t \in F
      <3> HIDE DEF t
      <3> QED BY <1>2, <2>3
    <2>5. s = t \cup {Pick(s)} /\ Pick(s) \in S \ t
      BY <2>2
    <2> HIDE DEF t
    <2> QED BY <2>3, <2>4, <2>5
  <1>3. Nat \subseteq T
    <2> HIDE DEF T
    <2> QED BY <1>1, <1>2, NatClosed
  <1> QED BY <1>0, <1>3

(* A sum of integers is an integer. *)
LEMMA IntOfSum ==
    ASSUME NEW f, NEW S, IsFiniteSet(S), \A x \in S : f[x] \in Int
    PROVE  SumFunctionOnSet(f, S) \in Int
  <1> DEFINE T == {n \in Nat : \A s \in SUBSET S : Cardinality(s) = n => SumFunctionOnSet(f, s) \in Int}
  <1>0. \A s \in SUBSET S : IsFiniteSet(s) /\ Cardinality(s) \in Nat
    BY FS_Subset, FS_CardinalityType
  <1>1. 0 \in T
    <2>1. \A s \in SUBSET S : Cardinality(s) = 0 => s = {}
      BY <1>0, FS_EmptySet
    <2>2. SumFunctionOnSet(f, {}) = 0
      BY FS_EmptySet, SumUnfold
    <2> QED BY <2>1, <2>2
  <1>2. ASSUME NEW n \in Nat, n \in T PROVE n + 1 \in T
    <2> SUFFICES ASSUME NEW s \in SUBSET S, Cardinality(s) = n + 1 PROVE SumFunctionOnSet(f, s) \in Int
      OBVIOUS
    <2>1. s # {}
      <3>1. Cardinality({}) = 0
        BY FS_EmptySet
      <3> QED BY <3>1
    <2> DEFINE t == s \ {Pick(s)}
    <2>2. Pick(s) \in s /\ IsFiniteSet(s)
      BY <1>0, <2>1, PickIn
    <2>3. t \in SUBSET S /\ Cardinality(t) = n
      BY <2>1, <2>2, SmallerSubset
    <2>4. SumFunctionOnSet(f, t) \in Int
      <3> HIDE DEF t
      <3> QED BY <1>2, <2>3
    <2>5. SumFunctionOnSet(f, s) = f[Pick(s)] + SumFunctionOnSet(f, t)
      BY <2>1, <2>2, SumUnfold
    <2>6. f[Pick(s)] \in Int
      BY <2>2
    <2> HIDE DEF t
    <2> QED BY <2>4, <2>5, <2>6
  <1>3. Nat \subseteq T
    <2> HIDE DEF T
    <2> QED BY <1>1, <1>2, NatClosed
  <1> QED BY <1>0, <1>3

(* A sum of integers is an integer, whatever the order of the terms: any      *)
(* term can be taken out first.                                               *)
LEMMA SumRemove ==
    ASSUME NEW f, NEW S, IsFiniteSet(S), \A x \in S : f[x] \in Int
    PROVE  /\ SumFunctionOnSet(f, S) \in Int
           /\ \A x \in S : SumFunctionOnSet(f, S) = f[x] + SumFunctionOnSet(f, S \ {x})
  <1> DEFINE Good(s) == /\ SumFunctionOnSet(f, s) \in Int
                        /\ \A x \in s : SumFunctionOnSet(f, s) = f[x] + SumFunctionOnSet(f, s \ {x})
             T == {n \in Nat : \A s \in SUBSET S : Cardinality(s) = n => Good(s)}
  <1>0. \A s \in SUBSET S : IsFiniteSet(s) /\ Cardinality(s) \in Nat
    BY FS_Subset, FS_CardinalityType
  <1>1. 0 \in T
    <2>1. \A s \in SUBSET S : Cardinality(s) = 0 => s = {}
      BY <1>0, FS_EmptySet
    <2>2. SumFunctionOnSet(f, {}) = 0
      BY FS_EmptySet, SumUnfold
    <2>3. Good({})
      BY <2>2
    <2> HIDE DEF Good
    <2> QED BY <2>1, <2>3
  <1>2. ASSUME NEW n \in Nat, n \in T PROVE n + 1 \in T
    <2> SUFFICES ASSUME NEW s \in SUBSET S, Cardinality(s) = n + 1 PROVE Good(s)
      OBVIOUS
    <2>1. s # {}
      <3>1. Cardinality({}) = 0
        BY FS_EmptySet
      <3> QED BY <3>1
    <2>2. Pick(s) \in s /\ IsFiniteSet(s)
      BY <1>0, <2>1, PickIn
    <2>3. ASSUME NEW t \in SUBSET S, Cardinality(t) = n PROVE Good(t)
      BY <1>2, <2>3
    <2> DEFINE p == Pick(s)
    <2>4. SumFunctionOnSet(f, s) = f[p] + SumFunctionOnSet(f, s \ {p})
      BY <2>1, <2>2, SumUnfold
    <2>5. \A x \in s : s \ {x} \in SUBSET S /\ Cardinality(s \ {x}) = n
      BY <2>1, SmallerSubset
    <2>6. \A x \in s : Good(s \ {x})
      <3> HIDE DEF Good
      <3> QED BY <2>3, <2>5
    <2> HIDE DEF p
    <2>7. p \in s /\ f[p] \in Int /\ \A x \in s : f[x] \in Int
      BY <2>2 DEF p
    <2>8. SumFunctionOnSet(f, s) \in Int
      BY <2>4, <2>6, <2>7
    <2>9. ASSUME NEW x \in s, x # p PROVE SumFunctionOnSet(f, s) = f[x] + SumFunctionOnSet(f, s \ {x})
      <3> DEFINE r == (s \ {p}) \ {x}
      <3>1. r = (s \ {x}) \ {p} /\ x \in s \ {p} /\ p \in s \ {x}
        BY <2>7, <2>9
      <3>2. SumFunctionOnSet(f, s \ {p}) = f[x] + SumFunctionOnSet(f, r)
        BY <2>6, <2>7, <3>1
      <3>3. SumFunctionOnSet(f, s \ {x}) = f[p] + SumFunctionOnSet(f, r)
        BY <2>6, <2>7, <3>1
      <3>4. SumFunctionOnSet(f, r) \in Int
        <4>1. IsFiniteSet(r) /\ r \in SUBSET S /\ IsFiniteSet(s \ {p})
          BY <1>0
        <4>2. \A y \in r : f[y] \in Int
          BY <2>7
        <4> HIDE DEF r
        <4> QED BY <4>1, <4>2, IntOfSum
      <3> HIDE DEF r
      <3> QED BY <2>4, <2>7, <3>2, <3>3, <3>4
    <2> QED BY <2>4, <2>8, <2>9
  <1>3. Nat \subseteq T
    <2> HIDE DEF T
    <2> QED BY <1>1, <1>2, NatClosed
  <1>4. Good(S)
    <2> HIDE DEF Good
    <2> QED BY <1>0, <1>3
  <1> QED BY <1>4

-----------------------------------------------------------------------------
(* The rules the proofs of the project use. *)

(* The empty sum. *)
LEMMA SumEmpty == ASSUME NEW f PROVE SumFunctionOnSet(f, {}) = 0
  BY FS_EmptySet, SumUnfold

(* One more term. *)
LEMMA SumAdd ==
    ASSUME NEW f, NEW S, IsFiniteSet(S), NEW x, x \notin S, \A y \in S \cup {x} : f[y] \in Int
    PROVE  /\ SumFunctionOnSet(f, S) \in Int
           /\ SumFunctionOnSet(f, S \cup {x}) = SumFunctionOnSet(f, S) + f[x]
  <1> DEFINE U == S \cup {x}
  <1>1. IsFiniteSet(U) /\ x \in U /\ U \ {x} = S /\ \A y \in U : f[y] \in Int
    BY FS_AddElement
  <1>2. SumFunctionOnSet(f, S) \in Int
    BY IntOfSum
  <1>3. SumFunctionOnSet(f, U) = f[x] + SumFunctionOnSet(f, U \ {x})
    <2> HIDE DEF U
    <2> QED BY <1>1, SumRemove
  <1>4. SumFunctionOnSet(f, U) = f[x] + SumFunctionOnSet(f, S) /\ f[x] \in Int
    BY <1>1, <1>3
  <1> HIDE DEF U
  <1>5. SumFunctionOnSet(f, U) = SumFunctionOnSet(f, S) + f[x]
    BY <1>2, <1>4
  <1> QED BY <1>2, <1>5 DEF U

(* A sum depends on the terms only. *)
LEMMA SumSame ==
    ASSUME NEW f, NEW g, NEW S, IsFiniteSet(S), \A x \in S : f[x] = g[x] /\ f[x] \in Int
    PROVE  SumFunctionOnSet(f, S) = SumFunctionOnSet(g, S)
  <1> DEFINE F == {s \in SUBSET S : SumFunctionOnSet(f, s) = SumFunctionOnSet(g, s)}
  <1>1. {} \in F
    BY SumEmpty
  <1>2. ASSUME NEW s \in SUBSET S, NEW x \in S \ s, s \in F PROVE s \cup {x} \in F
    <2>1. IsFiniteSet(s) /\ x \notin s /\ s \cup {x} \in SUBSET S
      BY FS_Subset
    <2>2. SumFunctionOnSet(f, s \cup {x}) = SumFunctionOnSet(f, s) + f[x]
      BY <2>1, SumAdd
    <2>3. SumFunctionOnSet(g, s \cup {x}) = SumFunctionOnSet(g, s) + g[x]
      BY <2>1, SumAdd
    <2> QED BY <1>2, <2>1, <2>2, <2>3
  <1> HIDE DEF F
  <1>3. S \in F
    BY <1>1, <1>2, SubsetInduction
  <1> QED BY <1>3 DEF F

(* Sums of terms that are sums. *)
LEMMA SumPlus ==
    ASSUME NEW f, NEW g, NEW h, NEW S, IsFiniteSet(S),
           \A x \in S : f[x] \in Int /\ g[x] \in Int /\ h[x] = f[x] + g[x]
    PROVE  /\ SumFunctionOnSet(f, S) \in Int /\ SumFunctionOnSet(g, S) \in Int
           /\ SumFunctionOnSet(h, S) = SumFunctionOnSet(f, S) + SumFunctionOnSet(g, S)
  <1> DEFINE F == {s \in SUBSET S : SumFunctionOnSet(h, s) = SumFunctionOnSet(f, s) + SumFunctionOnSet(g, s)}
  <1>1. {} \in F
    BY SumEmpty
  <1>2. ASSUME NEW s \in SUBSET S, NEW x \in S \ s, s \in F PROVE s \cup {x} \in F
    <2>1. IsFiniteSet(s) /\ x \notin s /\ s \cup {x} \in SUBSET S
      BY FS_Subset
    <2>2. SumFunctionOnSet(f, s) \in Int /\ SumFunctionOnSet(f, s \cup {x}) = SumFunctionOnSet(f, s) + f[x]
      BY <2>1, SumAdd
    <2>3. SumFunctionOnSet(g, s) \in Int /\ SumFunctionOnSet(g, s \cup {x}) = SumFunctionOnSet(g, s) + g[x]
      BY <2>1, SumAdd
    <2>4. \A y \in s \cup {x} : h[y] \in Int
      OBVIOUS
    <2>5. SumFunctionOnSet(h, s \cup {x}) = SumFunctionOnSet(h, s) + h[x]
      BY <2>1, <2>4, SumAdd
    <2> QED BY <1>2, <2>1, <2>2, <2>3, <2>5
  <1> HIDE DEF F
  <1>3. S \in F
    BY <1>1, <1>2, SubsetInduction
  <1>4. SumFunctionOnSet(f, S) \in Int /\ SumFunctionOnSet(g, S) \in Int
    BY IntOfSum
  <1> QED BY <1>3, <1>4 DEF F

(* The sum over two disjoint sets. *)
LEMMA SumDisjoint ==
    ASSUME NEW f, NEW S, NEW R, IsFiniteSet(S), IsFiniteSet(R), S \cap R = {},
           \A x \in S \cup R : f[x] \in Int
    PROVE  /\ SumFunctionOnSet(f, S) \in Int /\ SumFunctionOnSet(f, R) \in Int
           /\ SumFunctionOnSet(f, S \cup R) = SumFunctionOnSet(f, S) + SumFunctionOnSet(f, R)
  <1> DEFINE F == {r \in SUBSET R : SumFunctionOnSet(f, S \cup r) = SumFunctionOnSet(f, S) + SumFunctionOnSet(f, r)}
  <1>0. SumFunctionOnSet(f, S) \in Int /\ SumFunctionOnSet(f, R) \in Int
    BY IntOfSum
  <1>1. {} \in F
    <2>1. S \cup {} = S
      OBVIOUS
    <2> QED BY <1>0, <2>1, SumEmpty
  <1>2. ASSUME NEW r \in SUBSET R, NEW x \in R \ r, r \in F PROVE r \cup {x} \in F
    <2> DEFINE U == S \cup r
    <2>1. /\ IsFiniteSet(r) /\ x \notin r /\ r \cup {x} \in SUBSET R
          /\ IsFiniteSet(U) /\ x \notin U /\ S \cup (r \cup {x}) = U \cup {x}
          /\ \A y \in U \cup {x} : f[y] \in Int
      BY FS_Subset, FS_Union
    <2>2. SumFunctionOnSet(f, r) \in Int /\ SumFunctionOnSet(f, r \cup {x}) = SumFunctionOnSet(f, r) + f[x] /\ f[x] \in Int
      BY <2>1, SumAdd
    <2>3. SumFunctionOnSet(f, U) = SumFunctionOnSet(f, S) + SumFunctionOnSet(f, r)
      BY <1>2
    <2> HIDE DEF U
    <2>4. SumFunctionOnSet(f, U \cup {x}) = SumFunctionOnSet(f, U) + f[x]
      BY <2>1, SumAdd
    <2>5. SumFunctionOnSet(f, S \cup (r \cup {x})) = SumFunctionOnSet(f, U) + f[x]
      BY <2>1, <2>4
    <2>6. SumFunctionOnSet(f, S \cup (r \cup {x})) = SumFunctionOnSet(f, S) + SumFunctionOnSet(f, r \cup {x})
      BY <1>0, <2>2, <2>3, <2>5
    <2> QED BY <2>1, <2>6
  <1> HIDE DEF F
  <1>3. R \in F
    BY <1>1, <1>2, SubsetInduction
  <1> QED BY <1>0, <1>3 DEF F

(* One term changes. *)
LEMMA SumUpdate ==
    ASSUME NEW f, NEW g, NEW S, IsFiniteSet(S), NEW x \in S,
           \A y \in S : f[y] \in Int /\ g[y] \in Int,
           \A y \in S \ {x} : f[y] = g[y]
    PROVE  /\ SumFunctionOnSet(f, S) \in Int
           /\ SumFunctionOnSet(g, S) = SumFunctionOnSet(f, S) - f[x] + g[x]
  <1> DEFINE R == S \ {x}
  <1>1. IsFiniteSet(R)
    BY FS_Subset
  <1>2. SumFunctionOnSet(f, S) = f[x] + SumFunctionOnSet(f, R) /\ SumFunctionOnSet(g, S) = g[x] + SumFunctionOnSet(g, R)
    BY SumRemove
  <1>3. SumFunctionOnSet(f, R) = SumFunctionOnSet(g, R) /\ SumFunctionOnSet(f, R) \in Int
    <2>1. \A y \in R : f[y] = g[y] /\ f[y] \in Int
      OBVIOUS
    <2> HIDE DEF R
    <2> QED BY <1>1, <2>1, SumSame, IntOfSum
  <1> HIDE DEF R
  <1> QED BY <1>2, <1>3

(* A sum of naturals is a natural. *)
LEMMA NatOfSum ==
    ASSUME NEW f, NEW S, IsFiniteSet(S), \A x \in S : f[x] \in Nat
    PROVE  SumFunctionOnSet(f, S) \in Nat
  <1> DEFINE F == {s \in SUBSET S : SumFunctionOnSet(f, s) \in Nat}
  <1>1. {} \in F
    BY SumEmpty
  <1>2. ASSUME NEW s \in SUBSET S, NEW x \in S \ s, s \in F PROVE s \cup {x} \in F
    <2>1. IsFiniteSet(s) /\ x \notin s /\ s \cup {x} \in SUBSET S
      BY FS_Subset
    <2>2. SumFunctionOnSet(f, s \cup {x}) = SumFunctionOnSet(f, s) + f[x]
      BY <2>1, SumAdd
    <2> QED BY <1>2, <2>1, <2>2
  <1> HIDE DEF F
  <1>3. S \in F
    BY <1>1, <1>2, SubsetInduction
  <1> QED BY <1>3 DEF F

(* No term of a sum of naturals exceeds it. *)
LEMMA SumBound ==
    ASSUME NEW f, NEW S, IsFiniteSet(S), \A x \in S : f[x] \in Nat, NEW x \in S
    PROVE  f[x] <= SumFunctionOnSet(f, S)
  <1>1. SumFunctionOnSet(f, S) = f[x] + SumFunctionOnSet(f, S \ {x})
    BY SumRemove
  <1>2. IsFiniteSet(S \ {x})
    BY FS_Subset
  <1>3. SumFunctionOnSet(f, S \ {x}) \in Nat
    BY <1>2, NatOfSum
  <1> QED BY <1>1, <1>3

(* Terms that are zero can be left out. *)
LEMMA SumZeros ==
    ASSUME NEW f, NEW S, IsFiniteSet(S), NEW R \in SUBSET S, \A x \in S : f[x] \in Int,
           \A x \in S \ R : f[x] = 0
    PROVE  SumFunctionOnSet(f, S) = SumFunctionOnSet(f, R)
  <1> DEFINE Z == S \ R
             F == {s \in SUBSET Z : SumFunctionOnSet(f, s) = 0}
  <1>1. {} \in F
    BY SumEmpty
  <1>2. ASSUME NEW s \in SUBSET Z, NEW x \in Z \ s, s \in F PROVE s \cup {x} \in F
    <2>1. IsFiniteSet(s) /\ x \notin s /\ s \cup {x} \in SUBSET Z
      BY FS_Subset
    <2>2. SumFunctionOnSet(f, s \cup {x}) = SumFunctionOnSet(f, s) + f[x]
      BY <2>1, SumAdd
    <2> QED BY <1>2, <2>1, <2>2
  <1>3. IsFiniteSet(Z) /\ IsFiniteSet(R) /\ R \cup Z = S
    BY FS_Subset
  <1> HIDE DEF F
  <1>4. Z \in F
    <2> HIDE DEF Z
    <2> QED BY <1>1, <1>2, <1>3, SubsetInduction
  <1>5. SumFunctionOnSet(f, Z) = 0
    BY <1>4 DEF F
  <1>6. /\ SumFunctionOnSet(f, R) \in Int
        /\ SumFunctionOnSet(f, R \cup Z) = SumFunctionOnSet(f, R) + SumFunctionOnSet(f, Z)
    <2>1. R \cap Z = {} /\ \A x \in R \cup Z : f[x] \in Int
      OBVIOUS
    <2> HIDE DEF Z
    <2> QED BY <1>3, <2>1, SumDisjoint
  <1>7. SumFunctionOnSet(f, R \cup Z) = SumFunctionOnSet(f, R)
    <2> HIDE DEF Z
    <2> QED BY <1>5, <1>6
  <1> QED BY <1>3, <1>7

(* The image of a finite set is finite. *)
LEMMA ImageFinite ==
    ASSUME NEW h, NEW S, IsFiniteSet(S)
    PROVE  IsFiniteSet({h[x] : x \in S})
  <1> DEFINE I(s) == {h[x] : x \in s}
             F == {s \in SUBSET S : IsFiniteSet(I(s))}
  <1>1. {} \in F
    <2>1. I({}) = {}
      OBVIOUS
    <2> QED BY <2>1, FS_EmptySet
  <1>2. ASSUME NEW s \in SUBSET S, NEW x \in S \ s, s \in F PROVE s \cup {x} \in F
    <2>1. I(s \cup {x}) = I(s) \cup {h[x]} /\ s \cup {x} \in SUBSET S
      OBVIOUS
    <2>2. IsFiniteSet(I(s))
      BY <1>2
    <2> HIDE DEF I
    <2>3. IsFiniteSet(I(s) \cup {h[x]})
      BY <2>2, FS_AddElement
    <2> QED BY <2>1, <2>3
  <1> HIDE DEF F
  <1>3. S \in F
    BY <1>1, <1>2, SubsetInduction
  <1> QED BY <1>3 DEF F

(* A sum over the image of an injective function is a sum over its domain. *)
LEMMA SumReindex ==
    ASSUME NEW f, NEW g, NEW h, NEW R, IsFiniteSet(R),
           \A x, y \in R : h[x] = h[y] => x = y,
           \A x \in R : g[x] = f[h[x]] /\ g[x] \in Int
    PROVE  SumFunctionOnSet(f, {h[x] : x \in R}) = SumFunctionOnSet(g, R)
  <1> DEFINE I(r) == {h[x] : x \in r}
             F == {r \in SUBSET R : SumFunctionOnSet(f, I(r)) = SumFunctionOnSet(g, r)}
  <1>1. {} \in F
    <2>1. I({}) = {}
      OBVIOUS
    <2> QED BY <2>1, SumEmpty
  <1>2. ASSUME NEW r \in SUBSET R, NEW x \in R \ r, r \in F PROVE r \cup {x} \in F
    <2>1. IsFiniteSet(r) /\ x \notin r /\ r \cup {x} \in SUBSET R
      BY FS_Subset
    <2>2. IsFiniteSet(I(r))
      BY <2>1, ImageFinite
    <2>3. I(r \cup {x}) = I(r) \cup {h[x]} /\ h[x] \notin I(r)
      OBVIOUS
    <2>4. \A y \in I(r) \cup {h[x]} : f[y] \in Int
      OBVIOUS
    <2>5. SumFunctionOnSet(f, I(r)) = SumFunctionOnSet(g, r)
      BY <1>2
    <2>6. SumFunctionOnSet(g, r \cup {x}) = SumFunctionOnSet(g, r) + g[x]
      BY <2>1, SumAdd
    <2> DEFINE J == I(r)
    <2> HIDE DEF J
    <2>7. SumFunctionOnSet(f, J \cup {h[x]}) = SumFunctionOnSet(f, J) + f[h[x]]
      <3>1. IsFiniteSet(J) /\ h[x] \notin J /\ \A y \in J \cup {h[x]} : f[y] \in Int
        BY <2>2, <2>3, <2>4 DEF J
      <3> QED BY <3>1, SumAdd
    <2>8. SumFunctionOnSet(f, I(r \cup {x})) = SumFunctionOnSet(g, r \cup {x})
      <3>1. I(r \cup {x}) = J \cup {h[x]} /\ SumFunctionOnSet(f, J) = SumFunctionOnSet(g, r)
        BY <2>3, <2>5 DEF J
      <3>2. g[x] = f[h[x]]
        OBVIOUS
      <3> HIDE DEF I
      <3> QED BY <2>6, <2>7, <3>1, <3>2
    <2> QED BY <2>1, <2>8
  <1> HIDE DEF F
  <1>3. R \in F
    BY <1>1, <1>2, SubsetInduction
  <1> QED BY <1>3 DEF F
-----------------------------------------------------------------------------
(* Sums over intervals of indices. *)

(* The last term. *)
LEMMA SumLast ==
    ASSUME NEW f, NEW n \in Nat, \A i \in 1..(n + 1) : f[i] \in Int
    PROVE  /\ SumFunctionOnSet(f, 1..n) \in Int
           /\ SumFunctionOnSet(f, 1..(n + 1)) = SumFunctionOnSet(f, 1..n) + f[n + 1]
  <1> DEFINE S == 1..n
  <1>1. IsFiniteSet(S)
    BY FS_Interval
  <1>2. S \cup {n + 1} = 1..(n + 1) /\ n + 1 \notin S /\ \A i \in S \cup {n + 1} : f[i] \in Int
    OBVIOUS
  <1> HIDE DEF S
  <1>3. SumFunctionOnSet(f, S) \in Int /\ SumFunctionOnSet(f, S \cup {n + 1}) = SumFunctionOnSet(f, S) + f[n + 1]
    BY <1>1, <1>2, SumAdd
  <1> QED BY <1>2, <1>3 DEF S

(* An interval is cut in two. *)
LEMMA SumCut ==
    ASSUME NEW f, NEW l \in Int, NEW m \in Int, NEW n \in Int, l <= m, m < n,
           \A i \in l..n : f[i] \in Int
    PROVE  /\ SumFunctionOnSet(f, l..m) \in Int /\ SumFunctionOnSet(f, (m + 1)..n) \in Int
           /\ SumFunctionOnSet(f, l..n) = SumFunctionOnSet(f, l..m) + SumFunctionOnSet(f, (m + 1)..n)
  <1> DEFINE S == l..m
             R == (m + 1)..n
  <1>1. IsFiniteSet(S) /\ IsFiniteSet(R)
    BY FS_Interval
  <1>2. S \cap R = {} /\ S \cup R = l..n /\ \A i \in S \cup R : f[i] \in Int
    OBVIOUS
  <1> HIDE DEF S, R
  <1>3. /\ SumFunctionOnSet(f, S) \in Int /\ SumFunctionOnSet(f, R) \in Int
        /\ SumFunctionOnSet(f, S \cup R) = SumFunctionOnSet(f, S) + SumFunctionOnSet(f, R)
    BY <1>1, <1>2, SumDisjoint
  <1> QED BY <1>2, <1>3 DEF S, R

(* The first term: the others move down by one. *)
LEMMA SumFirst ==
    ASSUME NEW f, NEW g, NEW n \in Nat, n > 0, \A i \in 1..n : f[i] \in Int,
           \A i \in 1..(n - 1) : g[i] = f[i + 1]
    PROVE  /\ SumFunctionOnSet(g, 1..(n - 1)) \in Int
           /\ SumFunctionOnSet(f, 1..n) = f[1] + SumFunctionOnSet(g, 1..(n - 1))
  <1> DEFINE R == 1..(n - 1)
             S == 1..n
             h == [i \in R |-> i + 1]
             I == {h[i] : i \in R}
  <1>1. IsFiniteSet(R) /\ IsFiniteSet(S)
    BY FS_Interval
  <1>2. I = S \ {1} /\ 1 \in S
    <2>1. \A j \in S \ {1} : j - 1 \in R /\ h[j - 1] = j
      OBVIOUS
    <2>2. \A i \in R : h[i] \in S \ {1}
      OBVIOUS
    <2>3. 1 \in S
      OBVIOUS
    <2> HIDE DEF R, S, h
    <2> QED BY <2>1, <2>2, <2>3
  <1>3. \A x, y \in R : h[x] = h[y] => x = y
    OBVIOUS
  <1>4. \A x \in R : g[x] = f[h[x]] /\ g[x] \in Int
    OBVIOUS
  <1>5. \A i \in S : f[i] \in Int
    OBVIOUS
  <1> HIDE DEF R, S, h
  <1>6. SumFunctionOnSet(f, I) = SumFunctionOnSet(g, R)
    BY <1>1, <1>3, <1>4, SumReindex
  <1>7. SumFunctionOnSet(f, S) = f[1] + SumFunctionOnSet(f, S \ {1})
    BY <1>1, <1>2, <1>5, SumRemove
  <1>8. SumFunctionOnSet(g, R) \in Int
    BY <1>1, <1>4, IntOfSum
  <1> QED BY <1>2, <1>6, <1>7, <1>8 DEF R, S

-----------------------------------------------------------------------------
(* Sums of sums. *)

(* A sum over the domain of a function is one over the set it is built on. *)
LEMMA SumOn ==
    ASSUME NEW S, NEW f, DOMAIN f = S
    PROVE  SumFunction(f) = SumFunctionOnSet(f, S)
  BY DEF SumFunction

Column(f, V, d) == [v \in V |-> f[v][d]]
Class(h, S, k) == {x \in S : h[x] = k}

(* The rows of a table and its columns have the same total. *)
LEMMA SumExchange ==
    ASSUME NEW f, NEW V, NEW D, IsFiniteSet(V), IsFiniteSet(D),
           \A v \in V, d \in D : f[v][d] \in Int,
           NEW row, \A v \in V : row[v] = SumFunctionOnSet(f[v], D),
           NEW column, \A d \in D : column[d] = SumFunctionOnSet(Column(f, V, d), V)
    PROVE  SumFunctionOnSet(row, V) = SumFunctionOnSet(column, D)
  <1> DEFINE Up(d) == [v \in V |-> f[v][d]]
             Col(s) == [d \in D |-> SumFunctionOnSet(Up(d), s)]
             F == {s \in SUBSET V : SumFunctionOnSet(row, s) = SumFunctionOnSet(Col(s), D)}
  <1>0. /\ \A v \in V : row[v] \in Int
        /\ \A d \in D, v \in V : Up(d)[v] = f[v][d]
    <2>1. ASSUME NEW v \in V PROVE row[v] \in Int
      <3>1. \A d \in D : f[v][d] \in Int
        OBVIOUS
      <3>2. SumFunctionOnSet(f[v], D) \in Int
        BY <3>1, IntOfSum
      <3> QED BY <3>2
    <2> QED BY <2>1
  <1>1. {} \in F
    <2>1. \A d \in D : Col({})[d] = 0
      BY SumEmpty
    <2>2. SumFunctionOnSet(Col({}), D) = SumFunctionOnSet(Col({}), {})
      <3> DEFINE g == Col({})
                 E == {}
      <3>1. \A d \in D : g[d] \in Int /\ (d \in D \ E => g[d] = 0)
        BY <2>1
      <3>2. E \in SUBSET D
        OBVIOUS
      <3> HIDE DEF g, E
      <3>3. SumFunctionOnSet(g, D) = SumFunctionOnSet(g, E)
        BY <3>1, <3>2, SumZeros
      <3> QED BY <3>3 DEF g, E
    <2> HIDE DEF Col
    <2> QED BY <2>2, SumEmpty
  <1>2. ASSUME NEW s \in SUBSET V, NEW x \in V \ s, s \in F PROVE s \cup {x} \in F
    <2> DEFINE g == Col(s)
               h == Col(s \cup {x})
    <2>1. IsFiniteSet(s) /\ x \notin s /\ s \cup {x} \in SUBSET V /\ x \in V
      BY FS_Subset
    <2>2. SumFunctionOnSet(row, s \cup {x}) = SumFunctionOnSet(row, s) + row[x]
      BY <1>0, <2>1, SumAdd
    <2>3. ASSUME NEW d \in D
          PROVE  g[d] \in Int /\ f[x][d] \in Int /\ h[d] = g[d] + f[x][d]
      <3> DEFINE u == Up(d)
      <3>1. \A y \in s \cup {x} : u[y] \in Int
        BY <2>1
      <3>2. u[x] = f[x][d]
        OBVIOUS
      <3>3. g[d] = SumFunctionOnSet(u, s) /\ h[d] = SumFunctionOnSet(u, s \cup {x})
        OBVIOUS
      <3> HIDE DEF u, g, h
      <3>4. SumFunctionOnSet(u, s) \in Int /\ SumFunctionOnSet(u, s \cup {x}) = SumFunctionOnSet(u, s) + u[x]
        BY <2>1, <3>1, SumAdd
      <3> QED BY <3>2, <3>3, <3>4
    <2> HIDE DEF g, h
    <2>4. SumFunctionOnSet(h, D) = SumFunctionOnSet(g, D) + SumFunctionOnSet(f[x], D)
      BY <2>3, SumPlus
    <2>5. SumFunctionOnSet(row, s) = SumFunctionOnSet(g, D)
      BY <1>2 DEF g
    <2>6. SumFunctionOnSet(row, s \cup {x}) = SumFunctionOnSet(h, D)
      BY <2>1, <2>2, <2>4, <2>5
    <2> QED BY <2>1, <2>6 DEF h
  <1> HIDE DEF F
  <1>3. V \in F
    BY <1>1, <1>2, SubsetInduction
  <1> DEFINE g == Col(V)
  <1>4. \A d \in D : g[d] = column[d] /\ g[d] \in Int
    <2> SUFFICES ASSUME NEW d \in D PROVE g[d] = column[d] /\ g[d] \in Int
      OBVIOUS
    <2> DEFINE u == Up(d)
    <2>1. \A v \in V : u[v] \in Int
      OBVIOUS
    <2>2. g[d] = SumFunctionOnSet(u, V) /\ column[d] = SumFunctionOnSet(u, V)
      BY DEF Column
    <2> HIDE DEF u, g
    <2>3. SumFunctionOnSet(u, V) \in Int
      BY <2>1, IntOfSum
    <2> QED BY <2>2, <2>3
  <1>5. SumFunctionOnSet(row, V) = SumFunctionOnSet(g, D)
    BY <1>3 DEF F
  <1> HIDE DEF g
  <1>6. SumFunctionOnSet(g, D) = SumFunctionOnSet(column, D)
    BY <1>4, SumSame
  <1> QED BY <1>5, <1>6

(* The terms can be summed by classes first. *)
LEMMA SumClasses ==
    ASSUME NEW f, NEW S, NEW K, IsFiniteSet(S), IsFiniteSet(K), NEW h,
           \A x \in S : h[x] \in K /\ f[x] \in Int,
           NEW g, \A k \in K : g[k] = SumFunctionOnSet(f, Class(h, S, k))
    PROVE  SumFunctionOnSet(g, K) = SumFunctionOnSet(f, S)
  <1> DEFINE C(s, k) == {x \in s : h[x] = k}
             G(s) == [k \in K |-> SumFunctionOnSet(f, C(s, k))]
             F == {s \in SUBSET S : SumFunctionOnSet(G(s), K) = SumFunctionOnSet(f, s)}
  <1>0. ASSUME NEW s \in SUBSET S, NEW k
        PROVE  IsFiniteSet(C(s, k)) /\ SumFunctionOnSet(f, C(s, k)) \in Int
    <2> DEFINE c == C(s, k)
    <2>1. c \subseteq S /\ \A x \in c : f[x] \in Int
      OBVIOUS
    <2> HIDE DEF c
    <2>2. IsFiniteSet(c)
      BY <2>1, FS_Subset
    <2>3. SumFunctionOnSet(f, c) \in Int
      BY <2>1, <2>2, IntOfSum
    <2> QED BY <2>2, <2>3 DEF c
  <1>1. {} \in F
    <2> DEFINE e == G({})
    <2>1. \A k \in K : e[k] = 0
      <3>1. \A k \in K : C({}, k) = {}
        OBVIOUS
      <3> HIDE DEF C
      <3> QED BY <3>1, SumEmpty
    <2> DEFINE E == {}
    <2>2. E \in SUBSET K
      OBVIOUS
    <2> HIDE DEF e, E
    <2>3. SumFunctionOnSet(e, K) = SumFunctionOnSet(e, E)
      BY <2>1, <2>2, SumZeros
    <2> QED BY <2>3, SumEmpty DEF e, E
  <1>2. ASSUME NEW s \in SUBSET S, NEW x \in S \ s, s \in F PROVE s \cup {x} \in F
    <2> DEFINE a == G(s)
               t == s \cup {x}
               b == G(t)
               c == C(s, h[x])
    <2>1. IsFiniteSet(s) /\ x \notin s /\ t \in SUBSET S /\ h[x] \in K /\ f[x] \in Int
      BY FS_Subset
    <2>2. SumFunctionOnSet(f, t) = SumFunctionOnSet(f, s) + f[x]
      BY <2>1, SumAdd
    <2>3. \A k \in K : a[k] \in Int /\ b[k] \in Int
      BY <1>0, <2>1
    <2>4. \A k \in K \ {h[x]} : a[k] = b[k]
      <3>1. \A k \in K \ {h[x]} : C(t, k) = C(s, k)
        OBVIOUS
      <3> HIDE DEF C, t
      <3> QED BY <3>1
    <2>5. b[h[x]] = a[h[x]] + f[x]
      <3>1. C(t, h[x]) = c \cup {x} /\ x \notin c /\ \A y \in c \cup {x} : f[y] \in Int
        BY <2>1
      <3>2. a[h[x]] = SumFunctionOnSet(f, c) /\ b[h[x]] = SumFunctionOnSet(f, C(t, h[x])) /\ IsFiniteSet(c)
        BY <2>1, <1>0
      <3> HIDE DEF C, c, a, b
      <3>3. SumFunctionOnSet(f, c \cup {x}) = SumFunctionOnSet(f, c) + f[x]
        BY <3>1, <3>2, SumAdd
      <3> QED BY <3>1, <3>2, <3>3
    <2>6. SumFunctionOnSet(a, K) = SumFunctionOnSet(f, s)
      BY <1>2
    <2> HIDE DEF a, b, c, t
    <2>7. /\ SumFunctionOnSet(a, K) \in Int
          /\ SumFunctionOnSet(b, K) = SumFunctionOnSet(a, K) - a[h[x]] + b[h[x]]
      BY <2>1, <2>3, <2>4, SumUpdate
    <2>8. a[h[x]] \in Int
      BY <2>1, <2>3
    <2>9. SumFunctionOnSet(b, K) = SumFunctionOnSet(f, t)
      BY <2>1, <2>2, <2>5, <2>6, <2>7, <2>8
    <2> QED BY <2>1, <2>9 DEF b, t
  <1> HIDE DEF F
  <1>3. S \in F
    BY <1>1, <1>2, SubsetInduction
  <1> DEFINE e == G(S)
  <1>4. \A k \in K : e[k] = g[k] /\ e[k] \in Int
    BY <1>0 DEF Class
  <1>5. SumFunctionOnSet(e, K) = SumFunctionOnSet(f, S)
    BY <1>3 DEF F
  <1> HIDE DEF e
  <1>6. SumFunctionOnSet(e, K) = SumFunctionOnSet(g, K)
    BY <1>4, SumSame
  <1> QED BY <1>5, <1>6
=============================================================================
