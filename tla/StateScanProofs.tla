-------------------------- MODULE StateScanProofs ---------------------------
(***************************************************************************)
(* The proofs of two scans of the state that share no state: the recovery  *)
(* issuance (Hip30Recovery) and the difference of two states (StateDiff).  *)
(***************************************************************************)
EXTENDS Hip30Recovery, StateDiff, SumTheorems, TLAPS

-----------------------------------------------------------------------------
(***************************************************************************)
(* TypeOK and DigestExact for every word size, reward frequency that       *)
(* divides it and chain.  All block arithmetic of the program wraps; the   *)
(* lemmas of the first part show that the checks of the flags leave only   *)
(* ranges on which nothing wraps and which consist of whole groups plus a  *)
(* tail shorter than a group (FlagsExact).  The inductive invariant then   *)
(* ties the reward block, the next header and the length of the digest to  *)
(* the number of groups read, and the number of crosslinks to the sum over *)
(* the headers read (IssuanceExact).                                       *)
(***************************************************************************)

F == rewardFrequency

(* Multiples of the reward frequency grow by one frequency a step. *)
LEMMA Multiples ==
    ASSUME NEW g \in Nat
    PROVE  F * g \in Nat /\ F * (g + 1) = F * g + F
  BY Hip30Assumption DEF F

(* The multiples of two different numbers are at least a frequency apart. *)
LEMMA MultiplesApart ==
    ASSUME NEW g \in Nat, NEW c \in Nat, g < c
    PROVE  F * g + F <= F * c
  BY Hip30Assumption DEF F

(* A smaller multiple is the multiple of a smaller number. *)
LEMMA MultiplesOrder ==
    ASSUME NEW g \in Nat, NEW c \in Nat, F * g < F * c
    PROVE  g < c
  <1> SUFFICES ASSUME ~(g < c) PROVE FALSE
    OBVIOUS
  <1>1. CASE g = c
    BY <1>1, Hip30Assumption DEF F
  <1>2. CASE c < g
    BY <1>2, MultiplesApart, Multiples, Hip30Assumption DEF F
  <1> QED BY <1>1, <1>2

(* Division with remainder. *)
LEMMA Division ==
    ASSUME NEW a \in Nat, NEW m \in Nat, m > 0
    PROVE  /\ a \div m \in Nat /\ (a % m) \in Nat /\ (a % m) < m
           /\ a = m * (a \div m) + (a % m)
  OBVIOUS

(* The multiples of m around a number leave one remainder only. *)
LEMMA SmallRemainder ==
    ASSUME NEW a \in Nat, NEW m \in Nat, a < m
    PROVE  a % m = a /\ (a + m) % m = a
  <1>1. a % m = a
    <2> DEFINE q == a \div m
    <2>1. q \in Nat /\ (a % m) \in Nat /\ a = m * q + (a % m)
      BY Division
    <2>2. CASE q = 0
      BY <2>1, <2>2
    <2>3. CASE q >= 1
      <3>1. m * q >= m
        BY <2>1, <2>3
      <3> QED BY <2>1, <3>1
    <2> QED BY <2>1, <2>2, <2>3
  <1>2. (a + m) % m = a
    <2> DEFINE q == (a + m) \div m
               r == (a + m) % m
    <2>1. q \in Nat /\ r \in Nat /\ r < m /\ a + m = m * q + r
      BY Division, a + m \in Nat
    <2> HIDE DEF q, r
    <2>2. CASE q = 0
      BY <2>1, <2>2
    <2>3. CASE q = 1
      BY <2>1, <2>3 DEF r
    <2>4. CASE q >= 2
      <3>1. m * q >= m + m
        BY <2>1, <2>4
      <3> QED BY <2>1, <3>1
    <2> QED BY <2>1, <2>2, <2>3, <2>4
  <1> QED BY <1>1, <1>2

(* Every block number is a multiple of the frequency and its remainder. *)
LEMMA Remainders ==
    ASSUME NEW n \in Nat
    PROVE  /\ remainder(n) \in Nat /\ remainder(n) < F
           /\ \E q \in Nat : n = F * q + remainder(n)
  <1>1. F \in Nat /\ F > 0
    BY Hip30Assumption DEF F
  <1>2. /\ n \div F \in Nat /\ (n % F) \in Nat /\ (n % F) < F
        /\ n = F * (n \div F) + (n % F)
    BY <1>1, Division
  <1>3. remainder(n) = n % F
    BY DEF remainder, F
  <1> QED BY <1>2, <1>3

(* A sum below the word does not wrap. *)
LEMMA PlusExact ==
    ASSUME NEW a \in Nat, NEW b \in Nat, a + b < Word
    PROVE  Plus(a, b) = a + b
  BY SmallRemainder, Hip30Assumption, a + b \in Nat DEF Plus

(* The difference of a block number and a smaller one does not wrap. *)
LEMMA MinusExact ==
    ASSUME NEW a \in Nat, NEW b \in Nat, a < Word, b <= a
    PROVE  Minus(a, b) = a - b
  <1>1. (a - b) \in Nat /\ a - b < Word /\ a + Word - b = (a - b) + Word
    BY Hip30Assumption
  <1>2. ((a - b) + Word) % Word = a - b
    BY <1>1, SmallRemainder, Hip30Assumption
  <1> QED BY <1>1, <1>2 DEF Minus

-----------------------------------------------------------------------------
(* The flags *)

(* What the accepted flags guarantee: no wrap, and whole groups. *)
RangeExact ==
    /\ firstReward = startBlock + F - 1 /\ firstReward < Word
    /\ lastReward <= endBlock /\ endBlock < lastReward + F
    /\ \E c \in Nat : lastReward = startBlock + F * c + F - 1

(* Accepted flags start a group at or after the first one, so neither end of  *)
(* the range wraps and the two reward blocks are whole groups apart.          *)
LEMMA FlagsExact ==
    ASSUME startBlock \in Block, endBlock \in Block, FlagsAccepted
    PROVE  RangeExact
  <1>0. /\ startBlock \in Nat /\ startBlock < Word /\ endBlock \in Nat /\ endBlock < Word
        /\ F \in Nat /\ F > 0 /\ Word \in Nat
    BY Hip30Assumption DEF Block, F
  <1>1. PICK m \in Nat : Word = F * m
    <2>1. Word \div F \in Nat /\ Word = F * (Word \div F) + (Word % F)
      BY <1>0, Division
    <2>2. Word % F = 0
      BY Hip30Assumption DEF F
    <2>3. F * (Word \div F) \in Nat
      BY <2>1, Multiples
    <2>4. Word = F * (Word \div F)
      BY <2>1, <2>2, <2>3
    <2> QED BY <2>1, <2>4
  <1>2. PICK a \in Nat : startBlock = F * a + remainder(startBlock)
    BY <1>0, Remainders
  <1>3. PICK e \in Nat : endBlock = F * e + remainder(endBlock)
    BY <1>0, Remainders
  <1> DEFINE r == remainder(startBlock)
             t == remainder(endBlock)
  <1>4. r \in Nat /\ r < F /\ t \in Nat /\ t < F
    BY <1>0, Remainders
  <1> HIDE DEF r, t
  <1>5. F * a \in Nat /\ F * e \in Nat /\ F * m \in Nat
    BY Multiples
  <1>6. F * a < F * m
    BY <1>0, <1>1, <1>2, <1>4, <1>5 DEF r
  <1>7. F * a + F <= F * m
    BY <1>6, MultiplesOrder, MultiplesApart
  <1>8. firstReward = F * a + F - 1
    <2>1. startBlock + (F - 1 - r) = F * a + F - 1 /\ F - 1 - r \in Nat
      BY <1>0, <1>2, <1>4, <1>5 DEF r
    <2>2. firstReward = Plus(startBlock, F - 1 - r)
      BY DEF firstReward, nextRewardBlock, F, r
    <2> QED BY <1>0, <1>1, <1>5, <1>7, <2>1, <2>2, PlusExact
  <1>9. firstReward < Word /\ firstReward \in Nat
    BY <1>0, <1>1, <1>5, <1>7, <1>8
  <1>10. firstCovered = F * a
    <2>1. firstCovered = Minus(firstReward, F - 1) /\ F - 1 \in Nat /\ F - 1 <= firstReward
      BY <1>0, <1>5, <1>8 DEF firstCovered, F
    <2>2. firstCovered = firstReward - (F - 1)
      BY <1>9, <2>1, MinusExact
    <2> QED BY <1>0, <1>5, <1>8, <2>2
  <1>11. startBlock = F * a
    BY <1>10 DEF FlagsAccepted
  <1>12. a < e + 1 /\ a > 0
    <2>1. a # 0
      BY <1>0, <1>11 DEF FlagsAccepted
    <2>2. F * a < F * (e + 1)
      BY <1>0, <1>3, <1>4, <1>5, <1>11, Multiples DEF FlagsAccepted, t
    <2> QED BY <2>1, <2>2, MultiplesOrder
  <1>13. CASE t >= F - 1
    <2>1. t = F - 1
      BY <1>0, <1>4, <1>13
    <2>2. lastReward = Minus(endBlock, 0)
      BY <1>0, <2>1 DEF lastReward, previousRewardBlock, t, F
    <2>3. lastReward = endBlock
      BY <1>0, <2>2, MinusExact
    <2>4. e - a \in Nat /\ F * (e - a) = F * e - F * a
      BY <1>0, <1>12
    <2>5. lastReward = startBlock + F * (e - a) + F - 1
      BY <1>0, <1>3, <1>5, <1>11, <2>1, <2>3, <2>4 DEF t
    <2>6. \E c \in Nat : lastReward = startBlock + F * c + F - 1
      BY <2>4, <2>5
    <2>7. firstReward = startBlock + F - 1 /\ lastReward <= endBlock /\ endBlock < lastReward + F
      BY <1>0, <1>8, <1>11, <2>3
    <2> QED BY <1>9, <2>6, <2>7 DEF RangeExact
  <1>14. CASE ~(t >= F - 1)
    <2>1. lastReward = Minus(endBlock, t + 1)
      BY <1>14 DEF lastReward, previousRewardBlock, t, F
    <2>2. e > 0 /\ F * e >= F
      <3>1. F * 0 = 0 /\ F * a >= F
        BY <1>0, <1>12
      <3>2. e # 0
        BY <1>0, <1>3, <1>4, <1>11, <1>14, <3>1 DEF FlagsAccepted, t
      <3> QED BY <1>0, <3>2
    <2>3. lastReward = endBlock - (t + 1)
      <3>1. t + 1 \in Nat /\ t + 1 <= endBlock
        BY <1>0, <1>3, <1>4, <1>5, <2>2 DEF t
      <3> QED BY <1>0, <2>1, <3>1, MinusExact
    <2>4. lastReward = F * e - 1
      BY <1>0, <1>3, <1>4, <1>5, <2>3 DEF t
    <2>5. a < e
      <3>1. F * a < F * e
        BY <1>0, <1>5, <1>8, <2>4 DEF FlagsAccepted
      <3> QED BY <3>1, MultiplesOrder
    <2>6. e - 1 - a \in Nat /\ F * (e - 1 - a) = F * e - F - F * a
      BY <1>0, <2>5
    <2>7. lastReward = startBlock + F * (e - 1 - a) + F - 1
      BY <1>0, <1>5, <1>11, <2>4, <2>6
    <2>8. \E c \in Nat : lastReward = startBlock + F * c + F - 1
      BY <2>6, <2>7
    <2>9. firstReward = startBlock + F - 1 /\ lastReward <= endBlock /\ endBlock < lastReward + F
      BY <1>0, <1>4, <1>5, <1>8, <1>11, <1>14, <2>3
    <2> QED BY <1>9, <2>8, <2>9 DEF RangeExact
  <1> QED BY <1>13, <1>14

-----------------------------------------------------------------------------
(* The scan *)

Running == {"group", "header", "grouped", "scanned", "published"}

(* The digest is the sequence of headers from the start on. *)
Consecutive == \A i \in DOMAIN digest : digest[i] = startBlock + i - 1

(* Where the loops are, in terms of the groups read and the headers hashed. *)
Position ==
    /\ pc = "group" =>
          /\ Len(digest) = F * rewardGroups
          /\ rewardBlock = startBlock + Len(digest) + F - 1
    /\ pc = "header" =>
          /\ rewardGroups > 0
          /\ rewardBlock = startBlock + F * rewardGroups - 1
          /\ number = startBlock + Len(digest) /\ number <= rewardBlock
    /\ pc = "grouped" =>
          /\ Len(digest) = F * rewardGroups /\ rewardGroups > 0
          /\ rewardBlock = startBlock + Len(digest) - 1
    /\ pc \in {"group", "header", "grouped"} => rewardBlock <= lastReward
    /\ pc \in {"scanned", "published"} =>
          Len(digest) = F * rewardGroups /\ lastReward = startBlock + Len(digest) - 1

IInv ==
    /\ TypeOK
    /\ pc = "flags" => digest = <<>> /\ rewardGroups = 0
    /\ pc \in Running => FlagsAccepted /\ Consecutive /\ Position

(* Init establishes the invariant. *)
LEMMA InitIInv == Init => IInv
  <1> SUFFICES ASSUME Init PROVE IInv
    OBVIOUS
  <1>1. 0 \in Block
    BY Hip30Assumption DEF Block
  <1>2. damaged \subseteq 0..LastHeader
    BY DEF Init
  <1> QED BY <1>1, <1>2 DEF Init, IInv, TypeOK, Running

(* Counted crosslinks are natural numbers. *)
LEMMA IncludedType ==
    ASSUME NEW n \in 0..LastHeader
    PROVE  IncludedLinks(n) \in Nat
  BY Hip30Assumption DEF IncludedLinks

(* A step that ends the program keeps the invariant. *)
LEMMA FatalKeeps ==
    ASSUME IInv, Fatal
    PROVE  IInv'
  BY DEF IInv, Fatal, TypeOK, Running, counters

(* Accepted flags put the loop at its first group. *)
LEMMA StartKeeps ==
    ASSUME IInv, Start
    PROVE  IInv'
  <1>0. startBlock \in Block /\ endBlock \in Block /\ digest = <<>> /\ rewardGroups = 0
    BY DEF IInv, TypeOK, Start
  <1>1. RangeExact
    BY <1>0, FlagsExact DEF Start
  <1>2. F \in Nat /\ F > 0 /\ startBlock \in Nat /\ Word \in Nat /\ F * 0 = 0
    BY <1>0, Hip30Assumption DEF F, Block
  <1>3. rewardBlock' = startBlock + F - 1 /\ rewardBlock' \in Block
    BY <1>1, <1>2 DEF Start, RangeExact, Block
  <1>4. TypeOK'
    BY <1>3 DEF IInv, TypeOK, Start, counters
  <1>5. FlagsAccepted' /\ lastReward' = lastReward
    BY DEF Start, FlagsAccepted, firstReward, lastReward, firstCovered, nextRewardBlock,
           previousRewardBlock, remainder, Plus, Minus
  <1>6. Consecutive'
    BY <1>0 DEF Consecutive, Start, counters
  <1>7. rewardBlock' <= lastReward'
    BY <1>5 DEF Start, FlagsAccepted
  <1>8. Position'
    BY <1>0, <1>2, <1>3, <1>7 DEF Position, Start, counters
  <1> QED BY <1>4, <1>5, <1>6, <1>8 DEF IInv, Start

(* The range depends on the flags only. *)
LEMMA SameRange ==
    ASSUME UNCHANGED <<startBlock, endBlock>>
    PROVE  lastReward' = lastReward /\ (FlagsAccepted => FlagsAccepted')
  BY DEF FlagsAccepted, firstReward, lastReward, firstCovered, nextRewardBlock,
         previousRewardBlock, remainder, Plus, Minus

(* What the invariant says of numbers while the scan runs. *)
LEMMA RunningFacts ==
    ASSUME IInv, pc \in {"group", "header", "grouped"}
    PROVE  /\ F \in Nat /\ F > 0 /\ Word \in Nat
           /\ startBlock \in Nat /\ rewardBlock \in Nat /\ number \in Nat
           /\ rewardGroups \in Nat /\ Len(digest) \in Nat /\ F * rewardGroups \in Nat
           /\ RangeExact /\ rewardBlock <= lastReward /\ lastReward \in Nat /\ lastReward < Word
           /\ LastHeader \in Nat
  <1>1. FlagsAccepted /\ startBlock \in Block /\ endBlock \in Block
    BY DEF IInv, TypeOK, Running
  <1>2. RangeExact
    BY <1>1, FlagsExact
  <1>3. /\ F \in Nat /\ F > 0 /\ Word \in Nat /\ LastHeader \in Nat
        /\ startBlock \in Nat /\ rewardBlock \in Nat /\ number \in Nat /\ endBlock < Word
        /\ endBlock \in Nat /\ rewardGroups \in Nat /\ Len(digest) \in Nat
    BY <1>1, Hip30Assumption DEF F, Block, IInv, TypeOK
  <1>4. F * rewardGroups \in Nat
    BY <1>3, Multiples
  <1>5. lastReward \in Nat
    <2>1. PICK c \in Nat : lastReward = startBlock + F * c + F - 1
      BY <1>2 DEF RangeExact
    <2>2. F * c \in Nat
      BY Multiples
    <2> QED BY <1>3, <2>1, <2>2
  <1>6. lastReward < Word
    BY <1>2, <1>3, <1>5 DEF RangeExact
  <1>7. rewardBlock <= lastReward
    BY DEF IInv, Position, Running
  <1> QED BY <1>2, <1>3, <1>4, <1>5, <1>6, <1>7

(* Reading a reward header opens its group. *)
LEMMA ReadKeeps ==
    ASSUME IInv, ReadRewardHeader
    PROVE  IInv'
  <1>1. CASE Fatal
    BY <1>1, FatalKeeps
  <1>2. CASE ~Fatal
    <2>1. /\ pc = "group" /\ pc' = "header" /\ rewardGroups' = rewardGroups + 1
          /\ groupCrosslinks' = 0 /\ number' = Minus(rewardBlock, F - 1)
          /\ UNCHANGED <<startBlock, endBlock, damaged, rewardBlock, digest, totalRecoveryCrosslinks>>
      BY <1>2 DEF ReadRewardHeader, F
    <2>2. /\ F \in Nat /\ F > 0 /\ startBlock \in Nat /\ rewardBlock \in Nat /\ Len(digest) \in Nat
          /\ rewardGroups \in Nat /\ rewardBlock <= lastReward /\ lastReward < Word
          /\ lastReward \in Nat /\ Word \in Nat
      BY <2>1, RunningFacts
    <2>3. Len(digest) = F * rewardGroups /\ rewardBlock = startBlock + Len(digest) + F - 1
      BY <2>1 DEF IInv, Position, Running
    <2>4. number' = startBlock + Len(digest)
      <3>1. F - 1 \in Nat /\ F - 1 <= rewardBlock /\ rewardBlock < Word
        BY <2>2, <2>3
      <3>2. Minus(rewardBlock, F - 1) = rewardBlock - (F - 1)
        BY <2>2, <3>1, MinusExact
      <3> QED BY <2>1, <2>2, <2>3, <3>2
    <2>5. F * (rewardGroups + 1) = F * rewardGroups + F
      BY <2>2, Multiples
    <2>6. TypeOK'
      BY <2>1, <2>2, <2>3, <2>4 DEF IInv, TypeOK, Block
    <2>7. FlagsAccepted' /\ lastReward' = lastReward
      BY <2>1, SameRange DEF IInv, Running
    <2>8. Consecutive'
      BY <2>1 DEF IInv, Consecutive, Running
    <2>9. Position'
      BY <2>1, <2>2, <2>3, <2>4, <2>5, <2>7 DEF Position
    <2> QED BY <2>1, <2>6, <2>7, <2>8, <2>9 DEF IInv
  <1> QED BY <1>1, <1>2

(* Hashing a header extends the digest by the next number. *)
LEMMA CountKeeps ==
    ASSUME IInv, CountHeader
    PROVE  IInv'
  <1>1. CASE Fatal
    BY <1>1, FatalKeeps
  <1>2. CASE ~Fatal
    <2>1. /\ pc = "header" /\ number <= LastHeader
          /\ digest' = Append(digest, number)
          /\ groupCrosslinks' = groupCrosslinks + 1 + IncludedLinks(number)
          /\ number' = Plus(number, 1)
          /\ pc' = IF Plus(number, 1) <= rewardBlock THEN "header" ELSE "grouped"
          /\ UNCHANGED <<startBlock, endBlock, damaged, rewardBlock, rewardGroups,
                         totalRecoveryCrosslinks>>
      BY <1>2 DEF CountHeader, readCanonicalHeader
    <2>2. /\ F \in Nat /\ F > 0 /\ startBlock \in Nat /\ rewardBlock \in Nat /\ Len(digest) \in Nat
          /\ rewardGroups \in Nat /\ rewardBlock <= lastReward /\ number \in Nat
          /\ F * rewardGroups \in Nat /\ LastHeader \in Nat /\ Word \in Nat
      BY <2>1, RunningFacts
    <2>3. /\ rewardGroups > 0 /\ rewardBlock = startBlock + F * rewardGroups - 1
          /\ number = startBlock + Len(digest) /\ number <= rewardBlock
      BY <2>1 DEF IInv, Position, Running
    <2>4. Plus(number, 1) = number + 1 /\ number + 1 < Word
      <3>1. number + 1 < Word
        BY <2>1, <2>2, Hip30Assumption
      <3> QED BY <2>2, <3>1, PlusExact
    <2>5. digest \in Seq(0..LastHeader) /\ number \in 0..LastHeader
      BY <2>1, <2>2 DEF IInv, TypeOK
    <2>6. /\ digest' \in Seq(0..LastHeader) /\ Len(digest') = Len(digest) + 1
          /\ \A i \in 1..Len(digest) : digest'[i] = digest[i]
          /\ digest'[Len(digest) + 1] = number
      BY <2>1, <2>5
    <2>7. TypeOK'
      <3>1. number' \in Block
        BY <2>1, <2>2, <2>4 DEF Block
      <3>2. groupCrosslinks' \in Nat
        BY <2>1, <2>5, IncludedType DEF IInv, TypeOK
      <3> QED BY <2>1, <2>6, <3>1, <3>2 DEF IInv, TypeOK
    <2>8. FlagsAccepted' /\ lastReward' = lastReward
      BY <2>1, SameRange DEF IInv, Running
    <2>9. Consecutive'
      <3>1. \A i \in 1..Len(digest) : digest[i] = startBlock + i - 1
        BY <2>1, <2>5 DEF IInv, Consecutive, Running
      <3>2. DOMAIN digest' = 1..(Len(digest) + 1)
        BY <2>6
      <3> QED BY <2>1, <2>2, <2>3, <2>6, <3>1, <3>2 DEF Consecutive
    <2>10. Position'
      <3>1. CASE number + 1 <= rewardBlock
        BY <2>1, <2>2, <2>3, <2>4, <2>6, <2>8, <3>1 DEF Position
      <3>2. CASE ~(number + 1 <= rewardBlock)
        BY <2>1, <2>2, <2>3, <2>4, <2>6, <2>8, <3>2 DEF Position
      <3> QED BY <3>1, <3>2
    <2> QED BY <2>1, <2>7, <2>8, <2>9, <2>10 DEF IInv
  <1> QED BY <1>1, <1>2

(* After a group the loop goes on exactly when a whole group is left. *)
LEMMA EndGroupKeeps ==
    ASSUME IInv, EndGroup
    PROVE  IInv'
  <1>1. /\ pc = "grouped"
        /\ UNCHANGED <<startBlock, endBlock, damaged, number, digest, rewardGroups, groupCrosslinks>>
        /\ totalRecoveryCrosslinks' = totalRecoveryCrosslinks + groupCrosslinks
    BY DEF EndGroup
  <1>2. /\ F \in Nat /\ F > 0 /\ startBlock \in Nat /\ rewardBlock \in Nat /\ Len(digest) \in Nat
        /\ rewardGroups \in Nat /\ rewardBlock <= lastReward /\ lastReward \in Nat
        /\ F * rewardGroups \in Nat /\ Word \in Nat /\ lastReward < Word /\ RangeExact
    BY <1>1, RunningFacts
  <1>3. /\ Len(digest) = F * rewardGroups /\ rewardGroups > 0
        /\ rewardBlock = startBlock + Len(digest) - 1
    BY <1>1 DEF IInv, Position, Running
  <1>4. FlagsAccepted' /\ lastReward' = lastReward
    BY <1>1, SameRange DEF IInv, Running
  <1>5. Consecutive'
    BY <1>1 DEF IInv, Consecutive, Running
  <1>6. ASSUME rewardBlock + F > lastReward PROVE rewardBlock = lastReward
    <2>1. PICK c \in Nat : lastReward = startBlock + F * c + F - 1
      BY <1>2 DEF RangeExact
    <2>2. F * c \in Nat /\ F * (c + 1) = F * c + F /\ F * (c + 1) \in Nat
      BY <2>1, Multiples
    <2>3. ~(rewardGroups < c + 1)
      <3> SUFFICES ASSUME rewardGroups < c + 1 PROVE FALSE
        OBVIOUS
      <3>1. F * rewardGroups + F <= F * (c + 1)
        BY <1>2, <2>1, MultiplesApart
      <3> QED BY <1>2, <1>3, <1>6, <2>1, <2>2, <3>1
    <2>4. ~(c + 1 < rewardGroups)
      <3> SUFFICES ASSUME c + 1 < rewardGroups PROVE FALSE
        OBVIOUS
      <3>1. F * (c + 1) + F <= F * rewardGroups
        BY <1>2, <2>1, MultiplesApart
      <3> QED BY <1>2, <1>3, <2>1, <2>2, <3>1
    <2>5. rewardGroups = c + 1
      BY <1>2, <2>1, <2>3, <2>4
    <2> QED BY <1>2, <1>3, <2>1, <2>2, <2>5
  <1>7. CASE rewardBlock > Word - 1 - F
    <2>1. pc' = "scanned" /\ rewardBlock' = rewardBlock
      BY <1>7 DEF EndGroup, F
    <2>2. rewardBlock = lastReward
      BY <1>2, <1>6, <1>7
    <2>3. TypeOK'
      BY <1>1, <2>1 DEF IInv, TypeOK
    <2>4. Position'
      BY <1>1, <1>3, <1>4, <2>1, <2>2 DEF Position
    <2> QED BY <1>4, <1>5, <2>1, <2>3, <2>4 DEF IInv
  <1>8. CASE ~(rewardBlock > Word - 1 - F)
    <2>1. Plus(rewardBlock, F) = rewardBlock + F
      BY <1>2, <1>8, PlusExact
    <2>2. /\ rewardBlock' = rewardBlock + F
          /\ pc' = IF rewardBlock + F <= lastReward THEN "group" ELSE "scanned"
      BY <1>8, <2>1 DEF EndGroup, F
    <2>3. TypeOK'
      <3>1. rewardBlock' \in Block
        BY <1>2, <1>8, <2>2 DEF Block
      <3> QED BY <1>1, <2>2, <3>1 DEF IInv, TypeOK
    <2>4. Position'
      <3>1. CASE rewardBlock + F <= lastReward
        BY <1>1, <1>2, <1>3, <1>4, <2>2, <3>1 DEF Position
      <3>2. CASE ~(rewardBlock + F <= lastReward)
        BY <1>1, <1>2, <1>3, <1>4, <1>6, <2>2, <3>2 DEF Position
      <3> QED BY <3>1, <3>2
    <2> QED BY <1>4, <1>5, <2>2, <2>3, <2>4 DEF IInv
  <1> QED BY <1>7, <1>8

(* Publishing changes nothing of what was counted. *)
LEMMA PublishKeeps ==
    ASSUME IInv, Publish
    PROVE  IInv'
  <1>1. CASE Fatal
    BY <1>1, FatalKeeps
  <1>2. CASE ~Fatal
    <2>1. /\ pc = "scanned" /\ pc' = "published"
          /\ UNCHANGED <<startBlock, endBlock, damaged, rewardBlock, number, counters>>
      BY <1>2 DEF Publish
    <2>2. lastReward' = lastReward /\ (FlagsAccepted => FlagsAccepted')
      BY <2>1, SameRange
    <2> QED BY <2>1, <2>2 DEF counters, IInv, TypeOK, Consecutive, Position, Running
  <1> QED BY <1>1, <1>2

(* Every step keeps the invariant. *)
LEMMA NextIInv == IInv /\ [Next]_vars => IInv'
  <1> SUFFICES ASSUME IInv, [Next]_vars PROVE IInv'
    OBVIOUS
  <1>1. CASE UNCHANGED vars
    <2>1. lastReward' = lastReward /\ (FlagsAccepted => FlagsAccepted')
      BY <1>1, SameRange DEF vars
    <2> QED BY <1>1, <2>1 DEF vars, counters, IInv, TypeOK, Consecutive, Position, Running
  <1>2. CASE Start
    BY <1>2, StartKeeps
  <1>3. CASE Refuse
    BY <1>3, FatalKeeps DEF Refuse
  <1>4. CASE ReadRewardHeader
    BY <1>4, ReadKeeps
  <1>5. CASE CountHeader
    BY <1>5, CountKeeps
  <1>6. CASE EndGroup
    BY <1>6, EndGroupKeeps
  <1>7. CASE Publish
    BY <1>7, PublishKeeps
  <1> QED BY <1>1, <1>2, <1>3, <1>4, <1>5, <1>6, <1>7 DEF Next, Ended

(* A published digest covers exactly the complete groups of the range. *)
LEMMA IInvExact == IInv => DigestExact
  <1> SUFFICES ASSUME IInv, pc = "published"
               PROVE  /\ Len(digest) = rewardGroups * rewardFrequency
                      /\ \A i \in DOMAIN digest : digest[i] = startBlock + i - 1
                      /\ startBlock + Len(digest) <= endBlock + 1
                      /\ endBlock + 1 - (startBlock + Len(digest)) < rewardFrequency
    BY DEF DigestExact
  <1>1. FlagsAccepted /\ Consecutive /\ Position
    BY DEF IInv, Running
  <1>2. /\ startBlock \in Block /\ endBlock \in Block /\ rewardGroups \in Nat
        /\ Len(digest) \in Nat /\ startBlock \in Nat /\ endBlock \in Nat /\ F \in Nat
    BY Hip30Assumption DEF IInv, TypeOK, Block, F
  <1>3. RangeExact
    BY <1>1, <1>2, FlagsExact
  <1>4. Len(digest) = F * rewardGroups /\ lastReward = startBlock + Len(digest) - 1
    BY <1>1 DEF Position
  <1>5. F * rewardGroups = rewardGroups * rewardFrequency
    BY <1>2 DEF F
  <1> QED BY <1>1, <1>2, <1>3, <1>4, <1>5 DEF RangeExact, Consecutive, F

(* The scanner keeps its types: no block number leaves the word and no header *)
(* beyond the chain is hashed.                                                *)
THEOREM TypeCorrect == Spec => []TypeOK
  <1>1. IInv => TypeOK
    BY DEF IInv
  <1> QED BY <1>1, InitIInv, NextIInv, PTL DEF Spec

(* For every word size, reward frequency and chain, the published digest is   *)
(* made of every header of every complete reward group of the requested       *)
(* range, once and in order, and of nothing else.                             *)
THEOREM DigestCorrect == Spec => []DigestExact
  BY InitIInv, NextIInv, IInvExact, PTL DEF Spec

-----------------------------------------------------------------------------
(* The issuance *)

(* What a header adds to the issuance. *)
Weight == [n \in 0..LastHeader |-> 1 + IncludedLinks(n)]

(* The headers hashed so far, and what they add together. *)
Covered == startBlock..(startBlock + Len(digest) - 1)
CoveredWeight == SumFunctionOnSet(Weight, Covered)

(* Where the covered headers have been counted: in the total, or still in the *)
(* counter of the group that is being read.                                   *)
Counted ==
    /\ pc = "flags" => totalRecoveryCrosslinks = 0
    /\ pc \in {"header", "grouped"} => totalRecoveryCrosslinks + groupCrosslinks = CoveredWeight
    /\ pc \in {"group", "scanned", "published"} => totalRecoveryCrosslinks = CoveredWeight

(* Covered headers are headers of the chain, which have a weight. *)
LEMMA CoveredHeaders ==
    ASSUME IInv, pc \in Running
    PROVE  /\ Covered \subseteq 0..LastHeader /\ IsFiniteSet(Covered)
           /\ startBlock \in Nat /\ Len(digest) \in Nat
           /\ \A n \in Covered : Weight[n] \in Int
  <1>1. /\ startBlock \in Nat /\ Len(digest) \in Nat /\ digest \in Seq(0..LastHeader)
        /\ LastHeader \in Nat
    BY Hip30Assumption DEF IInv, TypeOK, Block
  <1>2. ASSUME NEW n \in Covered PROVE n \in 0..LastHeader
    <2>1. n \in Int /\ startBlock <= n /\ n <= startBlock + Len(digest) - 1
      BY <1>1 DEF Covered
    <2> DEFINE i == n - startBlock + 1
    <2>2. i \in 1..Len(digest) /\ startBlock + i - 1 = n
      BY <1>1, <2>1
    <2> HIDE DEF i
    <2>3. digest[i] = n
      BY <1>1, <2>2 DEF IInv, Consecutive
    <2> QED BY <1>1, <2>2, <2>3
  <1>3. IsFiniteSet(Covered)
    BY <1>1, FS_Interval DEF Covered
  <1>4. ASSUME NEW n \in Covered PROVE Weight[n] \in Int
    BY <1>2, <1>4, IncludedType DEF Weight
  <1> QED BY <1>1, <1>2, <1>3, <1>4

(* Hashing the next header adds its weight. *)
LEMMA CoveredGrows ==
    ASSUME IInv, pc = "header", CountHeader, ~Fatal
    PROVE  CoveredWeight' = CoveredWeight + 1 + IncludedLinks(number) /\ CoveredWeight \in Int
  <1>1. /\ Covered \subseteq 0..LastHeader /\ IsFiniteSet(Covered)
        /\ startBlock \in Nat /\ Len(digest) \in Nat /\ \A n \in Covered : Weight[n] \in Int
    BY CoveredHeaders DEF Running
  <1>2. number = startBlock + Len(digest) /\ number \in Nat
    BY <1>1 DEF IInv, Position, Running
  <1>3. number \in 0..LastHeader /\ digest' = Append(digest, number) /\ startBlock' = startBlock
    BY <1>2, Hip30Assumption DEF CountHeader, readCanonicalHeader
  <1>4. Len(digest') = Len(digest) + 1
    BY <1>3 DEF IInv, TypeOK
  <1>5. Covered' = Covered \cup {number} /\ number \notin Covered
    <2>1. Covered' = startBlock..(startBlock + Len(digest))
      BY <1>1, <1>3, <1>4 DEF Covered
    <2>2. number \notin Covered
      BY <1>1, <1>2 DEF Covered
    <2>3. ASSUME NEW n \in Int
          PROVE  n \in startBlock..(startBlock + Len(digest)) <=> n \in Covered \/ n = number
      BY <1>1, <1>2 DEF Covered
    <2>4. /\ Covered \subseteq Int /\ number \in Int
          /\ startBlock..(startBlock + Len(digest)) \subseteq Int
      BY <1>1, <1>2 DEF Covered
    <2> QED BY <2>1, <2>2, <2>3, <2>4
  <1>6. Weight[number] = 1 + IncludedLinks(number) /\ IncludedLinks(number) \in Nat
    BY <1>3, IncludedType DEF Weight
  <1>7. \A n \in Covered \cup {number} : Weight[n] \in Int
    BY <1>1, <1>6
  <1>8. /\ SumFunctionOnSet(Weight, Covered) \in Int
        /\ SumFunctionOnSet(Weight, Covered \cup {number})
             = SumFunctionOnSet(Weight, Covered) + Weight[number]
    BY <1>1, <1>5, <1>7, SumAdd
  <1>9. CoveredWeight' = SumFunctionOnSet(Weight, Covered \cup {number})
    BY <1>5 DEF CoveredWeight, Weight, IncludedLinks
  <1> QED BY <1>6, <1>8, <1>9 DEF CoveredWeight

(* Steps that hash nothing leave the weight of the covered headers alone. *)
LEMMA CoveredSame ==
    ASSUME UNCHANGED <<startBlock, digest>>
    PROVE  CoveredWeight' = CoveredWeight
  BY DEF CoveredWeight, Covered, Weight, IncludedLinks

(* Every step keeps the count. *)
LEMMA NextCounted ==
    ASSUME IInv, Counted, [Next]_vars
    PROVE  Counted'
  <1>0. groupCrosslinks \in Nat /\ totalRecoveryCrosslinks \in Nat
    BY DEF IInv, TypeOK
  <1>1. CASE Fatal
    BY <1>1 DEF Fatal, Counted
  <1>2. CASE UNCHANGED vars
    BY <1>2, CoveredSame DEF vars, Counted
  <1>3. CASE Start
    <2>1. digest = <<>> /\ startBlock \in Nat
      BY <1>3, Hip30Assumption DEF Start, IInv, TypeOK, Block
    <2>2. Covered = {}
      BY <2>1 DEF Covered
    <2>3. CoveredWeight = 0
      BY <2>2, SumEmpty DEF CoveredWeight
    <2> QED BY <1>3, <2>3, CoveredSame DEF Start, Counted, counters
  <1>4. CASE ReadRewardHeader /\ ~Fatal
    <2>1. /\ pc = "group" /\ pc' = "header" /\ groupCrosslinks' = 0
          /\ UNCHANGED <<startBlock, digest, totalRecoveryCrosslinks>>
      BY <1>4 DEF ReadRewardHeader
    <2> QED BY <1>0, <2>1, CoveredSame DEF Counted
  <1>5. CASE CountHeader /\ ~Fatal
    <2>1. /\ pc = "header" /\ pc' \in {"header", "grouped"}
          /\ groupCrosslinks' = groupCrosslinks + 1 + IncludedLinks(number)
          /\ totalRecoveryCrosslinks' = totalRecoveryCrosslinks
          /\ readCanonicalHeader(number)
      BY <1>5 DEF CountHeader
    <2>2. CoveredWeight' = CoveredWeight + 1 + IncludedLinks(number) /\ CoveredWeight \in Int
      BY <1>5, <2>1, CoveredGrows
    <2>3. IncludedLinks(number) \in Nat
      <3>1. number \in 0..LastHeader
        BY <2>1, Hip30Assumption DEF IInv, TypeOK, Block, readCanonicalHeader
      <3> QED BY <3>1, IncludedType
    <2> QED BY <1>0, <2>1, <2>2, <2>3 DEF Counted
  <1>6. CASE EndGroup
    <2>1. /\ pc = "grouped" /\ pc' \in {"group", "scanned"} /\ UNCHANGED <<startBlock, digest>>
          /\ totalRecoveryCrosslinks' = totalRecoveryCrosslinks + groupCrosslinks
      BY <1>6 DEF EndGroup
    <2> QED BY <2>1, CoveredSame DEF Counted
  <1>7. CASE Publish /\ ~Fatal
    <2>1. /\ pc = "scanned" /\ pc' = "published"
          /\ UNCHANGED <<startBlock, digest, totalRecoveryCrosslinks>>
      BY <1>7 DEF Publish, counters
    <2> QED BY <2>1, CoveredSame DEF Counted
  <1> QED BY <1>1, <1>2, <1>3, <1>4, <1>5, <1>6, <1>7 DEF Next, Refuse, Ended

(* A published count is the weight of every header up to the last reward      *)
(* block of the range.                                                        *)
LEMMA CountedExact ==
    ASSUME IInv, Counted
    PROVE  IssuanceExact
  <1> SUFFICES ASSUME pc = "published"
               PROVE  totalRecoveryCrosslinks =
                          SumFunctionOnSet([n \in startBlock..lastReward |->
                                  1 + Links[n].other
                                    + (IF Epoch[n] < rejectShard0Crosslink THEN Links[n].zero ELSE 0)],
                                 startBlock..lastReward)
    BY DEF IssuanceExact
  <1> DEFINE S == startBlock..lastReward
             w == [n \in S |-> 1 + Links[n].other
                                + (IF Epoch[n] < rejectShard0Crosslink THEN Links[n].zero ELSE 0)]
  <1>1. /\ Covered \subseteq 0..LastHeader /\ IsFiniteSet(Covered)
        /\ \A n \in Covered : Weight[n] \in Int
    BY CoveredHeaders DEF Running
  <1>2. Covered = S
    BY DEF IInv, Position, Running, Covered
  <1>3. ASSUME NEW n \in Covered PROVE w[n] = Weight[n]
    <2>1. n \in 0..LastHeader /\ n \in S
      BY <1>1, <1>2
    <2>2. Links[n].other \in Nat /\ Links[n].zero \in Nat /\ Epoch[n] \in Nat
      BY <2>1, Hip30Assumption
    <2>3. Weight[n] = 1 + (Links[n].other
                           + (IF Epoch[n] >= rejectShard0Crosslink THEN 0 ELSE Links[n].zero))
      BY <2>1 DEF Weight, IncludedLinks
    <2>4. w[n] = 1 + Links[n].other
                   + (IF Epoch[n] < rejectShard0Crosslink THEN Links[n].zero ELSE 0)
      BY <2>1
    <2>5. CASE Epoch[n] < rejectShard0Crosslink
      BY <2>2, <2>3, <2>4, <2>5, Hip30Assumption
    <2>6. CASE ~(Epoch[n] < rejectShard0Crosslink)
      BY <2>2, <2>3, <2>4, <2>6, Hip30Assumption
    <2> QED BY <2>5, <2>6
  <1> HIDE DEF w, S
  <1>4. SumFunctionOnSet(Weight, Covered) = SumFunctionOnSet(w, Covered)
    BY <1>1, <1>3, SumSame
  <1>5. totalRecoveryCrosslinks = SumFunctionOnSet(w, S)
    BY <1>2, <1>4 DEF Counted, CoveredWeight
  <1> QED BY <1>5 DEF w, S

(* For every word size, reward frequency and chain, the published issuance    *)
(* counts each covered header and each crosslink the chain accepted at the    *)
(* epoch of the header, once: a wrap, a group read twice or a counter carried *)
(* from one group to the next would break it.                                 *)
THEOREM IssuanceCorrect == Spec => []IssuanceExact
  <1>1. Init => IInv /\ Counted
    BY InitIInv DEF Init, Counted
  <1>2. IInv /\ Counted /\ [Next]_vars => (IInv /\ Counted)'
    BY NextIInv, NextCounted
  <1>3. IInv /\ Counted => IssuanceExact
    BY CountedExact
  <1> QED BY <1>1, <1>2, <1>3, PTL DEF Spec

-----------------------------------------------------------------------------
(***************************************************************************)
(* The search of verify-created-accounts.py for every interval and every   *)
(* history: existence need not be monotone between the two blocks; and the *)
(* sum of verify-state-diff-rpc.py for every set of accounts, every order  *)
(* and size of its batches.                                                *)
(***************************************************************************)

Appears(a) == Exists(a, New) /\ ~Exists(a, Old)

(* The account exists at the upper bound and not just below the lower one, *)
(* whatever happened to it in between.                                     *)
Bracketed(a, p) ==
  /\ p[1] \in Int /\ p[2] \in Int /\ Old < p[1] /\ p[1] <= p[2] /\ p[2] <= New
  /\ Appears(a) => Exists(a, p[2]) /\ ~Exists(a, p[1] - 1)

SearchInv == \A a \in DOMAIN bounds : Bracketed(a, bounds[a])

(* A middle between different bounds lies below the upper one.             *)
LEMMA MiddleInside ==
  ASSUME NEW low \in Int, NEW high \in Int, low < high
  PROVE  LET m == low + (high - low) \div 2 IN m \in Int /\ low <= m /\ m < high
BY SMT

(* One round keeps the bracket of an account whose search has not ended.   *)
LEMMA NarrowBracketed ==
  ASSUME DiffAssumption, NEW a \in Active, Bracketed(a, bounds[a])
  PROVE  Bracketed(a, Narrow(a))
<1> DEFINE low == bounds[a][1]
           high == bounds[a][2]
           m == Middle(a)
<1>1. low \in Int /\ high \in Int /\ Old < low /\ low < high /\ high <= New
  BY DEF Active, Bracketed
<1>2. m \in Int /\ low <= m /\ m < high
  BY <1>1, MiddleInside DEF Middle
<1>3. Appears(a) => Exists(a, high) /\ ~Exists(a, low - 1)
  BY DEF Bracketed
<1>4. Old \in Int /\ New \in Int  BY DEF DiffAssumption
<1> HIDE DEF m, low, high
<1>5. CASE Exists(a, m)
  <2>1. Narrow(a) = <<low, m>>  BY <1>5 DEF Narrow, m, low
  <2> QED  BY <2>1, <1>1, <1>2, <1>3, <1>4, <1>5 DEF Bracketed
<1>6. CASE ~Exists(a, m)
  <2>1. Narrow(a) = <<m + 1, high>>  BY <1>6 DEF Narrow, m, high
  <2>2. (m + 1) - 1 = m  BY <1>2
  <2> QED  BY <2>1, <2>2, <1>1, <1>2, <1>3, <1>4, <1>6 DEF Bracketed
<1> QED  BY <1>5, <1>6

(* Steps of the other programs leave the search and the archive alone.     *)
LEMMA Undisturbed ==
  ASSUME SearchInv, TransitionExact, history' = history, bounds' = bounds, created' = created
  PROVE  SearchInv' /\ TransitionExact'
BY DEF SearchInv, Bracketed, Appears, TransitionExact, Exists, At

(* Every step keeps the brackets. *)
LEMMA SearchStep ==
  ASSUME DiffAssumption, SearchInv, TransitionExact, [DiffNext]_diffVars
  PROVE  SearchInv' /\ TransitionExact'
<1>1. CASE historical_state_diff \/ VerifyFails \/ (\E batch \in SUBSET unchecked : VerifyBatch(batch))
           \/ UNCHANGED diffVars
  <2>1. history' = history /\ bounds' = bounds /\ created' = created
    BY <1>1 DEF historical_state_diff, VerifyFails, VerifyBatch, diffVars
  <2> QED  BY <2>1, Undisturbed
<1>2. CASE StartSearch
  <2>1. /\ history' = history /\ created' = created
        /\ \A a \in DOMAIN bounds' : bounds'[a] = <<Old + 1, New>>
    BY <1>2 DEF StartSearch
  <2>2. (Old + 1) - 1 = Old /\ Old + 1 \in Int /\ New \in Int /\ Old + 1 <= New /\ Old < Old + 1
    BY DEF DiffAssumption
  <2>3. SearchInv'
    BY <2>1, <2>2 DEF SearchInv, Bracketed, Appears, Exists, At
  <2> QED  BY <2>1, <2>3 DEF TransitionExact, Exists, At
<1>3. CASE SearchRound
  <2>1. /\ history' = history /\ created' = created /\ DOMAIN bounds' = DOMAIN bounds
        /\ \A a \in DOMAIN bounds : bounds'[a] = IF a \in Active THEN Narrow(a) ELSE bounds[a]
    BY <1>3 DEF SearchRound
  <2>2. \A a \in DOMAIN bounds : Bracketed(a, bounds'[a])
    BY <2>1, NarrowBracketed DEF SearchInv
  <2>3. SearchInv'
    BY <2>1, <2>2 DEF SearchInv, Bracketed, Appears, Exists, At
  <2> QED  BY <2>1, <2>3 DEF TransitionExact, Exists, At
<1>4. CASE PublishCreated
  <2>1. /\ history' = history /\ bounds' = bounds /\ DOMAIN created' = DOMAIN bounds
        /\ \A a \in DOMAIN bounds : created'[a] = bounds[a][1]
        /\ Active = {}
    BY <1>4 DEF PublishCreated
  <2>2. ASSUME NEW a \in DOMAIN bounds, Appears(a)
        PROVE  Exists(a, created'[a]) /\ ~Exists(a, created'[a] - 1)
    <3>1. Bracketed(a, bounds[a])  BY DEF SearchInv
    <3>2. bounds[a][1] = bounds[a][2]  BY <2>1, <3>1 DEF Active, Bracketed
    <3> QED  BY <2>1, <2>2, <3>1, <3>2 DEF Bracketed
  <2>3. TransitionExact'
    BY <2>1, <2>2 DEF TransitionExact, Appears, Exists, At
  <2> QED  BY <2>1, <2>3 DEF SearchInv, Bracketed, Appears, Exists, At
<1>5. CASE SearchFails
  <2>1. history' = history /\ created' = created /\ bounds' = <<>>
    BY <1>5 DEF SearchFails
  <2>2. DOMAIN bounds' = {}  BY <2>1
  <2> QED  BY <2>1, <2>2 DEF SearchInv, TransitionExact, Exists, At
<1> QED  BY <1>1, <1>2, <1>3, <1>4, <1>5 DEF DiffNext

(* verify-created-accounts.py: a published transition block is one in      *)
(* which its account came into being, for every interval and history.      *)
THEOREM TransitionCorrect == DiffSpec => []TransitionExact
<1>1. DiffInit => SearchInv /\ TransitionExact
  <2> SUFFICES ASSUME DiffInit PROVE SearchInv /\ TransitionExact  OBVIOUS
  <2>1. DOMAIN bounds = {} /\ DOMAIN created = {}  BY DEF DiffInit
  <2> QED  BY <2>1 DEF SearchInv, TransitionExact
<1>2. SearchInv /\ TransitionExact /\ [DiffNext]_diffVars => SearchInv' /\ TransitionExact'
  BY SearchStep, DiffAssumption
<1> QED  BY <1>1, <1>2, PTL DEF DiffSpec
-----------------------------------------------------------------------------
(* The net difference *)

(* The row an account gets: one pass or the other writes it, never both.   *)
RowOf(a) ==
  Change(a, IF history[a][roots[2]] = Absent THEN "deleted"
            ELSE IF history[a][roots[1]] = Absent THEN "created" ELSE "changed")

Differs == {a \in Accounts : history[a][roots[1]] # history[a][roots[2]]}

Deltas(R) == [row \in R |-> Delta(row)]

ArchiveType ==
  /\ history \in [Accounts -> [Blocks -> Values \cup {Absent}]]
  /\ roots \in {<<Old, New>>, <<Old + 1, New>>}

(* The net difference is that of the rows already checked.                 *)
NetInv ==
  /\ ArchiveType /\ net \in Int /\ unchecked \subseteq rows
  /\ verdict \in {"none", "written", "passed", "failed"}
  /\ rows = IF verdict = "none" THEN {} ELSE {RowOf(a) : a \in Differs}
  /\ verdict # "failed" => net = SumFunctionOnSet(Deltas(rows), rows \ unchecked)
  /\ verdict = "passed" => unchecked = {}

(* The bounds are pairs of accounts of the archive.                        *)
BoundsInv ==
  /\ DOMAIN bounds \subseteq Accounts /\ DOMAIN created \subseteq Accounts
  /\ \A a \in DOMAIN bounds : bounds[a] \in Int \X Int

(* Balances are natural numbers, of absent accounts too.                   *)
LEMMA BalanceType ==
  ASSUME ArchiveType, NEW a \in Accounts, NEW b \in Blocks
  PROVE  At(a, b).balance \in Nat
BY DiffAssumption DEF ArchiveType, At, Zero

(* Roots that were opened are those of known blocks. *)
LEMMA RootsInside ==
  ASSUME ArchiveType
  PROVE  roots[1] \in Blocks /\ roots[2] \in Blocks /\ roots[2] = New
BY DiffAssumption DEF ArchiveType, Blocks

(* The two passes write one row for every account that differs.            *)
LEMMA RowsOfPasses == Forward \cup Reverse = {RowOf(a) : a \in Differs}
<1>1. ASSUME NEW a \in Leaves(roots[1], roots[2])
      PROVE  /\ a \in Differs
             /\ RowOf(a) = Change(a, IF history[a][roots[1]] = Absent THEN "created" ELSE "changed")
  BY DEF Leaves, Differs, RowOf
<1>2. ASSUME NEW a \in Leaves(roots[2], roots[1]), history[a][roots[2]] = Absent
      PROVE  a \in Differs /\ RowOf(a) = Change(a, "deleted")
  BY <1>2 DEF Leaves, Differs, RowOf
<1>3. ASSUME NEW a \in Differs
      PROVE  RowOf(a) \in Forward \/ RowOf(a) \in Reverse
  <2>1. CASE history[a][roots[2]] = Absent
    <3>1. a \in Leaves(roots[2], roots[1])  BY <2>1 DEF Differs, Leaves
    <3> QED  BY <1>2, <2>1, <3>1 DEF Reverse
  <2>2. CASE history[a][roots[2]] # Absent
    <3>1. a \in Leaves(roots[1], roots[2])  BY <2>2 DEF Differs, Leaves
    <3> QED  BY <1>1, <3>1 DEF Forward
  <2> QED  BY <2>1, <2>2
<1> QED  BY <1>1, <1>2, <1>3 DEF Forward, Reverse

(* A row says which account it is of and what its balance did.             *)
LEMMA RowFields ==
  ASSUME ArchiveType, NEW a \in Accounts
  PROVE  /\ RowOf(a).account = a
         /\ Delta(RowOf(a)) = At(a, roots[2]).balance - At(a, roots[1]).balance
         /\ Delta(RowOf(a)) \in Int
<1>1. At(a, roots[2]).balance \in Nat /\ At(a, roots[1]).balance \in Nat
  BY RootsInside, BalanceType
<1> QED  BY <1>1 DEF RowOf, Change, Delta

(* The rows can be summed. *)
LEMMA RowsFinite ==
  ASSUME ArchiveType
  PROVE  LET R == {RowOf(a) : a \in Differs}
         IN  IsFiniteSet(R) /\ \A row \in R : Delta(row) \in Int /\ row.account \in Accounts
<1> DEFINE h == [a \in Differs |-> RowOf(a)]
<1>1. IsFiniteSet(Differs)  BY DiffAssumption, FS_Subset DEF Differs
<1>2. IsFiniteSet({h[a] : a \in Differs})
  <2> HIDE DEF h
  <2> QED  BY <1>1, ImageFinite
<1>3. {h[a] : a \in Differs} = {RowOf(a) : a \in Differs}  OBVIOUS
<1>4. Differs \subseteq Accounts  BY DEF Differs
<1> QED  BY <1>2, <1>3, <1>4, RowFields

(* The rows of a complete table add up to the change of the whole balance. *)
LEMMA RowsTotal ==
  ASSUME ArchiveType, roots = <<Old, New>>
  PROVE  LET R == {RowOf(a) : a \in Differs}
         IN  SumFunctionOnSet(Deltas(R), R) = Total(New) - Total(Old)
<1> DEFINE R == {RowOf(a) : a \in Differs}
           old == [a \in Accounts |-> At(a, Old).balance]
           new == [a \in Accounts |-> At(a, New).balance]
           diff == [a \in Accounts |-> At(a, New).balance - At(a, Old).balance]
           h == [a \in Differs |-> RowOf(a)]
           f == Deltas(R)
<1>1. roots[1] = Old /\ roots[2] = New /\ Old \in Blocks /\ New \in Blocks
  BY RootsInside
<1>2. \A a \in Accounts : old[a] \in Int /\ diff[a] \in Int /\ new[a] = old[a] + diff[a] /\ new[a] \in Int
  BY <1>1, BalanceType
<1>3. IsFiniteSet(Accounts) /\ Differs \in SUBSET Accounts /\ IsFiniteSet(Differs)
  BY DiffAssumption, FS_Subset DEF Differs
<1>4. \A a \in Accounts \ Differs : diff[a] = 0
  BY <1>1, <1>2 DEF Differs, At
<1>5. \A a \in Differs : diff[a] = f[h[a]] /\ diff[a] \in Int
  BY <1>1, <1>2, <1>3, RowFields DEF Deltas
<1>6. \A a, b \in Differs : h[a] = h[b] => a = b
  BY <1>3, RowFields
<1>7. {h[a] : a \in Differs} = R
  OBVIOUS
<1> HIDE DEF old, new, diff, h, f, R
<1>8. SumFunctionOnSet(f, R) = SumFunctionOnSet(diff, Differs)
  BY <1>3, <1>5, <1>6, <1>7, SumReindex
<1>9. SumFunctionOnSet(diff, Accounts) = SumFunctionOnSet(diff, Differs)
  BY <1>2, <1>3, <1>4, SumZeros
<1>10. /\ SumFunctionOnSet(old, Accounts) \in Int /\ SumFunctionOnSet(diff, Accounts) \in Int
       /\ SumFunctionOnSet(new, Accounts) = SumFunctionOnSet(old, Accounts) + SumFunctionOnSet(diff, Accounts)
  BY <1>2, <1>3, SumPlus
<1>11. SumFunctionOnSet(f, R) = SumFunctionOnSet(new, Accounts) - SumFunctionOnSet(old, Accounts)
  BY <1>8, <1>9, <1>10
<1> QED  BY <1>11 DEF Total, old, new, f, R

(* One batch adds its rows to the sum.                                     *)
LEMMA BatchSum ==
  ASSUME NEW R, IsFiniteSet(R), \A row \in R : Delta(row) \in Int,
         NEW S \in SUBSET R, NEW B \in SUBSET R, S \cap B = {}
  PROVE  /\ SumFunctionOnSet(Deltas(R), S \cup B)
              = SumFunctionOnSet(Deltas(R), S) + SumFunctionOnSet(Deltas(B), B)
         /\ SumFunctionOnSet(Deltas(R), S \cup B) \in Int
<1> DEFINE f == Deltas(R)
<1>1. IsFiniteSet(S) /\ IsFiniteSet(B) /\ \A row \in S \cup B : f[row] \in Int
  BY FS_Subset DEF Deltas
<1>2. \A row \in B : f[row] = Deltas(B)[row] /\ f[row] \in Int
  BY DEF Deltas
<1> HIDE DEF f
<1>3. /\ SumFunctionOnSet(f, S) \in Int /\ SumFunctionOnSet(f, B) \in Int
      /\ SumFunctionOnSet(f, S \cup B) = SumFunctionOnSet(f, S) + SumFunctionOnSet(f, B)
  BY <1>1, SumDisjoint
<1>4. SumFunctionOnSet(f, B) = SumFunctionOnSet(Deltas(B), B)
  BY <1>1, <1>2, SumSame
<1>5. /\ SumFunctionOnSet(f, S \cup B) = SumFunctionOnSet(f, S) + SumFunctionOnSet(Deltas(B), B)
      /\ SumFunctionOnSet(f, S \cup B) \in Int
  BY <1>3, <1>4
<1> QED  BY <1>5 DEF f

(* Steps that leave the table and its check alone.                         *)
LEMMA NetUndisturbed ==
  ASSUME NetInv, UNCHANGED <<history, roots, rows, unchecked, verdict, net>>
  PROVE  NetInv'
BY DEF NetInv, ArchiveType, RowOf, Differs, Change, At, Deltas, Delta

(* Every batch moves its share from the rows to do to the sum. *)
LEMMA NetStep ==
  ASSUME NetInv, [DiffNext]_diffVars
  PROVE  NetInv'
<1> DEFINE R == {RowOf(a) : a \in Differs}
<1>0. /\ ArchiveType /\ IsFiniteSet(R) /\ \A row \in R : Delta(row) \in Int
  BY RowsFinite DEF NetInv
<1>1. CASE historical_state_diff
  <2>1. /\ history' = history /\ roots' = roots /\ net' = net /\ verdict' = "written"
        /\ rows' = R /\ unchecked' = rows' /\ verdict = "none"
    BY <1>1, RowsOfPasses DEF historical_state_diff
  <2>2. ArchiveType' /\ R' = R
    BY <1>0, <2>1 DEF ArchiveType, RowOf, Differs, Change, At
  <2>3. rows = {} /\ rows \ unchecked = {} /\ rows' \ unchecked' = {}
    BY <2>1 DEF NetInv
  <2>4. net = 0
    BY <2>1, <2>3, SumEmpty DEF NetInv
  <2>5. SumFunctionOnSet(Deltas(rows)', rows' \ unchecked') = 0
    BY <2>3, SumEmpty
  <2> HIDE DEF R
  <2>6. rows' = R'
    BY <2>1, <2>2
  <2> QED  BY <2>1, <2>2, <2>4, <2>5, <2>6 DEF NetInv, R
<1>2. ASSUME NEW batch \in SUBSET unchecked, VerifyBatch(batch) PROVE NetInv'
  <2>1. /\ UNCHANGED <<history, roots, rows>> /\ verdict = "written"
        /\ rows = R /\ unchecked \subseteq rows /\ net \in Int
        /\ net = SumFunctionOnSet(Deltas(rows), rows \ unchecked)
    BY <1>2 DEF VerifyBatch, NetInv
  <2>2. ArchiveType' /\ R' = R /\ Deltas(rows)' = Deltas(rows)
    BY <1>0, <2>1 DEF ArchiveType, RowOf, Differs, Change, At, Deltas, Delta
  <2> HIDE DEF R
  <2>3. CASE \A row \in batch : RowAgrees(row)
    <3>1. /\ unchecked' = unchecked \ batch
          /\ net' = net + SumFunctionOnSet(Deltas(batch), batch)
          /\ verdict' = IF unchecked' = {} THEN "passed" ELSE "written"
      BY <1>2, <2>3 DEF VerifyBatch, Deltas
    <3>2. /\ net' \in Int
          /\ net' = SumFunctionOnSet(Deltas(rows), rows \ (unchecked \ batch))
      <4> DEFINE S == rows \ unchecked
      <4>1. /\ IsFiniteSet(rows) /\ \A row \in rows : Delta(row) \in Int
            /\ S \in SUBSET rows /\ batch \in SUBSET rows /\ S \cap batch = {}
        BY <1>0, <2>1
      <4>2. rows \ (unchecked \ batch) = S \cup batch
        BY <2>1
      <4> HIDE DEF S
      <4>3. /\ SumFunctionOnSet(Deltas(rows), S \cup batch)
                 = SumFunctionOnSet(Deltas(rows), S) + SumFunctionOnSet(Deltas(batch), batch)
            /\ SumFunctionOnSet(Deltas(rows), S \cup batch) \in Int
        BY <4>1, BatchSum
      <4> QED  BY <2>1, <3>1, <4>2, <4>3 DEF S
    <3>3. net' = SumFunctionOnSet(Deltas(rows)', rows' \ unchecked')
      BY <2>1, <2>2, <3>1, <3>2
    <3> QED  BY <2>1, <2>2, <3>1, <3>2, <3>3 DEF NetInv, R
  <2>4. CASE ~ \A row \in batch : RowAgrees(row)
    <3>1. verdict' = "failed" /\ UNCHANGED <<unchecked, net>>
      BY <1>2, <2>4 DEF VerifyBatch
    <3> QED  BY <2>1, <2>2, <3>1 DEF NetInv, R
  <2> QED  BY <2>3, <2>4
<1>3. CASE VerifyFails
  <2>1. ArchiveType' /\ R' = R
    BY <1>0, <1>3 DEF VerifyFails, ArchiveType, RowOf, Differs, Change, At
  <2> QED  BY <1>3, <2>1 DEF VerifyFails, NetInv
<1>4. CASE UNCHANGED <<history, roots, rows, unchecked, verdict, net>>
  BY <1>4, NetUndisturbed
<1> QED
  BY <1>1, <1>2, <1>3, <1>4
     DEF DiffNext, StartSearch, SearchRound, PublishCreated, SearchFails, diffVars

(* The searched accounts are accounts of the archive.                      *)
LEMMA BoundsStep ==
  ASSUME NetInv, SearchInv, BoundsInv, [DiffNext]_diffVars
  PROVE  BoundsInv'
<1>1. CASE StartSearch
  <2>1. \A row \in rows : row.account \in Accounts
    BY RowsFinite DEF NetInv
  <2>2. /\ bounds' = [a \in {row.account : row \in Created} |-> <<Old + 1, New>>]
        /\ created' = created /\ Old + 1 \in Int /\ New \in Int
    BY <1>1, DiffAssumption DEF StartSearch
  <2> QED  BY <2>1, <2>2 DEF BoundsInv, Created
<1>2. CASE SearchRound
  <2>1. /\ created' = created /\ DOMAIN bounds' = DOMAIN bounds
        /\ \A a \in DOMAIN bounds : bounds'[a] = IF a \in Active THEN Narrow(a) ELSE bounds[a]
    BY <1>2 DEF SearchRound
  <2>2. ASSUME NEW a \in Active PROVE Narrow(a) \in Int \X Int
    <3>1. a \in DOMAIN bounds /\ bounds[a][1] \in Int /\ bounds[a][2] \in Int /\ bounds[a][1] < bounds[a][2]
      BY DEF Active, BoundsInv
    <3>2. Middle(a) \in Int
      BY <3>1, MiddleInside DEF Middle
    <3> QED  BY <3>1, <3>2 DEF Narrow
  <2> QED  BY <2>1, <2>2 DEF BoundsInv
<1>3. CASE PublishCreated
  BY <1>3 DEF PublishCreated, BoundsInv
<1>4. CASE SearchFails
  <2>1. DOMAIN bounds' = {} /\ created' = created
    BY <1>4 DEF SearchFails
  <2> QED  BY <2>1 DEF BoundsInv
<1>5. CASE UNCHANGED <<bounds, created>>
  BY <1>5 DEF BoundsInv
<1> QED
  BY <1>1, <1>2, <1>3, <1>4, <1>5 DEF DiffNext, historical_state_diff, VerifyBatch, VerifyFails, diffVars

(* verify-state-diff-rpc.py: a passed check of the difference of the two   *)
(* roots gives the change of the whole balance, for every set of accounts  *)
(* and every way to cut the rows into batches; the types hold too.         *)
THEOREM NetDeltaCorrect == DiffSpec => []NetDeltaExact
<1> DEFINE I == NetInv /\ SearchInv /\ TransitionExact /\ BoundsInv
<1>1. DiffInit => I
  <2> SUFFICES ASSUME DiffInit PROVE I  OBVIOUS
  <2>1. DOMAIN bounds = {} /\ DOMAIN created = {} /\ rows \ unchecked = {}  BY DEF DiffInit
  <2>2. net = SumFunctionOnSet(Deltas(rows), rows \ unchecked)
    BY <2>1, SumEmpty DEF DiffInit
  <2>3. NetInv  BY <2>2 DEF DiffInit, NetInv, ArchiveType
  <2> QED  BY <2>1, <2>3 DEF SearchInv, TransitionExact, BoundsInv
<1>2. I /\ [DiffNext]_diffVars => I'
  BY SearchStep, NetStep, BoundsStep, DiffAssumption
<1>3. I => NetDeltaExact
  <2> SUFFICES ASSUME I PROVE NetDeltaExact  OBVIOUS
  <2>1. DiffTypeOK
    <3>1. ASSUME NEW a \in DOMAIN bounds
          PROVE  bounds[a] \in Blocks \X Blocks /\ bounds[a][1] <= bounds[a][2]
      <4>1. /\ bounds[a] \in Int \X Int /\ Old < bounds[a][1] /\ bounds[a][1] <= bounds[a][2]
            /\ bounds[a][2] <= New
        BY DEF SearchInv, Bracketed, BoundsInv
      <4> QED  BY <4>1, DiffAssumption DEF Blocks
    <3> QED  BY <3>1 DEF DiffTypeOK, NetInv, BoundsInv
  <2>2. ASSUME verdict = "passed", roots = <<Old, New>> PROVE net = Total(New) - Total(Old)
    <3>1. net = SumFunctionOnSet(Deltas(rows), rows \ {}) /\ rows = {RowOf(a) : a \in Differs}
      BY <2>2 DEF NetInv
    <3>2. rows \ {} = rows  OBVIOUS
    <3> QED  BY <2>2, <3>1, <3>2, RowsTotal DEF NetInv
  <2> QED  BY <2>1, <2>2 DEF NetDeltaExact
<1> QED  BY <1>1, <1>2, <1>3, PTL DEF DiffSpec

=============================================================================
