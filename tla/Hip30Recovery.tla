---------------------------- MODULE Hip30Recovery ----------------------------
(***************************************************************************)
(* toolkit/cmd/hip30-recovery-issuance: replays the reward groups of shard *)
(* 0 between two blocks.  A reward block closes a group of rewardFrequency *)
(* headers; every header counts once, and once more for each crosslink it  *)
(* carries that the chain accepted at its epoch.  Block numbers are        *)
(* unsigned machine words and all arithmetic on them wraps.                *)
(***************************************************************************)
EXTENDS Naturals, Sequences, FiniteSets, Functions

CONSTANTS
    rewardFrequency,        \* 64
    Word,                   \* 2^64: block numbers are less than Word
    LastHeader,             \* the last block of the database
    Epoch,                  \* epoch of each header
    Links,                  \* crosslinks of each header: [zero |-> ..., other |-> ...]
    hip30Epoch,             \* 1673
    rejectShard0Crosslink,  \* 2964
    MaxDamaged              \* bound: headers that cannot be read

ASSUME Hip30Assumption ==
    /\ rewardFrequency \in Nat \ {0} /\ Word \in Nat /\ LastHeader \in Nat
    /\ rewardFrequency < Word /\ Word % rewardFrequency = 0
    /\ LastHeader < Word - 1
    /\ Epoch \in [0..LastHeader -> Nat]
    /\ Links \in [0..LastHeader -> [zero : Nat, other : Nat]]
    /\ hip30Epoch \in Nat /\ rejectShard0Crosslink \in Nat
    /\ MaxDamaged \in Nat

VARIABLES
    pc,                 \* "flags", "group", "header", "grouped", "scanned", "published", "fatal"
    startBlock, endBlock,
    damaged,            \* headers that are missing or have another identity
    rewardBlock,        \* reward block of the group being counted
    number,             \* next header of the group
    digest,             \* headers hashed into the digest so far
    rewardGroups,
    groupCrosslinks,
    totalRecoveryCrosslinks

vars == <<pc, startBlock, endBlock, damaged, rewardBlock, number, digest, rewardGroups,
          groupCrosslinks, totalRecoveryCrosslinks>>
counters == <<digest, rewardGroups, groupCrosslinks, totalRecoveryCrosslinks>>

Block == 0..(Word - 1)
Plus(a, b) == (a + b) % Word
Minus(a, b) == (a + Word - b) % Word

remainder(n) == n % rewardFrequency

nextRewardBlock(n) == Plus(n, rewardFrequency - 1 - remainder(n))

(* Mutant: a block that closes its group is not seen as a reward block. *)
LastBlockIncomplete(n) == Minus(n, remainder(n) + 1)

previousRewardBlock(n) ==
    IF remainder(n) >= rewardFrequency - 1
    THEN Minus(n, remainder(n) - (rewardFrequency - 1))
    ELSE Minus(n, remainder(n) + 1)

firstReward == nextRewardBlock(startBlock)
lastReward == previousRewardBlock(endBlock)
firstCovered == Minus(firstReward, rewardFrequency - 1)

Init ==
    /\ pc = "flags"
    /\ startBlock \in Block /\ endBlock \in Block
    /\ damaged \in {D \in SUBSET (0..LastHeader) : Cardinality(D) <= MaxDamaged}
    /\ rewardBlock = 0 /\ number = 0
    /\ digest = <<>> /\ rewardGroups = 0
    /\ groupCrosslinks = 0 /\ totalRecoveryCrosslinks = 0

readCanonicalHeader(n) == n <= LastHeader /\ n \notin damaged

(* Mutant: crosslinks of shard 0 are counted at every epoch. *)
ShardZeroKept(n) == Links[n].other + Links[n].zero

(* Crosslinks of a header that count: those of shard 0 until they are rejected. *)
IncludedLinks(n) ==
    Links[n].other + (IF Epoch[n] >= rejectShard0Crosslink THEN 0 ELSE Links[n].zero)

Fatal ==
    /\ pc' = "fatal"
    /\ UNCHANGED <<startBlock, endBlock, damaged, rewardBlock, number, counters>>

FlagsAccepted ==
    /\ startBlock # 0 /\ endBlock >= startBlock
    /\ firstReward >= rewardFrequency - 1
    /\ lastReward >= firstReward
    /\ firstCovered = startBlock

Start ==
    /\ pc = "flags" /\ FlagsAccepted
    /\ pc' = "group"
    /\ rewardBlock' = firstReward
    /\ UNCHANGED <<startBlock, endBlock, damaged, number, counters>>

(* The flags are refused or the database does not open. *)
Refuse ==
    /\ pc = "flags"
    /\ Fatal

ReadRewardHeader ==
    /\ pc = "group"
    /\ IF ~readCanonicalHeader(rewardBlock) \/ Epoch[rewardBlock] < hip30Epoch
       THEN Fatal
       ELSE /\ pc' = "header"
            /\ rewardGroups' = rewardGroups + 1
            /\ groupCrosslinks' = 0
            /\ number' = Minus(rewardBlock, rewardFrequency - 1)
            /\ UNCHANGED <<startBlock, endBlock, damaged, rewardBlock, digest, totalRecoveryCrosslinks>>

(* Mutant: the number is advanced before the header is hashed. *)
HashAfterAdvance ==
    /\ pc = "header"
    /\ IF ~readCanonicalHeader(number)
       THEN Fatal
       ELSE /\ digest' = Append(digest, Plus(number, 1))
            /\ groupCrosslinks' = groupCrosslinks + 1 + IncludedLinks(number)
            /\ number' = Plus(number, 1)
            /\ pc' = IF Plus(number, 1) <= rewardBlock THEN "header" ELSE "grouped"
            /\ UNCHANGED <<startBlock, endBlock, damaged, rewardBlock, rewardGroups,
                           totalRecoveryCrosslinks>>

CountHeader ==
    /\ pc = "header"
    /\ IF ~readCanonicalHeader(number)
       THEN Fatal
       ELSE /\ digest' = Append(digest, number)
            /\ groupCrosslinks' = groupCrosslinks + 1 + IncludedLinks(number)
            /\ number' = Plus(number, 1)
            /\ pc' = IF Plus(number, 1) <= rewardBlock THEN "header" ELSE "grouped"
            /\ UNCHANGED <<startBlock, endBlock, damaged, rewardBlock, rewardGroups,
                           totalRecoveryCrosslinks>>

(* The group is added up; the loop ends after the last one, or before the     *)
(* reward block overflows.                                                    *)
EndGroup ==
    /\ pc = "grouped"
    /\ totalRecoveryCrosslinks' = totalRecoveryCrosslinks + groupCrosslinks
    /\ IF rewardBlock > Word - 1 - rewardFrequency
       THEN pc' = "scanned" /\ rewardBlock' = rewardBlock
       ELSE /\ rewardBlock' = Plus(rewardBlock, rewardFrequency)
            /\ pc' = IF Plus(rewardBlock, rewardFrequency) <= lastReward THEN "group" ELSE "scanned"
    /\ UNCHANGED <<startBlock, endBlock, damaged, number, digest, rewardGroups, groupCrosslinks>>

(* The summary is encoded to the standard output, which may fail. *)
Publish ==
    /\ pc = "scanned"
    /\ \/ /\ pc' = "published"
          /\ UNCHANGED <<startBlock, endBlock, damaged, rewardBlock, number, counters>>
       \/ Fatal

Ended == pc \in {"published", "fatal"} /\ UNCHANGED vars

Next == Start \/ Refuse \/ ReadRewardHeader \/ CountHeader \/ EndGroup \/ Publish \/ Ended

Spec == Init /\ [][Next]_vars

-----------------------------------------------------------------------------
(* Properties *)

(* The types of the scanner: block numbers are words, and only headers of the *)
(* chain are hashed.                                                          *)
TypeOK ==
    /\ pc \in {"flags", "group", "header", "grouped", "scanned", "published", "fatal"}
    /\ startBlock \in Block /\ endBlock \in Block
    /\ damaged \subseteq 0..LastHeader
    /\ rewardBlock \in Block /\ number \in Block
    /\ digest \in Seq(0..LastHeader)
    /\ rewardGroups \in Nat /\ groupCrosslinks \in Nat /\ totalRecoveryCrosslinks \in Nat

(* Every header of every complete group of the range, and no other, is in the *)
(* digest once and in order, and what is left out at the end is less than a   *)
(* group: no wrapped block number ever widens or empties the range.           *)
DigestExact ==
    pc = "published" =>
        /\ Len(digest) = rewardGroups * rewardFrequency
        /\ \A i \in DOMAIN digest : digest[i] = startBlock + i - 1
        /\ startBlock + Len(digest) <= endBlock + 1
        /\ endBlock + 1 - (startBlock + Len(digest)) < rewardFrequency

(* The issuance counts each covered header and each crosslink the chain       *)
(* accepted, by the epoch of the header that carries it.                      *)
IssuanceExact ==
    pc = "published" =>
        totalRecoveryCrosslinks =
            SumFunctionOnSet([n \in startBlock..lastReward |->
                                  1 + Links[n].other
                                    + (IF Epoch[n] < rejectShard0Crosslink THEN Links[n].zero ELSE 0)],
                             startBlock..lastReward)
=============================================================================
