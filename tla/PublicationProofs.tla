------------------------- MODULE PublicationProofs --------------------------
(***************************************************************************)
(* The proofs of two components that write files and share no state: the   *)
(* archive wrappers (ArchiveRun) and the packaging of the results          *)
(* (ResultPackage).                                                        *)
(***************************************************************************)
EXTENDS ArchiveRun, ResultPackage, SumTheorems, TLAPS

-----------------------------------------------------------------------------
(***************************************************************************)
(* The wrappers for every number of shells, runs and kills and for every   *)
(* manifest.  The first part is about the table of wrappers: every output  *)
(* belongs to one scan of one wrapper (Owner) and is among the names that  *)
(* wrapper wants fresh.  So a step of a shell can only disturb the outputs *)
(* of the scan it is at (Confined, WriteKeeps), and the inductive          *)
(* invariant says, shell by shell, that the scans behind it are complete,  *)
(* those ahead untouched, and how far the current one is (Progress).  The  *)
(* node has an invariant of its own: one that is not up is owed a start.   *)
(***************************************************************************)

(* The wrappers' files *)

(* The files a scan publishes. *)
FilesOf(c) == {c.out, c.stdout} \ {NoFile}

(* Position of a label in a list of labels. *)
IndexIn(list, l) == CHOOSE i \in DOMAIN list : list[i] = l

(* The wrapper and the scan of it that publish a file. *)
Owner(f) ==
    CASE f[1] = "supply" -> IF f[2] = "scan" THEN <<"checkpoint_scan", 1>>
                            ELSE IF f[2] = "recovery" THEN <<"recovery_root_scan", 1>>
                            ELSE <<"scan_batch", 2 * IndexIn(Manifest, f[2]) - 1>>
      [] f[1] = "block-reward" -> IF f[2] = "scan" THEN <<"checkpoint_scan", 2>>
                                  ELSE IF f[2] = "recovery" THEN <<"recovery_reward", 1>>
                                  ELSE <<"scan_batch", 2 * IndexIn(Manifest, f[2])>>
      [] f[1] = "cx" -> IF f[2] = "scan" THEN <<"cx_replay_scan", 1>>
                        ELSE <<"cx_replay_batch", IndexIn(Manifest, f[2])>>
      [] f[1] = "hip30" -> IF f[2] = "all" THEN <<"hip30_issuance", 1>>
                           ELSE IF f[2] = "window" THEN <<"hip30_window", 1>>
                           ELSE <<"hip30_intervals", IndexIn(Windows, f[2])>>
      [] f[1] = "outgoing" -> <<"outgoing_cx_scan", 1>>
      [] f[1] = "diff" -> <<"state_diff", 1>>
      [] f[1] = "targets" -> <<"staking_target", 1>>
      [] f[1] = "precompile" -> <<"staking_precompile", 1>>

(* A scan of the i-th line of a wrapper: its files differ, must not exist     *)
(* beforehand, and are published by no other scan.                            *)
ScanOf(w, i, c) ==
    /\ c.how \in {"none", "final", "staged"}
    /\ c.how = "none" <=> c.stdout = NoFile
    /\ c.out # c.stdout
    /\ \A f \in FilesOf(c) : Final(f) \in Wrappers[w].fresh /\ Owner(f) = <<w, i>>

(* The scans of a wrapper form a sequence that is not empty. *)
ScansOf(w) ==
    /\ Len(Wrappers[w].scans) \in Nat \ {0}
    /\ DOMAIN Wrappers[w].scans = 1..Len(Wrappers[w].scans)
    /\ \A i \in 1..Len(Wrappers[w].scans) : ScanOf(w, i, Wrappers[w].scans[i])

(* A label is found at its place. *)
LEMMA LabelIndex ==
    ASSUME NEW i \in DOMAIN Manifest
    PROVE  /\ IndexIn(Manifest, Manifest[i]) = i
           /\ Manifest[i] # "scan" /\ Manifest[i] # "recovery"
  BY ManifestAssumption DEF IndexIn, IsInjective

(* The windows of hip30_intervals have labels of their own. *)
LEMMA WindowIndex ==
    ASSUME NEW i \in DOMAIN Windows
    PROVE  /\ IndexIn(Windows, Windows[i]) = i
           /\ Windows[i] # "all" /\ Windows[i] # "window"
  <1>1. DOMAIN Windows = 1..4 /\ i \in 1..4
    BY DEF Windows
  <1>2. \A j \in 1..4 : Windows[j] = Windows[i] => j = i
    BY <1>1 DEF Windows
  <1>3. IndexIn(Windows, Windows[i]) = i
    BY <1>1, <1>2 DEF IndexIn
  <1> QED BY <1>1, <1>3 DEF Windows

(* The thirteen wrappers. *)
LEMMA WrapperNames ==
    DOMAIN Wrappers =
        {"checkpoint_scan", "scan_batch", "recovery_root_scan", "recovery_reward", "cx_replay_scan",
         "cx_replay_batch", "outgoing_cx_scan", "state_diff", "hip30_issuance", "hip30_window",
         "hip30_intervals", "staking_target", "staking_precompile"}
  BY DEF Wrappers

(* FilesOf with different names are different. *)
LEMMA FileParts ==
    ASSUME NEW k, NEW l, NEW e
    PROVE  File(k, l, e)[1] = k /\ File(k, l, e)[2] = l /\ File(k, l, e)[3] = e
  BY DEF File

(* A scan's file is a file. *)
LEMMA FileNames ==
    ASSUME NEW k, k # "none", NEW l, NEW e
    PROVE  File(k, l, e) # NoFile
  BY FileParts DEF NoFile

(* The two files of a scan differ. *)
LEMMA Extensions ==
    ASSUME NEW k, NEW l, NEW e, e # "csv"
    PROVE  File(k, l, "csv") # File(k, l, e)
  BY FileParts

(* Scans of each of the shapes. *)
LEMMA SupplyFacts ==
    ASSUME NEW l
    PROVE  /\ SupplyScan(l).out # SupplyScan(l).stdout /\ SupplyScan(l).stdout = NoFile
           /\ SupplyScan(l).how = "none"
           /\ FilesOf(SupplyScan(l)) = {File("supply", l, "json")}
  <1>1. /\ SupplyScan(l).out = File("supply", l, "json") /\ SupplyScan(l).stdout = NoFile
        /\ SupplyScan(l).how = "none"
    BY DEF SupplyScan, Scan
  <1>2. File("supply", l, "json") # NoFile
    BY FileNames
  <1> QED BY Zenon, <1>1, <1>2 DEF FilesOf

(* The reward reader only prints. *)
LEMMA RewardFacts ==
    ASSUME NEW l
    PROVE  /\ RewardRead(l).out # RewardRead(l).stdout /\ RewardRead(l).stdout # NoFile
           /\ RewardRead(l).how = "final"
           /\ FilesOf(RewardRead(l)) = {File("block-reward", l, "json")}
  <1>1. /\ RewardRead(l).stdout = File("block-reward", l, "json") /\ RewardRead(l).out = NoFile
        /\ RewardRead(l).how = "final"
    BY DEF RewardRead, Scan
  <1>2. File("block-reward", l, "json") # NoFile
    BY FileNames
  <1> QED BY Zenon, <1>1, <1>2 DEF FilesOf

(* A scan that publishes two files, one of them its standard output.      *)
TwoFiles(c, files, how) ==
    c.how = how /\ c.out # c.stdout /\ c.stdout # NoFile /\ FilesOf(c) = files

(* A scanner with a CSV output and another file. *)
LEMMA CsvFacts ==
    ASSUME NEW k, k # "none", NEW l, NEW e, e # "csv", NEW how
    PROVE  TwoFiles(Scan(File(k, l, "csv"), File(k, l, e), how), {File(k, l, "csv"), File(k, l, e)}, how)
  <1> DEFINE c == Scan(File(k, l, "csv"), File(k, l, e), how)
  <1>1. c.out = File(k, l, "csv") /\ c.stdout = File(k, l, e) /\ c.how = how
    BY DEF Scan
  <1>2. File(k, l, "csv") # NoFile /\ File(k, l, e) # NoFile
    BY FileNames
  <1>3. File(k, l, "csv") # File(k, l, e)
    BY Extensions
  <1> HIDE DEF c
  <1>4. /\ c.how = how /\ c.out # c.stdout /\ c.stdout # NoFile
        /\ FilesOf(c) = {File(k, l, "csv"), File(k, l, e)}
    BY Zenon, <1>1, <1>2, <1>3 DEF FilesOf
  <1>5. TwoFiles(c, {File(k, l, "csv"), File(k, l, e)}, how)
    BY Zenon, <1>4 DEF TwoFiles
  <1> QED BY <1>5 DEF c

(* A CSV scanner kept by tee. *)
LEMMA LoggedFacts ==
    ASSUME NEW k, k # "none", NEW l
    PROVE  /\ LoggedScan(k, l).how = "final" /\ LoggedScan(k, l).out # LoggedScan(k, l).stdout
           /\ LoggedScan(k, l).stdout # NoFile
           /\ FilesOf(LoggedScan(k, l)) = {File(k, l, "csv"), File(k, l, "log")}
  <1>1. TwoFiles(Scan(File(k, l, "csv"), File(k, l, "log"), "final"), {File(k, l, "csv"), File(k, l, "log")}, "final")
    BY CsvFacts
  <1>2. TwoFiles(LoggedScan(k, l), {File(k, l, "csv"), File(k, l, "log")}, "final")
    BY <1>1 DEF LoggedScan
  <1> QED BY Zenon, <1>2 DEF TwoFiles

(* A scanner whose output is staged. *)
LEMMA StagedFacts ==
    ASSUME NEW l
    PROVE  /\ StagedScan(l).out # StagedScan(l).stdout /\ StagedScan(l).stdout # NoFile
           /\ StagedScan(l).how = "staged"
           /\ FilesOf(StagedScan(l)) = {File("hip30", l, "json")}
  <1>1. /\ StagedScan(l).stdout = File("hip30", l, "json") /\ StagedScan(l).out = NoFile
        /\ StagedScan(l).how = "staged"
    BY DEF StagedScan, Scan
  <1>2. File("hip30", l, "json") # NoFile
    BY FileNames
  <1> QED BY Zenon, <1>1, <1>2 DEF FilesOf

(* The scans of each wrapper, one wrapper at a time. *)
LEMMA CheckpointScans == ScansOf("checkpoint_scan")
  <1>1. /\ Wrappers["checkpoint_scan"].scans = <<SupplyScan("scan"), RewardRead("scan")>>
        /\ Wrappers["checkpoint_scan"].fresh = CheckpointFresh("scan")
    BY DEF Wrappers, checkpoint_scan, Wrapper
  <1>2. /\ Owner(File("supply", "scan", "json")) = <<"checkpoint_scan", 1>>
        /\ Owner(File("block-reward", "scan", "json")) = <<"checkpoint_scan", 2>>
    BY FileParts DEF Owner
  <1>3. /\ Final(File("supply", "scan", "json")) \in CheckpointFresh("scan")
        /\ Final(File("block-reward", "scan", "json")) \in CheckpointFresh("scan")
    BY DEF CheckpointFresh, Both
  <1>4. ScanOf("checkpoint_scan", 1, SupplyScan("scan"))
    BY <1>1, <1>2, <1>3, SupplyFacts DEF ScanOf
  <1>5. ScanOf("checkpoint_scan", 2, RewardRead("scan"))
    BY <1>1, <1>2, <1>3, RewardFacts DEF ScanOf
  <1> QED BY <1>1, <1>4, <1>5 DEF ScansOf

(* run-recovery-root-scan.sh. *)
LEMMA RecoveryRootScans == ScansOf("recovery_root_scan")
  <1>1. /\ Wrappers["recovery_root_scan"].scans = <<SupplyScan("recovery")>>
        /\ Wrappers["recovery_root_scan"].fresh = Both(File("supply", "recovery", "json"))
    BY DEF Wrappers, recovery_root_scan, Wrapper
  <1>2. \A f \in {File("supply", "recovery", "json")} : Owner(f) = <<"recovery_root_scan", 1>>
    BY FileParts DEF Owner
  <1>3. \A f \in {File("supply", "recovery", "json")} : Final(f) \in Both(File("supply", "recovery", "json"))
    BY DEF Both
  <1>4. ScanOf("recovery_root_scan", 1, SupplyScan("recovery"))
    BY <1>1, <1>2, <1>3, SupplyFacts DEF ScanOf
  <1> QED BY <1>1, <1>4 DEF ScansOf

(* read-recovery-reward.sh. *)
LEMMA RecoveryRewardScans == ScansOf("recovery_reward")
  <1>1. /\ Wrappers["recovery_reward"].scans = <<RewardRead("recovery")>>
        /\ Wrappers["recovery_reward"].fresh = {Final(File("block-reward", "recovery", "json"))}
    BY DEF Wrappers, recovery_reward, Wrapper
  <1>2. \A f \in {File("block-reward", "recovery", "json")} : Owner(f) = <<"recovery_reward", 1>>
    BY FileParts DEF Owner
  <1>3. \A f \in {File("block-reward", "recovery", "json")} : Final(f) \in {Final(File("block-reward", "recovery", "json"))}
    BY DEF Final
  <1>4. ScanOf("recovery_reward", 1, RewardRead("recovery"))
    BY <1>1, <1>2, <1>3, RewardFacts DEF ScanOf
  <1> QED BY <1>1, <1>4 DEF ScansOf

(* run-archive-cx-replay-scan.sh. *)
LEMMA CxReplayScans == ScansOf("cx_replay_scan")
  <1>1. /\ Wrappers["cx_replay_scan"].scans = <<LoggedScan("cx", "scan")>>
        /\ Wrappers["cx_replay_scan"].fresh = LoggedFresh("cx", "scan")
    BY DEF Wrappers, cx_replay_scan, Wrapper
  <1>2. \A f \in {File("cx", "scan", "csv"), File("cx", "scan", "log")} : Owner(f) = <<"cx_replay_scan", 1>>
    BY FileParts DEF Owner
  <1>3. \A f \in {File("cx", "scan", "csv"), File("cx", "scan", "log")} : Final(f) \in LoggedFresh("cx", "scan")
    BY DEF LoggedFresh, Both
  <1>4. ScanOf("cx_replay_scan", 1, LoggedScan("cx", "scan"))
    BY <1>1, <1>2, <1>3, LoggedFacts DEF ScanOf
  <1> QED BY <1>1, <1>4 DEF ScansOf

(* run-archive-outgoing-cx-scan.sh. *)
LEMMA OutgoingScans == ScansOf("outgoing_cx_scan")
  <1>1. /\ Wrappers["outgoing_cx_scan"].scans = <<LoggedScan("outgoing", "shard0")>>
        /\ Wrappers["outgoing_cx_scan"].fresh = LoggedFresh("outgoing", "shard0")
    BY DEF Wrappers, outgoing_cx_scan, Wrapper
  <1>2. \A f \in {File("outgoing", "shard0", "csv"), File("outgoing", "shard0", "log")} : Owner(f) = <<"outgoing_cx_scan", 1>>
    BY FileParts DEF Owner
  <1>3. \A f \in {File("outgoing", "shard0", "csv"), File("outgoing", "shard0", "log")} : Final(f) \in LoggedFresh("outgoing", "shard0")
    BY DEF LoggedFresh, Both
  <1>4. ScanOf("outgoing_cx_scan", 1, LoggedScan("outgoing", "shard0"))
    BY <1>1, <1>2, <1>3, LoggedFacts DEF ScanOf
  <1> QED BY <1>1, <1>4 DEF ScansOf

(* run-archive-state-diff.sh. *)
LEMMA StateDiffScans == ScansOf("state_diff")
  <1>1. /\ Wrappers["state_diff"].scans = <<LoggedScan("diff", "diff")>>
        /\ Wrappers["state_diff"].fresh = LoggedFresh("diff", "diff")
    BY DEF Wrappers, state_diff, Wrapper
  <1>2. \A f \in {File("diff", "diff", "csv"), File("diff", "diff", "log")} : Owner(f) = <<"state_diff", 1>>
    BY FileParts DEF Owner
  <1>3. \A f \in {File("diff", "diff", "csv"), File("diff", "diff", "log")} : Final(f) \in LoggedFresh("diff", "diff")
    BY DEF LoggedFresh, Both
  <1>4. ScanOf("state_diff", 1, LoggedScan("diff", "diff"))
    BY <1>1, <1>2, <1>3, LoggedFacts DEF ScanOf
  <1> QED BY <1>1, <1>4 DEF ScansOf

(* run-archive-hip30-recovery-issuance.sh. *)
LEMMA IssuanceScans == ScansOf("hip30_issuance")
  <1>1. /\ Wrappers["hip30_issuance"].scans = <<StagedScan("all")>>
        /\ Wrappers["hip30_issuance"].fresh = Both(File("hip30", "all", "json"))
    BY DEF Wrappers, hip30_issuance, Wrapper
  <1>2. \A f \in {File("hip30", "all", "json")} : Owner(f) = <<"hip30_issuance", 1>>
    BY FileParts DEF Owner
  <1>3. \A f \in {File("hip30", "all", "json")} : Final(f) \in Both(File("hip30", "all", "json"))
    BY DEF Both
  <1>4. ScanOf("hip30_issuance", 1, StagedScan("all"))
    BY <1>1, <1>2, <1>3, StagedFacts DEF ScanOf
  <1> QED BY <1>1, <1>4 DEF ScansOf

(* run-archive-hip30-recovery-window.sh. *)
LEMMA WindowScans == ScansOf("hip30_window")
  <1>1. /\ Wrappers["hip30_window"].scans = <<StagedScan("window")>>
        /\ Wrappers["hip30_window"].fresh = Both(File("hip30", "window", "json"))
    BY DEF Wrappers, hip30_window, Wrapper
  <1>2. \A f \in {File("hip30", "window", "json")} : Owner(f) = <<"hip30_window", 1>>
    BY FileParts DEF Owner
  <1>3. \A f \in {File("hip30", "window", "json")} : Final(f) \in Both(File("hip30", "window", "json"))
    BY DEF Both
  <1>4. ScanOf("hip30_window", 1, StagedScan("window"))
    BY <1>1, <1>2, <1>3, StagedFacts DEF ScanOf
  <1> QED BY <1>1, <1>4 DEF ScansOf

(* run-archive-staking-target-audit.sh. *)
LEMMA TargetScans == ScansOf("staking_target")
  <1>1. /\ Wrappers["staking_target"].scans = <<Scan(File("targets", "post2023", "csv"), File("targets", "post2023", "json"), "staged")>>
        /\ Wrappers["staking_target"].fresh = (Both(File("targets", "post2023", "csv")) \cup Both(File("targets", "post2023", "json")))
    BY DEF Wrappers, staking_target, Wrapper
  <1>2. \A f \in {File("targets", "post2023", "csv"), File("targets", "post2023", "json")} : Owner(f) = <<"staking_target", 1>>
    BY FileParts DEF Owner
  <1>3. \A f \in {File("targets", "post2023", "csv"), File("targets", "post2023", "json")} : Final(f) \in (Both(File("targets", "post2023", "csv")) \cup Both(File("targets", "post2023", "json")))
    BY DEF Both
  <1>4. ScanOf("staking_target", 1, Scan(File("targets", "post2023", "csv"), File("targets", "post2023", "json"), "staged"))
    <2>1. TwoFiles(Scan(File("targets", "post2023", "csv"), File("targets", "post2023", "json"), "staged"),
                   {File("targets", "post2023", "csv"), File("targets", "post2023", "json")}, "staged")
      BY CsvFacts
    <2>2. PICK c : c = Scan(File("targets", "post2023", "csv"), File("targets", "post2023", "json"), "staged")
      OBVIOUS
    <2>3. /\ c.how = "staged" /\ c.out # c.stdout /\ c.stdout # NoFile
          /\ FilesOf(c) = {File("targets", "post2023", "csv"), File("targets", "post2023", "json")}
      BY <2>1, <2>2 DEF TwoFiles
    <2>4. c.how \in {"none", "final", "staged"} /\ (c.how = "none" <=> c.stdout = NoFile)
      BY <2>3
    <2>5. \A f \in FilesOf(c) : Final(f) \in Wrappers["staking_target"].fresh /\ Owner(f) = <<"staking_target", 1>>
      BY <1>1, <1>2, <1>3, <2>3
    <2> QED BY <2>2, <2>3, <2>4, <2>5 DEF ScanOf
  <1> QED BY <1>1, <1>4 DEF ScansOf

(* run-archive-staking-precompile-target-audit.sh. *)
LEMMA PrecompileScans == ScansOf("staking_precompile")
  <1>1. /\ Wrappers["staking_precompile"].scans = <<Scan(File("precompile", "post2023", "csv"), File("precompile", "post2023", "json"), "staged")>>
        /\ Wrappers["staking_precompile"].fresh = (Both(File("precompile", "post2023", "csv")) \cup Both(File("precompile", "post2023", "json")))
    BY DEF Wrappers, staking_precompile, Wrapper
  <1>2. \A f \in {File("precompile", "post2023", "csv"), File("precompile", "post2023", "json")} : Owner(f) = <<"staking_precompile", 1>>
    BY FileParts DEF Owner
  <1>3. \A f \in {File("precompile", "post2023", "csv"), File("precompile", "post2023", "json")} : Final(f) \in (Both(File("precompile", "post2023", "csv")) \cup Both(File("precompile", "post2023", "json")))
    BY DEF Both
  <1>4. ScanOf("staking_precompile", 1, Scan(File("precompile", "post2023", "csv"), File("precompile", "post2023", "json"), "staged"))
    <2>1. TwoFiles(Scan(File("precompile", "post2023", "csv"), File("precompile", "post2023", "json"), "staged"),
                   {File("precompile", "post2023", "csv"), File("precompile", "post2023", "json")}, "staged")
      BY CsvFacts
    <2>2. PICK c : c = Scan(File("precompile", "post2023", "csv"), File("precompile", "post2023", "json"), "staged")
      OBVIOUS
    <2>3. /\ c.how = "staged" /\ c.out # c.stdout /\ c.stdout # NoFile
          /\ FilesOf(c) = {File("precompile", "post2023", "csv"), File("precompile", "post2023", "json")}
      BY <2>1, <2>2 DEF TwoFiles
    <2>4. c.how \in {"none", "final", "staged"} /\ (c.how = "none" <=> c.stdout = NoFile)
      BY <2>3
    <2>5. \A f \in FilesOf(c) : Final(f) \in Wrappers["staking_precompile"].fresh /\ Owner(f) = <<"staking_precompile", 1>>
      BY <1>1, <1>2, <1>3, <2>3
    <2> QED BY <2>2, <2>3, <2>4, <2>5 DEF ScanOf
  <1> QED BY <1>1, <1>4 DEF ScansOf

(* Line i of the manifest is scans 2i - 1 and 2i of the batch. *)
LEMMA CheckpointBatchScans == ScansOf("scan_batch")
  <1> DEFINE n == Len(Manifest)
             S == [k \in 1..(2 * n) |-> IF k % 2 = 1 THEN SupplyScan(Manifest[(k + 1) \div 2])
                                                     ELSE RewardRead(Manifest[k \div 2])]
             G == UNION {CheckpointFresh(Manifest[i]) : i \in DOMAIN Manifest}
  <1>0. n \in Nat /\ n > 0 /\ DOMAIN Manifest = 1..n
    BY ManifestAssumption
  <1>1. Wrappers["scan_batch"].scans = S /\ Wrappers["scan_batch"].fresh = G
    BY DEF Wrappers, scan_batch, Wrapper
  <1>2. S \in Seq({S[k] : k \in 1..(2 * n)}) /\ Len(S) = 2 * n /\ DOMAIN S = 1..(2 * n)
    BY <1>0
  <1>3. ASSUME NEW i \in DOMAIN Manifest
        PROVE  /\ Owner(File("supply", Manifest[i], "json")) = <<"scan_batch", 2 * i - 1>>
               /\ Owner(File("block-reward", Manifest[i], "json")) = <<"scan_batch", 2 * i>>
    BY <1>3, LabelIndex, FileParts DEF Owner
  <1>4. ASSUME NEW i \in DOMAIN Manifest
        PROVE  /\ Final(File("supply", Manifest[i], "json")) \in G
               /\ Final(File("block-reward", Manifest[i], "json")) \in G
    BY <1>4 DEF CheckpointFresh, Both
  <1> HIDE DEF G
  <1>5. ASSUME NEW k \in 1..(2 * n) PROVE ScanOf("scan_batch", k, S[k])
    <2>1. CASE k % 2 = 1
      <3> DEFINE i == (k + 1) \div 2
      <3>1. i \in 1..n /\ 2 * i - 1 = k
        BY <1>0, <2>1
      <3>2. S[k] = SupplyScan(Manifest[i])
        BY <2>1
      <3> HIDE DEF i, S
      <3>3. /\ Owner(File("supply", Manifest[i], "json")) = <<"scan_batch", k>>
            /\ Final(File("supply", Manifest[i], "json")) \in G
        BY <1>0, <1>3, <1>4, <3>1
      <3> QED BY <1>1, <3>2, <3>3, SupplyFacts DEF ScanOf
    <2>2. CASE k % 2 # 1
      <3> DEFINE i == k \div 2
      <3>1. i \in 1..n /\ 2 * i = k
        BY <1>0, <2>2
      <3>2. S[k] = RewardRead(Manifest[i])
        BY <2>2
      <3> HIDE DEF i, S
      <3>3. /\ Owner(File("block-reward", Manifest[i], "json")) = <<"scan_batch", k>>
            /\ Final(File("block-reward", Manifest[i], "json")) \in G
        BY <1>0, <1>3, <1>4, <3>1
      <3> QED BY <1>1, <3>2, <3>3, RewardFacts DEF ScanOf
    <2> QED BY <2>1, <2>2
  <1> HIDE DEF S, n
  <1> QED BY <1>0, <1>1, <1>2, <1>5 DEF ScansOf

(* Line i of the manifest is scan i of the replay batch. *)
LEMMA ReplayBatchScans == ScansOf("cx_replay_batch")
  <1> DEFINE n == Len(Manifest)
             S == [i \in DOMAIN Manifest |-> LoggedScan("cx", Manifest[i])]
             G == UNION {LoggedFresh("cx", Manifest[i]) : i \in DOMAIN Manifest}
  <1>0. n \in Nat /\ n > 0 /\ DOMAIN Manifest = 1..n
    BY ManifestAssumption
  <1>1. Wrappers["cx_replay_batch"].scans = S /\ Wrappers["cx_replay_batch"].fresh = G
    BY DEF Wrappers, cx_replay_batch, Wrapper
  <1>2. Len(S) = n /\ DOMAIN S = 1..n
    BY <1>0
  <1>3. ASSUME NEW i \in 1..n PROVE ScanOf("cx_replay_batch", i, S[i])
    <2> DEFINE l == Manifest[i]
    <2>1. l # "scan" /\ IndexIn(Manifest, l) = i
      BY <1>0, LabelIndex
    <2>2. \A f \in {File("cx", l, "csv"), File("cx", l, "log")} : Owner(f) = <<"cx_replay_batch", i>>
      BY <2>1, FileParts DEF Owner
    <2>3. \A f \in {File("cx", l, "csv"), File("cx", l, "log")} : Final(f) \in G
      BY <1>0 DEF LoggedFresh, Both
    <2>4. S[i] = LoggedScan("cx", l)
      BY <1>0
    <2> HIDE DEF l, S, G
    <2> QED BY <1>1, <2>2, <2>3, <2>4, LoggedFacts DEF ScanOf
  <1> HIDE DEF S, n
  <1> QED BY <1>0, <1>1, <1>2, <1>3 DEF ScansOf

(* The four windows. *)
LEMMA IntervalScans == ScansOf("hip30_intervals")
  <1> DEFINE S == [n \in DOMAIN Windows |-> StagedScan(Windows[n])]
             G == UNION {Both(File("hip30", Windows[n], "json")) : n \in DOMAIN Windows}
  <1>0. DOMAIN Windows = 1..4
    BY DEF Windows
  <1>1. Wrappers["hip30_intervals"].scans = S /\ Wrappers["hip30_intervals"].fresh = G
    BY DEF Wrappers, hip30_intervals, Wrapper
  <1>2. Len(S) = 4 /\ DOMAIN S = 1..4
    BY <1>0
  <1>3. ASSUME NEW i \in 1..4 PROVE ScanOf("hip30_intervals", i, S[i])
    <2> DEFINE l == Windows[i]
    <2>1. l # "all" /\ l # "window" /\ IndexIn(Windows, l) = i
      BY <1>0, WindowIndex
    <2>2. Owner(File("hip30", l, "json")) = <<"hip30_intervals", i>>
      BY <2>1, FileParts DEF Owner
    <2>3. Final(File("hip30", l, "json")) \in G
      BY <1>0 DEF Both
    <2>4. S[i] = StagedScan(l)
      BY <1>0
    <2> HIDE DEF l, S, G
    <2> QED BY <1>1, <2>2, <2>3, <2>4, StagedFacts DEF ScanOf
  <1> HIDE DEF S
  <1> QED BY <1>1, <1>2, <1>3 DEF ScansOf

(* Every wrapper. *)
LEMMA WrapperScans == \A w \in DOMAIN Wrappers : ScansOf(w)
  BY WrapperNames, CheckpointScans, CheckpointBatchScans, RecoveryRootScans, RecoveryRewardScans,
     CxReplayScans, ReplayBatchScans, OutgoingScans, StateDiffScans, IssuanceScans, WindowScans,
     IntervalScans, TargetScans, PrecompileScans

(* The names, final and partial, of a scan's files. *)
NamesOf(c) == {Final(f) : f \in FilesOf(c)} \cup {Partial(f) : f \in FilesOf(c)}

(* Final and partial names are never confused. *)
LEMMA NamesDiffer ==
    ASSUME NEW f, NEW g
    PROVE  /\ Final(f) # Partial(g)
           /\ Final(f) = Final(g) => f = g
           /\ Partial(f) = Partial(g) => f = g
           /\ Final(f)[2] = "final" /\ Partial(f)[2] = "partial"
  BY DEF Final, Partial

(* What a wrapper's scan is. *)
LEMMA ScanFacts ==
    ASSUME NEW w \in DOMAIN Wrappers, NEW i \in 1..Len(Wrappers[w].scans)
    PROVE  ScanOf(w, i, Wrappers[w].scans[i])
  BY WrapperScans DEF ScansOf

(* Two scans write no common name. *)
LEMMA ScansApart ==
    ASSUME NEW w \in DOMAIN Wrappers, NEW i \in 1..Len(Wrappers[w].scans),
           NEW v \in DOMAIN Wrappers, NEW j \in 1..Len(Wrappers[v].scans),
           w # v \/ i # j,
           NEW f \in FilesOf(Wrappers[v].scans[j])
    PROVE  /\ Final(f) \notin NamesOf(Wrappers[w].scans[i])
           /\ Partial(f) \notin NamesOf(Wrappers[w].scans[i])
  <1>1. Owner(f) = <<v, j>>
    BY ScanFacts DEF ScanOf
  <1>2. \A g \in FilesOf(Wrappers[w].scans[i]) : Owner(g) = <<w, i>>
    BY ScanFacts DEF ScanOf
  <1>3. <<v, j>> # <<w, i>>
    OBVIOUS
  <1>4. f \notin FilesOf(Wrappers[w].scans[i])
    BY <1>1, <1>2, <1>3
  <1> QED BY <1>4, NamesDiffer DEF NamesOf

-----------------------------------------------------------------------------
(* The invariant *)

Label == Ended \cup Reading \cup {"precheck", "stop", "wait", "lock", "scan",
                                  "validate", "next", "restart", "health", "on_exit"}

(* The types, with what they need: a shell that is not idle has been started. *)
Types ==
    /\ prog \in [Proc -> DOMAIN Wrappers]
    /\ pc \in [Proc -> Label]
    /\ step \in [Proc -> Nat] /\ \A p \in Proc : step[p] \in 1..(Len(Scans(p)) + 1)
    /\ runs \in [Proc -> 0..MaxRuns] /\ \A p \in Proc : pc[p] # "idle" => runs[p] > 0
    /\ kills \in 0..MaxKills
    /\ node \in {"up", "stopping", "down"}
    /\ \A n \in DOMAIN names : names[n] \in [whole : BOOLEAN, by : Proc \X (1..MaxRuns)]

OneShellEach == \A p, q \in Proc : p # q => prog[p] # prog[q]

Whole(n) == n \in DOMAIN names /\ names[n].whole
Missing(n) == n \notin DOMAIN names

Complete(c) == \A f \in FilesOf(c) : Whole(Final(f))
Untouched(c) == \A f \in FilesOf(c) : Missing(Final(f))
OutAbsent(c) == c.out # NoFile => Missing(Final(c.out))
OutComplete(c) == c.out # NoFile => Whole(Final(c.out))
StdoutUnfinished(c) == c.stdout # NoFile => ~Whole(Final(c.stdout))

Scanning == {"stop", "wait", "lock", "scan", "open", "read", "print", "validate", "next"}

(* How far the outputs of a scan are, where its wrapper is at it. *)
Current(label, c) ==
    /\ label \in {"stop", "wait", "lock", "scan"} => Untouched(c)
    /\ label \in {"open", "read"} => OutAbsent(c) /\ StdoutUnfinished(c)
    /\ label = "read" => c.out # NoFile
    /\ label \in {"print", "validate"} => OutComplete(c) /\ StdoutUnfinished(c)
    /\ label = "validate" => c.how = "staged" /\ Whole(Partial(c.stdout))
    /\ label = "next" => Complete(c)

(* How far the outputs of a wrapper are: the scans behind it are complete,    *)
(* those ahead of it have not been touched since the fresh names were checked.*)
Progress(p) ==
    /\ pc[p] = "precheck" => step[p] = 1
    /\ pc[p] \in Scanning =>
          /\ step[p] <= Len(Scans(p))
          /\ \A i \in 1..Len(Scans(p)) : i < step[p] => Complete(Scans(p)[i])
          /\ \A i \in 1..Len(Scans(p)) : i > step[p] => Untouched(Scans(p)[i])
          /\ Current(pc[p], Now(p))
    /\ pc[p] \in {"restart", "health", "ok"} => \A i \in 1..Len(Scans(p)) : Complete(Scans(p)[i])

(* FilesOf that are renamed into place are complete, whichever scan's they are. *)
Renamed ==
    /\ Missing(Final(NoFile))
    /\ \A w \in DOMAIN Wrappers : \A i \in 1..Len(Wrappers[w].scans) :
          LET c == Wrappers[w].scans[i]
          IN  /\ Final(c.out) \in DOMAIN names => names[Final(c.out)].whole
              /\ c.how = "staged" /\ Final(c.stdout) \in DOMAIN names => names[Final(c.stdout)].whole

IInv == Types /\ OneShellEach /\ Renamed /\ \A p \in Proc : Progress(p)

(* What a wrapper step does to the names: only those of the current scan.     *)
Confined(c) ==
    \A n : n \notin NamesOf(c) =>
        /\ n \in DOMAIN names' <=> n \in DOMAIN names
        /\ n \in DOMAIN names => names'[n] = names[n]

(* The shell is at a scan of its wrapper. *)
LEMMA CurrentScan ==
    ASSUME Types, NEW p \in Proc, step[p] <= Len(Scans(p))
    PROVE  /\ prog[p] \in DOMAIN Wrappers /\ Scans(p) = Wrappers[prog[p]].scans
           /\ step[p] \in 1..Len(Wrappers[prog[p]].scans)
           /\ Now(p) = Wrappers[prog[p]].scans[step[p]]
           /\ ScanOf(prog[p], step[p], Now(p))
  <1>1. prog[p] \in DOMAIN Wrappers /\ Scans(p) = Wrappers[prog[p]].scans
    BY DEF Types, Scans
  <1>2. Len(Wrappers[prog[p]].scans) \in Nat
    BY <1>1, WrapperScans DEF ScansOf
  <1>3. step[p] \in 1..Len(Wrappers[prog[p]].scans)
    BY <1>1, <1>2 DEF Types
  <1> QED BY <1>1, <1>3, ScanFacts DEF Now

(* A scan other than the one a shell is at keeps its outputs. *)
LEMMA OtherScanKept ==
    ASSUME Types, NEW p \in Proc, step[p] <= Len(Scans(p)), Confined(Now(p)),
           NEW w \in DOMAIN Wrappers, NEW i \in 1..Len(Wrappers[w].scans),
           w # prog[p] \/ i # step[p]
    PROVE  \A f \in FilesOf(Wrappers[w].scans[i]) :
               /\ Final(f) \in DOMAIN names' <=> Final(f) \in DOMAIN names
               /\ Final(f) \in DOMAIN names => names'[Final(f)] = names[Final(f)]
               /\ Partial(f) \in DOMAIN names' <=> Partial(f) \in DOMAIN names
               /\ Partial(f) \in DOMAIN names => names'[Partial(f)] = names[Partial(f)]
  <1>1. /\ prog[p] \in DOMAIN Wrappers /\ step[p] \in 1..Len(Wrappers[prog[p]].scans)
        /\ Now(p) = Wrappers[prog[p]].scans[step[p]]
    BY CurrentScan
  <1> TAKE f \in FilesOf(Wrappers[w].scans[i])
  <1>2. Final(f) \notin NamesOf(Now(p)) /\ Partial(f) \notin NamesOf(Now(p))
    BY <1>1, ScansApart
  <1> QED BY <1>2 DEF Confined

(* Then what is known of that scan stays true. *)
LEMMA OtherFactsKept ==
    ASSUME Types, NEW p \in Proc, step[p] <= Len(Scans(p)), Confined(Now(p)),
           NEW w \in DOMAIN Wrappers, NEW i \in 1..Len(Wrappers[w].scans),
           w # prog[p] \/ i # step[p]
    PROVE  LET c == Wrappers[w].scans[i]
           IN  /\ Complete(c) => Complete(c)'
               /\ Untouched(c) => Untouched(c)'
               /\ \A label : Current(label, c) => Current(label, c)'
  <1> DEFINE c == Wrappers[w].scans[i]
  <1>1. \A f \in FilesOf(c) :
               /\ Final(f) \in DOMAIN names' <=> Final(f) \in DOMAIN names
               /\ Final(f) \in DOMAIN names => names'[Final(f)] = names[Final(f)]
               /\ Partial(f) \in DOMAIN names' <=> Partial(f) \in DOMAIN names
               /\ Partial(f) \in DOMAIN names => names'[Partial(f)] = names[Partial(f)]
    BY OtherScanKept
  <1>2. ScanOf(w, i, c)
    BY ScanFacts
  <1> HIDE DEF c
  <1>3. c' = c
    BY DEF c, Wrappers
  <1>4. /\ Complete(c) => Complete(c)'
        /\ Untouched(c) => Untouched(c)'
    BY <1>1, <1>3 DEF Complete, Untouched, Whole, Missing, FilesOf
  <1>5. /\ OutAbsent(c) => OutAbsent(c)'
        /\ OutComplete(c) => OutComplete(c)'
        /\ StdoutUnfinished(c) => StdoutUnfinished(c)'
    <2>1. (c.out # NoFile => c.out \in FilesOf(c)) /\ (c.stdout # NoFile => c.stdout \in FilesOf(c))
      BY DEF FilesOf
    <2> QED BY <1>1, <1>3, <2>1 DEF OutAbsent, OutComplete, StdoutUnfinished, Whole, Missing
  <1>6. c.how = "staged" /\ Whole(Partial(c.stdout)) => Whole(Partial(c.stdout))'
    BY <1>1, <1>2, <1>3 DEF ScanOf, FilesOf, Whole
  <1>7. \A label : Current(label, c) => Current(label, c)'
    BY <1>3, <1>4, <1>5, <1>6 DEF Current
  <1> QED BY <1>4, <1>7 DEF c

(* The files named, when they are typed. *)
NamesTyped == \A n \in DOMAIN names : names[n] \in [whole : BOOLEAN, by : Proc \X (1..MaxRuns)]

(* What Renamed says of one scan. *)
RenamedScan(c) ==
    /\ Final(c.out) \in DOMAIN names => names[Final(c.out)].whole
    /\ c.how = "staged" /\ Final(c.stdout) \in DOMAIN names => names[Final(c.stdout)].whole

(* A shell that writes only names of its scan disturbs no other shell.        *)
LEMMA WriteKeeps ==
    ASSUME IInv, NEW p \in Proc, pc[p] \in Scanning,
           NEW label \in Scanning \cup {"on_exit"}, Goto(p, label),
           UNCHANGED <<prog, step, runs, kills, node>>,
           Confined(Now(p)), NamesTyped',
           Missing(Final(NoFile))', RenamedScan(Now(p))',
           label \in Scanning => Current(label, Now(p))'
    PROVE  IInv'
  <1> DEFINE c == Now(p)
  <1>0. /\ Types /\ Progress(p) /\ step[p] <= Len(Scans(p))
        /\ Scanning \subseteq Label /\ "idle" \notin Scanning
    BY DEF IInv, Progress, Scanning, Label, Ended, Reading
  <1>1. /\ prog[p] \in DOMAIN Wrappers /\ Scans(p) = Wrappers[prog[p]].scans
        /\ step[p] \in 1..Len(Scans(p)) /\ Now(p) = Wrappers[prog[p]].scans[step[p]]
        /\ ScanOf(prog[p], step[p], Now(p))
    BY <1>0, CurrentScan
  <1>2. /\ pc' = [pc EXCEPT ![p] = label] /\ pc'[p] = label
        /\ \A q \in Proc \ {p} : pc'[q] = pc[q]
    BY <1>0 DEF Goto, Types
  <1>3. \A q \in Proc : Scans(q)' = Scans(q) /\ Now(q)' = Now(q)
    BY DEF Scans, Now
  <1>4. Types'
    <2>1. label \in Label
      BY <1>0 DEF Label
    <2>2. pc' \in [Proc -> Label]
      BY <1>0, <1>2, <2>1 DEF Types
    <2>3. \A q \in Proc : pc'[q] # "idle" => runs'[q] > 0
      BY <1>0, <1>2 DEF Types
    <2> QED BY <1>0, <1>3, <2>2, <2>3 DEF Types, NamesTyped
  <1>5. Renamed'
    <2> SUFFICES ASSUME NEW w \in DOMAIN Wrappers, NEW i \in 1..Len(Wrappers[w].scans)
                 PROVE  RenamedScan(Wrappers[w].scans[i])'
      BY DEF Renamed, RenamedScan
    <2>1. CASE w = prog[p] /\ i = step[p]
      BY <1>1, <1>3, <2>1
    <2>2. CASE w # prog[p] \/ i # step[p]
      <3> DEFINE d == Wrappers[w].scans[i]
      <3>1. \A f \in FilesOf(d) :
                /\ Final(f) \in DOMAIN names' <=> Final(f) \in DOMAIN names
                /\ Final(f) \in DOMAIN names => names'[Final(f)] = names[Final(f)]
        BY <1>0, <2>2, OtherScanKept
      <3>2. RenamedScan(d)
        BY DEF IInv, Renamed, RenamedScan
      <3> HIDE DEF d
      <3>3. RenamedScan(d)'
        BY <3>1, <3>2 DEF RenamedScan, FilesOf, Missing
      <3> QED BY <3>3 DEF d
    <2> QED BY <2>1, <2>2
  <1>6. ASSUME NEW q \in Proc PROVE Progress(q)'
    <2>0. Progress(q) /\ prog[q] \in DOMAIN Wrappers /\ Scans(q) = Wrappers[prog[q]].scans
      BY <1>0 DEF IInv, Types, Scans
    <2>1. ASSUME NEW i \in 1..Len(Scans(q)), q # p \/ i # step[p]
          PROVE  /\ Complete(Scans(q)[i]) => Complete(Scans(q)[i])'
                 /\ Untouched(Scans(q)[i]) => Untouched(Scans(q)[i])'
                 /\ \A l : Current(l, Scans(q)[i]) => Current(l, Scans(q)[i])'
      <3>1. prog[q] # prog[p] \/ i # step[p]
        BY <2>1 DEF IInv, OneShellEach
      <3>2. i \in 1..Len(Wrappers[prog[q]].scans)
        BY <2>0
      <3>3. /\ Complete(Wrappers[prog[q]].scans[i]) => Complete(Wrappers[prog[q]].scans[i])'
            /\ Untouched(Wrappers[prog[q]].scans[i]) => Untouched(Wrappers[prog[q]].scans[i])'
            /\ \A l : Current(l, Wrappers[prog[q]].scans[i]) => Current(l, Wrappers[prog[q]].scans[i])'
        BY <1>0, <2>0, <3>1, <3>2, OtherFactsKept
      <3>4. prog'[q] = prog[q] /\ Scans(q)' = Scans(q)
        BY <1>3
      <3> QED BY <2>0, <3>3, <3>4
    <2>2. CASE q = p
      <3>1. \A i \in 1..Len(Scans(p)) : i < step[p] => Complete(Scans(p)[i])'
        BY <1>0, <2>1, <2>2 DEF Progress
      <3>2. \A i \in 1..Len(Scans(p)) : i > step[p] => Untouched(Scans(p)[i])'
        BY <1>0, <2>1, <2>2 DEF Progress
      <3> QED BY <1>0, <1>2, <1>3, <2>2, <3>1, <3>2 DEF Progress, Scanning
    <2>3. CASE q # p
      <3>1. pc'[q] = pc[q] /\ step'[q] = step[q]
        BY <1>2, <2>3
      <3>2. \A i \in 1..Len(Scans(q)) : Complete(Scans(q)[i]) => Complete(Scans(q)[i])'
        BY <2>1, <2>3
      <3>3. \A i \in 1..Len(Scans(q)) : Untouched(Scans(q)[i]) => Untouched(Scans(q)[i])'
        BY <2>1, <2>3
      <3>4. pc[q] \in Scanning => Current(pc[q], Now(q))'
        <4> HAVE pc[q] \in Scanning
        <4>1. step[q] \in 1..Len(Scans(q)) /\ Now(q) = Scans(q)[step[q]]
          BY <1>0, <2>0, CurrentScan DEF Progress
        <4>2. Current(pc[q], Now(q))
          BY <2>0 DEF Progress
        <4> QED BY <1>3, <2>1, <2>3, <3>1, <4>1, <4>2
      <3> QED BY <1>3, <2>0, <3>1, <3>2, <3>3, <3>4 DEF Progress
    <2> QED BY <2>2, <2>3
  <1>7. OneShellEach'
    BY DEF IInv, OneShellEach
  <1> QED BY <1>4, <1>5, <1>6, <1>7 DEF IInv

(* A step that writes no name only has to answer for its own shell. *)
LEMMA SilentKeeps ==
    ASSUME IInv, NEW p \in Proc, NEW label \in Label, Goto(p, label),
           UNCHANGED <<prog, names>>, Types',
           \A q \in Proc \ {p} : step'[q] = step[q],
           Progress(p)'
    PROVE  IInv'
  <1>1. \A q \in Proc \ {p} : pc'[q] = pc[q]
    BY DEF IInv, Types, Goto
  <1>2. ASSUME NEW q \in Proc \ {p} PROVE Progress(q)'
    <2>1. Progress(q) /\ pc'[q] = pc[q] /\ step'[q] = step[q]
      BY <1>1 DEF IInv
    <2>2. Scans(q)' = Scans(q) /\ Now(q)' = Now(q)
      BY <2>1 DEF Scans, Now
    <2> QED BY <2>1, <2>2 DEF Progress, Current, Complete, Untouched, OutAbsent, OutComplete,
                              StdoutUnfinished, Whole, Missing
  <1>3. OneShellEach' /\ Renamed'
    BY DEF IInv, OneShellEach, Renamed, Missing
  <1> QED BY <1>2, <1>3 DEF IInv

-----------------------------------------------------------------------------
(* The steps that write no name *)

(* The types after a step that only moves one shell. *)
LEMMA TypesMoved ==
    ASSUME Types, NEW p \in Proc, NEW label \in Label \ {"idle"}, Goto(p, label), pc[p] # "idle",
           UNCHANGED <<prog, step, runs, names>>, kills' \in 0..MaxKills,
           node' \in {"up", "stopping", "down"}
    PROVE  Types'
  <1>1. pc' \in [Proc -> Label] /\ \A q \in Proc : pc'[q] # "idle" => pc[q] # "idle"
    BY DEF Types, Goto
  <1>2. \A q \in Proc : Scans(q)' = Scans(q)
    BY DEF Scans
  <1> QED BY <1>1, <1>2 DEF Types

(* A shell that gives up, or has been killed, promises nothing. *)
LEMMA GivesUp ==
    ASSUME IInv, NEW p \in Proc, NEW label \in {"on_exit", "failed", "killed"}, Goto(p, label),
           pc[p] # "idle", UNCHANGED <<prog, step, runs, names>>, kills' \in 0..MaxKills,
           node' \in {"up", "stopping", "down"}
    PROVE  IInv'
  <1>1. label \in Label \ {"idle"}
    BY DEF Label, Ended
  <1>2. Types'
    BY <1>1, TypesMoved DEF IInv
  <1>3. pc'[p] = label
    BY DEF Goto, IInv, Types
  <1>4. Progress(p)'
    BY <1>3 DEF Progress, Scanning
  <1> QED BY <1>1, <1>2, <1>4, SilentKeeps

(* A step between two places where the same is known of the outputs. *)
LEMMA MovesOn ==
    ASSUME IInv, NEW p \in Proc, NEW label \in Label \ {"idle"}, Goto(p, label), pc[p] # "idle",
           UNCHANGED <<prog, step, runs, kills, names>>, node' \in {"up", "stopping", "down"},
           \/ pc[p] \in {"stop", "wait", "lock"} /\ label \in {"wait", "lock", "scan"}
           \/ pc[p] \in {"restart", "health"} /\ label \in {"health", "ok"}
    PROVE  IInv'
  <1>1. Types'
    BY TypesMoved DEF IInv, Types
  <1>2. pc'[p] = label
    BY DEF Goto, IInv, Types
  <1>3. Scans(p)' = Scans(p) /\ Now(p)' = Now(p)
    BY DEF Scans, Now
  <1>4. Progress(p)
    BY DEF IInv
  <1>5. Progress(p)'
    <2>1. CASE pc[p] \in {"stop", "wait", "lock"} /\ label \in {"wait", "lock", "scan"}
      BY <1>2, <1>3, <1>4, <2>1 DEF Progress, Scanning, Current, Complete, Untouched, Whole, Missing
    <2>2. CASE pc[p] \in {"restart", "health"} /\ label \in {"health", "ok"}
      BY <1>2, <1>3, <1>4, <2>2 DEF Progress, Scanning, Complete, Whole
    <2> QED BY <2>1, <2>2
  <1> QED BY <1>1, <1>5, SilentKeeps

(* The bound on the runs of all shells bounds each shell's. *)
LEMMA RunsBounded ==
    ASSUME Types, Started < MaxRuns, NEW p \in Proc
    PROVE  runs[p] + 1 \in 1..MaxRuns
  <1>1. IsFiniteSet(Proc) /\ MaxRuns \in Nat /\ \A q \in Proc : runs[q] \in Nat
    BY RunAssumption DEF Types
  <1>2. runs[p] <= SumFunctionOnSet(runs, Proc)
    BY <1>1, SumBound
  <1>3. SumFunctionOnSet(runs, Proc) \in Nat
    BY <1>1, NatOfSum
  <1> QED BY <1>1, <1>2, <1>3 DEF Started

(* A new run begins at the first scan. *)
LEMMA StartKeeps ==
    ASSUME IInv, NEW p \in Proc, Start(p)
    PROVE  IInv'
  <1>0. Types
    BY DEF IInv
  <1>1. /\ Goto(p, "precheck") /\ "precheck" \in Label /\ UNCHANGED <<prog, kills, node, names>>
        /\ runs' = [runs EXCEPT ![p] = @ + 1] /\ step' = [step EXCEPT ![p] = 1]
    BY DEF Start, Label
  <1>2. runs[p] + 1 \in 1..MaxRuns
    BY <1>0, RunsBounded DEF Start
  <1>3. runs' \in [Proc -> 0..MaxRuns] /\ runs'[p] > 0 /\ \A q \in Proc \ {p} : runs'[q] = runs[q]
    BY <1>0, <1>1, <1>2, RunAssumption DEF Types
  <1>4. /\ pc' \in [Proc -> Label] /\ pc'[p] = "precheck" /\ \A q \in Proc \ {p} : pc'[q] = pc[q]
    BY <1>0, <1>1 DEF Types, Goto
  <1>5. \A q \in Proc : Scans(q)' = Scans(q) /\ Len(Scans(q)) \in Nat
    BY <1>0, <1>1, WrapperScans DEF Scans, Types, ScansOf
  <1>6. step' \in [Proc -> Nat] /\ step'[p] = 1 /\ \A q \in Proc \ {p} : step'[q] = step[q]
    BY <1>0, <1>1 DEF Types
  <1>7. \A q \in Proc : step'[q] \in 1..(Len(Scans(q)') + 1)
    <2> TAKE q \in Proc
    <2>1. CASE q = p
      BY <1>5, <1>6, <2>1
    <2>2. CASE q # p
      BY <1>0, <1>5, <1>6, <2>2 DEF Types
    <2> QED BY <2>1, <2>2
  <1>8. Types'
    BY <1>0, <1>1, <1>3, <1>4, <1>6, <1>7 DEF Types
  <1>9. Progress(p)'
    BY <1>4, <1>6 DEF Progress, Scanning
  <1> QED BY <1>1, <1>6, <1>8, <1>9, SilentKeeps

(* The check of the fresh names is what leaves every output untouched. *)
LEMMA PrecheckKeeps ==
    ASSUME IInv, NEW p \in Proc, Precheck(p)
    PROVE  IInv'
  <1>1. Types /\ pc[p] = "precheck" /\ UNCHANGED <<prog, step, runs, kills, node, names>>
    BY DEF IInv, Precheck
  <1>2. CASE Exit(p)
    BY <1>1, <1>2, GivesUp DEF Exit, Types
  <1>3. CASE /\ \A n \in Wrappers[prog[p]].fresh : ~Exists(n)
             /\ Goto(p, "stop")
    <2>1. "stop" \in Label \ {"idle"} /\ pc[p] # "idle"
      BY <1>1 DEF Label
    <2>2. Types'
      BY <1>1, <1>3, <2>1, TypesMoved DEF Types
    <2>3. /\ pc'[p] = "stop" /\ step'[p] = 1 /\ Scans(p)' = Scans(p) /\ Now(p)' = Scans(p)[1]
      BY <1>1, <1>3 DEF Goto, IInv, Types, Progress, Scans, Now
    <2>4. prog[p] \in DOMAIN Wrappers /\ Scans(p) = Wrappers[prog[p]].scans
      BY <1>1 DEF Types, Scans
    <2>5. Len(Scans(p)) \in Nat \ {0}
      BY <2>4, WrapperScans DEF ScansOf
    <2>6. ASSUME NEW i \in 1..Len(Scans(p)) PROVE Untouched(Scans(p)[i])'
      <3>1. ScanOf(prog[p], i, Scans(p)[i])
        BY <2>4, ScanFacts
      <3>2. Untouched(Scans(p)[i])
        BY <1>3, <3>1 DEF ScanOf, Untouched, Missing, Exists
      <3> QED BY <1>1, <2>3, <3>2 DEF Untouched, Missing
    <2>7. Untouched(Now(p))'
      BY <2>3, <2>5, <2>6
    <2>8. Progress(p)'
      BY <2>3, <2>5, <2>6, <2>7 DEF Progress, Scanning, Current
    <2> QED BY <1>1, <1>3, <2>1, <2>2, <2>8, SilentKeeps
  <1> QED BY <1>2, <1>3 DEF Precheck

(* The loop goes on to the next scan, or ends after the last. *)
LEMMA NextScanKeeps ==
    ASSUME IInv, NEW p \in Proc, NextScan(p)
    PROVE  IInv'
  <1> DEFINE label == IF step[p] < Len(Scans(p)) THEN "scan" ELSE "restart"
  <1>0. /\ Types /\ Progress(p) /\ pc[p] = "next" /\ UNCHANGED <<prog, runs, kills, node, names>>
        /\ Goto(p, label) /\ step' = [step EXCEPT ![p] = @ + 1] /\ label \in Label
        /\ step[p] <= Len(Scans(p))
    BY DEF IInv, NextScan, Label, Progress, Scanning
  <1>1. /\ step[p] \in 1..Len(Scans(p)) /\ Now(p) = Scans(p)[step[p]]
    BY <1>0, CurrentScan
  <1>2. \A q \in Proc : Scans(q)' = Scans(q) /\ Len(Scans(q)) \in Nat
    BY <1>0, WrapperScans DEF Scans, Types, ScansOf
  <1>3. /\ pc' \in [Proc -> Label] /\ pc'[p] = label
        /\ \A q \in Proc : pc'[q] # "idle" => pc[q] # "idle"
    BY <1>0 DEF Types, Goto
  <1>4. /\ step' \in [Proc -> Nat] /\ step'[p] = step[p] + 1
        /\ \A q \in Proc \ {p} : step'[q] = step[q]
    BY <1>0 DEF Types
  <1>5. \A q \in Proc : step'[q] \in 1..(Len(Scans(q)') + 1)
    <2> TAKE q \in Proc
    <2>1. CASE q = p
      BY <1>1, <1>2, <1>4, <2>1
    <2>2. CASE q # p
      BY <1>0, <1>2, <1>4, <2>2 DEF Types
    <2> QED BY <2>1, <2>2
  <1>6. Types'
    BY <1>0, <1>3, <1>4, <1>5 DEF Types
  <1>7. \A i \in 1..Len(Scans(p)) : i < step[p] + 1 => Complete(Scans(p)[i])'
    <2> TAKE i \in 1..Len(Scans(p))
    <2> HAVE i < step[p] + 1
    <2>1. CASE i < step[p]
      BY <1>0, <1>2, <2>1 DEF Progress, Scanning, Complete, Whole
    <2>2. CASE i = step[p]
      BY <1>0, <1>1, <1>2, <2>2 DEF Progress, Scanning, Current, Complete, Whole
    <2> QED BY <1>1, <2>1, <2>2
  <1>8. \A i \in 1..Len(Scans(p)) : i > step[p] => Untouched(Scans(p)[i])'
    BY <1>0, <1>2 DEF Progress, Scanning, Untouched, Missing
  <1>9. Progress(p)'
    <2>1. CASE step[p] < Len(Scans(p))
      <3>1. step'[p] \in 1..Len(Scans(p)) /\ Now(p)' = Scans(p)[step[p] + 1]
        BY <1>1, <1>2, <1>4, <2>1 DEF Now
      <3>2. Untouched(Now(p))'
        BY <1>1, <1>2, <1>4, <1>8, <3>1
      <3>3. pc'[p] = "scan"
        BY <1>3, <2>1
      <3>4. \A i \in 1..Len(Scans(p)) : i > step[p] + 1 => Untouched(Scans(p)[i])'
        BY <1>1, <1>8
      <3>5. Current("scan", Now(p))'
        BY <3>2 DEF Current
      <3> QED BY <1>2, <1>4, <1>7, <3>1, <3>3, <3>4, <3>5 DEF Progress
    <2>2. CASE ~(step[p] < Len(Scans(p)))
      <3>1. pc'[p] = "restart"
        BY <1>3, <2>2
      <3>2. \A i \in 1..Len(Scans(p)) : Complete(Scans(p)[i])'
        BY <1>1, <1>2, <1>7, <2>2
      <3> QED BY <1>2, <3>1, <3>2 DEF Progress, Scanning
    <2> QED BY <2>1, <2>2
  <1> QED BY <1>0, <1>4, <1>6, <1>9, SilentKeeps

-----------------------------------------------------------------------------
(* The steps that write names *)

(* What writing a name does. *)
LEMMA PutNames ==
    ASSUME NEW n, NEW content, names' = Put(n, content)
    PROVE  /\ DOMAIN names' = DOMAIN names \cup {n} /\ names'[n] = content
           /\ \A m \in DOMAIN names : m # n => names'[m] = names[m]
  BY DEF Put

(* What moving a name does. *)
LEMMA MoveNames ==
    ASSUME NEW from, NEW to, from # to, names' = Move(from, to)
    PROVE  /\ DOMAIN names' = (DOMAIN names \ {from}) \cup {to} /\ names'[to] = names[from]
           /\ \A m \in DOMAIN names \ {from} : m # to => names'[m] = names[m]
  BY DEF Move

(* What a shell writes has the type of a content. *)
LEMMA ContentType ==
    ASSUME IInv, NEW p \in Proc, pc[p] \in Scanning, NEW b \in BOOLEAN
    PROVE  Content(p, b) \in [whole : BOOLEAN, by : Proc \X (1..MaxRuns)] /\ Content(p, b).whole = b
  <1>1. runs[p] \in 1..MaxRuns
    BY RunAssumption DEF IInv, Types, Scanning
  <1> QED BY <1>1 DEF Content

(* The scan of a shell, its names and what was known of them. *)
LEMMA WriterFacts ==
    ASSUME IInv, NEW p \in Proc, pc[p] \in Scanning
    PROVE  /\ NamesTyped /\ Missing(Final(NoFile)) /\ RenamedScan(Now(p))
           /\ Current(pc[p], Now(p)) /\ step[p] <= Len(Scans(p))
           /\ ScanOf(prog[p], step[p], Now(p))
           /\ \A f \in FilesOf(Now(p)) : Final(f) \in NamesOf(Now(p)) /\ Partial(f) \in NamesOf(Now(p))
  <1>1. step[p] <= Len(Scans(p)) /\ Types
    BY DEF IInv, Progress
  <1>2. /\ prog[p] \in DOMAIN Wrappers /\ step[p] \in 1..Len(Wrappers[prog[p]].scans)
        /\ Now(p) = Wrappers[prog[p]].scans[step[p]] /\ ScanOf(prog[p], step[p], Now(p))
    BY <1>1, CurrentScan
  <1>3. RenamedScan(Now(p)) /\ Missing(Final(NoFile))
    BY <1>2 DEF IInv, Renamed, RenamedScan
  <1> QED BY <1>1, <1>2, <1>3 DEF IInv, Types, NamesTyped, Progress, NamesOf

(* One name of the scan written. *)
LEMMA PutConfined ==
    ASSUME IInv, NEW p \in Proc, pc[p] \in Scanning, NEW f \in FilesOf(Now(p)), NEW b \in BOOLEAN,
           NEW n \in {Final(f), Partial(f)}, names' = Put(n, Content(p, b))
    PROVE  /\ Confined(Now(p)) /\ NamesTyped' /\ Missing(Final(NoFile))'
           /\ DOMAIN names' = DOMAIN names \cup {n} /\ names'[n].whole = b
           /\ \A m \in DOMAIN names : m # n => names'[m] = names[m]
  <1>1. /\ DOMAIN names' = DOMAIN names \cup {n} /\ names'[n] = Content(p, b)
        /\ \A m \in DOMAIN names : m # n => names'[m] = names[m]
    BY PutNames
  <1>2. /\ Content(p, b) \in [whole : BOOLEAN, by : Proc \X (1..MaxRuns)] /\ Content(p, b).whole = b
    BY ContentType
  <1>3. NamesTyped /\ Missing(Final(NoFile)) /\ n \in NamesOf(Now(p)) /\ f # NoFile
    BY WriterFacts DEF FilesOf
  <1>4. Final(NoFile) # n
    BY <1>3, NamesDiffer
  <1>5. Confined(Now(p))
    BY <1>1, <1>3 DEF Confined
  <1>6. NamesTyped'
    BY <1>1, <1>2, <1>3 DEF NamesTyped
  <1> QED BY <1>1, <1>2, <1>3, <1>4, <1>5, <1>6 DEF Missing

(* Nothing written. *)
LEMMA NothingConfined ==
    ASSUME IInv, NEW p \in Proc, pc[p] \in Scanning, names' = names
    PROVE  Confined(Now(p)) /\ NamesTyped' /\ Missing(Final(NoFile))'
  BY WriterFacts DEF Confined, NamesTyped, Missing

(* The redirection truncates only a standard output that is not complete. *)
LEMMA LaunchKeeps ==
    ASSUME IInv, NEW p \in Proc, Launch(p)
    PROVE  IInv'
  <1> DEFINE c == Now(p)
  <1>0. /\ pc[p] = "scan" /\ pc[p] \in Scanning /\ UNCHANGED <<prog, step, runs, kills, node>>
        /\ c' = c
    BY DEF Launch, Scanning, Now, Scans
  <1>1. PICK label \in {"open", "on_exit"} : Goto(p, label)
    BY DEF Launch, Exit
  <1>2. /\ ScanOf(prog[p], step[p], c) /\ RenamedScan(c) /\ Untouched(c)
    BY <1>0, WriterFacts DEF Current
  <1> HIDE DEF c
  <1>3. Confined(c) /\ NamesTyped' /\ Missing(Final(NoFile))' /\ RenamedScan(c)'
           /\ OutAbsent(c)' /\ StdoutUnfinished(c)'
    <2>1. CASE c.how = "none"
      <3>1. names' = names /\ c.stdout = NoFile
        BY <1>2, <2>1 DEF Launch, ScanOf, c
      <3> QED BY <1>0, <1>2, <3>1, NothingConfined
              DEF RenamedScan, OutAbsent, StdoutUnfinished, Untouched, Missing, FilesOf, c
    <2>2. CASE c.how # "none"
      <3>1. c.stdout \in FilesOf(c) /\ c.out # c.stdout /\ c.stdout # NoFile
        BY <1>2, <2>2 DEF ScanOf, FilesOf
      <3>2. PICK n \in {Final(c.stdout), Partial(c.stdout)} :
                names' = Put(n, Content(p, FALSE)) /\ (c.how = "staged" => n = Partial(c.stdout))
        BY <1>2, <2>2 DEF Launch, ScanOf, c
      <3>3. /\ Confined(c) /\ NamesTyped' /\ Missing(Final(NoFile))'
            /\ DOMAIN names' = DOMAIN names \cup {n} /\ names'[n].whole = FALSE
            /\ \A m \in DOMAIN names : m # n => names'[m] = names[m]
        BY <1>0, <3>1, <3>2, PutConfined DEF c
      <3>4. Final(c.out) # n
        BY <3>1, <3>2, NamesDiffer
      <3>5. RenamedScan(c)'
        <4>1. c.how = "staged" => Final(c.stdout) # n
          BY <3>2, NamesDiffer
        <4> QED BY <1>0, <1>2, <3>3, <3>4, <4>1 DEF RenamedScan
      <3>6. OutAbsent(c)'
        BY <1>0, <1>2, <3>3, <3>4 DEF OutAbsent, Untouched, Missing, FilesOf
      <3>7. StdoutUnfinished(c)'
        BY <1>0, <1>2, <3>1, <3>3 DEF StdoutUnfinished, Untouched, Missing, Whole
      <3> QED BY <3>3, <3>5, <3>6, <3>7
    <2> QED BY <2>1, <2>2
  <1>4. label \in Scanning => Current(label, c)'
    BY <1>1, <1>3 DEF Scanning, Current
  <1> QED BY <1>0, <1>1, <1>3, <1>4, WriteKeeps DEF c, Scanning

(* The output is created under its partial name. *)
LEMMA CreateKeeps ==
    ASSUME IInv, NEW p \in Proc, CreatePartial(p)
    PROVE  IInv'
  <1> DEFINE c == Now(p)
  <1>0. /\ pc[p] = "open" /\ pc[p] \in Scanning /\ UNCHANGED <<prog, step, runs, kills, node>>
        /\ c' = c
    BY DEF CreatePartial, Scanning, Now, Scans
  <1>1. /\ ScanOf(prog[p], step[p], c) /\ RenamedScan(c) /\ OutAbsent(c) /\ StdoutUnfinished(c)
    BY <1>0, WriterFacts DEF Current
  <1>2. CASE names' = names /\ c.out = NoFile /\ Goto(p, "print")
    <2>1. Confined(c) /\ NamesTyped' /\ Missing(Final(NoFile))'
      BY <1>0, <1>2, NothingConfined
    <2> HIDE DEF c
    <2>2. RenamedScan(c)' /\ Current("print", c)'
      BY <1>0, <1>1, <1>2 DEF RenamedScan, Current, OutComplete, StdoutUnfinished, Whole
    <2> QED BY <1>0, <1>2, <2>1, <2>2, WriteKeeps DEF c, Scanning
  <1>3. CASE names' = names /\ Exit(p)
    <2>1. Confined(c) /\ NamesTyped' /\ Missing(Final(NoFile))'
      BY <1>0, <1>3, NothingConfined
    <2> HIDE DEF c
    <2>2. RenamedScan(c)'
      BY <1>0, <1>1, <1>3 DEF RenamedScan
    <2> QED BY <1>0, <1>3, <2>1, <2>2, WriteKeeps DEF c, Scanning, Exit
  <1>4. CASE /\ names' = Put(Partial(c.out), Content(p, FALSE))
             /\ c.out # NoFile /\ Goto(p, "read")
    <2>1. c.out \in FilesOf(c)
      BY <1>4 DEF FilesOf
    <2>2. /\ Confined(c) /\ NamesTyped' /\ Missing(Final(NoFile))'
          /\ DOMAIN names' = DOMAIN names \cup {Partial(c.out)}
          /\ \A m \in DOMAIN names : m # Partial(c.out) => names'[m] = names[m]
      BY <1>0, <1>4, <2>1, PutConfined
    <2>3. Final(c.out) # Partial(c.out) /\ Final(c.stdout) # Partial(c.out)
      BY NamesDiffer
    <2> HIDE DEF c
    <2>4. RenamedScan(c)'
      BY <1>0, <1>1, <2>2, <2>3 DEF RenamedScan
    <2>5. Current("read", c)'
      BY <1>0, <1>1, <1>4, <2>2, <2>3 DEF Current, OutAbsent, StdoutUnfinished, Missing, Whole
    <2> QED BY <1>0, <1>4, <2>2, <2>4, <2>5, WriteKeeps DEF c, Scanning
  <1> QED BY <1>2, <1>3, <1>4 DEF CreatePartial

(* The scanner's rename is the only step that puts an output in place. *)
LEMMA RenameKeeps ==
    ASSUME IInv, NEW p \in Proc, RenameOutput(p)
    PROVE  IInv'
  <1> DEFINE c == Now(p)
             P == Partial(c.out)
             F == Final(c.out)
  <1>0. /\ pc[p] = "read" /\ pc[p] \in Scanning /\ UNCHANGED <<prog, step, runs, kills, node>>
        /\ c' = c /\ Goto(p, "print")
    BY DEF RenameOutput, Scanning, Now, Scans
  <1>1. /\ ScanOf(prog[p], step[p], c) /\ RenamedScan(c) /\ StdoutUnfinished(c) /\ c.out # NoFile
        /\ NamesTyped /\ Missing(Final(NoFile))
        /\ \A f \in FilesOf(Now(p)) : Final(f) \in NamesOf(c) /\ Partial(f) \in NamesOf(c)
    BY <1>0, WriterFacts DEF Current
  <1>2. /\ Content(p, TRUE) \in [whole : BOOLEAN, by : Proc \X (1..MaxRuns)]
        /\ Content(p, TRUE).whole = TRUE
    BY <1>0, ContentType
  <1>3. names' = [Move(P, F) EXCEPT ![F] = Content(p, TRUE)]
    BY DEF RenameOutput
  <1>4. F # P /\ Final(NoFile) # F /\ Final(NoFile) # P /\ Final(c.stdout) # P
        /\ Final(c.stdout) # F /\ F \in NamesOf(c) /\ P \in NamesOf(c)
    BY <1>1, NamesDiffer DEF ScanOf, FilesOf
  <1> HIDE DEF c, F, P
  <1>5. /\ DOMAIN names' = (DOMAIN names \ {P}) \cup {F} /\ names'[F] = Content(p, TRUE)
        /\ \A m \in DOMAIN names \ {P} : m # F => names'[m] = names[m]
    BY <1>3, <1>4 DEF Move
  <1>6. Confined(c) /\ NamesTyped' /\ Missing(Final(NoFile))'
    <2>1. Confined(c)
      BY <1>4, <1>5 DEF Confined
    <2>2. NamesTyped'
      BY <1>1, <1>2, <1>5 DEF NamesTyped
    <2> QED BY <1>1, <1>4, <1>5, <2>1, <2>2 DEF Missing
  <1>7. RenamedScan(c)'
    BY <1>0, <1>1, <1>2, <1>4, <1>5 DEF RenamedScan, F
  <1>8. Current("print", c)'
    BY <1>0, <1>1, <1>2, <1>4, <1>5 DEF Current, OutComplete, StdoutUnfinished, Whole, F
  <1> QED BY <1>0, <1>6, <1>7, <1>8, WriteKeeps DEF c, Scanning

(* A failed scanner leaves or removes its partial file only. *)
LEMMA FailsKeeps ==
    ASSUME IInv, NEW p \in Proc, ScannerFails(p)
    PROVE  IInv'
  <1> DEFINE c == Now(p)
  <1>0. /\ pc[p] \in Scanning /\ UNCHANGED <<prog, step, runs, kills, node>>
        /\ c' = c /\ Goto(p, "on_exit")
    BY DEF ScannerFails, Scanning, Reading, Now, Scans, Exit
  <1>1. /\ RenamedScan(c) /\ NamesTyped /\ Missing(Final(NoFile))
        /\ Current(pc[p], c)
        /\ \A f \in FilesOf(c) : Final(f) \in NamesOf(c) /\ Partial(f) \in NamesOf(c)
    BY <1>0, WriterFacts
  <1> HIDE DEF c
  <1>2. CASE names' = names
    <2>1. Confined(c) /\ NamesTyped' /\ Missing(Final(NoFile))'
      BY <1>0, <1>2, NothingConfined DEF c
    <2>2. RenamedScan(c)'
      BY <1>0, <1>1, <1>2 DEF RenamedScan
    <2> QED BY <1>0, <2>1, <2>2, WriteKeeps DEF c, Scanning
  <1>3. CASE pc[p] = "read" /\ names' = Delete(Partial(c.out))
    <2> DEFINE P == Partial(c.out)
    <2>1. P \in NamesOf(c)
      BY <1>1, <1>3 DEF Current, FilesOf
    <2>2. Final(NoFile) # P /\ Final(c.stdout) # P /\ Final(c.out) # P
      BY NamesDiffer
    <2>3. DOMAIN names' = DOMAIN names \ {P} /\ \A m \in DOMAIN names \ {P} : names'[m] = names[m]
      BY <1>3 DEF Delete
    <2> HIDE DEF P
    <2>4. Confined(c)
      BY <2>1, <2>3 DEF Confined
    <2>5. NamesTyped'
      BY <1>1, <2>3 DEF NamesTyped
    <2>6. Missing(Final(NoFile))' /\ RenamedScan(c)'
      BY <1>0, <1>1, <2>2, <2>3 DEF Missing, RenamedScan
    <2> QED BY <1>0, <2>4, <2>5, <2>6, WriteKeeps DEF c, Scanning
  <1> QED BY <1>2, <1>3 DEF ScannerFails, c

(* The standard output ends in its own file or in the staged one. *)
LEMMA PrintKeeps ==
    ASSUME IInv, NEW p \in Proc, PrintResult(p)
    PROVE  IInv'
  <1> DEFINE c == Now(p)
  <1>0. /\ pc[p] = "print" /\ pc[p] \in Scanning /\ UNCHANGED <<prog, step, runs, kills, node>>
        /\ c' = c /\ Goto(p, IF c.how = "staged" THEN "validate" ELSE "next")
    BY DEF PrintResult, Scanning, Now, Scans
  <1>1. /\ ScanOf(prog[p], step[p], c) /\ RenamedScan(c) /\ OutComplete(c) /\ StdoutUnfinished(c)
    BY <1>0, WriterFacts DEF Current
  <1>2. CASE c.how = "none"
    <2>1. names' = names /\ c.stdout = NoFile /\ Goto(p, "next")
      BY <1>0, <1>1, <1>2 DEF PrintResult, ScanOf
    <2>2. Confined(c) /\ NamesTyped' /\ Missing(Final(NoFile))'
      BY <1>0, <2>1, NothingConfined
    <2> HIDE DEF c
    <2>3. RenamedScan(c)' /\ Current("next", c)'
      BY <1>0, <1>1, <2>1 DEF RenamedScan, Current, OutComplete, Complete, FilesOf, Whole
    <2> QED BY <1>0, <2>1, <2>2, <2>3, WriteKeeps DEF c, Scanning
  <1>3. ASSUME NEW n \in {Final(c.stdout), Partial(c.stdout)}, c.how # "none",
               names' = Put(n, Content(p, TRUE))
        PROVE  /\ Confined(c) /\ NamesTyped' /\ Missing(Final(NoFile))'
               /\ DOMAIN names' = DOMAIN names \cup {n} /\ names'[n].whole = TRUE
               /\ \A m \in DOMAIN names : m # n => names'[m] = names[m]
               /\ c.stdout # NoFile /\ c.stdout # c.out /\ Final(c.out) # n
    <2>1. c.stdout \in FilesOf(c) /\ c.stdout # NoFile /\ c.stdout # c.out
      BY <1>1, <1>3 DEF ScanOf, FilesOf
    <2>2. Final(c.out) # n
      BY <1>3, <2>1, NamesDiffer
    <2> QED BY <1>0, <1>3, <2>1, <2>2, PutConfined
  <1>4. CASE c.how = "final"
    <2> DEFINE n == Final(c.stdout)
    <2>1. names' = Put(n, Content(p, TRUE)) /\ Goto(p, "next")
      BY <1>0, <1>4 DEF PrintResult
    <2>2. /\ Confined(c) /\ NamesTyped' /\ Missing(Final(NoFile))'
          /\ DOMAIN names' = DOMAIN names \cup {n} /\ names'[n].whole = TRUE
          /\ \A m \in DOMAIN names : m # n => names'[m] = names[m]
          /\ Final(c.out) # n
      BY <1>3, <1>4, <2>1
    <2> HIDE DEF c
    <2>3. RenamedScan(c)'
      BY <1>0, <1>1, <1>4, <2>2 DEF RenamedScan
    <2>4. Current("next", c)'
      BY <1>0, <1>1, <2>2 DEF Current, OutComplete, Complete, FilesOf, Whole
    <2> QED BY <1>0, <2>1, <2>2, <2>3, <2>4, WriteKeeps DEF c, Scanning
  <1>5. CASE c.how = "staged"
    <2> DEFINE n == Partial(c.stdout)
    <2>1. names' = Put(n, Content(p, TRUE)) /\ Goto(p, "validate")
      BY <1>0, <1>5 DEF PrintResult
    <2>2. /\ Confined(c) /\ NamesTyped' /\ Missing(Final(NoFile))'
          /\ DOMAIN names' = DOMAIN names \cup {n} /\ names'[n].whole = TRUE
          /\ \A m \in DOMAIN names : m # n => names'[m] = names[m]
          /\ Final(c.out) # n /\ Final(c.stdout) # n
      BY <1>3, <1>5, <2>1, NamesDiffer
    <2> HIDE DEF c
    <2>3. RenamedScan(c)'
      BY <1>0, <1>1, <2>2 DEF RenamedScan
    <2>4. Current("validate", c)'
      BY <1>0, <1>1, <1>5, <2>2 DEF Current, OutComplete, StdoutUnfinished, Whole
    <2> QED BY <1>0, <2>1, <2>2, <2>3, <2>4, WriteKeeps DEF c, Scanning
  <1> QED BY <1>1, <1>2, <1>4, <1>5 DEF ScanOf

(* A staged result is moved into place whole, or left. *)
LEMMA ValidateKeeps ==
    ASSUME IInv, NEW p \in Proc, Validate(p)
    PROVE  IInv'
  <1> DEFINE c == Now(p)
             P == Partial(c.stdout)
             F == Final(c.stdout)
  <1>0. /\ pc[p] = "validate" /\ pc[p] \in Scanning /\ UNCHANGED <<prog, step, runs, kills, node>>
        /\ c' = c
    BY DEF Validate, Scanning, Now, Scans
  <1>1. /\ ScanOf(prog[p], step[p], c) /\ RenamedScan(c) /\ OutComplete(c) /\ Whole(P)
        /\ c.how = "staged" /\ NamesTyped /\ Missing(Final(NoFile))
        /\ \A f \in FilesOf(c) : Final(f) \in NamesOf(c) /\ Partial(f) \in NamesOf(c)
    BY <1>0, WriterFacts DEF Current
  <1>2. CASE names' = names /\ Exit(p)
    <2>1. Confined(c) /\ NamesTyped' /\ Missing(Final(NoFile))'
      BY <1>0, <1>2, NothingConfined
    <2> HIDE DEF c
    <2>2. RenamedScan(c)'
      BY <1>0, <1>1, <1>2 DEF RenamedScan
    <2> QED BY <1>0, <1>2, <2>1, <2>2, WriteKeeps DEF c, Scanning, Exit
  <1>3. CASE names' = Move(P, F) /\ Goto(p, "next")
    <2>1. c.stdout \in FilesOf(c) /\ c.stdout # NoFile /\ c.out # c.stdout
      BY <1>1 DEF ScanOf, FilesOf
    <2>2. /\ P # F /\ Final(NoFile) # F /\ Final(NoFile) # P
          /\ Final(c.out) # P /\ Final(c.out) # F /\ F \in NamesOf(c) /\ P \in NamesOf(c)
      BY <1>1, <2>1, NamesDiffer
    <2>3. /\ DOMAIN names' = (DOMAIN names \ {P}) \cup {F} /\ names'[F] = names[P]
          /\ \A m \in DOMAIN names \ {P} : m # F => names'[m] = names[m]
      BY <1>3, <2>2, MoveNames
    <2> HIDE DEF c, F, P
    <2>4. Confined(c)
      BY <2>2, <2>3 DEF Confined
    <2>5. NamesTyped'
      BY <1>1, <2>3 DEF NamesTyped, Whole
    <2>6. Missing(Final(NoFile))'
      BY <1>1, <2>2, <2>3 DEF Missing
    <2>7. RenamedScan(c)'
      BY <1>0, <1>1, <2>2, <2>3 DEF RenamedScan, Whole, F
    <2>8. Current("next", c)'
      BY <1>0, <1>1, <2>2, <2>3 DEF Current, OutComplete, Complete, FilesOf, Whole, F
    <2> QED BY <1>0, <1>3, <2>4, <2>5, <2>6, <2>7, <2>8, WriteKeeps DEF c, Scanning
  <1> QED BY <1>2, <1>3 DEF Validate

-----------------------------------------------------------------------------
(* Every step *)

(* No shell has run and no file exists. *)
LEMMA InitIInv == Init => IInv
  <1> SUFFICES ASSUME Init PROVE IInv
    OBVIOUS
  <1>1. DOMAIN names = {}
    BY DEF Init
  <1>2. Types
    <2>1. \A p \in Proc : Len(Scans(p)) \in Nat
      BY WrapperScans DEF Init, Scans, ScansOf
    <2>2. pc \in [Proc -> Label] /\ \A p \in Proc : pc[p] = "idle"
      BY DEF Init, Label, Ended
    <2>3. step \in [Proc -> Nat] /\ \A p \in Proc : step[p] \in 1..(Len(Scans(p)) + 1)
      BY <2>1 DEF Init
    <2>4. runs \in [Proc -> 0..MaxRuns] /\ kills \in 0..MaxKills
      BY RunAssumption DEF Init
    <2> QED BY <1>1, <2>2, <2>3, <2>4 DEF Init, Types
  <1>3. Renamed
    BY <1>1 DEF Renamed, Missing
  <1>4. \A p \in Proc : Progress(p)
    BY DEF Init, Progress, Scanning
  <1> QED BY <1>2, <1>3, <1>4 DEF Init, IInv, OneShellEach

(* A shell told to start Harmony leaves it in one of its three states. *)
LEMMA StartNodeType ==
    ASSUME Types, NEW p \in Proc, StartNode(p)
    PROVE  node' \in {"up", "stopping", "down"}
  BY DEF Types, StartNode

(* A step of a wrapper. *)
LEMMA WrapperKeeps ==
    ASSUME IInv, NEW p \in Proc, WrapperStep(p)
    PROVE  IInv'
  <1>0. Types /\ kills \in 0..MaxKills /\ node \in {"up", "stopping", "down"}
    BY DEF IInv, Types
  <1>1. CASE Precheck(p)
    BY <1>1, PrecheckKeeps
  <1>2. CASE ServiceStop(p)
    <2>1. /\ pc[p] = "stop" /\ Goto(p, "wait") /\ UNCHANGED <<prog, step, runs, kills, names>>
          /\ node' \in {"up", "stopping", "down"} /\ "wait" \in Label \ {"idle"}
      BY <1>0, <1>2 DEF ServiceStop, Label
    <2> QED BY <2>1, MovesOn
  <1>3. CASE WaitStopped(p)
    <2>1. /\ pc[p] = "wait" /\ UNCHANGED <<prog, step, runs, kills, names, node>>
          /\ Goto(p, "lock") \/ Goto(p, "on_exit")
      BY <1>3 DEF WaitStopped, Exit
    <2>2. "lock" \in Label \ {"idle"}
      BY DEF Label
    <2>3. CASE Goto(p, "lock")
      BY <1>0, <2>1, <2>2, <2>3, MovesOn
    <2>4. CASE Goto(p, "on_exit")
      BY <1>0, <2>1, <2>4, GivesUp
    <2> QED BY <2>1, <2>3, <2>4
  <1>4. CASE CheckLock(p)
    <2>1. /\ pc[p] = "lock" /\ UNCHANGED <<prog, step, runs, kills, names, node>>
          /\ Goto(p, "scan") \/ Goto(p, "on_exit")
      BY <1>4 DEF CheckLock, Exit
    <2>2. "scan" \in Label \ {"idle"}
      BY DEF Label
    <2>3. CASE Goto(p, "scan")
      BY <1>0, <2>1, <2>2, <2>3, MovesOn
    <2>4. CASE Goto(p, "on_exit")
      BY <1>0, <2>1, <2>4, GivesUp
    <2> QED BY <2>1, <2>3, <2>4
  <1>5. CASE Launch(p)
    BY <1>5, LaunchKeeps
  <1>6. CASE CreatePartial(p)
    BY <1>6, CreateKeeps
  <1>7. CASE RenameOutput(p)
    BY <1>7, RenameKeeps
  <1>8. CASE ScannerFails(p)
    BY <1>8, FailsKeeps
  <1>9. CASE PrintResult(p)
    BY <1>9, PrintKeeps
  <1>10. CASE Validate(p)
    BY <1>10, ValidateKeeps
  <1>11. CASE NextScan(p)
    BY <1>11, NextScanKeeps
  <1>12. CASE RestartHarmony(p)
    <2>1. /\ pc[p] = "restart" /\ Goto(p, "health") /\ UNCHANGED <<prog, step, runs, kills, names>>
          /\ node' \in {"up", "stopping", "down"} /\ "health" \in Label \ {"idle"}
      BY <1>0, <1>12, StartNodeType DEF RestartHarmony, Label
    <2> QED BY <2>1, MovesOn
  <1>13. CASE Health(p)
    <2>1. /\ pc[p] = "health" /\ UNCHANGED <<prog, step, runs, kills, names, node>>
          /\ Goto(p, "ok") \/ Goto(p, "failed")
      BY <1>13 DEF Health
    <2>2. "ok" \in Label \ {"idle"}
      BY DEF Label, Ended
    <2>3. CASE Goto(p, "ok")
      BY <1>0, <2>1, <2>2, <2>3, MovesOn
    <2>4. CASE Goto(p, "failed")
      BY <1>0, <2>1, <2>4, GivesUp
    <2> QED BY <2>1, <2>3, <2>4
  <1>14. CASE OnExit(p)
    <2>1. /\ pc[p] = "on_exit" /\ Goto(p, "failed") /\ UNCHANGED <<prog, step, runs, kills, names>>
          /\ node' \in {"up", "stopping", "down"}
      BY <1>0, <1>14, StartNodeType DEF OnExit
    <2> QED BY <1>0, <2>1, GivesUp
  <1> QED BY <1>1, <1>2, <1>3, <1>4, <1>5, <1>6, <1>7, <1>8, <1>9, <1>10, <1>11, <1>12, <1>13,
             <1>14 DEF WrapperStep

(* A step that only concerns Harmony. *)
LEMMA NodeKeeps ==
    ASSUME IInv, UNCHANGED <<prog, pc, step, runs, kills, names>>, node' \in {"up", "stopping", "down"}
    PROVE  IInv'
  <1>1. \A p \in Proc : Scans(p)' = Scans(p) /\ Now(p)' = Now(p)
    BY DEF Scans, Now
  <1>2. Types'
    BY <1>1 DEF IInv, Types
  <1>3. OneShellEach' /\ Renamed'
    BY DEF IInv, OneShellEach, Renamed, Missing
  <1>4. ASSUME NEW p \in Proc PROVE Progress(p)'
    <2>1. Progress(p)
      BY DEF IInv
    <2> QED BY <1>1, <2>1 DEF Progress, Current, Complete, Untouched, OutAbsent, OutComplete,
                              StdoutUnfinished, Whole, Missing
  <1> QED BY <1>2, <1>3, <1>4 DEF IInv

(* Every step keeps the invariant. *)
LEMMA NextIInv == IInv /\ [Next]_vars => IInv'
  <1> SUFFICES ASSUME IInv, [Next]_vars PROVE IInv'
    OBVIOUS
  <1>0. Types
    BY DEF IInv
  <1>1. CASE UNCHANGED vars
    BY <1>0, <1>1, NodeKeeps DEF vars, Types
  <1>2. CASE NodeStops
    BY <1>0, <1>2, NodeKeeps DEF NodeStops
  <1>3. ASSUME NEW p \in Proc, Start(p) PROVE IInv'
    BY <1>3, StartKeeps
  <1>4. ASSUME NEW p \in Proc, WrapperStep(p) PROVE IInv'
    BY <1>4, WrapperKeeps
  <1>5. ASSUME NEW p \in Proc, Kill(p) PROVE IInv'
    <2>1. /\ Goto(p, "killed") /\ pc[p] # "idle" /\ UNCHANGED <<prog, step, runs, node, names>>
          /\ kills' \in 0..MaxKills
      BY <1>0, <1>5, RunAssumption DEF Kill, Types
    <2> QED BY <1>0, <2>1, GivesUp DEF Types
  <1> QED BY <1>1, <1>2, <1>3, <1>4, <1>5 DEF Next, Quiet

(* No output under its final name is ever incomplete when it was put there by *)
(* a rename, for every pair of wrappers, every interleaving and every kill.   *)
THEOREM RenamedAlwaysComplete == Spec => []RenamedComplete
  <1>1. IInv => RenamedComplete
    <2> SUFFICES ASSUME IInv, NEW p \in Proc, NEW i \in DOMAIN Scans(p)
                 PROVE  LET s == Scans(p)[i]
                        IN  /\ Exists(Final(s.out)) => names[Final(s.out)].whole
                            /\ s.how = "staged" /\ Exists(Final(s.stdout)) => names[Final(s.stdout)].whole
      BY DEF RenamedComplete
    <2>1. prog[p] \in DOMAIN Wrappers /\ Scans(p) = Wrappers[prog[p]].scans
      BY DEF IInv, Types, Scans
    <2>2. i \in 1..Len(Wrappers[prog[p]].scans)
      BY <2>1, WrapperScans DEF ScansOf
    <2> QED BY <2>1, <2>2 DEF IInv, Renamed, Exists
  <1> QED BY <1>1, InitIInv, NextIInv, PTL DEF Spec

(* A wrapper that reports success has published all its files, complete, and  *)
(* the types hold: neither another wrapper nor an earlier, killed run of the  *)
(* same one can leave a hole in what it published.                            *)
THEOREM SuccessIsComplete == Spec => []SuccessComplete
  <1>1. IInv => SuccessComplete
    <2> SUFFICES ASSUME IInv PROVE SuccessComplete
      OBVIOUS
    <2>1. TypeOK
      BY DEF IInv, Types, TypeOK, Label
    <2>2. ASSUME NEW p \in Proc, pc[p] = "ok",
                 NEW f \in OutputsOf(Wrappers[prog[p]]) \ {NoFile}
          PROVE  Exists(Final(f)) /\ names[Final(f)].whole
      <3>1. prog[p] \in DOMAIN Wrappers /\ Scans(p) = Wrappers[prog[p]].scans
        BY DEF IInv, Types, Scans
      <3>2. DOMAIN Scans(p) = 1..Len(Scans(p))
        BY <3>1, WrapperScans DEF ScansOf
      <3>3. PICK i \in DOMAIN Scans(p) : f = Scans(p)[i].out \/ f = Scans(p)[i].stdout
        BY <2>2, <3>1 DEF OutputsOf
      <3>4. f \in FilesOf(Scans(p)[i])
        BY <2>2, <3>3 DEF FilesOf
      <3>5. Complete(Scans(p)[i])
        BY <2>2, <3>2, <3>3 DEF IInv, Progress
      <3> QED BY <3>4, <3>5 DEF Complete, Whole, Exists
    <2> QED BY <2>1, <2>2 DEF SuccessComplete
  <1> QED BY <1>1, InitIInv, NextIInv, PTL DEF Spec

-----------------------------------------------------------------------------
(* Published files *)

(* What a step may not do to a complete published file. *)
Kept == \A n \in DOMAIN names : n[2] = "final" /\ names[n].whole =>
            n \in DOMAIN names' /\ names'[n] = names[n]

(* Writing a name that is not a complete final one keeps the published files. *)
LEMMA PutKeepsPublished ==
    ASSUME NEW n, NEW content, names' = Put(n, content), n[2] = "final" => ~Whole(n)
    PROVE  Kept
  BY PutNames DEF Kept, Whole

(* Moving a staged result to a name that holds nothing complete keeps them too. *)
LEMMA MoveKeepsPublished ==
    ASSUME NEW f, names' = Move(Partial(f), Final(f)), ~Whole(Final(f))
    PROVE  Kept
  <1> DEFINE from == Partial(f)
             to == Final(f)
  <1>1. from # to /\ from[2] # "final" /\ names' = Move(from, to) /\ ~Whole(to)
    BY NamesDiffer
  <1> HIDE DEF from, to
  <1>2. /\ DOMAIN names' = (DOMAIN names \ {from}) \cup {to}
        /\ \A m \in DOMAIN names \ {from} : m # to => names'[m] = names[m]
    BY <1>1 DEF Move
  <1> QED BY <1>1, <1>2 DEF Kept, Whole

(* No wrapper step touches a complete published file. *)
LEMMA WrapperKeepsPublished ==
    ASSUME IInv, NEW p \in Proc, WrapperStep(p)
    PROVE  Kept
  <1> DEFINE c == Now(p)
  <1>0. CASE names' = names
    BY <1>0 DEF Kept
  <1>1. CASE Launch(p)
    <2>1. pc[p] = "scan" /\ pc[p] \in Scanning
      BY <1>1 DEF Launch, Scanning
    <2>2. Untouched(c) /\ ScanOf(prog[p], step[p], c)
      BY <2>1, WriterFacts DEF Current
    <2>3. CASE c.how = "final"
      <3>1. names' = Put(Final(c.stdout), Content(p, FALSE)) /\ c.stdout \in FilesOf(c)
        BY <1>1, <2>2, <2>3 DEF Launch, ScanOf, FilesOf
      <3>2. ~Whole(Final(c.stdout))
        BY <2>2, <3>1 DEF Untouched, Missing, Whole
      <3> QED BY <3>1, <3>2, PutKeepsPublished
    <2>4. CASE c.how = "staged"
      <3>1. names' = Put(Partial(c.stdout), Content(p, FALSE)) /\ Partial(c.stdout)[2] # "final"
        BY <1>1, <2>4, NamesDiffer DEF Launch
      <3> QED BY <3>1, PutKeepsPublished
    <2>5. CASE c.how = "none"
      BY <1>0, <1>1, <2>5 DEF Launch
    <2> QED BY <2>2, <2>3, <2>4, <2>5 DEF ScanOf
  <1>2. CASE CreatePartial(p)
    <2>1. names' = names \/ names' = Put(Partial(c.out), Content(p, FALSE))
      BY <1>2 DEF CreatePartial
    <2>2. Partial(c.out)[2] # "final"
      BY NamesDiffer
    <2> QED BY <1>0, <2>1, <2>2, PutKeepsPublished
  <1>3. CASE RenameOutput(p)
    <2>1. pc[p] = "read" /\ pc[p] \in Scanning
      BY <1>3 DEF RenameOutput, Scanning
    <2>2. c.out # NoFile /\ OutAbsent(c)
      BY <2>1, WriterFacts DEF Current
    <2>3. Final(c.out) \notin DOMAIN names /\ Partial(c.out)[2] # "final"
      BY <2>2, NamesDiffer DEF OutAbsent, Missing
    <2>4. \A m \in DOMAIN names \ {Partial(c.out)} :
              m # Final(c.out) => m \in DOMAIN names' /\ names'[m] = names[m]
      BY <1>3 DEF RenameOutput, Move
    <2> QED BY <2>3, <2>4 DEF Kept
  <1>4. CASE ScannerFails(p)
    <2>1. names' = names \/ names' = Delete(Partial(c.out))
      BY <1>4 DEF ScannerFails
    <2>2. Partial(c.out)[2] # "final"
      BY NamesDiffer
    <2> QED BY <1>0, <2>1, <2>2 DEF Delete, Kept
  <1>5. CASE PrintResult(p)
    <2>1. pc[p] = "print" /\ pc[p] \in Scanning
      BY <1>5 DEF PrintResult, Scanning
    <2>2. StdoutUnfinished(c) /\ ScanOf(prog[p], step[p], c)
      BY <2>1, WriterFacts DEF Current
    <2>3. CASE c.how = "final"
      <3>1. names' = Put(Final(c.stdout), Content(p, TRUE)) /\ c.stdout # NoFile
        BY <1>5, <2>2, <2>3 DEF PrintResult, ScanOf
      <3> QED BY <2>2, <3>1, PutKeepsPublished DEF StdoutUnfinished
    <2>4. CASE c.how = "staged"
      <3>1. names' = Put(Partial(c.stdout), Content(p, TRUE)) /\ Partial(c.stdout)[2] # "final"
        BY <1>5, <2>4, NamesDiffer DEF PrintResult
      <3> QED BY <3>1, PutKeepsPublished
    <2>5. CASE c.how = "none"
      BY <1>0, <1>5, <2>5 DEF PrintResult
    <2> QED BY <2>2, <2>3, <2>4, <2>5 DEF ScanOf
  <1>6. CASE Validate(p)
    <2>1. pc[p] = "validate" /\ pc[p] \in Scanning
      BY <1>6 DEF Validate, Scanning
    <2>2. StdoutUnfinished(c) /\ c.how = "staged" /\ ScanOf(prog[p], step[p], c)
      BY <2>1, WriterFacts DEF Current
    <2>3. ~Whole(Final(c.stdout))
      BY <2>2 DEF StdoutUnfinished, ScanOf
    <2>4. names' = names \/ names' = Move(Partial(c.stdout), Final(c.stdout))
      BY <1>6 DEF Validate
    <2> QED BY <1>0, <2>3, <2>4, MoveKeepsPublished
  <1>7. CASE Precheck(p) \/ ServiceStop(p) \/ WaitStopped(p) \/ CheckLock(p)
    BY <1>0, <1>7 DEF Precheck, ServiceStop, WaitStopped, CheckLock
  <1>8. CASE NextScan(p) \/ RestartHarmony(p) \/ Health(p) \/ OnExit(p)
    BY <1>0, <1>8 DEF NextScan, RestartHarmony, Health, OnExit
  <1> QED BY <1>1, <1>2, <1>3, <1>4, <1>5, <1>6, <1>7, <1>8 DEF WrapperStep

(* No run replaces, truncates or removes a complete published file, for every *)
(* number of shells, runs and kills: the check of the fresh names protects    *)
(* it although it is made long before the files are written.                  *)
THEOREM PublishedStays == Spec => PublishedKept
  <1>1. IInv /\ [Next]_vars => [Kept]_vars
    <2> SUFFICES ASSUME IInv, [Next]_vars PROVE [Kept]_vars
      OBVIOUS
    <2>1. CASE names' = names
      BY <2>1 DEF Kept
    <2>2. ASSUME NEW p \in Proc, WrapperStep(p) PROVE Kept
      BY <2>2, WrapperKeepsPublished
    <2> QED BY <2>1, <2>2 DEF Next, Start, Kill, NodeStops, Quiet, vars
  <1> QED BY <1>1, InitIInv, NextIInv, PTL DEF Spec, PublishedKept, Kept

-----------------------------------------------------------------------------
(* The node *)

(* Where a shell will still tell Harmony to start. *)
Owing == {"wait", "lock", "scan", "open", "read", "print", "validate", "next", "restart", "on_exit"}

(* While no shell has been killed, a node that is not up is owed a start. *)
NodeOwed ==
    /\ pc \in [Proc -> Label] /\ kills \in Nat
    /\ kills = 0 /\ node # "up" => \E p \in Proc : pc[p] \in Owing

(* Every step keeps a start owed. *)
LEMMA NextOwed == NodeOwed /\ [Next]_vars => NodeOwed'
  <1> SUFFICES ASSUME NodeOwed, [Next]_vars PROVE NodeOwed'
    OBVIOUS
  <1>1. CASE UNCHANGED <<pc, kills>> /\ (node # "up" \/ node' = node)
    BY <1>1 DEF NodeOwed
  <1>2. ASSUME NEW p \in Proc, NEW label \in Label, Goto(p, label), kills' \in Nat,
               kills' = 0 => kills = 0 /\ (label \in Owing \/ (pc[p] \notin Owing /\ node' = node))
        PROVE  NodeOwed'
    <2>1. /\ pc' \in [Proc -> Label] /\ pc'[p] = label /\ \A q \in Proc \ {p} : pc'[q] = pc[q]
      BY <1>2 DEF NodeOwed, Goto
    <2> QED BY <1>2, <2>1 DEF NodeOwed
  <1>3. ASSUME NEW p \in Proc, NEW label \in Label, Goto(p, label), StartNode(p), kills' = kills
        PROVE  NodeOwed'
    <2>1. /\ pc' \in [Proc -> Label] /\ \A q \in Proc \ {p} : pc'[q] = pc[q]
      BY <1>3 DEF NodeOwed, Goto
    <2>2. CASE \E q \in Proc \ {p} : pc[q] \in Reading
      BY <1>3, <2>1, <2>2 DEF NodeOwed, Reading, Owing
    <2>3. CASE ~\E q \in Proc \ {p} : pc[q] \in Reading
      BY <1>3, <2>1, <2>3 DEF NodeOwed, StartNode
    <2> QED BY <2>2, <2>3
  <1>4. Owing \subseteq Label /\ {"precheck", "stop", "health", "ok", "failed", "killed"} \subseteq Label
    BY DEF Owing, Label, Ended, Reading
  <1>5. ASSUME NEW p \in Proc, Start(p) PROVE NodeOwed'
    BY <1>2, <1>4, <1>5 DEF Start, NodeOwed, Owing
  <1>6. ASSUME NEW p \in Proc, Kill(p) PROVE NodeOwed'
    BY <1>2, <1>4, <1>6 DEF Kill, NodeOwed
  <1>7. ASSUME NEW p \in Proc, Precheck(p) PROVE NodeOwed'
    BY <1>2, <1>4, <1>7 DEF Precheck, Exit, NodeOwed, Owing
  <1>8. ASSUME NEW p \in Proc, RestartHarmony(p) \/ OnExit(p) PROVE NodeOwed'
    BY <1>3, <1>4, <1>8 DEF RestartHarmony, OnExit
  <1>9. ASSUME NEW p \in Proc, Health(p) PROVE NodeOwed'
    BY <1>2, <1>4, <1>9 DEF Health, NodeOwed, Owing
  <1>10. ASSUME NEW p \in Proc,
                \/ ServiceStop(p) \/ WaitStopped(p) \/ CheckLock(p) \/ Launch(p) \/ CreatePartial(p)
                \/ RenameOutput(p) \/ ScannerFails(p) \/ PrintResult(p) \/ Validate(p) \/ NextScan(p)
         PROVE  NodeOwed'
    <2>1. PICK label \in Owing : Goto(p, label)
      <3>1. CASE ServiceStop(p) \/ WaitStopped(p) \/ CheckLock(p)
        BY <3>1 DEF ServiceStop, WaitStopped, CheckLock, Exit, Owing
      <3>2. CASE Launch(p) \/ CreatePartial(p) \/ RenameOutput(p)
        BY <3>2 DEF Launch, CreatePartial, RenameOutput, Exit, Owing
      <3>3. CASE ScannerFails(p) \/ PrintResult(p) \/ Validate(p) \/ NextScan(p)
        BY <3>3 DEF ScannerFails, PrintResult, Validate, NextScan, Exit, Owing
      <3> QED BY <1>10, <3>1, <3>2, <3>3
    <2>2. kills' = kills
      BY <1>10 DEF ServiceStop, WaitStopped, CheckLock, Launch, CreatePartial, RenameOutput,
                   ScannerFails, PrintResult, Validate, NextScan
    <2> QED BY <1>2, <1>4, <2>1, <2>2 DEF NodeOwed
  <1> QED BY <1>1, <1>5, <1>6, <1>7, <1>8, <1>9, <1>10
          DEF Next, WrapperStep, NodeStops, Quiet, vars

(* When every wrapper has ended and none was killed, Harmony runs, for every  *)
(* number of shells: the one that finds the lock of another's scanner leaves  *)
(* the start to that other.                                                   *)
THEOREM NodeComesUp == Spec => []NodeUpAtEnd
  <1>1. Init => NodeOwed
    BY DEF Init, NodeOwed, Label, Ended
  <1>2. NodeOwed => NodeUpAtEnd
    BY DEF NodeOwed, NodeUpAtEnd, Owing, Ended
  <1> QED BY <1>1, <1>2, NextOwed, PTL DEF Spec

-----------------------------------------------------------------------------
(***************************************************************************)
(* The packaging for every set of accounting trees and any number of edits *)
(* and failures. While the packager runs the tree stays as it is, and the  *)
(* entries it has and the mappings it has left are the files of that tree; *)
(* an index with a table was written by a packager that reached its end,   *)
(* since the indexer refuses tables.                                       *)
(***************************************************************************)

(* The names of a sequence of files. *)
Listed(s) == {s[i] : i \in 1..Len(s)}

(* What the packager writes for this accounting tree. *)
PackagedAs(t, e, F) ==
  /\ Accepted(t)
  /\ DOMAIN e = F
  /\ \A f \in F : t[f] # Absent /\ e[f] = Packaged(t, f)

PackageOf(R, e) == \E t \in R : PackagedAs(t, e, Listed(Mappings(t)))

(* A function from some results to their contents. *)
Files(e) == \E S \in SUBSET Results : e \in [S -> Contents]

(* A run writes the files of a tree that stays as it is; the entries are    *)
(* those behind it, the mapping has those ahead.                            *)
RunUnderWay ==
  at \in {"write", "replace"} =>
    /\ tree \in ran
    /\ PackagedAs(tree, entries, DOMAIN entries)
    /\ DOMAIN entries \cup Listed(mapping) = Listed(Mappings(tree))
    /\ at = "replace" => mapping # <<>> /\ tree[Head(mapping)] # Absent

(* An index with a table was written by a packager that reached its end.    *)
TableIndexed ==
  /\ at = "index" /\ "table" \in DOMAIN entries => PackageOf(ran, entries)
  /\ "table" \in DOMAIN index => PackageOf(ran, index)

(* The inductive invariant. *)
PackageInv == PackageTypeOK /\ RunUnderWay /\ TableIndexed

-----------------------------------------------------------------------------
(* Files and contents *)

(* The names are distinct; the evidence files are results. *)
LEMMA EvidenceNames ==
    /\ DOMAIN Evidence = 1..2 /\ Evidence[1] = "source-audit-summary" /\ Evidence[2] = "source-audit-verification"
    /\ Results = {"reconciliation", "table", "source-audit-summary", "source-audit-verification"}
    /\ Evidence \in Seq(Results)
    /\ Stray \notin Results /\ Index \notin Results /\ Index # Stray
  <1>1. DOMAIN Evidence = 1..2 /\ Evidence[1] = "source-audit-summary" /\ Evidence[2] = "source-audit-verification"
    BY DEF Evidence
  <1>2. Results = {"reconciliation", "table", "source-audit-summary", "source-audit-verification"}
    BY <1>1 DEF Results
  <1>3. Evidence \in Seq(Results)
    BY <1>2 DEF Evidence
  <1> QED BY <1>1, <1>2, <1>3 DEF Stray, Index

(* The split components. *)
LEMMA SplitNames ==
    /\ DOMAIN Split = 1..2 /\ Split[1] = "trace_proven" /\ Split[2] = "state_proven_debit_absence"
    /\ Components = {Legacy, "trace_proven", "state_proven_debit_absence"}
    /\ Legacy # Split[1] /\ Legacy # Split[2]
  <1>1. DOMAIN Split = 1..2 /\ Split[1] = "trace_proven" /\ Split[2] = "state_proven_debit_absence"
    BY DEF Split
  <1> QED BY <1>1 DEF Components, Legacy

(* The names that the labels use are those of the components. *)
LEMMA ComponentNames ==
    ASSUME NEW labelled, NEW c, c = cross_shard_component_names(labelled)
    PROVE  /\ {c[i] : i \in DOMAIN c} \subseteq Components
           /\ c # <<>> => {c[i] : i \in DOMAIN c} = labelled
           /\ c # <<>> /\ Legacy \notin labelled =>
                c # <<Legacy>> /\ labelled = {Split[1], Split[2]}
  <1>1. CASE labelled = {Legacy}
    <2>1. c = <<Legacy>>
      BY <1>1 DEF cross_shard_component_names
    <2>2. {c[i] : i \in DOMAIN c} = {Legacy}
      BY <2>1
    <2> QED BY <1>1, <2>1, <2>2, SplitNames
  <1>2. CASE labelled = Components \ {Legacy}
    <2>1. c = Split
      BY <1>2, SplitNames DEF cross_shard_component_names
    <2>2. {c[i] : i \in DOMAIN c} = {Split[1], Split[2]}
      BY <2>1, SplitNames
    <2>3. labelled = {Split[1], Split[2]}
      BY <1>2, SplitNames
    <2>4. Split # <<Legacy>>
      BY SplitNames
    <2> QED BY <2>1, <2>2, <2>3, <2>4, SplitNames
  <1>3. CASE labelled # {Legacy} /\ labelled # Components \ {Legacy}
    <2>1. c = <<>>
      BY <1>3 DEF cross_shard_component_names
    <2>2. {c[i] : i \in DOMAIN c} = {}
      BY <2>1
    <2> QED BY <2>1, <2>2
  <1> QED BY <1>1, <1>2, <1>3

(* A packaged file keeps its figure; in an accepted tree it keeps its       *)
(* components too, and it is a file.                                        *)
LEMMA PackagedFile ==
    ASSUME NEW t \in Trees, NEW f \in Results
    PROVE  /\ Packaged(t, f) \in Contents
           /\ Packaged(t, f).amount = t[f].amount
           /\ Accepted(t) => Packaged(t, f).names = t[f].names
           /\ t[f] # Absent => Packaged(t, f) # Absent
  <1>1. t[f] \in Contents
    BY TreesAssumption DEF TreesAssumption
  <1>2. CASE f # "reconciliation"
    BY <1>1, <1>2 DEF Packaged, correct_max_rate_labels, correct_migration_policy_labels
  <1>3. CASE f = "reconciliation"
    <2> DEFINE v == t[f]
               c == cross_shard_component_names(v.names)
               N == {c[i] : i \in DOMAIN c}
               w == [v EXCEPT !.label = "exposure", !.names = N]
               z == [w EXCEPT !.policy = "superseded"]
    <2>1. Packaged(t, f) = z
      BY <1>3 DEF Packaged, correct_max_rate_labels, correct_migration_policy_labels
    <2>2. N \subseteq Components /\ (c # <<>> => N = v.names)
      BY ComponentNames
    <2>3. Accepted(t) => c # <<>>
      BY <1>3 DEF Accepted
    <2> HIDE DEF c, N
    <2>4. v \in Contents
      BY <1>1
    <2> HIDE DEF v
    <2>5. z = [amount |-> v.amount, label |-> "exposure", policy |-> "superseded", names |-> N]
      <3>1. PICK a, l, p, n : v = [amount |-> a, label |-> l, policy |-> p, names |-> n]
        BY <2>4 DEF Contents
      <3>2. v.amount = a
        BY <3>1
      <3> DEFINE q == [v EXCEPT !.label = "exposure"]
      <3>3. q = [amount |-> a, label |-> "exposure", policy |-> p, names |-> n]
        BY <3>1
      <3>4. w = [q EXCEPT !.names = N]
        OBVIOUS
      <3> HIDE DEF q, w
      <3>5. w = [amount |-> a, label |-> "exposure", policy |-> p, names |-> N]
        BY <3>3, <3>4
      <3> QED BY <3>2, <3>5
    <2>6. z \in Contents /\ z.amount = v.amount /\ z.names = N /\ z.label = "exposure"
      BY <2>2, <2>4, <2>5 DEF Contents
    <2>7. z # Absent
      BY <2>6 DEF Absent
    <2> QED BY <2>1, <2>2, <2>3, <2>6, <2>7 DEF v
  <1> QED BY <1>2, <1>3

(* The files of a packaging. *)
LEMMA MappingFiles ==
    ASSUME NEW t
    PROVE  /\ Mappings(t) \in Seq(Results) /\ Len(Mappings(t)) <= 4 /\ Mappings(t) # <<>>
           /\ Listed(Mappings(t)) = {"reconciliation", "table"} \cup
                                     (IF EvidenceWanted(t) THEN {Evidence[1], Evidence[2]} ELSE {})
  <1> DEFINE e == IF EvidenceWanted(t) THEN Evidence ELSE <<>>
             s == <<"reconciliation">> \o e \o <<"table">>
  <1>1. Mappings(t) = s
    BY DEF Mappings
  <1>2. CASE EvidenceWanted(t)
    <2>1. e = <<"source-audit-summary", "source-audit-verification">>
      BY <1>2 DEF Evidence
    <2>2. s = <<"reconciliation">> \o <<"source-audit-summary", "source-audit-verification">> \o <<"table">>
      BY <2>1
    <2> HIDE DEF e, s
    <2>3. /\ Len(s) = 4 /\ s[1] = "reconciliation" /\ s[2] = "source-audit-summary"
          /\ s[3] = "source-audit-verification" /\ s[4] = "table" /\ s \in Seq(Results)
      BY <2>2, EvidenceNames
    <2>4. Listed(s) = {"reconciliation", "source-audit-summary", "source-audit-verification", "table"}
      <3>1. 1..Len(s) = {1, 2, 3, 4}
        BY <2>3
      <3> QED BY <2>3, <3>1 DEF Listed
    <2> QED BY <1>1, <1>2, <2>3, <2>4, EvidenceNames
  <1>3. CASE ~EvidenceWanted(t)
    <2>1. s = <<"reconciliation">> \o <<>> \o <<"table">>
      BY <1>3
    <2> HIDE DEF e, s
    <2>2. Len(s) = 2 /\ s[1] = "reconciliation" /\ s[2] = "table" /\ s \in Seq(Results)
      BY <2>1, EvidenceNames
    <2>3. Listed(s) = {"reconciliation", "table"}
      <3>1. 1..Len(s) = {1, 2}
        BY <2>2
      <3> QED BY <2>2, <3>1 DEF Listed
    <2> QED BY <1>1, <1>3, <2>2, <2>3
  <1> QED BY <1>2, <1>3

(* What is listed is the first and the rest. *)
LEMMA ListedRest ==
    ASSUME NEW s \in Seq(Results), s # <<>>
    PROVE  /\ Head(s) \in Results /\ Tail(s) \in Seq(Results) /\ Len(Tail(s)) = Len(s) - 1
           /\ Listed(s) = {Head(s)} \cup Listed(Tail(s))
  <1>1. /\ Len(s) \in Nat \ {0} /\ Head(s) = s[1] /\ Head(s) \in Results
        /\ Tail(s) \in Seq(Results) /\ Len(Tail(s)) = Len(s) - 1
        /\ \A i \in 1..Len(Tail(s)) : Tail(s)[i] = s[i + 1]
    OBVIOUS
  <1>2. \A f \in Listed(s) : f = Head(s) \/ f \in Listed(Tail(s))
    <2> TAKE f \in Listed(s)
    <2>1. PICK i \in 1..Len(s) : f = s[i]
      BY DEF Listed
    <2>2. CASE i = 1
      BY <1>1, <2>1, <2>2
    <2>3. CASE i # 1
      <3>1. i - 1 \in 1..Len(Tail(s)) /\ (i - 1) + 1 = i
        BY <1>1, <2>3
      <3>2. Tail(s)[i - 1] = f
        BY <1>1, <2>1, <3>1
      <3> QED BY <3>1, <3>2 DEF Listed
    <2> QED BY <2>2, <2>3
  <1>3. Head(s) \in Listed(s)
    BY <1>1 DEF Listed
  <1>4. \A f \in Listed(Tail(s)) : f \in Listed(s)
    <2> TAKE f \in Listed(Tail(s))
    <2>1. PICK i \in 1..Len(Tail(s)) : f = Tail(s)[i]
      BY DEF Listed
    <2>2. i + 1 \in 1..Len(s) /\ f = s[i + 1]
      BY <1>1, <2>1
    <2> QED BY <2>2 DEF Listed
  <1> QED BY <1>1, <1>2, <1>3, <1>4

-----------------------------------------------------------------------------
(* The invariant *)

(* The types, in terms of Files. *)
LEMMA PackageTypes ==
    PackageTypeOK <=>
               /\ tree \in Trees /\ dir \in [Names -> Contents]
               /\ partial \subseteq Results \cup {Index}
               /\ index = None \/ Files(index)
               /\ manifest = None \/ Files(manifest.files)
               /\ rowsPartial \in BOOLEAN
               /\ at \in {"idle", "write", "replace", "index", "manifest"}
               /\ overwrite \in BOOLEAN
               /\ mapping \in Seq(Results) /\ Len(mapping) <= 4
               /\ Files(entries)
               /\ ran \subseteq Trees
               /\ edits \in 0..MaxEdits
               /\ faults \in 0..MaxFaults
  BY DEF PackageTypeOK, Files

(* Nothing is a function without files. *)
LEMMA NoFiles ==
    Files(None) /\ DOMAIN None = {} /\ "table" \notin DOMAIN None
  <1>1. None \in [{} -> Contents] /\ DOMAIN None = {}
    BY DEF None
  <1> QED BY <1>1 DEF Files

(* More runs keep what is a package. *)
LEMMA PackageKept ==
    ASSUME NEW R, NEW Q, R \subseteq Q, NEW e, PackageOf(R, e)
    PROVE  PackageOf(Q, e)
  BY DEF PackageOf

(* A program that ends leaves nothing in memory. *)
LEMMA EndedKeeps ==
    ASSUME PackageEnded, PackageTypeOK, TableIndexed, UNCHANGED <<tree, dir, ran, edits>>,
           partial' \subseteq Results \cup {Index}, rowsPartial' \in BOOLEAN, faults' \in 0..MaxFaults,
           manifest' = None \/ Files(manifest'.files),
           Files(index'), "table" \in DOMAIN index' => PackageOf(ran, index')
    PROVE  PackageInv'
  <1>1. at' = "idle" /\ overwrite' = FALSE /\ mapping' = <<>> /\ entries' = None
    BY DEF PackageEnded
  <1>2. mapping' \in Seq(Results) /\ Len(mapping') <= 4
    BY <1>1
  <1>3. Files(entries')
    BY <1>1, NoFiles
  <1>4. PackageTypeOK'
    BY <1>1, <1>2, <1>3, PackageTypes DEF PackageTypeOK, Files
  <1>5. RunUnderWay'
    BY <1>1 DEF RunUnderWay
  <1>6. TableIndexed'
    BY <1>1 DEF TableIndexed
  <1> QED BY <1>4, <1>5, <1>6 DEF PackageInv

(* What an invariant state offers. *)
LEMMA Facts ==
    ASSUME PackageInv
    PROVE  /\ tree \in Trees /\ dir \in [Names -> Contents] /\ partial \subseteq Results \cup {Index}
           /\ Files(index) /\ (manifest = None \/ Files(manifest.files))
           /\ rowsPartial \in BOOLEAN /\ overwrite \in BOOLEAN
           /\ mapping \in Seq(Results) /\ Len(mapping) <= 4
           /\ Files(entries) /\ ran \subseteq Trees
           /\ edits \in 0..MaxEdits /\ faults \in 0..MaxFaults
           /\ PackageTypeOK /\ RunUnderWay /\ TableIndexed
           /\ "table" \in DOMAIN index => PackageOf(ran, index)
  BY PackageTypes, NoFiles DEF PackageInv, TableIndexed

(* A packaging starts. *)
LEMMA StartPackageKeeps == ASSUME PackageInv, StartPackage PROVE PackageInv'
  <1>1. /\ tree' = tree /\ mapping' = Mappings(tree) /\ entries' = None /\ at' = "write" /\ overwrite' \in BOOLEAN
        /\ ran' = ran \cup {tree} /\ index' = index /\ Accepted(tree)
        /\ UNCHANGED <<dir, partial, manifest, rowsPartial, edits, faults>>
    BY DEF StartPackage
  <1>2. mapping' \in Seq(Results) /\ Len(mapping') <= 4
    BY <1>1, MappingFiles
  <1>3. PackageTypeOK'
    BY <1>1, <1>2, Facts, NoFiles DEF PackageTypeOK, Files
  <1>4. RunUnderWay'
    BY <1>1, NoFiles DEF RunUnderWay, PackagedAs
  <1>5. TableIndexed'
    BY <1>1, Facts, PackageKept DEF TableIndexed
  <1> QED BY <1>3, <1>4, <1>5 DEF PackageInv

(* A file is written under its partial name. *)
LEMMA WritePartialKeeps == ASSUME PackageInv, WritePartial PROVE PackageInv'
  <1>1. /\ at = "write" /\ at' = "replace" /\ mapping # <<>> /\ tree[Head(mapping)] # Absent
        /\ partial' = partial \cup {Head(mapping)}
        /\ UNCHANGED <<tree, dir, index, manifest, rowsPartial, overwrite, mapping, entries, ran, edits, faults>>
    BY DEF WritePartial, MayWrite
  <1>2. Head(mapping) \in Results
    BY <1>1, Facts, ListedRest
  <1>3. PackageTypeOK'
    BY <1>1, <1>2, Facts DEF PackageTypeOK, Files
  <1>4. RunUnderWay'
    BY <1>1, Facts DEF RunUnderWay
  <1>5. TableIndexed'
    BY <1>1, Facts DEF TableIndexed
  <1> QED BY <1>3, <1>4, <1>5 DEF PackageInv

(* A partial file replaces its target. *)
LEMMA ReplaceTargetKeeps == ASSUME PackageInv, ReplaceTarget PROVE PackageInv'
  <1> DEFINE f == Head(mapping)
             x == Packaged(tree, f)
  <1>1. /\ at = "replace" /\ at' = "write" /\ mapping' = Tail(mapping)
        /\ dir' = [dir EXCEPT ![f] = x] /\ partial' = partial \ {f}
        /\ entries' = [g \in DOMAIN entries \cup {f} |-> IF g = f THEN dir'[f] ELSE entries[g]]
        /\ UNCHANGED <<tree, index, manifest, rowsPartial, overwrite, ran, edits, faults>>
    BY DEF ReplaceTarget
  <1>2. mapping # <<>> /\ tree[f] # Absent /\ tree \in ran /\ PackagedAs(tree, entries, DOMAIN entries)
        /\ DOMAIN entries \cup Listed(mapping) = Listed(Mappings(tree))
    BY <1>1, Facts DEF RunUnderWay
  <1>3. /\ f \in Results /\ mapping' \in Seq(Results) /\ Len(mapping') <= 4
        /\ Listed(mapping) = {f} \cup Listed(mapping')
    BY <1>1, <1>2, Facts, ListedRest
  <1>4. x \in Contents /\ f \in Names /\ dir'[f] = x
    BY <1>1, <1>3, Facts, PackagedFile DEF Names
  <1>5. dir' \in [Names -> Contents]
    BY <1>1, <1>4, Facts
  <1> HIDE DEF f, x
  <1>6. /\ Files(entries') /\ DOMAIN entries' = DOMAIN entries \cup {f} /\ entries'[f] = x
        /\ \A h \in DOMAIN entries : h # f => entries'[h] = entries[h]
    <2>1. entries' = [h \in DOMAIN entries \cup {f} |-> IF h = f THEN x ELSE entries[h]]
      BY <1>1, <1>4
    <2>2. PICK S \in SUBSET Results : entries \in [S -> Contents]
      BY Facts DEF Files
    <2>3. entries' \in [S \cup {f} -> Contents] /\ S \cup {f} \in SUBSET Results
      BY <1>3, <1>4, <2>1, <2>2
    <2>4. Files(entries')
      BY <2>3 DEF Files
    <2> QED BY <2>1, <2>4
  <1>7. PackageTypeOK'
    BY <1>1, <1>3, <1>5, <1>6, Facts DEF PackageTypeOK, Files
  <1>8. RunUnderWay'
    <2>1. PackagedAs(tree, entries', DOMAIN entries')
      BY <1>2, <1>6 DEF PackagedAs, x
    <2>2. DOMAIN entries' \cup Listed(mapping') = Listed(Mappings(tree))
      BY <1>2, <1>3, <1>6
    <2> QED BY <1>1, <1>2, <2>1, <2>2 DEF RunUnderWay
  <1>9. TableIndexed'
    BY <1>1, Facts DEF TableIndexed
  <1> QED BY <1>7, <1>8, <1>9 DEF PackageInv

(* Nothing is listed in an empty mapping. *)
LEMMA ListedNothing == Listed(<<>>) = {}
  BY DEF Listed

(* The index of a packaging has every file of it. *)
LEMMA WriteIndexPartialKeeps == ASSUME PackageInv, WriteIndexPartial PROVE PackageInv'
  <1>1. /\ at = "write" /\ mapping = <<>> /\ partial' = partial \cup {Index} /\ at' = "index"
        /\ UNCHANGED <<tree, dir, index, manifest, rowsPartial, overwrite, mapping, entries, ran, edits, faults>>
    BY DEF WriteIndexPartial
  <1>2. PackageTypeOK'
    BY <1>1, Facts DEF PackageTypeOK, Files
  <1>3. RunUnderWay'
    BY <1>1 DEF RunUnderWay
  <1>4. PackageOf(ran, entries)
    <2>1. tree \in ran /\ PackagedAs(tree, entries, DOMAIN entries) /\ DOMAIN entries = Listed(Mappings(tree))
      BY <1>1, Facts, ListedNothing DEF RunUnderWay
    <2> QED BY <2>1 DEF PackageOf
  <1>5. TableIndexed'
    BY <1>1, <1>4, Facts DEF TableIndexed
  <1> QED BY <1>2, <1>3, <1>5 DEF PackageInv

(* The index is renamed, by either program. *)
LEMMA ReplaceIndexKeeps == ASSUME PackageInv, ReplaceIndex PROVE PackageInv'
  <1>1. /\ at = "index" /\ index' = entries /\ partial' = partial \ {Index} /\ PackageEnded
        /\ UNCHANGED <<tree, dir, manifest, rowsPartial, ran, edits, faults>>
    BY DEF ReplaceIndex
  <1>2. "table" \in DOMAIN entries => PackageOf(ran, entries)
    BY <1>1, Facts DEF TableIndexed
  <1> QED BY <1>1, <1>2, Facts, EndedKeeps

(* A refused run. *)
LEMMA RefusedKeeps == ASSUME PackageInv, Refused PROVE PackageInv'
  <1>1. PackageEnded /\ UNCHANGED <<tree, dir, partial, index, manifest, rowsPartial, ran, edits, faults>>
    BY DEF Refused
  <1> QED BY <1>1, Facts, EndedKeeps

(* The indexer takes what it finds, but no table. *)
LEMMA StartIndexKeeps == ASSUME PackageInv, StartIndex PROVE PackageInv'
  <1>1. /\ at' = "index" /\ entries' = [f \in Present |-> dir[f]] /\ partial' = {Index}
        /\ \A f \in Present : Indexable(f)
        /\ UNCHANGED <<tree, dir, index, manifest, rowsPartial, overwrite, mapping, ran, edits, faults>>
    BY DEF StartIndex
  <1>2. Present \in SUBSET Results /\ "table" \notin Present
    BY <1>1 DEF Present, Indexable, Names
  <1>3. Files(entries') /\ DOMAIN entries' = Present
    <2>1. entries' \in [Present -> Contents]
      BY <1>1, <1>2, Facts DEF Names
    <2> QED BY <1>2, <2>1 DEF Files
  <1>4. PackageTypeOK'
    BY <1>1, <1>3, Facts DEF PackageTypeOK, Files
  <1>5. RunUnderWay'
    BY <1>1 DEF RunUnderWay
  <1>6. TableIndexed'
    BY <1>1, <1>2, <1>3, Facts DEF TableIndexed
  <1> QED BY <1>4, <1>5, <1>6 DEF PackageInv

(* The manifest has the files of the index. *)
LEMMA StartManifestKeeps == ASSUME PackageInv, StartManifest PROVE PackageInv'
  <1>1. /\ at' = "manifest" /\ entries' = [f \in DOMAIN index |-> dir[f]] /\ rowsPartial' = TRUE
        /\ UNCHANGED <<tree, dir, partial, index, manifest, overwrite, mapping, ran, edits, faults>>
    BY DEF StartManifest
  <1>2. PICK S \in SUBSET Results : index \in [S -> Contents]
    BY Facts DEF Files
  <1>3. Files(entries')
    <2>1. entries' \in [S -> Contents]
      BY <1>1, <1>2, Facts DEF Names
    <2> QED BY <2>1 DEF Files
  <1>4. PackageTypeOK'
    BY <1>1, <1>3, Facts DEF PackageTypeOK, Files
  <1>5. RunUnderWay'
    BY <1>1 DEF RunUnderWay
  <1>6. TableIndexed'
    BY <1>1, Facts DEF TableIndexed
  <1> QED BY <1>4, <1>5, <1>6 DEF PackageInv

(* The manifest is renamed. *)
LEMMA ReplaceManifestKeeps == ASSUME PackageInv, ReplaceManifest PROVE PackageInv'
  <1>1. /\ manifest' = [files |-> entries, index |-> index] /\ rowsPartial' = FALSE /\ PackageEnded
        /\ UNCHANGED <<tree, dir, partial, index, ran, edits, faults>>
    BY DEF ReplaceManifest
  <1>2. Files(manifest'.files)
    BY <1>1, Facts
  <1> QED BY <1>1, <1>2, Facts, EndedKeeps

(* A program dies. *)
LEMMA DiesKeeps == ASSUME PackageInv, Dies PROVE PackageInv'
  <1>1. /\ PackageEnded /\ faults < MaxFaults /\ faults' = faults + 1
        /\ UNCHANGED <<tree, dir, partial, index, manifest, rowsPartial, ran, edits>>
    BY DEF Dies
  <1>2. faults' \in 0..MaxFaults
    BY <1>1, Facts, BoundAssumption DEF BoundAssumption
  <1> QED BY <1>1, <1>2, Facts, EndedKeeps

(* What the operator does while no program runs. *)
LEMMA OperatorKeeps ==
    ASSUME PackageInv, EditTree \/ RemovePartials \/ PutByHand \/ RemoveByHand
    PROVE  PackageInv'
  <1>1. /\ at = "idle" /\ UNCHANGED <<index, manifest, run, ran>>
        /\ at' = at /\ overwrite' = overwrite /\ mapping' = mapping /\ entries' = entries
    BY DEF EditTree, RemovePartials, PutByHand, RemoveByHand, run
  <1>2. /\ tree' \in Trees /\ partial' \subseteq Results \cup {Index} /\ rowsPartial' \in BOOLEAN
        /\ edits' \in 0..MaxEdits /\ faults' \in 0..MaxFaults
    <2>1. CASE EditTree
      BY <2>1, Facts, BoundAssumption DEF EditTree, BoundAssumption
    <2>2. CASE RemovePartials
      BY <2>2, Facts DEF RemovePartials
    <2>3. CASE PutByHand \/ RemoveByHand
      BY <2>3, Facts, BoundAssumption DEF PutByHand, RemoveByHand, BoundAssumption
    <2> QED BY <2>1, <2>2, <2>3
  <1>3. dir' \in [Names -> Contents]
    <2>1. StrayContent \in Contents /\ Absent \in Contents
      <3>1. Absent \in Contents
        BY DEF Absent, Contents
      <3>2. StrayContent = [amount |-> 1, label |-> "none", policy |-> "none", names |-> {}]
        BY DEF StrayContent, Absent
      <3> QED BY <3>1, <3>2 DEF Contents
    <2>2. CASE EditTree \/ RemovePartials
      BY <2>2, Facts DEF EditTree, RemovePartials
    <2>3. CASE PutByHand
      BY <2>1, <2>3, Facts DEF PutByHand
    <2>4. CASE RemoveByHand
      BY <2>1, <2>4, Facts DEF RemoveByHand
    <2> QED BY <2>2, <2>3, <2>4
  <1>4. PackageTypeOK'
    BY <1>1, <1>2, <1>3, Facts DEF PackageTypeOK, Files
  <1>5. RunUnderWay'
    BY <1>1 DEF RunUnderWay
  <1>6. TableIndexed'
    BY <1>1, Facts DEF TableIndexed
  <1> QED BY <1>4, <1>5, <1>6 DEF PackageInv

(* The initial state. *)
LEMMA InitKeeps == ASSUME PackageInit PROVE PackageInv
  <1>1. Absent \in Contents
    BY DEF Absent, Contents
  <1>2. /\ tree \in Trees /\ dir = [f \in Names |-> Absent] /\ partial = {} /\ rowsPartial = FALSE
        /\ index = None /\ manifest = None /\ at = "idle" /\ overwrite = FALSE /\ mapping = <<>>
        /\ entries = None /\ ran = {} /\ edits = 0 /\ faults = 0
    BY DEF PackageInit
  <1>3. dir \in [Names -> Contents] /\ mapping \in Seq(Results) /\ Len(mapping) <= 4
    BY <1>1, <1>2
  <1>4. PackageTypeOK
    <2>1. edits \in 0..MaxEdits /\ faults \in 0..MaxFaults
      BY <1>2, BoundAssumption DEF BoundAssumption
    <2>2. Files(entries) /\ ran \subseteq Trees /\ partial \subseteq Results \cup {Index}
      BY <1>2, NoFiles
    <2> QED BY <1>2, <1>3, <2>1, <2>2, PackageTypes
  <1>5. RunUnderWay /\ TableIndexed
    BY <1>2, NoFiles DEF RunUnderWay, TableIndexed
  <1> QED BY <1>4, <1>5 DEF PackageInv

(* Every step. *)
LEMMA StepKeeps == ASSUME PackageInv, [PackageNext]_packageVars PROVE PackageInv'
  <1>1. CASE UNCHANGED packageVars
    <2>1. UNCHANGED <<tree, dir, partial, index, manifest, rowsPartial, at, overwrite, mapping, entries, ran, edits, faults>>
      BY <1>1 DEF packageVars
    <2>2. PackageTypeOK'
      BY <2>1, Facts DEF PackageTypeOK, Files
    <2>3. RunUnderWay' /\ TableIndexed'
      BY <2>1, Facts DEF RunUnderWay, TableIndexed
    <2> QED BY <2>2, <2>3 DEF PackageInv
  <1>2. CASE PackageNext
    <2>1. CASE StartPackage
      BY <2>1, StartPackageKeeps
    <2>2. CASE WritePartial
      BY <2>2, WritePartialKeeps
    <2>3. CASE ReplaceTarget
      BY <2>3, ReplaceTargetKeeps
    <2>4. CASE WriteIndexPartial
      BY <2>4, WriteIndexPartialKeeps
    <2>5. CASE ReplaceIndex
      BY <2>5, ReplaceIndexKeeps
    <2>6. CASE Refused
      BY <2>6, RefusedKeeps
    <2>7. CASE StartIndex
      BY <2>7, StartIndexKeeps
    <2>8. CASE StartManifest
      BY <2>8, StartManifestKeeps
    <2>9. CASE ReplaceManifest
      BY <2>9, ReplaceManifestKeeps
    <2>10. CASE Dies
      BY <2>10, DiesKeeps
    <2>11. CASE EditTree \/ RemovePartials \/ PutByHand \/ RemoveByHand
      BY <2>11, OperatorKeeps
    <2> QED BY <1>2, <2>1, <2>2, <2>3, <2>4, <2>5, <2>6, <2>7, <2>8, <2>9, <2>10, <2>11 DEF PackageNext
  <1> QED BY <1>1, <1>2

(* The invariant holds. *)
THEOREM PackageInvariant == PackageSpec => []PackageInv
  <1>1. PackageInit => PackageInv
    BY InitKeeps
  <1>2. PackageInv /\ [PackageNext]_packageVars => PackageInv'
    BY StepKeeps
  <1> QED BY <1>1, <1>2, PTL DEF PackageSpec

-----------------------------------------------------------------------------
(* What a verified set with a table is *)

(* It is the package of one of the trees that were packaged. *)
LEMMA VerifiedPackage ==
    ASSUME PackageInv, VerifyResults, "table" \in Present
    PROVE  \E t \in ran : /\ t \in Trees /\ Accepted(t)
                         /\ Present = Listed(Mappings(t))
                         /\ \A f \in Present : t[f] # Absent /\ dir[f] = Packaged(t, f)
  <1>1. Present \subseteq DOMAIN index /\ \A f \in DOMAIN index : dir[f] = index[f]
    BY DEF VerifyResults, IndexAgrees
  <1>2. PICK t \in ran : PackagedAs(t, index, Listed(Mappings(t)))
    BY <1>1, Facts DEF PackageOf
  <1>3. /\ Accepted(t) /\ DOMAIN index = Listed(Mappings(t))
        /\ \A f \in Listed(Mappings(t)) : t[f] # Absent /\ index[f] = Packaged(t, f)
    BY <1>2 DEF PackagedAs
  <1>4. t \in Trees
    BY Facts
  <1>5. Listed(Mappings(t)) \subseteq Results
    BY MappingFiles, EvidenceNames
  <1>6. Listed(Mappings(t)) \subseteq Present
    <2> SUFFICES ASSUME NEW f \in Listed(Mappings(t)) PROVE f \in Present
      OBVIOUS
    <2>1. f \in Results /\ t[f] # Absent /\ dir[f] = Packaged(t, f)
      BY <1>1, <1>3, <1>5
    <2>2. dir[f] # Absent
      BY <1>4, <2>1, PackagedFile
    <2> QED BY <2>1, <2>2 DEF Present, Names
  <1> QED BY <1>1, <1>3, <1>4, <1>6

(* Both properties hold where the invariant does. *)
LEMMA VerifiedOneRunHolds == ASSUME PackageInv PROVE VerifiedOneRun
  <1> SUFFICES ASSUME VerifyResults, "table" \in Present
               PROVE  \E t \in ran :
                        /\ Present = {f \in Results : t[f] # Absent}
                        /\ \A f \in Present : dir[f].amount = t[f].amount /\ dir[f].names = t[f].names
    BY Facts DEF VerifiedOneRun
  <1>1. PICK t \in ran : /\ t \in Trees /\ Accepted(t)
                        /\ Present = Listed(Mappings(t))
                        /\ \A f \in Present : t[f] # Absent /\ dir[f] = Packaged(t, f)
    BY VerifiedPackage
  <1>2. Present \subseteq Results
    BY <1>1, MappingFiles, EvidenceNames
  <1>3. \A f \in Present : dir[f].amount = t[f].amount /\ dir[f].names = t[f].names
    BY <1>1, <1>2, PackagedFile
  <1>4. \A f \in Results : t[f] # Absent => f \in Present
    <2> SUFFICES ASSUME NEW f \in Results, t[f] # Absent PROVE f \in Present
      OBVIOUS
    <2>1. CASE f \in {"reconciliation", "table"}
      BY <1>1, <2>1, MappingFiles
    <2>2. CASE f \in {Evidence[1], Evidence[2]}
      <3>1. EvidenceWanted(t)
        BY <2>2, EvidenceNames DEF EvidenceWanted, EvidenceExists
      <3> QED BY <1>1, <2>2, <3>1, MappingFiles
    <2> QED BY <2>1, <2>2, EvidenceNames
  <1>5. Present = {f \in Results : t[f] # Absent}
    BY <1>1, <1>2, <1>4
  <1> QED BY <1>3, <1>5

LEMMA EvidenceShippedHolds == ASSUME PackageInv PROVE EvidenceShipped
  <1> SUFFICES ASSUME VerifyResults, {"reconciliation", "table"} \subseteq Present,
                      Legacy \notin dir["reconciliation"].names
               PROVE  /\ \A i \in DOMAIN Evidence : Evidence[i] \in Present
                      /\ \A i \in DOMAIN Split : Split[i] \in dir["reconciliation"].names
    BY DEF EvidenceShipped
  <1>1. PICK t \in ran : /\ t \in Trees /\ Accepted(t)
                        /\ Present = Listed(Mappings(t))
                        /\ \A f \in Present : t[f] # Absent /\ dir[f] = Packaged(t, f)
    BY VerifiedPackage
  <1> DEFINE labelled == t["reconciliation"].names
             c == cross_shard_component_names(labelled)
  <1>2. dir["reconciliation"].names = labelled
    BY <1>1, PackagedFile, EvidenceNames
  <1>3. c # <<>>
    BY <1>1 DEF Accepted
  <1>4. c # <<Legacy>> /\ labelled = {Split[1], Split[2]}
    <2> HIDE DEF labelled
    <2> QED BY <1>2, <1>3, ComponentNames
  <1>5. EvidenceWanted(t)
    BY <1>4 DEF EvidenceWanted
  <1>6. Evidence[1] \in Present /\ Evidence[2] \in Present
    BY <1>1, <1>5, MappingFiles
  <1> HIDE DEF c, labelled
  <1> QED BY <1>2, <1>4, <1>6, EvidenceNames, SplitNames

(* A verified set that holds the table is the package of one accounting      *)
(* tree, after any sequence of runs, deaths, indexings and changes by hand.  *)
THEOREM VerifiedIsOneRun == PackageSpec => []VerifiedOneRun
  BY PackageInvariant, VerifiedOneRunHolds, PTL

(* A verified set with a split reconciliation has both evidence files.       *)
THEOREM EvidenceIsShipped == PackageSpec => []EvidenceShipped
  BY PackageInvariant, EvidenceShippedHolds, PTL

=============================================================================
