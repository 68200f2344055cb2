----------------------------- MODULE ArchiveRun -----------------------------
(***************************************************************************)
(* repro/as-run/2026-09-08-11: the wrappers that stop Harmony, run the     *)
(* scanners against its cold database, publish their outputs and start     *)
(* Harmony again, whatever happens.  Several operators may have a wrapper  *)
(* running, a wrapper or its scanner may be killed, and a wrapper may be   *)
(* run again over what an earlier run left behind.                         *)
(***************************************************************************)
EXTENDS Naturals, Sequences, FiniteSets, Functions

CONSTANTS
    Proc,           \* operators' shells
    Manifest,       \* labels of the manifest of a batch, in order
    MaxRuns,        \* bound: wrapper runs of all shells
    MaxKills        \* bound: shells killed

(* The labels of a batch are different, and the operators do not give a batch *)
(* the label of a single scan.                                                *)
ASSUME ManifestAssumption ==
    /\ Manifest \in Seq(STRING) /\ Manifest # <<>>
    /\ IsInjective(Manifest)
    /\ \A i \in DOMAIN Manifest : Manifest[i] \notin {"scan", "recovery"}
ASSUME RunAssumption == MaxRuns \in Nat /\ MaxKills \in Nat /\ IsFiniteSet(Proc)

(* A file is named by the kind of scan, a label and an extension. *)
File(kind, label, extension) == <<kind, label, extension>>
NoFile == File("none", "none", "none")

(* One scanner command: out is the file the scanner publishes itself through *)
(* out.partial, stdout the file its standard output goes to: "final" (or tee) *)
(* straight to its name, "staged" to stdout.partial, validated and moved.     *)
Scan(out, stdout, how) == [out |-> out, stdout |-> stdout, how |-> how]

(* fresh: names that must not exist; upFirst: Harmony must be running first.  *)
Wrapper(fresh, upFirst, scans) == [fresh |-> fresh, upFirst |-> upFirst, scans |-> scans]

Final(f) == <<f, "final">>
Partial(f) == <<f, "partial">>
Both(f) == {Final(f), Partial(f)}

SupplyScan(l) == Scan(File("supply", l, "json"), NoFile, "none")
RewardRead(l) == Scan(NoFile, File("block-reward", l, "json"), "final")
CheckpointFresh(l) == Both(File("supply", l, "json")) \cup {Final(File("block-reward", l, "json"))}

checkpoint_scan ==
    Wrapper(CheckpointFresh("scan"), FALSE, <<SupplyScan("scan"), RewardRead("scan")>>)

scan_batch ==
    Wrapper(UNION {CheckpointFresh(Manifest[i]) : i \in DOMAIN Manifest}, FALSE,
            [k \in 1..(2 * Len(Manifest)) |-> IF k % 2 = 1 THEN SupplyScan(Manifest[(k + 1) \div 2])
                                                           ELSE RewardRead(Manifest[k \div 2])])

recovery_root_scan ==
    Wrapper(Both(File("supply", "recovery", "json")), FALSE, <<SupplyScan("recovery")>>)

recovery_reward ==
    Wrapper({Final(File("block-reward", "recovery", "json"))}, FALSE, <<RewardRead("recovery")>>)

(* A CSV scanner whose standard output is kept by tee. *)
LoggedScan(kind, l) == Scan(File(kind, l, "csv"), File(kind, l, "log"), "final")
LoggedFresh(kind, l) == Both(File(kind, l, "csv")) \cup {Final(File(kind, l, "log"))}

cx_replay_scan == Wrapper(LoggedFresh("cx", "scan"), FALSE, <<LoggedScan("cx", "scan")>>)

cx_replay_batch ==
    Wrapper(UNION {LoggedFresh("cx", Manifest[i]) : i \in DOMAIN Manifest}, FALSE,
            [i \in DOMAIN Manifest |-> LoggedScan("cx", Manifest[i])])

outgoing_cx_scan == Wrapper(LoggedFresh("outgoing", "shard0"), FALSE, <<LoggedScan("outgoing", "shard0")>>)

state_diff == Wrapper(LoggedFresh("diff", "diff"), FALSE, <<LoggedScan("diff", "diff")>>)

(* hip30-recovery-issuance prints its result; the wrapper stages it. *)
StagedScan(l) == Scan(NoFile, File("hip30", l, "json"), "staged")

hip30_issuance == Wrapper(Both(File("hip30", "all", "json")), TRUE, <<StagedScan("all")>>)

hip30_window == Wrapper(Both(File("hip30", "window", "json")), TRUE, <<StagedScan("window")>>)

Windows == <<"oct2024", "sep2025", "prebloom", "cutoff">>

hip30_intervals ==
    Wrapper(UNION {Both(File("hip30", Windows[n], "json")) : n \in DOMAIN Windows}, TRUE,
            [n \in DOMAIN Windows |-> StagedScan(Windows[n])])

(* The staking audits publish a CSV themselves and their summary is staged. *)
staking_target ==
    Wrapper(Both(File("targets", "post2023", "csv")) \cup Both(File("targets", "post2023", "json")), TRUE,
            <<Scan(File("targets", "post2023", "csv"), File("targets", "post2023", "json"), "staged")>>)

staking_precompile ==
    Wrapper(Both(File("precompile", "post2023", "csv")) \cup Both(File("precompile", "post2023", "json")), TRUE,
            <<Scan(File("precompile", "post2023", "csv"), File("precompile", "post2023", "json"), "staged")>>)

Wrappers ==
    [checkpoint_scan |-> checkpoint_scan, scan_batch |-> scan_batch,
     recovery_root_scan |-> recovery_root_scan, recovery_reward |-> recovery_reward,
     cx_replay_scan |-> cx_replay_scan, cx_replay_batch |-> cx_replay_batch,
     outgoing_cx_scan |-> outgoing_cx_scan, state_diff |-> state_diff,
     hip30_issuance |-> hip30_issuance, hip30_window |-> hip30_window,
     hip30_intervals |-> hip30_intervals, staking_target |-> staking_target,
     staking_precompile |-> staking_precompile]

-----------------------------------------------------------------------------
VARIABLES
    prog,       \* the wrapper of each shell
    pc,         \* where it is
    step,       \* index of the scan of its wrapper it is at
    runs,       \* runs of it started
    kills,      \* shells killed so far
    node,       \* Harmony: "up", "stopping", "down"
    names       \* contents of the names that exist: complete or not, and whose

vars == <<prog, pc, step, runs, kills, node, names>>

Scans(p) == Wrappers[prog[p]].scans
Now(p) == Scans(p)[step[p]]
Exists(n) == n \in DOMAIN names
Started == SumFunctionOnSet(runs, Proc)

Content(p, whole) == [whole |-> whole, by |-> <<p, runs[p]>>]
Put(n, content) == [x \in DOMAIN names \cup {n} |-> IF x = n THEN content ELSE names[x]]
Move(from, to) ==
    [x \in (DOMAIN names \ {from}) \cup {to} |-> IF x = to THEN names[from] ELSE names[x]]
Delete(n) == [x \in DOMAIN names \ {n} |-> names[x]]

Reading == {"open", "read", "print"}        \* a scanner has the database open
LockHeld(p) == node # "down" \/ \E q \in Proc \ {p} : pc[q] \in Reading

Init ==
    /\ prog \in [Proc -> DOMAIN Wrappers]
    /\ \A p, q \in Proc : p # q => prog[p] # prog[q]
    /\ pc = [p \in Proc |-> "idle"]
    /\ step = [p \in Proc |-> 1]
    /\ runs = [p \in Proc |-> 0]
    /\ kills = 0
    /\ node = "up"
    /\ names = <<>>

Goto(p, label) == pc' = [pc EXCEPT ![p] = label]

(* Mutant: no EXIT trap is set. *)
ExitUntrapped(p) == Goto(p, "failed")

(* set -e and the checks end here: the EXIT trap starts Harmony. *)
Exit(p) == Goto(p, "on_exit")

Start(p) ==
    /\ pc[p] \in {"idle", "ok", "failed", "killed"} /\ Started < MaxRuns
    /\ Goto(p, "precheck")
    /\ runs' = [runs EXCEPT ![p] = @ + 1]
    /\ step' = [step EXCEPT ![p] = 1]
    /\ UNCHANGED <<prog, kills, node, names>>

(* Mutant: outputs of an earlier run are not looked for. *)
PrecheckStale(p) ==
    /\ pc[p] = "precheck"
    /\ \/ (Wrappers[prog[p]].upFirst => node = "up") /\ Goto(p, "stop")
       \/ Exit(p)
    /\ UNCHANGED <<prog, step, runs, kills, node, names>>

(* User, binary, hash and manifest checks may fail for reasons of their own. *)
Precheck(p) ==
    /\ pc[p] = "precheck"
    /\ LET w == Wrappers[prog[p]]
       IN  \/ /\ \A n \in w.fresh : ~Exists(n)
              /\ w.upFirst => node = "up"
              /\ Goto(p, "stop")
           \/ Exit(p)
    /\ UNCHANGED <<prog, step, runs, kills, node, names>>

ServiceStop(p) ==
    /\ pc[p] = "stop"
    /\ node' = IF node = "up" THEN "stopping" ELSE node
    /\ Goto(p, "wait")
    /\ UNCHANGED <<prog, step, runs, kills, names>>

(* Mutant: the wait for Harmony to stop has no limit. *)
WaitForever(p) ==
    /\ pc[p] = "wait"
    /\ node = "down" /\ Goto(p, "lock")
    /\ UNCHANGED <<prog, step, runs, kills, node, names>>

(* pgrep finds no Harmony, or still does after 180 seconds. *)
WaitStopped(p) ==
    /\ pc[p] = "wait"
    /\ \/ node = "down" /\ Goto(p, "lock")
       \/ node # "down" /\ Exit(p)
    /\ UNCHANGED <<prog, step, runs, kills, node, names>>

CheckLock(p) ==
    /\ pc[p] = "lock"
    /\ IF LockHeld(p) THEN Exit(p) ELSE Goto(p, "scan")
    /\ UNCHANGED <<prog, step, runs, kills, node, names>>

(* The shell opens the redirection, the scanner the database. *)
Launch(p) ==
    /\ pc[p] = "scan" /\ step[p] <= Len(Scans(p))
    /\ names' = CASE Now(p).how = "final" -> Put(Final(Now(p).stdout), Content(p, FALSE))
                  [] Now(p).how = "staged" -> Put(Partial(Now(p).stdout), Content(p, FALSE))
                  [] OTHER -> names
    /\ IF node # "down" THEN Exit(p) ELSE Goto(p, "open")
    /\ UNCHANGED <<prog, step, runs, kills, node>>

(* Mutant: the scanner writes to the final name. *)
CreateFinal(p) ==
    /\ pc[p] = "open"
    /\ IF Now(p).out = NoFile
       THEN Goto(p, "print") /\ names' = names
       ELSE Goto(p, "read") /\ names' = Put(Final(Now(p).out), Content(p, FALSE))
    /\ UNCHANGED <<prog, step, runs, kills, node>>

(* The output is created with O_EXCL. *)
CreatePartial(p) ==
    /\ pc[p] = "open"
    /\ IF Now(p).out = NoFile
       THEN Goto(p, "print") /\ names' = names
       ELSE IF Exists(Partial(Now(p).out))
       THEN Exit(p) /\ names' = names
       ELSE Goto(p, "read") /\ names' = Put(Partial(Now(p).out), Content(p, FALSE))
    /\ UNCHANGED <<prog, step, runs, kills, node>>

(* Written, synced, closed and renamed to its final name. *)
RenameOutput(p) ==
    /\ pc[p] = "read"
    /\ names' = [Move(Partial(Now(p).out), Final(Now(p).out))
                    EXCEPT ![Final(Now(p).out)] = Content(p, TRUE)]
    /\ Goto(p, "print")
    /\ UNCHANGED <<prog, step, runs, kills, node>>

(* A scanner that fails removes its partial file or, when it exits through   *)
(* fatalf without running its deferred calls, leaves it.                     *)
ScannerFails(p) ==
    /\ pc[p] \in Reading
    /\ \/ names' = names
       \/ pc[p] = "read" /\ names' = Delete(Partial(Now(p).out))
    /\ Exit(p)
    /\ UNCHANGED <<prog, step, runs, kills, node>>

PrintResult(p) ==
    /\ pc[p] = "print"
    /\ names' = CASE Now(p).how = "final" -> Put(Final(Now(p).stdout), Content(p, TRUE))
                  [] Now(p).how = "staged" -> Put(Partial(Now(p).stdout), Content(p, TRUE))
                  [] OTHER -> names
    /\ Goto(p, IF Now(p).how = "staged" THEN "validate" ELSE "next")
    /\ UNCHANGED <<prog, step, runs, kills, node>>

(* The python assertions on the staged result, then mv. *)
Validate(p) ==
    /\ pc[p] = "validate"
    /\ \/ /\ names' = Move(Partial(Now(p).stdout), Final(Now(p).stdout))
          /\ Goto(p, "next")
       \/ names' = names /\ Exit(p)
    /\ UNCHANGED <<prog, step, runs, kills, node>>

(* Mutant: the scanner swallows a line of the manifest the loop reads. *)
NextScanSkips(p) ==
    /\ pc[p] = "next"
    /\ step' = [step EXCEPT ![p] = @ + 2]
    /\ Goto(p, IF step[p] + 1 < Len(Scans(p)) THEN "scan" ELSE "restart")
    /\ UNCHANGED <<prog, runs, kills, node, names>>

NextScan(p) ==
    /\ pc[p] = "next"
    /\ step' = [step EXCEPT ![p] = @ + 1]
    /\ Goto(p, IF step[p] < Len(Scans(p)) THEN "scan" ELSE "restart")
    /\ UNCHANGED <<prog, runs, kills, node, names>>

(* A node that finds the LOCK held by a scanner does not come up. *)
StartNode(p) ==
    node' = IF \E q \in Proc \ {p} : pc[q] \in Reading THEN node ELSE "up"

RestartHarmony(p) ==
    /\ pc[p] = "restart"
    /\ StartNode(p)
    /\ Goto(p, "health")
    /\ UNCHANGED <<prog, step, runs, kills, names>>

(* service status answers within 240 seconds, or not. *)
Health(p) ==
    /\ pc[p] = "health"
    /\ \/ node = "up" /\ Goto(p, "ok")
       \/ Goto(p, "failed")
    /\ UNCHANGED <<prog, step, runs, kills, node, names>>

OnExit(p) ==
    /\ pc[p] = "on_exit"
    /\ StartNode(p)
    /\ Goto(p, "failed")
    /\ UNCHANGED <<prog, step, runs, kills, names>>

(* Harmony ends some time after it was told to (external). *)
NodeStops ==
    /\ node = "stopping"
    /\ node' = "down"
    /\ UNCHANGED <<prog, pc, step, runs, kills, names>>

(* SIGKILL of the wrapper's process group: no trap runs and the scanner dies *)
(* with its wrapper (external).                                              *)
Kill(p) ==
    /\ pc[p] \notin {"idle", "ok", "failed", "killed"} /\ kills < MaxKills
    /\ Goto(p, "killed")
    /\ kills' = kills + 1
    /\ UNCHANGED <<prog, step, runs, node, names>>

WrapperStep(p) ==
    \/ Precheck(p) \/ ServiceStop(p) \/ WaitStopped(p) \/ CheckLock(p)
    \/ Launch(p) \/ CreatePartial(p) \/ RenameOutput(p) \/ ScannerFails(p)
    \/ PrintResult(p) \/ Validate(p) \/ NextScan(p)
    \/ RestartHarmony(p) \/ Health(p) \/ OnExit(p)

Quiet ==
    /\ \A p \in Proc : pc[p] \in {"idle", "ok", "failed", "killed"}
    /\ Started = MaxRuns
    /\ UNCHANGED vars

Next ==
    \/ \E p \in Proc : Start(p) \/ WrapperStep(p) \/ Kill(p)
    \/ NodeStops
    \/ Quiet

Spec == Init /\ [][Next]_vars

(* The kernel schedules the shells, and Harmony stops when told to. *)
Fairness == WF_vars(NodeStops) /\ \A p \in Proc : WF_vars(WrapperStep(p))
FairSpec == Spec /\ Fairness

-----------------------------------------------------------------------------
(* Properties *)

Ended == {"idle", "ok", "failed", "killed"}

OutputsOf(w) ==
    {w.scans[i].out : i \in DOMAIN w.scans} \cup {w.scans[i].stdout : i \in DOMAIN w.scans}

(* A file a scanner or a staged redirection publishes is never visible under *)
(* its final name before it is complete, even if everything is killed.       *)
RenamedComplete ==
    \A p \in Proc : \A i \in DOMAIN Scans(p) :
        LET s == Scans(p)[i]
        IN  /\ Exists(Final(s.out)) => names[Final(s.out)].whole
            /\ s.how = "staged" /\ Exists(Final(s.stdout)) => names[Final(s.stdout)].whole

(* When the last wrapper has ended and none was killed, Harmony runs again,   *)
(* whichever wrapper stopped it and whichever failed on the other's lock.     *)
NodeUpAtEnd ==
    (\A p \in Proc : pc[p] \in Ended) /\ kills = 0 => node = "up"

(* The types of the wrappers, the files and the node. *)
TypeOK ==
    /\ prog \in [Proc -> DOMAIN Wrappers]
    /\ pc \in [Proc -> Ended \cup Reading \cup {"precheck", "stop", "wait", "lock", "scan",
                         "validate", "next", "restart", "health", "on_exit"}]
    /\ \A p \in Proc : step[p] \in 1..(Len(Scans(p)) + 1)
    /\ runs \in [Proc -> 0..MaxRuns] /\ kills \in 0..MaxKills
    /\ node \in {"up", "stopping", "down"}
    /\ \A n \in DOMAIN names : names[n] \in [whole : BOOLEAN, by : Proc \X (1..MaxRuns)]

(* A wrapper that exits with status 0 has published all its files, complete.  *)
(* The types hold as well.                                                    *)
SuccessComplete ==
    /\ TypeOK
    /\ \A p \in Proc : pc[p] = "ok" =>
           \A f \in OutputsOf(Wrappers[prog[p]]) \ {NoFile} :
               Exists(Final(f)) /\ names[Final(f)].whole

(* No run replaces, truncates or removes a complete published file: neither   *)
(* the run of another wrapper nor a later run of the same one.                *)
PublishedKept ==
    [][\A n \in DOMAIN names : n[2] = "final" /\ names[n].whole =>
          n \in DOMAIN names' /\ names'[n] = names[n]]_vars

(* A started wrapper ends, with Harmony told to start. *)
WrapperEnds == \A p \in Proc : pc[p] = "precheck" ~> pc[p] \in Ended
=============================================================================
