---------------------------- MODULE MCArchiveRun ----------------------------
(* Two operators, every pair of wrappers, a manifest of two checkpoints.     *)
EXTENDS ArchiveRun

MCManifest == <<"l1", "l2">>

(* The shells are interchangeable: of the two ways to give them a pair of     *)
(* wrappers one is enough.                                                    *)
Order ==
    <<"checkpoint_scan", "scan_batch", "recovery_root_scan", "recovery_reward", "cx_replay_scan",
      "cx_replay_batch", "outgoing_cx_scan", "state_diff", "hip30_issuance", "hip30_window",
      "hip30_intervals", "staking_target", "staking_precompile">>
Rank(w) == CHOOSE i \in DOMAIN Order : Order[i] = w
OnePairing == \A p, q \in Proc : p < q => Rank(prog[p]) < Rank(prog[q])

MCInit == Init /\ OnePairing
MCSpec == MCInit /\ [][Next]_vars /\ Fairness
=============================================================================
