------------------------ MODULE MCDaemonGeneration ------------------------
(* Two clients and two daemon processes.                                   *)
EXTENDS DaemonGeneration, TLC

CONSTANTS c1, c2, d1, d2

MCStarters == {c1, c2}
MCHosts    == {d1, d2}
MCSymmetry == Permutations(MCStarters) \cup Permutations(MCHosts)
=============================================================================
