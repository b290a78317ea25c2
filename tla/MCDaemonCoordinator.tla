------------------------ MODULE MCDaemonCoordinator ------------------------
(***************************************************************************)
(* Instance of DaemonCoordinator for TLC.                                  *)
(***************************************************************************)
EXTENDS DaemonCoordinator

CONSTANTS k1, k2, t1, t2

MCKeys    == {k1, k2}
MCThreads == {t1, t2}
=============================================================================
