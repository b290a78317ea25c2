-------------------------- MODULE MCVersionCohort --------------------------
(***************************************************************************)
(* Instance of VersionCohort for TLC.                                      *)
(***************************************************************************)
EXTENDS VersionCohort

CONSTANTS p1, p2, m1, b1, b2

MCTwo       == {p1, p2}
MCOne       == {p1}
MCMutator   == {m1}
MCBuilds    == {b1, b2}
=============================================================================
