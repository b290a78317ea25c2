------------------------ MODULE ExactBuildAdmission ------------------------
(***************************************************************************)
(* What exact-build admission (src/daemon/version_cohort.h) promises to    *)
(* the processes of one account: the active participants all run one       *)
(* build, and a binary mutation runs only while nobody is active and lets  *)
(* nobody in.  How native file locks achieve that is VersionCohort's       *)
(* matter.                                                                 *)
(***************************************************************************)
CONSTANTS
  Participants,   \* CLI commands, front ends, bootstraps, workers, daemons
  Mutators,       \* install, update and uninstall commands
  Builds          \* exact build identities

VARIABLES
  active,         \* participants that were admitted and have not left
  activeBuild,    \* the builds of the active participants, at most one
  mutating        \* mutators that may replace the binary

admissionVars == <<active, activeBuild, mutating>>

Init ==
  /\ active = {}
  /\ activeBuild = {}
  /\ mutating = {}

Admit(p, b) ==
  /\ mutating = {}
  /\ p \notin active
  /\ activeBuild \subseteq {b}
  /\ active' = active \cup {p}
  /\ activeBuild' = {b}
  /\ UNCHANGED mutating

(* A participant leaves by itself or dies.                                 *)
Leave(p) ==
  /\ p \in active
  /\ active' = active \ {p}
  /\ activeBuild' = IF active' = {} THEN {} ELSE activeBuild
  /\ UNCHANGED mutating

BeginMutation(m) ==
  /\ active = {}
  /\ mutating = {}
  /\ mutating' = {m}
  /\ UNCHANGED <<active, activeBuild>>

EndMutation(m) ==
  /\ m \in mutating
  /\ mutating' = mutating \ {m}
  /\ UNCHANGED <<active, activeBuild>>

Next ==
  \/ \E p \in Participants, b \in Builds : Admit(p, b)
  \/ \E p \in Participants : Leave(p)
  \/ \E m \in Mutators : BeginMutation(m) \/ EndMutation(m)

Spec == Init /\ [][Next]_admissionVars
=============================================================================
