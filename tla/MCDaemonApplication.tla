------------------------ MODULE MCDaemonApplication ------------------------
(* Two sessions of one project and a second project they may ask for, one  *)
(* job at a time, and the thread of the watcher.                           *)
EXTENDS DaemonApplication, TLC

CONSTANTS s1, s2, pA, pB

MCSessions == {s1, s2}
MCProjects == {pA, pB}
MCHome == [s \in MCSessions |-> pA]

Asking(k, p, o) == [kind |-> k, key |-> p, options |-> o]
MCRequests ==
  (s1 :> {Asking("index", pB, "default"), Asking("mutate", Star, "default")}) @@
  (s2 :> {Asking("initialize", pA, "default")})
=============================================================================
