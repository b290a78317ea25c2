------------------------- MODULE MCProjectMutation -------------------------
(* Two processes, and the names "alpha", its alias "Alpha", and "beta".    *)
EXTENDS ProjectMutation

CONSTANTS w1, w2

MCWorkers  == {w1, w2}
MCProjects == {"Alpha", "alpha", "beta"}
MCFold     == [n \in MCProjects |-> IF n = "beta" THEN "beta" ELSE "alpha"]
MCOrder    == [n \in MCProjects |->
                 IF n = "beta" THEN 3 ELSE IF n = "alpha" THEN 2 ELSE 1]
=============================================================================
