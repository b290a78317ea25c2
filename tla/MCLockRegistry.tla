-------------------------- MODULE MCLockRegistry --------------------------
(* Small instances of the lock registry.                                   *)
EXTENDS LockRegistry, TLC

CONSTANTS pA, pB, t1, t2, t3

MCProcesses == {pA, pB}
MCThreads   == {t1, t2, t3}
MCHome      == (t1 :> pA) @@ (t2 :> pA) @@ (t3 :> pB)
MCSymmetry  == Permutations({t1, t2})

MCOneProcess == {pA}
MCTwoThreads == {t1, t2}
MCSameHome   == (t1 :> pA) @@ (t2 :> pA)
=============================================================================
