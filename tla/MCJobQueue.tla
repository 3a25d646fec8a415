----------------------------- MODULE MCJobQueue -----------------------------
(* JobQueue on small instances. *)
EXTENDS JobQueue, TLC

CONSTANTS w1, w2, A, B, k

MCWorkers == {w1, w2}
MCWindows == {A, B}
MCKeys == {k}
NoKeys == {}
OnePriority == {0}
MCPriorities == {0, 1}
TwoAttempts == {2}
MCAttemptLimits == {1, 2}

WorkerSymmetry == Permutations(MCWorkers)
Symmetry == Permutations(MCWorkers) \cup Permutations(MCWindows)

=============================================================================
