---------------------------- MODULE MCTaskEngine ----------------------------
(* Instances of TaskEngine for TLC. *)
EXTENDS TaskEngine, TLC

CONSTANTS t1, t2, d1, d2, k1, k2

Symmetry == Permutations(Tasks) \cup Permutations(Devices)
\* The rows of a_task_runs decide nothing in the engine: a run whose
\* properties do not mention them need not tell them apart.
ButRuns == <<taskVars, rt, wakeVars, workerVars, row, progress, rounds, nextRound, nextRun,
             deviceVars>>
=============================================================================
