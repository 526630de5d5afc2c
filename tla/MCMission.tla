----------------------------- MODULE MCMission -----------------------------
(* Mission with one or two tasks, and how often each trouble comes.        *)
EXTENDS Mission, TLC
CONSTANTS t1, t2
MCOnce == [k \in Trouble |-> IF k = "pause" THEN 0 ELSE 1]
MCOften == [k \in Trouble |-> IF k = "crash" THEN 2 ELSE 1]
MCOneCrash == [k \in Trouble |-> IF k \in {"accept", "crash"} THEN 1 ELSE 0]
Symmetry == Permutations(Task)
=============================================================================
