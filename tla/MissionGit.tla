----------------------------- MODULE MissionGit -----------------------------
(***************************************************************************)
(* What git does with the branches of one mission, as far as the task      *)
(* runner can tell its outcomes apart.  The work of one attempt is a unit. *)
(* The history of a unit is linear (it is committed, its merge reverted,   *)
(* the revert reverted, ...), so a branch is described by how many of      *)
(* these commits it contains for each unit: its level.  A unit is in the   *)
(* branch's tree when its level is odd.  A merge of two branches takes the *)
(* higher level of each unit: a merge of a branch whose commits are all    *)
(* contained is "Already up to date" and brings nothing back, whatever a   *)
(* revert has taken away since.                                            *)
(***************************************************************************)
EXTENDS Naturals, Sequences, FiniteSets

CONSTANTS Task,         \* the tasks of the mission's plan
          MaxStarts     \* bound: the attempts a task has in all

ASSUME MaxStartsAssumption == MaxStarts \in Nat \ {0}

Unit == Task \X (1 .. MaxStarts)

(* The mission branch is the sequence of commits made on it since it was   *)
(* cut: of: the task whose merge it is, or whose merge it reverts;         *)
(* delta: the units whose level it raised.                                 *)
Commit == [kind : {"merge", "revert"}, of : Task, delta : SUBSET Unit]

Level(log, w) == Cardinality({i \in DOMAIN log : w \in log[i].delta})

Odd(n) == n % 2 = 1

(* The units whose work is in the mission branch's tree.                   *)
Present(log) == {w \in Unit : Odd(Level(log, w))}

(* A branch cut at the mission branch's head.                              *)
CutFrom(log) == [w \in Unit |-> Level(log, w)]

(* What merging branch b into the mission branch would raise.              *)
Brings(b, log) == {w \in Unit : b[w] > Level(log, w)}

(* Branch b after the mission branch is merged into it.                    *)
MergedWith(b, log) ==
  [w \in Unit |-> IF b[w] > Level(log, w) THEN b[w] ELSE Level(log, w)]

(* Branch b after a commit that raises the units of S.                     *)
Raised(b, S) == [w \in Unit |-> IF w \in S THEN b[w] + 1 ELSE b[w]]

Tip(log) == log[Len(log)]
=============================================================================
