------------------------------ MODULE Mission ------------------------------
(***************************************************************************)
(* A parallel planned mission from its approved plan to its end: the task  *)
(* runner's queue, the finish of the review, and a core that may die       *)
(* between any two of their steps and is started again.                    *)
(***************************************************************************)
EXTENDS MissionFinish

vars == <<runnerVars, finishVars>>

Init == RunnerInit /\ FinishInit

\* Record, repository and agents outlive the core; the queue does not.
Crash ==
  /\ ~At("down") /\ Comes("crash")
  /\ mission \notin {"completed", "cancelled"}
  /\ op' = [pc |-> "down", task |-> None, todo |-> {}]
  /\ UNCHANGED <<record, repo, stray, finishVars>>

\* Missions that have not ended are loaded and recovered, in their queues.
Restart ==
  /\ At("down")
  /\ op' = [pc |-> "recover", task |-> None, todo |-> Task]
  /\ UNCHANGED <<record, repo, spent, stray, finishVars>>

\* A finish that was cut off is settled before the rest is recovered.
Core == \/ ~(At("recover") /\ finish # None) /\ RunnerCore /\ UNCHANGED finishVars
        \/ FinishCore
        \/ Restart

Next == \/ Core
        \/ RunnerOther /\ UNCHANGED finishVars
        \/ FinishOther
        \/ Crash

\* The core runs on and is started again; git, gh and the checks return, since
\* every command has a time limit.  Nobody is obliged to press a button.
Spec == Init /\ [][Next]_vars /\ WF_vars(Core)

-----------------------------------------------------------------------------
(* The types of the record and of git. Of the attempts of a task, those    *)
(* that resume no other are at most the policy's caps.maxAttempts, whoever *)
(* asks for the next: the scheduler, escalation, a conflict or the user    *)
(* (executionPolicy.ts:486-491, taskRunner.ts:1070-1072).                  *)
TypeOK ==
  /\ mission \in {"running", "paused", "review", "completed", "cancelled"}
  /\ task \in [Task -> [st : TaskState, last : Outcome, retry : {"none", "continue", "fresh"}]]
  /\ attempt \in [Task -> [n : 0 .. MaxStarts, tries : 0 .. MaxAttempts,
                           st : AttemptState, tree : 1 .. MaxStarts]]
  /\ \A t \in Task : attempt[t].tries <= attempt[t].n
  /\ pending \in [task : Task, pre : Nat] \union {None}
  /\ log \in Seq(Commit)
  /\ half \in {"none", "merge", "revert"}
  /\ branch \in [Task -> [Unit -> Nat]]
  /\ marked \in [Task -> Nat]
  /\ op \in [pc : RunnerPc \union FinishPc, task : Task \union {None}, todo : SUBSET Task]
  /\ spent \in [Trouble -> 0 .. MaxTroubles]
  /\ stray \in BOOLEAN
  /\ finish \in [how : How, unsure : BOOLEAN] \union {None}
  /\ finished \in How \union {"none"}
  /\ base \in [user : 0 .. MaxBaseMoves, commits : 0 .. MaxBaseMoves, has : BOOLEAN]
  /\ primary \in BOOLEAN /\ opened \in BOOLEAN
  /\ tree \in {"branch", "detached", "removed"}
  /\ made \in 0 .. MaxBaseMoves

(* All that was ever committed in a done task's tree (commitAll) is in the *)
(* mission branch's tree: no merge, revert or recovery of the Integrator   *)
(* leaves a task done without it.                                          *)
DoneHasItsWork ==
  \A t \in Task : task[t].st = "done" =>
    \A w \in Own(t) : branch[t][w] > 0 => w \in Present(log)

(* Work in the mission branch is a done task's, or of the merge that the   *)
(* write-ahead record pendingMerge names.                                  *)
OnlyRecordedWork ==
  \A w \in Present(log) : \/ task[w[1]].st = "done"
                          \/ pending # None /\ pending.task = w[1]

(* Both ways, and at every step: what is on the mission branch is what the *)
(* mission's record says is done, but for a branch on which a merge was    *)
(* left because its verification could not run or its revert failed.       *)
BranchMatchesRecord == ~stray => DoneHasItsWork /\ OnlyRecordedWork

(* A completed merge is in the base, a merge in the base is recorded as    *)
(* under way or completed, whatever settleFinish reads back after a death  *)
(* or an error, and the fast-forward keeps the user's commits.             *)
FinishMatchesBase ==
  /\ base.commits = base.user
  /\ finished = "merge-local" => base.has
  /\ base.has => \/ finished = "merge-local"
                 \/ finish # None /\ finish.how = "merge-local"

(* A write-ahead record (pendingMerge, pendingFinish) is always settled in *)
(* the end, by the step it was made for or by recovery.  That of a finish  *)
(* stays only if a command failed: the buttons are off and the user is     *)
(* asked to check again.                                                   *)
RecordsSettle ==
  /\ pending # None ~> pending = None
  /\ finish # None ~> finish = None \/ (Idle /\ spent["fault"] > 0)
=============================================================================
