--------------------------- MODULE MissionRunner ---------------------------
(***************************************************************************)
(* The task runner of a parallel planned mission (engine/taskRunner.ts),   *)
(* from the approved plan to the review: attempts and their checks, the    *)
(* integration of a task's branch into the mission branch by the           *)
(* Integrator (integration/integrator.ts), escalation, the user's buttons, *)
(* and what the start-up pass does with each step that was cut off.        *)
(*                                                                         *)
(* Everything that changes a mission runs in its queue, one function at a  *)
(* time.  op is the function under way and where it is: a step of a        *)
(* function is one write of the mission's record (put) or one git command. *)
(* Record and repository outlive the core; op does not.  The mission's     *)
(* record in memory is always the one on disk, since put writes first.     *)
(***************************************************************************)
EXTENDS MissionGit

CONSTANTS None,
          MaxAttempts,      \* caps.maxAttempts of the policy; none is set if it is
                            \* not below MaxStarts
          AcceptUnapplied,  \* the user may Accept a task whose reverted work
                            \* was not put back on its branch
          MaxOf,            \* bound: how often each kind of trouble comes
          MaxTroubles       \* bound: how many troubles come in all

ASSUME NoneAssumption == None \notin Task /\ None \notin [task : Task, pre : Nat]

\* The user accepts a result or pauses the mission, a git command or a check
\* fails, the core dies.
Trouble == {"accept", "pause", "fault", "crash"}

ASSUME RunnerBoundsAssumption ==
         /\ MaxOf \in [Trouble -> Nat] /\ MaxTroubles \in Nat
         /\ MaxAttempts \in Nat \ {0} /\ AcceptUnapplied \in BOOLEAN

VARIABLES
  mission,   \* record: the mission's state
  task,      \* record: per task its state, how its last integration ended
             \*   and the escalation step it waits for
  attempt,   \* record: per task the number and state of its newest attempt, how
             \*   many resumed no other, and the attempt its tree was made for
  pending,   \* record: pendingMerge, the write-ahead of a merge
  log,       \* git: the mission branch
  half,      \* git: a merge or revert in progress in the integration tree
  branch,    \* git: per task the branch of its newest attempt
  marked,    \* git: per task the length of the mission branch that its tree
             \*   holds an unresolved merge of, 0 for none
  op,        \* the queue's function under way
  spent,     \* troubles so far
  stray      \* history: a merge was left on the branch without a verdict

record == <<mission, task, attempt, pending>>
repo == <<log, half, branch, marked>>
runnerVars == <<record, repo, op, spent, stray>>

TaskState == {"pending", "queued", "running", "verifying", "integrating",
              "needs-human", "done", "skipped", "cancelled"}
Ended == {"done", "skipped", "cancelled"}
AttemptState == {"none", "running", "finishing", "succeeded", "failed", "interrupted",
                 "cancelled"}
Outcome == {"none", "merged", "conflict", "reverted", "error"}
RunnerPc == {"idle", "down", "recover", "finish", "check", "integrate", "ready",
             "merge", "conflicted", "verify", "revert", "unreverted", "merged",
             "conflict", "reverted", "error", "resolve", "launchResolver",
             "reapplyMerge", "reapplyRevert", "escalate", "cancel"}

RunnerInit ==
  /\ mission = "running"
  /\ task = [t \in Task |-> [st |-> "pending", last |-> "none", retry |-> "none"]]
  /\ attempt = [t \in Task |-> [n |-> 0, tries |-> 0, st |-> "none", tree |-> 1]]
  /\ pending = None
  /\ log = <<>> /\ half = "none" /\ marked = [t \in Task |-> 0]
  /\ branch = [t \in Task |-> CutFrom(<<>>)]
  /\ op = [pc |-> "idle", task |-> None, todo |-> {}]
  /\ spent = [k \in Trouble |-> 0]
  /\ stray = FALSE

-----------------------------------------------------------------------------
(* The queue.                                                              *)

Idle == op.pc = "idle"
At(pc) == op.pc = pc
Goto(pc) == op' = [op EXCEPT !.pc = pc]
Begin(pc, t) == op' = [op EXCEPT !.pc = pc, !.task = t]
\* The function has returned: the queue is free, or the start-up pass goes on.
Return == op' = [op EXCEPT !.pc = IF op.todo = {} THEN "idle" ELSE "recover",
                           !.task = None]

Comes(k) ==
  /\ spent[k] < MaxOf[k]
  /\ spent["accept"] + spent["pause"] + spent["fault"] + spent["crash"] < MaxTroubles
  /\ spent' = [spent EXCEPT ![k] = @ + 1]
Fault == Comes("fault")

SetTask(t, st) == task' = [task EXCEPT ![t].st = st]
SetAttempt(t, st) == attempt' = [attempt EXCEPT ![t].st = st]

\* admissionRefusal: whoever asks, the user included, but for a resume, which
\* is not another try at the task.
Admitted(t, how) == how = "resume" \/ attempt[t].tries < MaxAttempts

\* Mutant: admission is left to escalation, which asks for itself.
MutLaunch(t, how) ==
  LET n == attempt[t].n + 1
      tries == attempt[t].tries + (IF how = "resume" THEN 0 ELSE 1)
  IN
  /\ n <= MaxStarts
  /\ attempt' = [attempt EXCEPT ![t] =
                   [n |-> n, tries |-> tries, st |-> "running",
                    tree |-> IF how = "fresh" THEN n ELSE @.tree]]
  /\ task' = [task EXCEPT ![t].st = "running", ![t].retry = "none"]
  /\ IF how = "fresh" THEN /\ branch' = [branch EXCEPT ![t] = CutFrom(log)]
                           /\ marked' = [marked EXCEPT ![t] = 0]
                      ELSE UNCHANGED <<branch, marked>>

\* An attempt's tree is its own, cut from the mission branch's head, unless
\* it goes on in the tree of the one before.
Launch(t, how) ==
  LET n == attempt[t].n + 1
      tries == attempt[t].tries + (IF how = "resume" THEN 0 ELSE 1)
  IN
  /\ n <= MaxStarts
  /\ Admitted(t, how)
  /\ attempt' = [attempt EXCEPT ![t] =
                   [n |-> n, tries |-> tries, st |-> "running",
                    tree |-> IF how = "fresh" THEN n ELSE @.tree]]
  /\ task' = [task EXCEPT ![t].st = "running", ![t].retry = "none"]
  /\ IF how = "fresh" THEN /\ branch' = [branch EXCEPT ![t] = CutFrom(log)]
                           /\ marked' = [marked EXCEPT ![t] = 0]
                      ELSE UNCHANGED <<branch, marked>>

-----------------------------------------------------------------------------
(* The scheduler's steps.                                                  *)

Start(t) ==
  /\ Idle /\ mission = "running"
  /\ task[t].st = "pending"
  /\ Launch(t, "fresh")
  /\ UNCHANGED <<mission, pending, log, half, op, spent, stray>>

\* The step that escalation decided on, now that it may start.
RunEscalation(t) ==
  /\ Idle /\ mission = "running"
  /\ task[t].st = "queued"
  /\ Launch(t, task[t].retry)
  /\ UNCHANGED <<mission, pending, log, half, op, spent, stray>>

\* A launch that is refused or fails leaves the task with the user.
CouldNotStart(t) ==
  /\ Idle /\ mission = "running"
  /\ task[t].st \in {"pending", "queued"}
  /\ Fault
  /\ task' = [task EXCEPT ![t].st = "needs-human", ![t].retry = "none"]
  /\ UNCHANGED <<mission, attempt, pending, repo, op, stray>>

\* Every task is done or skipped, and one at least is done.
ReadyForReview ==
  /\ Idle /\ mission = "running"
  /\ \A t \in Task : task[t].st \in {"done", "skipped"}
  /\ \E t \in Task : task[t].st = "done"
  /\ mission' = "review"
  /\ UNCHANGED <<task, attempt, pending, repo, op, spent, stray>>

-----------------------------------------------------------------------------
(* finish: an attempt's turn has ended.                                    *)

Finish(t) ==
  /\ Idle
  /\ attempt[t].st = "running"
  /\ SetAttempt(t, "finishing")
  /\ Begin("finish", t)
  /\ UNCHANGED <<mission, task, pending, repo, spent, stray>>

EndAttempt(t, ast, tst) == SetAttempt(t, ast) /\ SetTask(t, tst)

\* Its session failed, or was lost; or the user stopped it, and decides.
LoseSession(t) ==
  /\ Idle
  /\ attempt[t].st = "running"
  /\ \/ /\ \E how \in {"failed", "interrupted"} : EndAttempt(t, how, "needs-human")
        /\ Begin("escalate", t)
     \/ EndAttempt(t, "cancelled", "needs-human") /\ UNCHANGED op
  /\ UNCHANGED <<mission, pending, repo, spent, stray>>

\* Whatever is in t's tree is committed: a merge left there with it.
Concluded(t) == MergedWith(branch[t], SubSeq(log, 1, marked[t]))

\* The unit of t's newest attempt, committed once however often it is retried.
Work(t) == <<t, attempt[t].n>>
Committed(t) ==
  LET b == Concluded(t) IN IF b[Work(t)] = 0 THEN Raised(b, {Work(t)}) ELSE b

\* The units of t's tree, and whether there is any work in it to show.
Own(t) == {<<t, k>> : k \in attempt[t].tree .. attempt[t].n}
HasWork(t) == \E w \in Own(t) : Odd(branch[t][w])

CommitWork(t) ==
  /\ At("finish") /\ op.task = t
  /\ \/ /\ branch' = [branch EXCEPT ![t] = Committed(t)]
        /\ marked' = [marked EXCEPT ![t] = 0]
        /\ Goto("check")
        /\ UNCHANGED <<task, attempt, spent>>
     \/ /\ ~HasWork(t)
        /\ EndAttempt(t, "failed", "needs-human")
        /\ Goto("escalate")
        /\ UNCHANGED <<branch, marked, spent>>
     \/ /\ Fault
        /\ EndAttempt(t, "failed", "needs-human")
        /\ Return
        /\ UNCHANGED <<branch, marked>>
  /\ UNCHANGED <<mission, pending, log, half, stray>>

\* Its turn and its task's checks: passed, failed, or nothing vouches for it.
Check(t) ==
  /\ At("check") /\ op.task = t
  /\ \/ EndAttempt(t, "succeeded", "verifying") /\ Goto("integrate")
     \/ EndAttempt(t, "failed", "needs-human") /\ Goto("escalate")
     \/ EndAttempt(t, "succeeded", "needs-human") /\ Return
  /\ UNCHANGED <<mission, pending, repo, spent, stray>>

\* Another attempt, on the same branch or a fresh one, or the user decides.
\* An attempt that was lost is only ever resumed.
Escalate(t) ==
  /\ At("escalate") /\ op.task = t
  /\ \/ UNCHANGED task
     \/ /\ task[t].st = "needs-human" /\ mission = "running"
        /\ attempt[t].st # "interrupted"
        /\ attempt[t].n < MaxStarts
        /\ \E how \in {"continue", "fresh"} :
             /\ Admitted(t, how)
             /\ task' = [task EXCEPT ![t].st = "queued", ![t].retry = how]
  /\ Return
  /\ UNCHANGED <<mission, attempt, pending, repo, spent, stray>>

-----------------------------------------------------------------------------
(* integrateTask and the Integrator.                                       *)

Integrate(t) ==
  /\ At("integrate") /\ op.task = t
  /\ SetTask(t, "integrating")
  /\ Goto("ready")
  /\ UNCHANGED <<mission, attempt, pending, repo, spent, stray>>

\* The intent is recorded before git is asked: the task and the head it found.
BeforeMerge(t) ==
  /\ At("ready") /\ op.task = t
  /\ \/ /\ half = "none"
        /\ pending' = [task |-> t, pre |-> Len(log)]
        /\ Goto("merge") /\ UNCHANGED spent
     \/ Fault /\ Goto("error") /\ UNCHANGED pending
  /\ UNCHANGED <<mission, task, attempt, repo, stray>>

\* What the mission branch got since the task's branch was cut can conflict.
MayConflict(t) == \E w \in Unit : branch[t][w] < Level(log, w)

GitMerge(t) ==
  /\ At("merge") /\ op.task = t
  /\ LET news == Brings(branch[t], log) IN
     \/ /\ log' = IF news = {} THEN log
                  ELSE Append(log, [kind |-> "merge", of |-> t, delta |-> news])
        /\ Goto("verify") /\ UNCHANGED <<half, spent>>
     \/ /\ news # {} /\ MayConflict(t)
        /\ half' = "merge" /\ Goto("conflicted") /\ UNCHANGED <<log, spent>>
     \/ Fault /\ Goto("error") /\ UNCHANGED <<log, half>>
  /\ UNCHANGED <<record, branch, marked, stray>>

AbortConflicted ==
  /\ At("conflicted")
  /\ half' = "none"
  /\ Goto("conflict")
  /\ UNCHANGED <<record, log, branch, marked, spent, stray>>

\* Mission verification passes, fails, or cannot run: then the merge stays.
VerifyMerge(t) ==
  /\ At("verify") /\ op.task = t
  /\ \/ Goto("merged") /\ UNCHANGED <<spent, stray>>
     \/ Goto("revert") /\ UNCHANGED <<spent, stray>>
     \/ Fault /\ Goto("error") /\ stray' = TRUE
  /\ UNCHANGED <<record, repo>>

\* `git revert -m 1` of the head, which only works on a merge.
RevertMerge(t) ==
  /\ At("revert") /\ op.task = t
  /\ LET isMerge == Len(log) > 0 /\ Tip(log).kind = "merge" IN
     \/ /\ isMerge
        /\ log' = Append(log, [Tip(log) EXCEPT !.kind = "revert"])
        /\ Goto("reverted") /\ UNCHANGED <<half, spent, stray>>
     \/ /\ isMerge /\ Fault
        /\ half' = "revert" /\ stray' = TRUE /\ Goto("unreverted") /\ UNCHANGED log
     \/ /\ ~isMerge
        /\ Goto("error") /\ UNCHANGED <<log, half, spent, stray>>
  /\ UNCHANGED <<record, branch, marked>>

AbortRevert ==
  /\ At("unreverted")
  /\ half' = "none"
  /\ Goto("error")
  /\ UNCHANGED <<record, log, branch, marked, spent, stray>>

-----------------------------------------------------------------------------
(* afterIntegration: one write says how the merge ended and clears the     *)
(* write-ahead record.                                                     *)

ToHuman(t, how) ==
  task' = [task EXCEPT ![t].last = how,
             ![t].st = IF @ = "integrating" THEN "needs-human" ELSE @]

Merged(t) ==
  /\ At("merged") /\ op.task = t
  /\ pending' = None
  /\ task' = [task EXCEPT ![t].st = "done", ![t].last = "merged"]
  /\ Return
  /\ UNCHANGED <<mission, attempt, repo, spent, stray>>

\* Resolved by an attempt if policy allows one more, else by the user.
Conflict(t) ==
  /\ At("conflict") /\ op.task = t
  /\ pending' = None
  /\ ToHuman(t, "conflict")
  /\ \/ attempt[t].n < MaxStarts /\ Goto("resolve")
     \/ Return
  /\ UNCHANGED <<mission, attempt, repo, spent, stray>>

Reverted(t) ==
  /\ At("reverted") /\ op.task = t
  /\ pending' = None
  /\ ToHuman(t, "reverted")
  /\ Goto("reapplyMerge")
  /\ UNCHANGED <<mission, attempt, repo, spent, stray>>

\* Mutant: the write-ahead record outlives an error.
MutError(t) ==
  /\ At("error") /\ op.task = t
  /\ ToHuman(t, "error")
  /\ Return
  /\ UNCHANGED <<mission, attempt, pending, repo, spent, stray>>

Error(t) ==
  /\ At("error") /\ op.task = t
  /\ pending' = None
  /\ ToHuman(t, "error")
  /\ Return
  /\ UNCHANGED <<mission, attempt, repo, spent, stray>>

\* mergeMissionIntoTask: clean after all, or left in the tree for an agent.
ResolveConflict(t) ==
  /\ At("resolve") /\ op.task = t
  /\ \/ /\ branch' = [branch EXCEPT ![t] = MergedWith(@, log)]
        /\ Goto("integrate") /\ UNCHANGED <<marked, spent>>
     \/ /\ marked' = [marked EXCEPT ![t] = Len(log)]
        /\ Goto("launchResolver") /\ UNCHANGED <<branch, spent>>
     \/ Fault /\ Return /\ UNCHANGED <<branch, marked>>
  /\ UNCHANGED <<record, log, half, stray>>

LaunchResolver(t) ==
  /\ At("launchResolver") /\ op.task = t
  /\ \/ Launch(t, "continue") /\ UNCHANGED spent
     \/ /\ \/ ~Admitted(t, "continue") /\ UNCHANGED spent
           \/ Fault
        /\ UNCHANGED <<task, attempt, branch, marked>>
  /\ Return
  /\ UNCHANGED <<mission, pending, log, half, stray>>

\* reapplyAfterRevert: the mission branch into the task's, then the revert
\* reverted there, so that the branch holds all of its work again.
ReapplyMerge(t) ==
  /\ At("reapplyMerge") /\ op.task = t
  /\ \/ /\ branch' = [branch EXCEPT ![t] = MergedWith(@, log)]
        /\ Goto("reapplyRevert") /\ UNCHANGED spent
     \/ Fault /\ Return /\ UNCHANGED branch
  /\ UNCHANGED <<record, log, half, marked, stray>>

\* Mutant: the mission branch is merged into the task's, and no more.
MutReapplyRevert(t) ==
  /\ At("reapplyRevert") /\ op.task = t
  /\ Goto("escalate")
  /\ UNCHANGED <<record, repo, spent, stray>>

ReapplyRevert(t) ==
  /\ At("reapplyRevert") /\ op.task = t
  /\ \/ /\ branch' = [branch EXCEPT ![t] = Raised(@, Tip(log).delta)]
        /\ Goto("escalate") /\ UNCHANGED spent
     \/ Fault /\ Return /\ UNCHANGED branch
  /\ UNCHANGED <<record, log, half, marked, stray>>

-----------------------------------------------------------------------------
(* The user's buttons.                                                     *)

\* The last merge was reverted and the branch holds nothing to merge again.
Unapplied(t) == task[t].last = "reverted" /\ Brings(branch[t], log) = {}

\* What the session did since, and an unresolved conflict, is committed first.
Accept(t) ==
  /\ Idle /\ mission \in {"running", "paused"}
  /\ task[t].st = "needs-human" /\ attempt[t].st = "succeeded"
  /\ AcceptUnapplied \/ ~Unapplied(t)
  /\ Comes("accept")
  /\ branch' = [branch EXCEPT ![t] = Concluded(t)]
  /\ marked' = [marked EXCEPT ![t] = 0]
  /\ Begin("integrate", t)
  /\ UNCHANGED <<record, log, half, stray>>

\* By the user, or by itself: behind whatever is queued already.
Resume(t) ==
  /\ Idle /\ mission \in {"running", "paused"}
  /\ task[t].st = "needs-human" /\ attempt[t].st = "interrupted"
  /\ Launch(t, "resume")
  /\ UNCHANGED <<mission, pending, log, half, op, spent, stray>>

Retry(t) ==
  /\ Idle /\ mission \in {"running", "paused"}
  /\ task[t].st = "needs-human"
  /\ Launch(t, "fresh")
  /\ UNCHANGED <<mission, pending, log, half, op, spent, stray>>

\* The branch is kept; the mission carries on without the task.
Skip(t) ==
  /\ Idle /\ mission \in {"running", "paused"}
  /\ task[t].st \in {"needs-human", "pending"}
  /\ SetTask(t, "skipped")
  /\ UNCHANGED <<mission, attempt, pending, repo, op, spent, stray>>

\* Each attempt is ended first, then the tasks and the mission in one write.
Cancel ==
  /\ Idle /\ mission \in {"running", "paused"}
  /\ Begin("cancel", None)
  /\ UNCHANGED <<record, repo, spent, stray>>

CancelAttempt(t) ==
  /\ At("cancel") /\ attempt[t].st = "running"
  /\ SetAttempt(t, "cancelled")
  /\ UNCHANGED <<mission, task, pending, repo, op, spent, stray>>

CancelMission ==
  /\ At("cancel") /\ \A t \in Task : attempt[t].st # "running"
  /\ mission' = "cancelled"
  /\ task' = [t \in Task |-> IF task[t].st \in Ended
                             THEN task[t] ELSE [task[t] EXCEPT !.st = "cancelled"]]
  /\ Return
  /\ UNCHANGED <<attempt, pending, repo, spent, stray>>

PauseMission ==
  /\ Idle /\ mission = "running" /\ Comes("pause")
  /\ mission' = "paused"
  /\ UNCHANGED <<task, attempt, pending, repo, op, stray>>

ResumeMission ==
  /\ Idle /\ mission = "paused"
  /\ mission' = "running"
  /\ UNCHANGED <<task, attempt, pending, repo, op, spent, stray>>

-----------------------------------------------------------------------------
(* recoverMission, once the core is back.                                  *)

\* Integrator.recover: what is on the branch since the recorded head says how
\* far the merge got.
RecoverMerge(t) ==
  /\ At("recover") /\ pending # None /\ pending.task = t
  /\ half' = "none"
  /\ LET made == SubSeq(log, pending.pre + 1, Len(log))
         isMerge == Len(made) > 0 /\ made[1].kind = "merge" /\ made[1].of = t
     IN Begin(CASE made = <<>> -> "merge"
                [] Len(made) = 1 /\ isMerge -> "verify"
                [] Len(made) = 2 /\ isMerge -> "reverted"
                [] OTHER -> "error", t)
  /\ UNCHANGED <<record, log, branch, marked, spent, stray>>

\* recoverParallel: each task's newest attempt in turn.
RecoverTask(t) ==
  /\ At("recover") /\ pending = None /\ t \in op.todo
  /\ LET rest == op.todo \ {t}
         goto(pc, who) == op' = [pc |-> pc, task |-> who, todo |-> rest]
     IN IF attempt[t].st = "finishing" THEN goto("finish", t)
        ELSE IF /\ attempt[t].st = "succeeded" /\ mission = "running"
                /\ task[t].st \in {"verifying", "integrating"}
        THEN goto("integrate", t)
        ELSE goto(IF rest = {} THEN "idle" ELSE "recover", None)
  /\ UNCHANGED <<record, repo, spent, stray>>

-----------------------------------------------------------------------------
RunnerStep(t) ==
  \/ CommitWork(t) \/ Check(t) \/ Escalate(t)
  \/ Integrate(t) \/ BeforeMerge(t) \/ GitMerge(t) \/ VerifyMerge(t) \/ RevertMerge(t)
  \/ Merged(t) \/ Conflict(t) \/ Reverted(t) \/ Error(t)
  \/ ResolveConflict(t) \/ LaunchResolver(t) \/ ReapplyMerge(t) \/ ReapplyRevert(t)
  \/ CancelAttempt(t) \/ RecoverMerge(t) \/ RecoverTask(t)

RunnerCore == AbortConflicted \/ AbortRevert \/ CancelMission \/ \E t \in Task : RunnerStep(t)

RunnerOther ==
  \/ Cancel \/ PauseMission \/ ResumeMission \/ ReadyForReview
  \/ \E t \in Task : \/ Start(t) \/ RunEscalation(t) \/ CouldNotStart(t) \/ Finish(t)
                     \/ LoseSession(t)
                     \/ Accept(t) \/ Resume(t) \/ Retry(t) \/ Skip(t)
=============================================================================
