--------------------------- MODULE MissionFinish ---------------------------
(***************************************************************************)
(* How a reviewed mission is finished: the gated merge of the mission      *)
(* branch into the base, a pull request, keep or discard                   *)
(* (taskRunner.runFinish and engine/missionFinish.ts), and how a finish    *)
(* that was cut off is settled by reading git or GitHub back.              *)
(*                                                                         *)
(* The mission branch does not move in review, so all that counts is       *)
(* whether the base contains it.  The primary checkout is the user's: it   *)
(* may have changes or be on another branch, and the base may get commits, *)
(* between any two steps but the last look at it and the fast-forward.     *)
(***************************************************************************)
EXTENDS MissionRunner

CONSTANTS Picks,         \* how the user may ask for the mission to be finished
          MaxBaseMoves   \* bound: commits the user makes on the base in review

VARIABLES
  finish,    \* record: pendingFinish, the write-ahead of a finish
  finished,  \* record: how the mission was finished
  base,      \* git: the commits the user made on the base, how many of them it
             \*   has, and whether it has the mission branch
  primary,   \* git: the primary checkout is on the base and clean
  tree,      \* git: the integration worktree
  made,      \* the base tip the merge being checked was made on
  opened     \* GitHub: a pull request is open for the mission branch

finishVars == <<finish, finished, base, primary, tree, made, opened>>

How == {"merge-local", "pull-request", "keep", "discard"}

ASSUME FinishAssumption == Picks \subseteq How /\ MaxBaseMoves \in Nat
ASSUME FinishNoneAssumption == None \notin [how : How, unsure : BOOLEAN]

FinishPc == {"gated", "build", "gate", "fastForward", "create", "tidy", "complete",
             "refuse", "settle", "tidySettled", "completeSettled"}

FinishInit ==
  /\ finish = None /\ finished = "none"
  /\ base = [user |-> 0, commits |-> 0, has |-> FALSE]
  /\ primary = TRUE /\ tree = "branch" /\ made = 0 /\ opened = FALSE

\* The finish functions run in the mission's queue and touch nothing of its tasks.
Step(from, to) ==
  /\ At(from) /\ Goto(to)
  /\ UNCHANGED <<record, repo, stray>>

-----------------------------------------------------------------------------
(* The review's buttons.                                                   *)

FirstStep(how) == CASE how = "merge-local" -> "gated"
                    [] how = "pull-request" -> "create"
                    [] OTHER -> "tidy"

\* Recorded before git is touched.  One that was cut off is settled first.
AskFinish(how) ==
  /\ mission = "review"
  /\ \/ /\ finish = None
        /\ finish' = [how |-> how, unsure |-> FALSE]
        /\ Step("idle", FirstStep(how))
     \/ /\ finish # None
        /\ Step("idle", "settle") /\ UNCHANGED finish
  /\ UNCHANGED <<spent, finished, base, primary, tree, made, opened>>

-----------------------------------------------------------------------------
(* mergeLocalGated.                                                        *)

\* The merge is made in the integration worktree, detached at the base's tip.
\* A worktree that a cut-off Discard has removed cannot be made again.
Detach ==
  /\ \/ tree = "branch" /\ primary /\ Step("gated", "build") /\ tree' = "detached"
     \/ tree = "branch" /\ ~primary /\ Step("gated", "refuse") /\ UNCHANGED tree
     \/ tree = "removed" /\ Step("gated", "settle") /\ UNCHANGED tree
  /\ made' = base.commits
  /\ UNCHANGED <<spent, finish, finished, base, primary, opened>>

BuildMerge ==
  /\ Step("build", "gate") \/ Step("build", "refuse")
  /\ UNCHANGED <<spent, finishVars>>

Gate ==
  /\ Step("gate", "fastForward") \/ Step("gate", "refuse")
  /\ UNCHANGED <<spent, finishVars>>

\* Only to the commit the gate saw: `--ff-only`, from the tip it was made on.
FastForward ==
  /\ IF primary /\ base.commits = made
     THEN Step("fastForward", "tidy") /\ base' = [base EXCEPT !.commits = made, !.has = TRUE]
     ELSE Step("fastForward", "refuse") /\ UNCHANGED base
  /\ tree' = "branch"
  /\ UNCHANGED <<spent, finish, finished, primary, made, opened>>

-----------------------------------------------------------------------------
(* openPullRequest: GitHub may have opened it and the answer be lost.      *)

CreatePullRequest ==
  /\ \/ Step("create", "tidy") /\ opened' = TRUE
     \/ Step("create", "refuse") /\ opened' \in {opened, TRUE}
  /\ UNCHANGED <<spent, finish, finished, base, primary, tree, made>>

-----------------------------------------------------------------------------
(* How a finish ends.                                                      *)

\* The finisher's word that nothing changed: the buttons come back.
Refuse ==
  /\ At("refuse") /\ Return
  /\ finish' = None
  /\ tree' = IF tree = "detached" THEN "branch" ELSE tree
  /\ UNCHANGED <<record, repo, stray, spent, finished, base, primary, made, opened>>

\* completeFinish: the worktrees go first, once what they hold is in the base
\* or is to be discarded.
Tidy ==
  /\ Step("tidy", "complete") \/ Step("tidySettled", "completeSettled")
  /\ tree' = IF finish.how \in {"merge-local", "discard"} THEN "removed" ELSE tree
  /\ UNCHANGED <<spent, finish, finished, base, primary, made, opened>>

Complete ==
  /\ At("complete") \/ At("completeSettled")
  /\ Return
  /\ mission' = IF finish.how = "discard" THEN "cancelled" ELSE "completed"
  /\ finished' = finish.how
  /\ finish' = None
  /\ UNCHANGED <<task, attempt, pending, repo, stray, spent, base, primary, tree, made, opened>>

\* Any other error: whatever has happened is read back.
FinishThrows ==
  /\ \E pc \in {"build", "gate", "create", "complete"} : Step(pc, "settle")
  /\ Fault
  /\ UNCHANGED finishVars

-----------------------------------------------------------------------------
(* settleFinish: done, not done, or it cannot be told.                     *)

\* Mutant: a merge whose branch has gone with its worktree did not happen.
MutHappened == CASE finish.how = "merge-local" -> base.has /\ tree # "removed"
                 [] finish.how = "pull-request" -> opened
                 [] OTHER -> FALSE

\* The tip was recorded: the branch itself may have gone with its worktree.
Happened == CASE finish.how = "merge-local" -> base.has
              [] finish.how = "pull-request" -> opened
              [] OTHER -> FALSE

Settle ==
  /\ At("settle")
  /\ \/ /\ Happened
        /\ Goto("tidySettled") /\ UNCHANGED <<finish, spent>>
     \/ /\ ~Happened
        /\ finish' = None
        /\ Return /\ UNCHANGED spent
     \/ /\ finish.how \in {"merge-local", "pull-request"} /\ Fault
        /\ finish' = [finish EXCEPT !.unsure = TRUE]
        /\ Return
  /\ tree' = IF tree = "detached" /\ finish.how = "merge-local" THEN "branch" ELSE tree
  /\ UNCHANGED <<record, repo, stray, finished, base, primary, made, opened>>

\* Done, but that could not be recorded: the record stays as it is.
SettleThrows ==
  /\ At("completeSettled") /\ Fault /\ Return
  /\ UNCHANGED <<record, repo, stray, finishVars>>

\* "Check again".
Recheck ==
  /\ finish # None /\ Step("idle", "settle")
  /\ UNCHANGED <<spent, finishVars>>

\* The start-up pass: in review there is nothing else to recover.
RecoverFinish ==
  /\ At("recover") /\ finish # None
  /\ op' = [pc |-> "settle", task |-> None, todo |-> {}]
  /\ UNCHANGED <<record, repo, stray, spent, finishVars>>

-----------------------------------------------------------------------------
(* The user in the primary checkout.                                       *)

UserCommits ==
  /\ mission = "review" /\ base.user < MaxBaseMoves
  /\ base' = [base EXCEPT !.user = @ + 1, !.commits = @ + 1]
  /\ UNCHANGED <<runnerVars, finish, finished, primary, tree, made, opened>>

UserTakesCheckout ==
  /\ mission = "review" /\ finish # None
  /\ primary' = ~primary
  /\ UNCHANGED <<runnerVars, finish, finished, base, tree, made, opened>>

-----------------------------------------------------------------------------
FinishCore == \/ Detach \/ BuildMerge \/ Gate \/ FastForward \/ CreatePullRequest
              \/ Refuse \/ Tidy \/ Complete \/ Settle \/ RecoverFinish

FinishOther == \/ FinishThrows \/ SettleThrows \/ Recheck \/ UserCommits \/ UserTakesCheckout
               \/ \E how \in Picks : AskFinish(how)
=============================================================================
