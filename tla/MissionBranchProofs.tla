------------------------ MODULE MissionBranchProofs ------------------------
(***************************************************************************)
(* Proof that the mission branch holds what the mission's record says is   *)
(* done, for any tasks, attempts, failures and deaths of the core, as long *)
(* as a task whose reverted work is not back on its branch is not accepted *)
(* (~AcceptUnapplied; the mission_lost run shows what happens otherwise).  *)
(***************************************************************************)
EXTENDS MissionProofs

(* The mission branch and its record (BranchMatchesRecord).  Each unit of  *)
(* a task's tree is at the level its branch and the mission branch have    *)
(* it: before the task's merge, after it, after the merge's revert, and    *)
(* once the mission branch with the revert is merged into the task's.      *)

Lev(w) == Level(log, w)

Ready(t) == \A w \in Own(t) : \/ branch[t][w] = 0 /\ Lev(w) = 0
                              \/ branch[t][w] = Lev(w) + 1 /\ ~Odd(Lev(w))

Held(t) == \A w \in Own(t) : \/ branch[t][w] = 0 /\ Lev(w) = 0
                             \/ branch[t][w] = Lev(w) /\ Odd(Lev(w))

Undone(t) == \A w \in Own(t) : \/ branch[t][w] = 0 /\ Lev(w) = 0
                               \/ branch[t][w] + 1 = Lev(w) /\ ~Odd(Lev(w))

Caught(t) == \A w \in Own(t) : \/ branch[t][w] = 0 /\ Lev(w) = 0
                               \/ branch[t][w] = Lev(w) /\ ~Odd(Lev(w))

(* Its reverted work is not back on its branch, and only a fresh attempt   *)
(* can follow.                                                             *)
Lost(t) ==
  /\ task[t].last = "reverted" /\ task[t].st \in {"needs-human", "skipped", "cancelled"}
  /\ attempt[t].st = "succeeded"
  /\ Undone(t) \/ Caught(t)

(* The last commit on the mission branch is of t, with all its tree has.   *)
TipIs(t, kind) ==
  /\ Len(log) > 0 /\ Tip(log).kind = kind /\ Tip(log).of = t
  /\ Tip(log).delta = {w \in Own(t) : branch[t][w] > 0}

(* How far the merge of the write-ahead record has got, by git alone.      *)
Made(n) == Len(log) = pending.pre + n

Merging(t) ==
  /\ task[t].st = "integrating" /\ attempt[t].st = "succeeded"
  /\ \/ Made(0) /\ Ready(t)
     \/ Made(1) /\ Held(t) /\ TipIs(t, "merge")
     \/ /\ Made(2) /\ Undone(t) /\ TipIs(t, "revert")
        /\ log[Len(log) - 1].kind = "merge" /\ log[Len(log) - 1].of = t

(* Where each task's tree stands.                                          *)
Stands(t) ==
  /\ task[t].st = "done" => Held(t) /\ attempt[t].st = "succeeded"
  /\ pending # None /\ pending.task = t => Merging(t)
  /\ task[t].st # "done" /\ (pending = None \/ pending.task # t) => Ready(t) \/ Lost(t)

Standing == \A t \in Task : Stands(t)

(* Other units: of other tasks, of earlier trees, of attempts to come.     *)
OtherUnits ==
  /\ \A t \in Task : \A w \in Unit : w[1] # t => branch[t][w] <= Lev(w)
  /\ \A t \in Task : \A k \in 1 .. MaxStarts :
       /\ k < attempt[t].tree => branch[t][<<t, k>>] <= Lev(<<t, k>>) /\ ~Odd(Lev(<<t, k>>))
       /\ k > attempt[t].n => branch[t][<<t, k>>] = 0 /\ Lev(<<t, k>>) = 0

(* Attempts, and the tasks they are of.                                    *)
Attempted(t) ==
  /\ attempt[t].tree <= attempt[t].n + 1
  /\ attempt[t].st # "none" => attempt[t].tree <= attempt[t].n
  /\ attempt[t].st = "succeeded" => branch[t][Work(t)] > 0
  /\ attempt[t].st \in {"running", "finishing"} => task[t].st = "running"
  /\ attempt[t].st = "finishing" => \/ op.task = t /\ op.pc \in {"finish", "check"}
                                    \/ At("down") \/ t \in op.todo

Attempts == \A t \in Task : Attempted(t)

(* What each point of the queue's functions knows.                         *)
MergingPc == {"merge", "conflicted", "conflict", "verify", "revert", "merged", "reverted"}

Points ==
  /\ op.pc \in {"idle", "cancel"} => op.todo = {}
  /\ pending # None => op.pc \in MergingPc \union {"error", "down", "recover"}
  /\ op.pc \in MergingPc => pending # None /\ pending.task = op.task
  /\ op.pc \in {"merge", "conflicted", "conflict"} => Made(0)
  /\ op.pc \in {"verify", "revert", "merged"} => Made(1)
  /\ At("reverted") => Made(2)
  /\ At("error") /\ pending # None => pending.task = op.task /\ Made(0)
  /\ At("error") => /\ op.task \in Task /\ task[op.task].st = "integrating"
                    /\ Ready(op.task)
  /\ ~At("unreverted")
  /\ op.pc \in {"finish", "check"} => op.task \in Task /\ attempt[op.task].st = "finishing"
  /\ At("check") => branch[op.task][Work(op.task)] > 0
  /\ op.pc \in {"integrate", "ready", "resolve", "launchResolver"} =>
       op.task \in Task /\ attempt[op.task].st = "succeeded"
  /\ op.pc \in {"integrate", "ready", "resolve", "launchResolver", "escalate"} =>
       op.task \in Task /\ task[op.task].st # "done" /\ Ready(op.task)
  /\ At("ready") => task[op.task].st = "integrating"
  /\ op.pc \in {"reapplyMerge", "reapplyRevert"} =>
       op.task \in Task /\ task[op.task].st # "done" /\ TipIs(op.task, "revert")
  /\ At("reapplyMerge") => Undone(op.task)
  /\ At("reapplyRevert") => Caught(op.task)

(* In review nothing is left to merge.                                     *)
Reviewed ==
  mission = "review" =>
    /\ \A t \in Task : task[t].st \in {"done", "skipped"}
    /\ pending = None
    /\ op.pc \in {"idle", "down", "recover"} \union FinishPc

Branches == Standing /\ OtherUnits /\ Attempts /\ Points /\ Reviewed
BInv == ~stray => Branches

-----------------------------------------------------------------------------
(* Levels.                                                                 *)

LEMMA OddSucc ==
  ASSUME NEW n \in Nat
  PROVE  (Odd(n + 1) <=> ~Odd(n)) /\ ~Odd(0)
BY DEF Odd

(* A commit raises the levels of its units by one, and no other.           *)
LEMMA LevelAppend ==
  ASSUME NEW l \in Seq(Commit), NEW c \in Commit, NEW w
  PROVE  Level(Append(l, c), w) = IF w \in c.delta THEN Level(l, w) + 1 ELSE Level(l, w)
<1> DEFINE In(s) == {i \in DOMAIN s : w \in s[i].delta}
           n == Len(l) + 1
<1>1. /\ Append(l, c) \in Seq(Commit) /\ Len(l) \in Nat
      /\ DOMAIN l = 1 .. Len(l) /\ DOMAIN Append(l, c) = 1 .. n
      /\ \A i \in 1 .. Len(l) : Append(l, c)[i] = l[i]
      /\ Append(l, c)[n] = c
  BY LenProperties, AppendProperties
<1>2. IsFiniteSet(In(l)) /\ n \notin In(l)
  <2>1. IsFiniteSet(1 .. Len(l)) /\ In(l) \subseteq 1 .. Len(l)
    BY <1>1, FS_Interval
  <2>2. QED  BY <2>1, <1>1, FS_Subset
<1>3. In(Append(l, c)) = IF w \in c.delta THEN In(l) \union {n} ELSE In(l)
  BY <1>1
<1>4. w \in c.delta => Cardinality(In(l) \union {n}) = Cardinality(In(l)) + 1
  BY <1>2, FS_AddElement
<1>5. QED  BY <1>3, <1>4 DEF Level

(* A beginning of the branch has no higher levels.                         *)
LEMMA LevelPrefix ==
  ASSUME NEW l \in Seq(Commit), NEW m \in Nat, m <= Len(l), NEW w
  PROVE  Level(SubSeq(l, 1, m), w) \in Nat /\ Level(SubSeq(l, 1, m), w) <= Level(l, w)
<1> DEFINE In(s) == {i \in DOMAIN s : w \in s[i].delta}
           p == SubSeq(l, 1, m)
<1>1. /\ p \in Seq(Commit) /\ Len(l) \in Nat /\ DOMAIN l = 1 .. Len(l)
      /\ DOMAIN p = 1 .. m /\ \A i \in 1 .. m : p[i] = l[i]
  <2>1. Len(l) \in Nat /\ DOMAIN l = 1 .. Len(l)
    BY LenProperties
  <2>2. p \in Seq(Commit) /\ Len(p) = m /\ \A i \in 1 .. m : p[i] = l[i]
    BY <2>1, SubSeqProperties
  <2>3. DOMAIN p = 1 .. m
    BY <2>2, LenProperties
  <2>4. QED  BY <2>1, <2>2, <2>3
<1>2. IsFiniteSet(In(l))
  <2>1. IsFiniteSet(1 .. Len(l)) /\ In(l) \subseteq 1 .. Len(l)
    BY <1>1, FS_Interval
  <2>2. QED  BY <2>1, FS_Subset
<1>3. In(p) \subseteq In(l)
  BY <1>1
<1>4. Cardinality(In(p)) <= Cardinality(In(l))
  BY <1>2, <1>3, FS_Subset
<1>5. QED  BY <1>1, <1>4, LevelType DEF Level

-----------------------------------------------------------------------------
(* What a change of one branch, or of the mission branch, leaves alone.    *)

Nums == /\ log \in Seq(Commit)
        /\ \A t \in Task : /\ branch[t] \in [Unit -> Nat]
                          /\ attempt[t].n \in 0 .. MaxStarts
                          /\ attempt[t].tree \in 1 .. MaxStarts

LEMMA NumsType == RunnerType => Nums
BY DEF RunnerType, RecordType, RepoType, Nums

LEMMA OwnUnits ==
  ASSUME Nums, NEW t \in Task
  PROVE  /\ Own(t) \subseteq Unit
         /\ \A s \in Task : \A k : <<s, k>> \in Own(t) <=>
              s = t /\ k \in attempt[t].tree .. attempt[t].n
         /\ \A w \in Own(t) : w[1] = t
         /\ \A w \in Unit : Lev(w) \in Nat
BY LevelType, MaxStartsAssumption DEF Nums, Own, Unit, Lev

StillTree(t) == attempt'[t].n = attempt[t].n /\ attempt'[t].tree = attempt[t].tree

LEMMA StillStanding ==
  ASSUME Nums, NEW t \in Task, branch'[t] = branch[t], StillTree(t),
         \A w \in Own(t) : Lev(w)' = Lev(w)
  PROVE  /\ Own(t)' = Own(t)
         /\ Ready(t)' <=> Ready(t)
         /\ Held(t)' <=> Held(t)
         /\ Undone(t)' <=> Undone(t)
         /\ Caught(t)' <=> Caught(t)
<1>1. Own(t)' = Own(t)
  BY DEF Own, StillTree
<1>2. QED  BY <1>1 DEF Ready, Held, Undone, Caught, Lev

(* Nothing has moved.                                                      *)
LEMMA NothingMoved ==
  ASSUME Nums, log' = log, branch' = branch, \A s \in Task : StillTree(s), NEW t \in Task
  PROVE  /\ Ready(t)' <=> Ready(t)
         /\ Held(t)' <=> Held(t)
         /\ Undone(t)' <=> Undone(t)
         /\ Caught(t)' <=> Caught(t)
         /\ TipIs(t, "merge")' <=> TipIs(t, "merge")
         /\ TipIs(t, "revert")' <=> TipIs(t, "revert")
<1>1. \A w : Lev(w)' = Lev(w)
  BY DEF Lev
<1>2. Own(t)' = Own(t)
  BY StillStanding, <1>1
<1>3. /\ TipIs(t, "merge")' <=> TipIs(t, "merge")
      /\ TipIs(t, "revert")' <=> TipIs(t, "revert")
  BY <1>2 DEF TipIs, Tip
<1>4. QED  BY <1>1, <1>3, StillStanding

LEMMA OthersUnmoved ==
  ASSUME OtherUnits, log' = log, branch' = branch, \A s \in Task : StillTree(s)
  PROVE  OtherUnits'
<1>1. \A w : Lev(w)' = Lev(w)
  BY DEF Lev
<1>2. \A t \in Task : \A w \in Unit : w[1] # t => branch'[t][w] <= Lev(w)'
  BY <1>1 DEF OtherUnits
<1>3. \A t \in Task : \A k \in 1 .. MaxStarts :
        /\ k < attempt'[t].tree =>
             branch'[t][<<t, k>>] <= Lev(<<t, k>>)' /\ ~Odd(Lev(<<t, k>>)')
        /\ k > attempt'[t].n => branch'[t][<<t, k>>] = 0 /\ Lev(<<t, k>>)' = 0
  BY <1>1 DEF OtherUnits, StillTree
<1>4. QED  BY <1>2, <1>3 DEF OtherUnits

(* A commit on the mission branch of units of one task's tree.             *)
LEMMA OthersOnCommit ==
  ASSUME Nums, OtherUnits, NEW t \in Task, NEW c \in Commit, c.delta \subseteq Own(t),
         log' = Append(log, c), branch' = branch, attempt' = attempt
  PROVE  /\ OtherUnits'
         /\ \A w \in Unit : Lev(w)' = IF w \in c.delta THEN Lev(w) + 1 ELSE Lev(w)
         /\ \A s \in Task \ {t} : \A w \in Own(s) : Lev(w)' = Lev(w)
<1>1. \A w : Lev(w)' = IF w \in c.delta THEN Lev(w) + 1 ELSE Lev(w)
  BY LevelAppend DEF Lev, Nums
<1>2. \A w \in Unit : Lev(w) \in Nat
  BY OwnUnits
<1>3. \A s \in Task \ {t} : \A w \in Own(s) : Lev(w)' = Lev(w)
  BY <1>1, OwnUnits
<1>4. \A s \in Task : \A w \in Unit : w[1] # s => (branch[s][w])' <= Lev(w)'
  BY <1>1, <1>2 DEF OtherUnits, Nums
<1>5. ASSUME NEW s \in Task, NEW k \in 1 .. MaxStarts,
             k < attempt[s].tree \/ k > attempt[s].n
      PROVE  Lev(<<s, k>>)' = Lev(<<s, k>>)
  BY <1>1, <1>5, OwnUnits, MaxStartsAssumption DEF Nums
<1>6. QED  BY <1>1, <1>3, <1>4, <1>5 DEF OtherUnits

(* A change of one task's branch: what is not of its tree it gets from the *)
(* mission branch.                                                         *)
LEMMA OthersOnBranch ==
  ASSUME Nums, OtherUnits, NEW t \in Task, NEW b \in [Unit -> Nat],
         \A w \in Unit \ Own(t) : b[w] = branch[t][w] \/ b[w] <= Lev(w),
         log' = log, branch' = [branch EXCEPT ![t] = b], \A s \in Task : StillTree(s),
         branch \in [Task -> [Unit -> Nat]]
  PROVE  OtherUnits'
<1>1. \A w : Lev(w)' = Lev(w)
  BY DEF Lev
<1>2. \A s \in Task : (branch[s])' = IF s = t THEN b ELSE branch[s]
  OBVIOUS
<1>3. \A s \in Task : \A w \in Unit : w[1] # s => (branch[s][w])' <= Lev(w)'
  BY <1>1, <1>2, OwnUnits DEF OtherUnits
<1>4. ASSUME NEW s \in Task, NEW k \in 1 .. MaxStarts
      PROVE  /\ k < attempt[s].tree =>
                  branch'[s][<<s, k>>] <= Lev(<<s, k>>)' /\ ~Odd(Lev(<<s, k>>)')
             /\ k > attempt[s].n => branch'[s][<<s, k>>] = 0 /\ Lev(<<s, k>>)' = 0
  <2>1. <<s, k>> \in Unit
    BY DEF Unit
  <2>2. k < attempt[s].tree \/ k > attempt[s].n => <<s, k>> \notin Own(t)
    BY OwnUnits DEF Nums
  <2>3. QED  BY <1>1, <1>2, <2>1, <2>2 DEF OtherUnits
<1>5. QED  BY <1>3, <1>4 DEF OtherUnits, StillTree

-----------------------------------------------------------------------------
(* Steps that leave the branches alone.                                    *)

Known == RunnerType /\ RunnerType' /\ Finishing /\ Branches

(* The recorder's and git's parts that such a step starts from.            *)
LEMMA Unmoved ==
  ASSUME Known, log' = log, branch' = branch, \A s \in Task : StillTree(s), NEW t \in Task
  PROVE  /\ Ready(t)' <=> Ready(t)
         /\ Held(t)' <=> Held(t)
         /\ Undone(t)' <=> Undone(t)
         /\ Caught(t)' <=> Caught(t)
         /\ TipIs(t, "merge")' <=> TipIs(t, "merge")
         /\ TipIs(t, "revert")' <=> TipIs(t, "revert")
         /\ Work(t)' = Work(t)
<1>1. Nums
  BY NumsType DEF Known
<1>2. Work(t)' = Work(t)
  BY DEF Work, StillTree
<1>3. QED  BY <1>1, <1>2, NothingMoved

(* Where the queue is after a step.                                        *)
LEMMA Queue ==
  ASSUME OpType
  PROVE  /\ \A pc : Goto(pc) => op'.pc = pc /\ op'.task = op.task /\ op'.todo = op.todo
         /\ \A pc : \A t : Begin(pc, t) => op'.pc = pc /\ op'.task = t /\ op'.todo = op.todo
         /\ Return => /\ op'.pc = IF op.todo = {} THEN "idle" ELSE "recover"
                      /\ op'.task = None /\ op'.todo = op.todo
BY DEF OpType, Goto, Begin, Return

(* A task that the step is not about stands as it did.                     *)
LEMMA StandsStill ==
  ASSUME Known, NEW t \in Task, task'[t] = task[t], attempt'[t].st = attempt[t].st,
         log' = log, branch' = branch, \A s \in Task : StillTree(s),
         \/ pending' = pending
         \/ /\ pending' = None \/ pending'.task # t
            /\ pending = None \/ pending.task # t
  PROVE  Stands(t)'
<1>1. Stands(t)
  BY DEF Known, Branches, Standing
<1>2. pending' = pending /\ Merging(t) => Merging(t)'
  BY Unmoved DEF Merging, Made
<1>3. Lost(t)' <=> Lost(t)
  BY Unmoved DEF Lost
<1>4. QED  BY <1>1, <1>2, <1>3, Unmoved DEF Stands

LEMMA AttemptedStill ==
  ASSUME Known, NEW t \in Task, task'[t] = task[t], attempt'[t] = attempt[t],
         log' = log, branch' = branch, \A s \in Task : StillTree(s),
         op.pc \notin {"finish", "check"} \/ op.task # t, ~At("down"),
         t \in op.todo => t \in op'.todo
  PROVE  Attempted(t)'
<1>1. Attempted(t)
  BY DEF Known, Branches, Attempts
<1>2. QED  BY <1>1, Unmoved DEF Attempted, At

-----------------------------------------------------------------------------
(* What the write-ahead record and git say of the merge under way.         *)
LEMMA MergeUnderWay ==
  ASSUME Known, NEW t \in Task, pending # None, pending.task = t
  PROVE  /\ task[t].st = "integrating" /\ attempt[t].st = "succeeded"
         /\ Made(0) => Ready(t)
         /\ Made(1) => Held(t) /\ TipIs(t, "merge")
         /\ Made(2) => Undone(t) /\ TipIs(t, "revert")
<1>1. Merging(t)
  BY DEF Known, Branches, Standing, Stands
<1>2. pending.pre \in Nat /\ Len(log) \in Nat
  BY LenProperties DEF Known, RunnerType, RecordType, RepoType
<1>3. QED  BY <1>1, <1>2 DEF Merging, Made

(* A step about t, if about a task at all.                                 *)
Frame(t) ==
  /\ log' = log /\ branch' = branch /\ \A s \in Task : StillTree(s)
  /\ \A s \in Task \ {t} : task'[s] = task[s] /\ attempt'[s] = attempt[s]

LEMMA QuietStep ==
  ASSUME Known, NEW t, Frame(t),
         pending' # pending => /\ pending' = None \/ pending'.task = t
                               /\ pending = None \/ pending.task = t,
         op.pc \in {"finish", "check"} => op.task = t, ~At("down"), op.todo \ {t} \subseteq op'.todo,
         t \in Task => Stands(t)' /\ Attempted(t)', Points', Reviewed'
  PROVE  Branches'
<1>1. OtherUnits'
  BY OthersUnmoved DEF Known, Branches, Frame
<1>2. ASSUME NEW s \in Task, s # t PROVE Stands(s)' /\ Attempted(s)'
  <2>1. /\ task'[s] = task[s] /\ attempt'[s].st = attempt[s].st
        /\ log' = log /\ branch' = branch /\ \A u \in Task : StillTree(u)
    BY <1>2 DEF Frame
  <2>3. \/ pending' = pending
        \/ /\ pending' = None \/ pending'.task # s
           /\ pending = None \/ pending.task # s
    BY <1>2
  <2>4. Stands(s)'
    BY <2>1, <2>3, StandsStill
  <2>2. Attempted(s)'
    BY <1>2, AttemptedStill DEF Frame
  <2>5. QED  BY <2>4, <2>2
<1>3. Standing' /\ Attempts'
  BY <1>2 DEF Standing, Attempts
<1>4. QED  BY <1>1, <1>3 DEF Branches

-----------------------------------------------------------------------------
(* The points of the queue's functions at which no branch changes.         *)

LEMMA CheckKeeps ==
  ASSUME Known, NEW t \in Task, Check(t)
  PROVE  Branches'
<1>1. Frame(t) /\ mission' = mission
  BY DEF Check, Frame, EndAttempt, SetAttempt, SetTask, ToHuman, StillTree, Known, RunnerType, RecordType, record, repo
<1>2. /\ attempt[t].st = "finishing" /\ pending = None /\ branch[t][Work(t)] > 0
      /\ op.pc = "check" /\ op.task = t /\ Stands(t) /\ Attempted(t)
  BY DEF Check, At, Idle, Known, Branches, Points, MergingPc, Standing, Attempts
<1>3. /\ attempt'[t].n = attempt[t].n /\ attempt'[t].tree = attempt[t].tree
      /\ op'.todo = op.todo /\ pending' = pending
      /\ \/ /\ attempt'[t].st = "succeeded" /\ task'[t].st = "verifying"
            /\ op'.pc = "integrate" /\ op'.task = t
         \/ /\ attempt'[t].st = "failed" /\ task'[t].st = "needs-human"
            /\ op'.pc = "escalate" /\ op'.task = t
         \/ /\ attempt'[t].st = "succeeded" /\ task'[t].st = "needs-human"
            /\ op'.pc = (IF op.todo = {} THEN "idle" ELSE "recover") /\ op'.task = None
  BY <1>2, Queue DEF Check, EndAttempt, SetAttempt, SetTask, ToHuman, StillTree, Known, RunnerType, RecordType, record, repo
<1>4. Stands(t)'
  BY <1>1, <1>2, <1>3, Unmoved DEF Stands, Lost, Frame
<1>5. Attempted(t)'
  BY <1>1, <1>2, <1>3, Unmoved DEF Attempted, Frame, StillTree, Stands, At
<1>6. Points'
  BY <1>1, <1>2, <1>3, Unmoved DEF Points, MergingPc, At, Frame, Stands, Merging, Made, Lost, Attempted
<1>7. Reviewed'
  BY <1>1, <1>2, <1>3 DEF Reviewed, Known, Branches, FinishPc
<1>8. QED  BY <1>1, <1>2, <1>3, <1>4, <1>5, <1>6, <1>7, QuietStep DEF At, Frame

LEMMA EscalateKeeps ==
  ASSUME Known, NEW t \in Task, Escalate(t)
  PROVE  Branches'
<1>1. Frame(t) /\ mission' = mission
  BY DEF Escalate, Frame, EndAttempt, SetAttempt, SetTask, ToHuman, StillTree, Known, RunnerType, RecordType, record, repo
<1>2. /\ op.pc = "escalate" /\ op.task = t /\ pending = None
      /\ task[t].st # "done" /\ Ready(t) /\ Stands(t) /\ Attempted(t)
  BY DEF Escalate, At, Idle, Known, Branches, Points, MergingPc, Standing, Attempts
<1>3. /\ attempt' = attempt /\ op'.todo = op.todo /\ pending' = pending
      /\ op'.pc = (IF op.todo = {} THEN "idle" ELSE "recover") /\ op'.task = None
      /\ task'[t] = task[t] \/ (task[t].st = "needs-human" /\ task'[t].st = "queued")
  BY <1>2, Queue DEF Escalate, EndAttempt, SetAttempt, SetTask, ToHuman, StillTree, Known, RunnerType, RecordType, record, repo
<1>4. Stands(t)'
  BY <1>1, <1>2, <1>3, Unmoved DEF Stands, Lost, Frame
<1>5. Attempted(t)'
  BY <1>1, <1>2, <1>3, Unmoved DEF Attempted, Frame, StillTree, Stands, At
<1>6. Points'
  BY <1>1, <1>2, <1>3, Unmoved DEF Points, MergingPc, At, Frame, Stands, Merging, Made, Lost
<1>7. Reviewed'
  BY <1>1, <1>2, <1>3 DEF Reviewed, Known, Branches, FinishPc
<1>8. QED  BY <1>1, <1>2, <1>3, <1>4, <1>5, <1>6, <1>7, QuietStep DEF At, Frame

LEMMA IntegrateKeeps ==
  ASSUME Known, NEW t \in Task, Integrate(t)
  PROVE  Branches'
<1>1. Frame(t) /\ mission' = mission
  BY DEF Integrate, Frame, EndAttempt, SetAttempt, SetTask, ToHuman, StillTree, Known, RunnerType, RecordType, record, repo
<1>2. /\ op.pc = "integrate" /\ op.task = t /\ pending = None /\ attempt[t].st = "succeeded"
      /\ task[t].st # "done" /\ Ready(t) /\ Stands(t) /\ Attempted(t)
  BY DEF Integrate, At, Idle, Known, Branches, Points, MergingPc, Standing, Attempts
<1>3. /\ attempt' = attempt /\ op'.todo = op.todo /\ pending' = pending
      /\ op'.pc = "ready" /\ op'.task = t /\ task'[t].st = "integrating"
  BY <1>2, Queue DEF Integrate, EndAttempt, SetAttempt, SetTask, ToHuman, StillTree, Known, RunnerType, RecordType, record, repo
<1>4. Stands(t)'
  BY <1>1, <1>2, <1>3, Unmoved DEF Stands, Lost, Frame
<1>5. Attempted(t)'
  BY <1>1, <1>2, <1>3, Unmoved DEF Attempted, Frame, StillTree, Stands, At
<1>6. Points'
  BY <1>1, <1>2, <1>3, Unmoved DEF Points, MergingPc, At, Frame, Stands, Merging, Made, Lost
<1>7. Reviewed'
  BY <1>1, <1>2, <1>3 DEF Reviewed, Known, Branches, FinishPc
<1>8. QED  BY <1>1, <1>2, <1>3, <1>4, <1>5, <1>6, <1>7, QuietStep DEF At, Frame

LEMMA BeforeMergeKeeps ==
  ASSUME Known, NEW t \in Task, BeforeMerge(t)
  PROVE  Branches'
<1>1. Frame(t) /\ mission' = mission
  BY DEF BeforeMerge, Frame, EndAttempt, SetAttempt, SetTask, ToHuman, StillTree, Known, RunnerType, RecordType, record, repo
<1>2. /\ op.pc = "ready" /\ op.task = t /\ pending = None /\ attempt[t].st = "succeeded"
      /\ task[t].st = "integrating" /\ Ready(t) /\ Stands(t) /\ Attempted(t)
  BY DEF BeforeMerge, At, Idle, Known, Branches, Points, MergingPc, Standing, Attempts
<1>3. /\ attempt' = attempt /\ task' = task /\ op'.todo = op.todo /\ op'.task = t
      /\ \/ pending' = [task |-> t, pre |-> Len(log)] /\ op'.pc = "merge"
         \/ pending' = None /\ op'.pc = "error"
  BY <1>2, Queue DEF BeforeMerge, EndAttempt, SetAttempt, SetTask, ToHuman, StillTree, Known, RunnerType, RecordType, record, repo
<1>4. Stands(t)'
  BY <1>1, <1>2, <1>3, Unmoved, NoneAssumption DEF Stands, Lost, Frame, Merging, Made, Attempted
<1>5. Attempted(t)'
  BY <1>1, <1>2, <1>3, Unmoved DEF Attempted, Frame, StillTree, Stands, At
<1>6. Points'
  BY <1>1, <1>2, <1>3, Unmoved, NoneAssumption DEF Points, MergingPc, At, Frame, Stands, Merging, Made, Lost
<1>7. Reviewed'
  BY <1>1, <1>2, <1>3 DEF Reviewed, Known, Branches, FinishPc
<1>8. QED  BY <1>1, <1>2, <1>3, <1>4, <1>5, <1>6, <1>7, QuietStep DEF At, Frame

LEMMA VerifyMergeKeeps ==
  ASSUME Known, NEW t \in Task, VerifyMerge(t), ~stray'
  PROVE  Branches'
<1>1. Frame(t) /\ mission' = mission
  BY DEF VerifyMerge, Frame, EndAttempt, SetAttempt, SetTask, ToHuman, StillTree, Known, RunnerType, RecordType, record, repo
<1>2. /\ op.pc = "verify" /\ op.task = t /\ pending # None /\ pending.task = t /\ Made(1)
      /\ Stands(t) /\ Attempted(t)
  BY DEF VerifyMerge, At, Idle, Known, Branches, Points, MergingPc, Standing, Attempts
<1>3. /\ attempt' = attempt /\ task' = task /\ op'.todo = op.todo /\ op'.task = t
      /\ pending' = pending /\ op'.pc \in {"merged", "revert"}
  BY <1>2, Queue DEF VerifyMerge, EndAttempt, SetAttempt, SetTask, ToHuman, StillTree, Known, RunnerType, RecordType, record, repo
<1>4. Stands(t)'
  BY <1>1, <1>2, <1>3, Unmoved DEF Stands, Lost, Frame, Merging, Made, Attempted
<1>5. Attempted(t)'
  BY <1>1, <1>2, <1>3, Unmoved DEF Attempted, Frame, StillTree, Stands, At
<1>6. Points'
  BY <1>1, <1>2, <1>3, Unmoved DEF Points, MergingPc, At, Frame, Stands, Merging, Made, Lost
<1>7. Reviewed'
  BY <1>1, <1>2, <1>3 DEF Reviewed, Known, Branches, FinishPc
<1>8. QED  BY <1>1, <1>2, <1>3, <1>4, <1>5, <1>6, <1>7, QuietStep DEF At, Frame

LEMMA MergedKeeps ==
  ASSUME Known, NEW t \in Task, Merged(t)
  PROVE  Branches'
<1>1. Frame(t) /\ mission' = mission
  BY DEF Merged, Frame, EndAttempt, SetAttempt, SetTask, ToHuman, StillTree, Known, RunnerType, RecordType, record, repo
<1>2. /\ op.pc = "merged" /\ op.task = t /\ pending # None /\ pending.task = t /\ Made(1)
      /\ Stands(t) /\ Attempted(t)
  BY DEF Merged, At, Idle, Known, Branches, Points, MergingPc, Standing, Attempts
<1>3. /\ attempt' = attempt /\ task'[t].st = "done" /\ op'.todo = op.todo /\ op'.task = None
      /\ pending' = None /\ op'.pc = (IF op.todo = {} THEN "idle" ELSE "recover")
  BY <1>2, MergeUnderWay, Queue DEF Merged, EndAttempt, SetAttempt, SetTask, ToHuman, StillTree, Known, RunnerType, RecordType, record, repo
<1>m. /\ task[t].st = "integrating" /\ attempt[t].st = "succeeded"
      /\ Made(0) => Ready(t)
      /\ Made(1) => Held(t) /\ TipIs(t, "merge")
      /\ Made(2) => Undone(t) /\ TipIs(t, "revert")
  BY <1>2, MergeUnderWay
<1>4. Stands(t)'
  BY <1>1, <1>2, <1>3, <1>m, Unmoved DEF Stands, Lost, Frame
<1>5. Attempted(t)'
  BY <1>1, <1>2, <1>3, <1>m, Unmoved DEF Attempted, Frame, StillTree, Stands, At
<1>6. Points'
  BY <1>1, <1>2, <1>3, <1>m, Unmoved DEF Points, MergingPc, At, Frame, Stands, Lost
<1>7. Reviewed'
  BY <1>1, <1>2, <1>3 DEF Reviewed, Known, Branches, FinishPc
<1>8. QED  BY <1>1, <1>2, <1>3, <1>4, <1>5, <1>6, <1>7, QuietStep DEF At, Frame

LEMMA ConflictKeeps ==
  ASSUME Known, NEW t \in Task, Conflict(t)
  PROVE  Branches'
<1>1. Frame(t) /\ mission' = mission
  BY DEF Conflict, Frame, EndAttempt, SetAttempt, SetTask, ToHuman, StillTree, Known, RunnerType, RecordType, record, repo
<1>2. /\ op.pc = "conflict" /\ op.task = t /\ pending # None /\ pending.task = t /\ Made(0)
      /\ Stands(t) /\ Attempted(t)
  BY DEF Conflict, At, Idle, Known, Branches, Points, MergingPc, Standing, Attempts
<1>3. /\ attempt' = attempt /\ task'[t].st = "needs-human" /\ op'.todo = op.todo
      /\ pending' = None
      /\ \/ op'.pc = "resolve" /\ op'.task = t
         \/ op'.pc = (IF op.todo = {} THEN "idle" ELSE "recover") /\ op'.task = None
  BY <1>2, MergeUnderWay, Queue DEF Conflict, EndAttempt, SetAttempt, SetTask, ToHuman, StillTree, Known, RunnerType, RecordType, record, repo
<1>m. /\ task[t].st = "integrating" /\ attempt[t].st = "succeeded"
      /\ Made(0) => Ready(t)
      /\ Made(1) => Held(t) /\ TipIs(t, "merge")
      /\ Made(2) => Undone(t) /\ TipIs(t, "revert")
  BY <1>2, MergeUnderWay
<1>4. Stands(t)'
  BY <1>1, <1>2, <1>3, <1>m, Unmoved DEF Stands, Lost, Frame
<1>5. Attempted(t)'
  BY <1>1, <1>2, <1>3, <1>m, Unmoved DEF Attempted, Frame, StillTree, Stands, At
<1>6. Points'
  BY <1>1, <1>2, <1>3, <1>m, Unmoved DEF Points, MergingPc, At, Frame, Stands, Lost
<1>7. Reviewed'
  BY <1>1, <1>2, <1>3 DEF Reviewed, Known, Branches, FinishPc
<1>8. QED  BY <1>1, <1>2, <1>3, <1>4, <1>5, <1>6, <1>7, QuietStep DEF At, Frame

LEMMA RevertedKeeps ==
  ASSUME Known, NEW t \in Task, Reverted(t)
  PROVE  Branches'
<1>1. Frame(t) /\ mission' = mission
  BY DEF Reverted, Frame, EndAttempt, SetAttempt, SetTask, ToHuman, StillTree, Known, RunnerType, RecordType, record, repo
<1>2. /\ op.pc = "reverted" /\ op.task = t /\ pending # None /\ pending.task = t /\ Made(2)
      /\ Stands(t) /\ Attempted(t)
  BY DEF Reverted, At, Idle, Known, Branches, Points, MergingPc, Standing, Attempts
<1>3. /\ attempt' = attempt /\ task'[t].st = "needs-human" /\ task'[t].last = "reverted"
      /\ op'.todo = op.todo /\ pending' = None /\ op'.pc = "reapplyMerge" /\ op'.task = t
  BY <1>2, MergeUnderWay, Queue DEF Reverted, EndAttempt, SetAttempt, SetTask, ToHuman, StillTree, Known, RunnerType, RecordType, record, repo
<1>m. /\ task[t].st = "integrating" /\ attempt[t].st = "succeeded"
      /\ Made(0) => Ready(t)
      /\ Made(1) => Held(t) /\ TipIs(t, "merge")
      /\ Made(2) => Undone(t) /\ TipIs(t, "revert")
  BY <1>2, MergeUnderWay
<1>4. Stands(t)'
  BY <1>1, <1>2, <1>3, <1>m, Unmoved DEF Stands, Lost, Frame
<1>5. Attempted(t)'
  BY <1>1, <1>2, <1>3, <1>m, Unmoved DEF Attempted, Frame, StillTree, Stands, At
<1>6. Points'
  BY <1>1, <1>2, <1>3, <1>m, Unmoved DEF Points, MergingPc, At, Frame, Stands, Lost
<1>7. Reviewed'
  BY <1>1, <1>2, <1>3 DEF Reviewed, Known, Branches, FinishPc
<1>8. QED  BY <1>1, <1>2, <1>3, <1>4, <1>5, <1>6, <1>7, QuietStep DEF At, Frame

LEMMA ErrorKeeps ==
  ASSUME Known, NEW t \in Task, Error(t)
  PROVE  Branches'
<1>1. Frame(t) /\ mission' = mission
  BY DEF Error, Frame, EndAttempt, SetAttempt, SetTask, ToHuman, StillTree, Known, RunnerType, RecordType, record, repo
<1>2. /\ op.pc = "error" /\ op.task = t /\ (pending # None => pending.task = t)
      /\ task[t].st = "integrating" /\ Ready(t) /\ Stands(t) /\ Attempted(t)
  BY DEF Error, At, Idle, Known, Branches, Points, MergingPc, Standing, Attempts
<1>3. /\ attempt' = attempt /\ task'[t].st = "needs-human" /\ op'.todo = op.todo
      /\ pending' = None /\ op'.pc = (IF op.todo = {} THEN "idle" ELSE "recover") /\ op'.task = None
  BY <1>2, Queue DEF Error, EndAttempt, SetAttempt, SetTask, ToHuman, StillTree, Known, RunnerType, RecordType, record, repo
<1>4. Stands(t)'
  BY <1>1, <1>2, <1>3, Unmoved DEF Stands, Lost, Frame
<1>5. Attempted(t)'
  BY <1>1, <1>2, <1>3, Unmoved DEF Attempted, Frame, StillTree, Stands, At
<1>6. Points'
  BY <1>1, <1>2, <1>3, Unmoved DEF Points, MergingPc, At, Frame, Stands, Merging, Made, Lost
<1>7. Reviewed'
  BY <1>1, <1>2, <1>3 DEF Reviewed, Known, Branches, FinishPc
<1>8. QED  BY <1>1, <1>2, <1>3, <1>4, <1>5, <1>6, <1>7, QuietStep DEF At, Frame

LEMMA CancelAttemptKeeps ==
  ASSUME Known, NEW t \in Task, CancelAttempt(t)
  PROVE  Branches'
<1>1. Frame(t) /\ mission' = mission
  BY DEF CancelAttempt, Frame, EndAttempt, SetAttempt, SetTask, ToHuman, StillTree, Known, RunnerType, RecordType, record, repo
<1>2. /\ op.pc = "cancel" /\ pending = None /\ attempt[t].st = "running" /\ op.todo = {}
      /\ Stands(t) /\ Attempted(t)
  BY DEF CancelAttempt, At, Idle, Known, Branches, Points, MergingPc, Standing, Attempts
<1>3. /\ attempt'[t].st = "cancelled" /\ task' = task /\ op' = op /\ pending' = pending
      /\ attempt'[t].n = attempt[t].n /\ attempt'[t].tree = attempt[t].tree
  BY <1>2, Queue DEF CancelAttempt, EndAttempt, SetAttempt, SetTask, ToHuman, StillTree, Known, RunnerType, RecordType, record, repo
<1>4. Stands(t)'
  BY <1>1, <1>2, <1>3, Unmoved DEF Stands, Lost, Frame
<1>5. Attempted(t)'
  BY <1>1, <1>2, <1>3, Unmoved DEF Attempted, Frame, StillTree, Stands, At
<1>6. Points'
  BY <1>1, <1>2, <1>3, Unmoved DEF Points, MergingPc, At, Frame, Stands, Merging, Made, Lost
<1>7. Reviewed'
  BY <1>1, <1>2, <1>3 DEF Reviewed, Known, Branches, FinishPc
<1>8. QED  BY <1>1, <1>2, <1>3, <1>4, <1>5, <1>6, <1>7, QuietStep DEF At, Frame

-----------------------------------------------------------------------------
(* What others ask of the runner.                                          *)

LEMMA CouldNotStartKeeps ==
  ASSUME Known, NEW t \in Task, CouldNotStart(t)
  PROVE  Branches'
<1>1. Frame(t) /\ mission' = mission
  BY DEF CouldNotStart, Frame, EndAttempt, SetAttempt, SetTask, StillTree, Known, RunnerType, RecordType, record, repo
<1>2. /\ op.pc = "idle" /\ op.todo = {} /\ pending = None /\ Stands(t) /\ Attempted(t)
      /\ task[t].st \in {"pending", "queued"} /\ mission = "running"
  BY DEF CouldNotStart, At, Idle, Known, Branches, Points, MergingPc, Standing, Attempts
<1>3. /\ attempt' = attempt /\ op' = op /\ pending' = pending
      /\ task'[t].st = "needs-human" /\ task'[t].last = task[t].last
  BY <1>2, Queue DEF CouldNotStart, EndAttempt, SetAttempt, SetTask, StillTree, Known, RunnerType, RecordType, record, repo
<1>4. Stands(t)'
  BY <1>1, <1>2, <1>3, Unmoved DEF Stands, Lost, Frame
<1>5. Attempted(t)'
  BY <1>1, <1>2, <1>3, Unmoved DEF Attempted, Frame, StillTree, Stands, At
<1>6. Points'
  BY <1>1, <1>2, <1>3, Unmoved DEF Points, MergingPc, At, Frame, Stands, Lost, Attempted
<1>7. Reviewed'
  BY <1>1, <1>2, <1>3 DEF Reviewed, Known, Branches, FinishPc, Attempted, Frame
<1>8. QED  BY <1>1, <1>2, <1>3, <1>4, <1>5, <1>6, <1>7, QuietStep DEF At, Frame

LEMMA FinishKeeps ==
  ASSUME Known, NEW t \in Task, Finish(t)
  PROVE  Branches'
<1>1. Frame(t) /\ mission' = mission
  BY DEF Finish, Frame, EndAttempt, SetAttempt, SetTask, StillTree, Known, RunnerType, RecordType, record, repo
<1>2. /\ op.pc = "idle" /\ op.todo = {} /\ pending = None /\ Stands(t) /\ Attempted(t)
      /\ attempt[t].st = "running"
  BY DEF Finish, At, Idle, Known, Branches, Points, MergingPc, Standing, Attempts
<1>3. /\ attempt'[t].st = "finishing" /\ task' = task /\ pending' = pending
      /\ attempt'[t].n = attempt[t].n /\ attempt'[t].tree = attempt[t].tree
      /\ op'.pc = "finish" /\ op'.task = t /\ op'.todo = {}
  BY <1>2, Queue DEF Finish, EndAttempt, SetAttempt, SetTask, StillTree, Known, RunnerType, RecordType, record, repo
<1>4. Stands(t)'
  BY <1>1, <1>2, <1>3, Unmoved DEF Stands, Lost, Frame
<1>5. Attempted(t)'
  BY <1>1, <1>2, <1>3, Unmoved DEF Attempted, Frame, StillTree, Stands, At
<1>6. Points'
  BY <1>1, <1>2, <1>3, Unmoved DEF Points, MergingPc, At, Frame, Stands, Lost, Attempted
<1>7. Reviewed'
  BY <1>1, <1>2, <1>3 DEF Reviewed, Known, Branches, FinishPc, Attempted, Frame
<1>8. QED  BY <1>1, <1>2, <1>3, <1>4, <1>5, <1>6, <1>7, QuietStep DEF At, Frame

LEMMA LoseSessionKeeps ==
  ASSUME Known, NEW t \in Task, LoseSession(t)
  PROVE  Branches'
<1>1. Frame(t) /\ mission' = mission
  BY DEF LoseSession, Frame, EndAttempt, SetAttempt, SetTask, StillTree, Known, RunnerType, RecordType, record, repo
<1>2. /\ op.pc = "idle" /\ op.todo = {} /\ pending = None /\ Stands(t) /\ Attempted(t)
      /\ attempt[t].st = "running"
  BY DEF LoseSession, At, Idle, Known, Branches, Points, MergingPc, Standing, Attempts
<1>3. /\ attempt'[t].st \in {"failed", "interrupted", "cancelled"} /\ task'[t].st = "needs-human"
      /\ attempt'[t].n = attempt[t].n /\ attempt'[t].tree = attempt[t].tree
      /\ pending' = pending /\ op'.todo = {}
      /\ (op'.pc = "escalate" /\ op'.task = t) \/ op'.pc = "idle"
  <2>1. PICK how \in {"failed", "interrupted", "cancelled"} : EndAttempt(t, how, "needs-human")
    BY DEF LoseSession
  <2>2. Begin("escalate", t) \/ op' = op
    BY DEF LoseSession
  <2>3. /\ op'.todo = {} /\ ((op'.pc = "escalate" /\ op'.task = t) \/ op'.pc = "idle")
    BY <1>2, <2>2, Queue DEF Known, RunnerType
  <2>4. QED  BY <2>1, <2>3 DEF LoseSession, EndAttempt, SetAttempt, SetTask, Known, RunnerType, RecordType, record
<1>4. Stands(t)'
  BY <1>1, <1>2, <1>3, Unmoved DEF Stands, Lost, Frame
<1>5. Attempted(t)'
  BY <1>1, <1>2, <1>3, Unmoved DEF Attempted, Frame, StillTree, Stands, At
<1>6. Points'
  BY <1>1, <1>2, <1>3, Unmoved DEF Points, MergingPc, At, Frame, Stands, Lost, Attempted
<1>7. Reviewed'
  BY <1>1, <1>2, <1>3 DEF Reviewed, Known, Branches, FinishPc, Attempted, Frame
<1>8. QED  BY <1>1, <1>2, <1>3, <1>4, <1>5, <1>6, <1>7, QuietStep DEF At, Frame

LEMMA SkipKeeps ==
  ASSUME Known, NEW t \in Task, Skip(t)
  PROVE  Branches'
<1>1. Frame(t) /\ mission' = mission
  BY DEF Skip, Frame, EndAttempt, SetAttempt, SetTask, StillTree, Known, RunnerType, RecordType, record, repo
<1>2. /\ op.pc = "idle" /\ op.todo = {} /\ pending = None /\ Stands(t) /\ Attempted(t)
      /\ task[t].st \in {"needs-human", "pending"} /\ mission \in {"running", "paused"}
  BY DEF Skip, At, Idle, Known, Branches, Points, MergingPc, Standing, Attempts
<1>3. /\ attempt' = attempt /\ op' = op /\ pending' = pending
      /\ task'[t].st = "skipped" /\ task'[t].last = task[t].last
  BY <1>2, Queue DEF Skip, EndAttempt, SetAttempt, SetTask, StillTree, Known, RunnerType, RecordType, record, repo
<1>4. Stands(t)'
  BY <1>1, <1>2, <1>3, Unmoved DEF Stands, Lost, Frame
<1>5. Attempted(t)'
  BY <1>1, <1>2, <1>3, Unmoved DEF Attempted, Frame, StillTree, Stands, At
<1>6. Points'
  BY <1>1, <1>2, <1>3, Unmoved DEF Points, MergingPc, At, Frame, Stands, Lost, Attempted
<1>7. Reviewed'
  BY <1>1, <1>2, <1>3 DEF Reviewed, Known, Branches, FinishPc, Attempted, Frame
<1>8. QED  BY <1>1, <1>2, <1>3, <1>4, <1>5, <1>6, <1>7, QuietStep DEF At, Frame

(* A step that is about no task.                                           *)
LEMMA TasksLeftAlone ==
  ASSUME Known, UNCHANGED <<task, attempt, pending, log, branch>>, ~At("down"),
         op.pc \notin {"finish", "check"}, op'.todo = op.todo, Points', Reviewed'
  PROVE  Branches'
<1>1. None \notin Task /\ Frame(None)
  BY NoneAssumption DEF Frame, StillTree
<1>2. QED  BY <1>1, QuietStep

LEMMA MissionButtonsKeep ==
  ASSUME Known, Cancel \/ PauseMission \/ ResumeMission \/ ReadyForReview
  PROVE  Branches'
<1>1. op.pc = "idle" /\ op.todo = {} /\ pending = None
  BY DEF Cancel, PauseMission, ResumeMission, ReadyForReview, Idle, Known, Branches, Points, MergingPc
<1>2. UNCHANGED <<task, attempt, pending, log, branch>>
  BY DEF Cancel, PauseMission, ResumeMission, ReadyForReview, record, repo
<1>3. op'.pc \in {"idle", "cancel"} /\ op'.todo = {}
  BY <1>1, Queue DEF Cancel, PauseMission, ResumeMission, ReadyForReview, Known, RunnerType
<1>4. Points'
  BY <1>1, <1>2, <1>3 DEF Points, MergingPc, At
<1>5. Reviewed'
  BY <1>1, <1>2, <1>3 DEF Reviewed, Cancel, PauseMission, ResumeMission, ReadyForReview, record
<1>6. QED  BY <1>1, <1>2, <1>3, <1>4, <1>5, TasksLeftAlone DEF At

LEMMA AbortConflictedKeeps ==
  ASSUME Known, AbortConflicted
  PROVE  Branches'
<1>1. op.pc = "conflicted" /\ pending # None /\ pending.task = op.task /\ Made(0)
  BY DEF AbortConflicted, At, Known, Branches, Points, MergingPc
<1>2. UNCHANGED <<task, attempt, pending, log, branch, mission>>
  BY DEF AbortConflicted, record
<1>3. op'.pc = "conflict" /\ op'.task = op.task /\ op'.todo = op.todo
  BY Queue DEF AbortConflicted, Known, RunnerType
<1>4. Points'
  BY <1>1, <1>2, <1>3 DEF Points, MergingPc, At, Made
<1>5. Reviewed'
  BY <1>1, <1>2, <1>3 DEF Reviewed, Known, Branches, FinishPc
<1>6. QED  BY <1>1, <1>2, <1>3, <1>4, <1>5, TasksLeftAlone DEF At

LEMMA CancelMissionKeeps ==
  ASSUME Known, CancelMission
  PROVE  Branches'
<1>1. op.pc = "cancel" /\ op.todo = {} /\ pending = None
  BY DEF CancelMission, At, Known, Branches, Points, MergingPc
<1>2. /\ UNCHANGED <<attempt, pending, log, branch>> /\ mission' = "cancelled"
      /\ \A s \in Task : StillTree(s)
      /\ op'.pc = "idle" /\ op'.task = None /\ op'.todo = {}
  BY <1>1, Queue DEF CancelMission, repo, StillTree, Known, RunnerType
<1>3. ASSUME NEW t \in Task
      PROVE  Stands(t)' /\ Attempted(t)'
  <2>1. Stands(t) /\ Attempted(t) /\ attempt[t].st \notin {"running", "finishing"}
    BY <1>1 DEF Known, Branches, Standing, Attempts, Attempted, CancelMission, At
  <2>2. \/ task'[t] = task[t]
        \/ /\ task[t].st # "done" /\ task'[t].st = "cancelled" /\ task'[t].last = task[t].last
    BY DEF CancelMission, Ended, Known, RunnerType, RecordType
  <2>3. Stands(t)'
    BY <1>1, <1>2, <2>1, <2>2, Unmoved DEF Stands, Lost
  <2>4. Attempted(t)'
    BY <1>1, <1>2, <2>1, <2>2, Unmoved DEF Attempted, StillTree
  <2>5. QED  BY <2>3, <2>4
<1>4. OtherUnits'
  BY <1>2, OthersUnmoved DEF Known, Branches
<1>5. Points'
  BY <1>1, <1>2 DEF Points, MergingPc, At
<1>6. Reviewed'
  BY <1>2 DEF Reviewed
<1>7. QED  BY <1>3, <1>4, <1>5, <1>6 DEF Branches, Standing, Attempts

-----------------------------------------------------------------------------
(* Death, restart and recovery.                                            *)

LEMMA DeathKeeps ==
  ASSUME Known, Crash \/ Restart
  PROVE  Branches'
<1>1. /\ UNCHANGED <<task, attempt, pending, log, branch, mission>>
      /\ \A s \in Task : StillTree(s)
      /\ \/ op'.pc = "down"
         \/ op'.pc = "recover" /\ op'.todo = Task
  BY DEF Crash, Restart, record, repo, StillTree
<1>2. ASSUME NEW t \in Task
      PROVE  Stands(t)' /\ Attempted(t)'
  <2>1. Stands(t)'
    BY <1>1, StandsStill
  <2>2. Attempted(t)
    BY DEF Known, Branches, Attempts
  <2>3. Attempted(t)'
    BY <1>1, <2>2, Unmoved DEF Attempted, At
  <2>4. QED  BY <2>1, <2>3
<1>3. OtherUnits'
  BY <1>1, OthersUnmoved DEF Known, Branches
<1>4. Points'
  BY <1>1 DEF Points, MergingPc, At
<1>5. Reviewed'
  BY <1>1 DEF Reviewed, Known, Branches, FinishPc
<1>6. QED  BY <1>2, <1>3, <1>4, <1>5 DEF Branches, Standing, Attempts

LEMMA RecoverTaskKeeps ==
  ASSUME Known, NEW t \in Task, RecoverTask(t)
  PROVE  Branches'
<1>1. /\ UNCHANGED <<task, attempt, pending, log, branch, mission>> /\ Frame(t)
      /\ op.pc = "recover" /\ pending = None /\ Stands(t) /\ Attempted(t)
  BY DEF RecoverTask, record, repo, At, Frame, StillTree, Known, Branches, Standing, Attempts
<1>2. \/ op'.pc = "finish" /\ op'.task = t /\ attempt[t].st = "finishing"
      \/ /\ op'.pc = "integrate" /\ op'.task = t /\ attempt[t].st = "succeeded"
         /\ mission = "running" /\ task[t].st \in {"verifying", "integrating"}
      \/ /\ op'.pc = (IF op'.todo = {} THEN "idle" ELSE "recover") /\ op'.task = None
         /\ attempt[t].st # "finishing"
  BY DEF RecoverTask
<1>3. op'.todo = op.todo \ {t}
  BY DEF RecoverTask
<1>4. Stands(t)'
  BY <1>1, <1>2, Unmoved DEF Stands, Lost, Frame
<1>5. Attempted(t)'
  BY <1>1, <1>2, Unmoved DEF Attempted, Frame
<1>6. Points'
  BY <1>1, <1>2, Unmoved DEF Points, MergingPc, At, Frame, Stands, Lost
<1>7. Reviewed'
  BY <1>1, <1>2 DEF Reviewed, Known, Branches, FinishPc, Attempted
<1>8. QED  BY <1>1, <1>2, <1>3, <1>4, <1>5, <1>6, <1>7, QuietStep DEF At

(* What recovery finds on the branch since the recorded head.              *)
LEMMA SinceHead ==
  ASSUME NEW l \in Seq(Commit), NEW p \in Nat, p <= Len(l), NEW since, since = SubSeq(l, p + 1, Len(l))
  PROVE  /\ Len(since) = Len(l) - p
         /\ p = Len(l) => since = <<>>
         /\ p < Len(l) => since # <<>> /\ since[1] = l[p + 1]
<1>1. Len(l) \in Nat /\ DOMAIN l = 1 .. Len(l) /\ \A i \in (p + 1) .. Len(l) : l[i] \in Commit
  BY LenProperties, ElementOfSeq
<1>2. p + 1 \in Int /\ Len(l) \in Int
  BY <1>1
<1>3. /\ since \in Seq(Commit)
      /\ Len(since) = IF p + 1 <= Len(l) THEN Len(l) - (p + 1) + 1 ELSE 0
      /\ \A i \in 1 .. Len(l) - (p + 1) + 1 : since[i] = l[p + 1 + i - 1]
  BY <1>1, <1>2, SubSeqProperties
<1>4. Len(since) = Len(l) - p
  BY <1>1, <1>3
<1>5. p = Len(l) => since = <<>>
  BY <1>1, <1>2, SubSeqEmpty
<1>6. ASSUME p < Len(l) PROVE since # <<>> /\ since[1] = l[p + 1]
  <2>1. 1 \in 1 .. Len(l) - (p + 1) + 1 /\ Len(since) # 0
    <3>1. Len(l) \in Nat /\ Len(since) = Len(l) - p
      BY <1>1, <1>4
    <3>2. Len(since) # 0
      BY <3>1, <1>6
    <3>3. 1 <= Len(l) - (p + 1) + 1
      BY <3>1, <1>6
    <3>4. QED  BY <3>1, <3>2, <3>3
  <2>2. p + 1 + 1 - 1 = p + 1
    OBVIOUS
  <2>3. Len(<<>>) = 0
    OBVIOUS
  <2>4. QED  BY <1>3, <2>1, <2>2, <2>3
<1>7. QED  BY <1>4, <1>5, <1>6

LEMMA RecoverMergeKeeps ==
  ASSUME Known, NEW t \in Task, RecoverMerge(t)
  PROVE  Branches'
<1>1. /\ UNCHANGED <<task, attempt, pending, log, branch, mission>> /\ Frame(t)
      /\ op.pc = "recover" /\ pending # None /\ pending.task = t /\ Stands(t) /\ Attempted(t)
  BY DEF RecoverMerge, record, At, Frame, StillTree, Known, Branches, Standing, Attempts
<1>2. /\ log \in Seq(Commit) /\ Len(log) \in Nat /\ pending.pre \in Nat
  BY <1>1, LenProperties DEF Known, RunnerType, RecordType, RepoType
<1>3. Merging(t) /\ task[t].st # "done"
  BY <1>1 DEF Stands, Merging
<1> DEFINE since == SubSeq(log, pending.pre + 1, Len(log))
           isMerge == Len(since) > 0 /\ since[1].kind = "merge" /\ since[1].of = t
<1>4. /\ op'.pc = CASE since = <<>> -> "merge"
                     [] Len(since) = 1 /\ isMerge -> "verify"
                     [] Len(since) = 2 /\ isMerge -> "reverted"
                     [] OTHER -> "error"
      /\ op'.task = t /\ op'.todo = op.todo
  BY Queue DEF RecoverMerge, Known, RunnerType
<1>m. since = SubSeq(log, pending.pre + 1, Len(log))
  OBVIOUS
<1> HIDE DEF since
<1>5. pending.pre <= Len(log) /\ (Made(0) \/ Made(1) \/ Made(2))
  BY <1>2, <1>3 DEF Merging, Made
<1>6. /\ Made(0) => op'.pc = "merge"
      /\ Made(1) => op'.pc = "verify"
      /\ Made(2) => op'.pc = "reverted"
  <2>1. /\ Len(since) = Len(log) - pending.pre
        /\ pending.pre = Len(log) => since = <<>>
        /\ pending.pre < Len(log) => since # <<>> /\ since[1] = log[pending.pre + 1]
    BY <1>2, <1>5, <1>m, SinceHead
  <2>2. CASE Made(0)
    <3>1. since = <<>> /\ Len(since) = 0 /\ ~Made(1) /\ ~Made(2)
      BY <1>2, <2>1, <2>2 DEF Made
    <3>2. QED  BY <1>4, <3>1
  <2>3. CASE Made(1)
    <3>1. pending.pre < Len(log) /\ pending.pre + 1 = Len(log) /\ ~Made(0) /\ ~Made(2)
      BY <1>2, <2>3 DEF Made
    <3>2. Tip(log).kind = "merge" /\ Tip(log).of = t
      BY <1>3, <3>1 DEF Merging, TipIs
    <3>3. isMerge /\ Len(since) = 1 /\ since # <<>>
      BY <1>2, <2>1, <3>1, <3>2 DEF Tip
    <3>4. QED  BY <1>4, <3>1, <3>3
  <2>4. CASE Made(2)
    <3>1. pending.pre < Len(log) /\ pending.pre + 1 = Len(log) - 1 /\ ~Made(0) /\ ~Made(1)
      BY <1>2, <2>4 DEF Made
    <3>2. log[Len(log) - 1].kind = "merge" /\ log[Len(log) - 1].of = t
      BY <1>3, <3>1 DEF Merging
    <3>3. isMerge /\ Len(since) = 2 /\ since # <<>>
      BY <1>2, <2>1, <3>1, <3>2
    <3>4. QED  BY <1>4, <3>1, <3>3
  <2>5. QED  BY <1>5, <2>2, <2>3, <2>4
<1>7. Points'
  BY <1>1, <1>2, <1>3, <1>4, <1>6 DEF Points, MergingPc, At, Made, Merging
<1>8. Stands(t)' /\ Attempted(t)'
  <2>1. Stands(t)'
    BY <1>1, StandsStill DEF Frame
  <2>2. Attempted(t)'
    BY <1>1, <1>4, Unmoved DEF Attempted, Frame, At
  <2>3. QED  BY <2>1, <2>2
<1>9. Reviewed'
  BY <1>1 DEF Reviewed, Known, Branches
<1>10. QED  BY <1>1, <1>4, <1>7, <1>8, <1>9, QuietStep DEF At

-----------------------------------------------------------------------------
(* Steps that change a branch.                                             *)

(* A task whose branch and units stay, whatever happens to another's.      *)
LEMMA StandsApart ==
  ASSUME Known, NEW t \in Task, task'[t] = task[t], attempt'[t] = attempt[t],
         branch'[t] = branch[t], \A w \in Own(t) : Lev(w)' = Lev(w),
         pending = None \/ pending.task # t, pending' = None \/ pending'.task # t,
         op.pc \notin {"finish", "check"} \/ op.task # t, ~At("down"),
         t \in op.todo => t \in op'.todo
  PROVE  Stands(t)' /\ Attempted(t)'
<1>1. Nums /\ Stands(t) /\ Attempted(t) /\ StillTree(t)
  BY NumsType DEF Known, Branches, Standing, Attempts, StillTree
<1>2. /\ Ready(t)' <=> Ready(t)
      /\ Held(t)' <=> Held(t)
      /\ Undone(t)' <=> Undone(t)
      /\ Caught(t)' <=> Caught(t)
  BY <1>1, StillStanding
<1>3. Stands(t)'
  BY <1>1, <1>2 DEF Stands, Lost
<1>4. Attempted(t)'
  BY <1>1 DEF Attempted, Work, At
<1>5. QED  BY <1>3, <1>4

LEMMA GitStep ==
  ASSUME Known, NEW t \in Task,
         \A s \in Task \ {t} : task'[s] = task[s] /\ attempt'[s] = attempt[s] /\ branch'[s] = branch[s],
         \A s \in Task \ {t} : \A w \in Own(s) : Lev(w)' = Lev(w),
         pending # None => pending.task = t, pending' # None => pending'.task = t,
         op.pc \in {"finish", "check"} => op.task = t, ~At("down"), op'.todo = op.todo,
         OtherUnits', Stands(t)', Attempted(t)', Points', Reviewed'
  PROVE  Branches'
<1>1. ASSUME NEW s \in Task, s # t PROVE Stands(s)' /\ Attempted(s)'
  <2>1. /\ task'[s] = task[s] /\ attempt'[s] = attempt[s] /\ branch'[s] = branch[s]
        /\ \A w \in Own(s) : Lev(w)' = Lev(w)
    BY <1>1
  <2>2. pending = None \/ pending.task # s
    BY <1>1
  <2>3. pending' = None \/ pending'.task # s
    BY <1>1
  <2>4. QED  BY <1>1, <2>1, <2>2, <2>3, StandsApart
<1>2. Standing' /\ Attempts'
  BY <1>1 DEF Standing, Attempts
<1>3. QED  BY <1>2 DEF Branches

(* The next attempt, in the same tree or in one of its own.                *)
LEMMA LaunchStands ==
  ASSUME Known, NEW t \in Task, NEW how, Launch(t, how), log' = log,
         task[t].st # "done", pending = None, pending' = None, how = "fresh" \/ Ready(t),
         ~At("down"), op.pc \notin {"finish", "check"}, op'.todo = op.todo, Points', Reviewed'
  PROVE  Branches'
<1>1. /\ \A s \in Task \ {t} : task'[s] = task[s] /\ attempt'[s] = attempt[s] /\ branch'[s] = branch[s]
      /\ \A s \in Task : \A w \in Own(s) : Lev(w)' = Lev(w)
  <2>1. \A w : Lev(w)' = Lev(w)
    BY DEF Lev
  <2>2. \A s \in Task \ {t} : branch'[s] = branch[s]
    <3>1. branch' = branch \/ branch' = [branch EXCEPT ![t] = CutFrom(log)]
      BY DEF Launch
    <3>2. QED  BY <3>1 DEF Known, RunnerType, RepoType
  <2>3. QED  BY <2>1, <2>2 DEF Launch, Known, RunnerType, RecordType
<1>2. Nums /\ OtherUnits /\ Stands(t) /\ Attempted(t)
  BY NumsType DEF Known, Branches, Standing, Attempts
<1>3. /\ attempt'[t].n = attempt[t].n + 1 /\ attempt'[t].st = "running"
      /\ attempt'[t].tree = IF how = "fresh" THEN attempt[t].n + 1 ELSE attempt[t].tree
      /\ task'[t].st = "running" /\ task'[t].last = task[t].last
      /\ attempt[t].n + 1 \in 1 .. MaxStarts
  BY MaxStartsAssumption DEF Launch, Known, RunnerType, RecordType
<1>4. CASE how = "fresh"
  <2>1. branch'[t] = CutFrom(log) /\ \A w \in Unit : branch'[t][w] = Lev(w)
    BY <1>4 DEF Launch, CutFrom, Lev, Known, RunnerType, RepoType
  <2>2. \A w : Lev(w)' = Lev(w)
    BY DEF Lev
  <2>3. \A k \in 1 .. MaxStarts : k <= attempt[t].n => ~Odd(Lev(<<t, k>>))
    <3>1. ASSUME NEW k \in 1 .. MaxStarts, k <= attempt[t].n
          PROVE  ~Odd(Lev(<<t, k>>))
      <4>1. CASE k < attempt[t].tree
        BY <1>2, <4>1 DEF OtherUnits
      <4>2. CASE k >= attempt[t].tree
        <5>1. <<t, k>> \in Own(t)
          BY <1>2, <3>1, <4>2, OwnUnits DEF Nums
        <5>2. Ready(t) \/ Undone(t) \/ Caught(t)
          BY <1>2 DEF Stands, Lost
        <5>3. QED  BY <5>1, <5>2, OddSucc DEF Ready, Undone, Caught
      <4>3. QED  BY <1>2, <4>1, <4>2 DEF Nums
    <3>2. QED  BY <3>1
  <2>4. Lev(<<t, attempt[t].n + 1>>) = 0
    BY <1>2, <1>3 DEF OtherUnits, Nums
  <2>5. OtherUnits'
    <3>1. \A s \in Task : \A w \in Unit : w[1] # s => branch'[s][w] <= Lev(w)'
      <4>1. \A w \in Unit : Lev(w) <= Lev(w)
        BY <1>2, OwnUnits
      <4>2. QED  BY <1>1, <1>2, <2>1, <2>2, <4>1 DEF OtherUnits
    <3>2. ASSUME NEW k \in 1 .. MaxStarts
          PROVE  /\ k < attempt'[t].tree => branch'[t][<<t, k>>] <= Lev(<<t, k>>)' /\ ~Odd(Lev(<<t, k>>)')
                 /\ k > attempt'[t].n => branch'[t][<<t, k>>] = 0 /\ Lev(<<t, k>>)' = 0
      <4>1. <<t, k>> \in Unit /\ Lev(<<t, k>>) \in Nat /\ branch'[t][<<t, k>>] = Lev(<<t, k>>)
        BY <1>2, <2>1, OwnUnits DEF Unit
      <4>2. k < attempt'[t].tree => k <= attempt[t].n
        BY <1>2, <1>3, <1>4 DEF Nums
      <4>3. k > attempt'[t].n => k > attempt[t].n
        BY <1>2, <1>3 DEF Nums
      <4>4. QED  BY <1>2, <2>2, <2>3, <4>1, <4>2, <4>3 DEF OtherUnits
    <3>3. ASSUME NEW s \in Task, s # t, NEW k \in 1 .. MaxStarts
          PROVE  /\ k < attempt'[s].tree => branch'[s][<<s, k>>] <= Lev(<<s, k>>)' /\ ~Odd(Lev(<<s, k>>)')
                 /\ k > attempt'[s].n => branch'[s][<<s, k>>] = 0 /\ Lev(<<s, k>>)' = 0
      BY <1>1, <1>2, <2>2, <3>3 DEF OtherUnits
    <3>4. QED  BY <3>1, <3>2, <3>3 DEF OtherUnits
  <2>6. Ready(t)'
    <3>1. ASSUME NEW w \in Own(t)'
          PROVE  branch'[t][w] = 0 /\ Lev(w)' = 0
      <4>1. w = <<t, attempt[t].n + 1>>
        BY <1>2, <1>3, <1>4, <3>1 DEF Own, Nums
      <4>2. w \in Unit
        BY <4>1, <1>3 DEF Unit
      <4>3. QED  BY <2>1, <2>2, <2>4, <4>1, <4>2
    <3>2. QED  BY <3>1 DEF Ready
  <2>7. Attempted(t)'
    BY <1>2, <1>3, <1>4 DEF Attempted, Nums
  <2>8. Stands(t)'
    BY <1>3, <2>6 DEF Stands
  <2>9. QED  BY <1>1, <2>5, <2>7, <2>8, GitStep
<1>5. CASE how # "fresh"
  <2>1. branch' = branch /\ Ready(t)
    BY <1>5 DEF Launch
  <2>2. \A w : Lev(w)' = Lev(w)
    BY DEF Lev
  <2>3. OtherUnits'
    <3>1. \A s \in Task : \A w \in Unit : w[1] # s => branch'[s][w] <= Lev(w)'
      BY <1>2, <2>1, <2>2 DEF OtherUnits
    <3>2. ASSUME NEW s \in Task, NEW k \in 1 .. MaxStarts
          PROVE  /\ k < attempt'[s].tree => branch'[s][<<s, k>>] <= Lev(<<s, k>>)' /\ ~Odd(Lev(<<s, k>>)')
                 /\ k > attempt'[s].n => branch'[s][<<s, k>>] = 0 /\ Lev(<<s, k>>)' = 0
      <4>1. attempt'[s].tree = attempt[s].tree /\ (k > attempt'[s].n => k > attempt[s].n)
        BY <1>1, <1>2, <1>3, <1>5 DEF Nums
      <4>2. QED  BY <1>2, <2>1, <2>2, <4>1 DEF OtherUnits
    <3>3. QED  BY <3>1, <3>2 DEF OtherUnits
  <2>4. Ready(t)'
    <3>1. ASSUME NEW w \in Own(t)', w \notin Own(t)
          PROVE  branch'[t][w] = 0 /\ Lev(w)' = 0
      <4>1. w = <<t, attempt[t].n + 1>>
        BY <1>2, <1>3, <1>5, <3>1 DEF Own, Nums
      <4>2. QED  BY <1>2, <1>3, <2>1, <2>2, <4>1 DEF OtherUnits, Nums
    <3>2. QED  BY <2>1, <2>2, <3>1 DEF Ready
  <2>5. Attempted(t)'
    BY <1>2, <1>3, <1>5 DEF Attempted, Nums
  <2>6. Stands(t)'
    BY <1>3, <2>4 DEF Stands
  <2>7. QED  BY <1>1, <2>3, <2>5, <2>6, GitStep
<1>6. QED  BY <1>4, <1>5

LEMMA StartKeeps ==
  ASSUME Known, NEW t \in Task, Start(t)
  PROVE  Branches'
<1>1. /\ op.pc = "idle" /\ op.todo = {} /\ pending = None
      /\ Stands(t) /\ Attempted(t)
  BY DEF Start, Idle, Known, Branches, Points, MergingPc, Standing, Attempts
<1>2. /\ op' = op /\ log' = log /\ pending' = pending /\ mission' = mission /\ mission # "review"
      /\ Launch(t, "fresh") /\ task[t].st # "done"
  BY DEF Start
<1>3. "fresh" = "fresh" \/ Ready(t)
  BY <1>1 DEF Start, Stands, Lost
<1>4. Points'
  BY <1>1, <1>2 DEF Points, MergingPc, At
<1>5. Reviewed'
  BY <1>2 DEF Reviewed
<1>6. QED  BY <1>1, <1>2, <1>3, <1>4, <1>5, LaunchStands DEF At

LEMMA RunEscalationKeeps ==
  ASSUME Known, NEW t \in Task, RunEscalation(t)
  PROVE  Branches'
<1>1. /\ op.pc = "idle" /\ op.todo = {} /\ pending = None
      /\ Stands(t) /\ Attempted(t)
  BY DEF RunEscalation, Idle, Known, Branches, Points, MergingPc, Standing, Attempts
<1>2. /\ op' = op /\ log' = log /\ pending' = pending /\ mission' = mission /\ mission # "review"
      /\ Launch(t, task[t].retry) /\ task[t].st # "done"
  BY DEF RunEscalation
<1>3. task[t].retry = "fresh" \/ Ready(t)
  BY <1>1 DEF RunEscalation, Stands, Lost
<1>4. Points'
  BY <1>1, <1>2 DEF Points, MergingPc, At
<1>5. Reviewed'
  BY <1>2 DEF Reviewed
<1>6. QED  BY <1>1, <1>2, <1>3, <1>4, <1>5, LaunchStands DEF At

LEMMA ResumeKeeps ==
  ASSUME Known, NEW t \in Task, Resume(t)
  PROVE  Branches'
<1>1. /\ op.pc = "idle" /\ op.todo = {} /\ pending = None
      /\ Stands(t) /\ Attempted(t)
  BY DEF Resume, Idle, Known, Branches, Points, MergingPc, Standing, Attempts
<1>2. /\ op' = op /\ log' = log /\ pending' = pending /\ mission' = mission /\ mission # "review"
      /\ Launch(t, "resume") /\ task[t].st # "done"
  BY DEF Resume
<1>3. "resume" = "fresh" \/ Ready(t)
  BY <1>1 DEF Resume, Stands, Lost
<1>4. Points'
  BY <1>1, <1>2 DEF Points, MergingPc, At
<1>5. Reviewed'
  BY <1>2 DEF Reviewed
<1>6. QED  BY <1>1, <1>2, <1>3, <1>4, <1>5, LaunchStands DEF At

LEMMA RetryKeeps ==
  ASSUME Known, NEW t \in Task, Retry(t)
  PROVE  Branches'
<1>1. /\ op.pc = "idle" /\ op.todo = {} /\ pending = None
      /\ Stands(t) /\ Attempted(t)
  BY DEF Retry, Idle, Known, Branches, Points, MergingPc, Standing, Attempts
<1>2. /\ op' = op /\ log' = log /\ pending' = pending /\ mission' = mission /\ mission # "review"
      /\ Launch(t, "fresh") /\ task[t].st # "done"
  BY DEF Retry
<1>3. "fresh" = "fresh" \/ Ready(t)
  BY <1>1 DEF Retry, Stands, Lost
<1>4. Points'
  BY <1>1, <1>2 DEF Points, MergingPc, At
<1>5. Reviewed'
  BY <1>2 DEF Reviewed
<1>6. QED  BY <1>1, <1>2, <1>3, <1>4, <1>5, LaunchStands DEF At

LEMMA LaunchResolverKeeps ==
  ASSUME Known, NEW t \in Task, LaunchResolver(t)
  PROVE  Branches'
<1>1. /\ op.pc = "launchResolver" /\ op.task = t /\ pending = None /\ mission # "review"
      /\ task[t].st # "done" /\ Ready(t)
  BY DEF LaunchResolver, At, Known, Branches, Points, MergingPc, Reviewed, FinishPc
<1>2. /\ op'.pc \in {"idle", "recover"} /\ op'.todo = op.todo
      /\ op'.pc = "idle" => op'.todo = {}
      /\ log' = log /\ pending' = pending /\ mission' = mission
  BY Queue DEF LaunchResolver, Known, RunnerType
<1>3. Points'
  BY <1>1, <1>2 DEF Points, MergingPc, At
<1>4. Reviewed'
  BY <1>1, <1>2 DEF Reviewed
<1>5. CASE Launch(t, "continue")
  BY <1>1, <1>2, <1>3, <1>4, <1>5, LaunchStands DEF At
<1>6. CASE UNCHANGED <<task, attempt, branch, marked>>
  BY <1>1, <1>2, <1>3, <1>4, <1>6, TasksLeftAlone DEF At
<1>7. QED  BY <1>5, <1>6 DEF LaunchResolver

(* A commit of what is in a task's tree leaves it to be merged as it was.  *)
LEMMA ConcludedReady ==
  ASSUME Known, NEW t \in Task, Ready(t)
  PROVE  /\ Concluded(t) \in [Unit -> Nat] /\ Committed(t) \in [Unit -> Nat]
         /\ \A w \in Own(t) : Concluded(t)[w] = branch[t][w]
         /\ \A w \in Unit : Concluded(t)[w] = branch[t][w] \/ Concluded(t)[w] <= Lev(w)
         /\ \A w \in Unit : branch[t][w] <= Concluded(t)[w]
<1>1. /\ branch[t] \in [Unit -> Nat] /\ marked[t] \in Nat /\ log \in Seq(Commit)
      /\ marked[t] <= Len(log) /\ Own(t) \subseteq Unit
      /\ Concluded(t) \in [Unit -> Nat] /\ Committed(t) \in [Unit -> Nat]
  BY NumsType, OwnUnits, CommittedType DEF Known, RunnerType, RepoType, MarkedInLog
<1> DEFINE low(w) == Level(SubSeq(log, 1, marked[t]), w)
<1>2. \A w \in Unit : /\ low(w) \in Nat /\ low(w) <= Lev(w) /\ Lev(w) \in Nat
                      /\ branch[t][w] \in Nat
                      /\ Concluded(t)[w] = IF branch[t][w] > low(w) THEN branch[t][w] ELSE low(w)
  BY <1>1, LevelPrefix, LevelType DEF Lev, Concluded, MergedWith
<1> HIDE DEF low
<1>3. ASSUME NEW w \in Own(t) PROVE Concluded(t)[w] = branch[t][w]
  <2>1. w \in Unit /\ ((branch[t][w] = 0 /\ Lev(w) = 0) \/ branch[t][w] = Lev(w) + 1)
    BY <1>1 DEF Ready
  <2>2. QED  BY <1>2, <2>1
<1>4. \A w \in Unit : Concluded(t)[w] = branch[t][w] \/ Concluded(t)[w] <= Lev(w)
  BY <1>2
<1>5. \A w \in Unit : branch[t][w] <= Concluded(t)[w]
  BY <1>2
<1>6. QED  BY <1>1, <1>3, <1>4, <1>5

(* A step that changes t's branch alone, to b.                             *)
LEMMA BranchStep ==
  ASSUME Known, NEW t \in Task, NEW b \in [Unit -> Nat], branch' = [branch EXCEPT ![t] = b],
         \A w \in Unit \ Own(t) : b[w] = branch[t][w] \/ b[w] <= Lev(w),
         UNCHANGED <<task, attempt, pending, log>>, pending = None,
         attempt[t].st = "succeeded" => b[Work(t)] > 0,
         attempt[t].st = "finishing" => \/ op'.pc \in {"finish", "check"} /\ op'.task = t
                                        \/ op.pc \notin {"finish", "check"},
         op.pc \in {"finish", "check"} => op.task = t, ~At("down"), op'.todo = op.todo,
         Stands(t)', Points', Reviewed'
  PROVE  Branches'
<1>1. Nums /\ OtherUnits /\ Attempted(t)
  BY NumsType DEF Known, Branches, Attempts
<1>2. /\ \A s \in Task \ {t} : branch'[s] = branch[s]
      /\ branch'[t] = b /\ branch \in [Task -> [Unit -> Nat]]
      /\ \A s \in Task : StillTree(s)
  BY DEF Known, RunnerType, RepoType, StillTree
<1>3. \A s \in Task : \A w \in Own(s) : Lev(w)' = Lev(w)
  BY DEF Lev
<1>4. OtherUnits'
  BY <1>1, <1>2, OthersOnBranch
<1>5. Attempted(t)'
  BY <1>1, <1>2 DEF Attempted, Work, At
<1>6. QED  BY <1>2, <1>3, <1>4, <1>5, GitStep

LEMMA CommitWorkKeeps ==
  ASSUME Known, NEW t \in Task, CommitWork(t)
  PROVE  Branches'
<1>1. /\ op.pc = "finish" /\ op.task = t /\ pending = None /\ attempt[t].st = "finishing"
      /\ Stands(t) /\ Attempted(t)
  BY DEF CommitWork, At, Known, Branches, Points, MergingPc, Standing, Attempts
<1>2. /\ Ready(t) /\ task[t].st = "running" /\ attempt[t].tree <= attempt[t].n
      /\ log' = log /\ pending' = pending /\ mission' = mission
  BY <1>1 DEF Stands, Lost, Attempted, CommitWork
<1>3. CASE branch' = [branch EXCEPT ![t] = Committed(t)] /\ Goto("check") /\ UNCHANGED <<task, attempt>>
  <2>1. /\ Concluded(t) \in [Unit -> Nat] /\ Committed(t) \in [Unit -> Nat]
        /\ \A w \in Own(t) : Concluded(t)[w] = branch[t][w]
        /\ \A w \in Unit : Concluded(t)[w] = branch[t][w] \/ Concluded(t)[w] <= Lev(w)
    BY <1>2, ConcludedReady
  <2>2. Work(t) \in Own(t) /\ Own(t) \subseteq Unit
    BY <1>2, NumsType, OwnUnits DEF Work, Nums, Known
  <2>3. \A w \in Unit : Committed(t)[w] = IF w = Work(t) /\ Concluded(t)[w] = 0 THEN 1
                                          ELSE Concluded(t)[w]
    BY <2>1, <2>2 DEF Committed, Raised
  <2>4. Committed(t)[Work(t)] > 0
    BY <2>1, <2>2, <2>3
  <2>5. op'.pc = "check" /\ op'.task = t /\ op'.todo = op.todo
    BY <1>1, <1>3, Queue DEF Known, RunnerType
  <2>6. branch'[t] = Committed(t) /\ \A w : Lev(w)' = Lev(w)
    BY <1>2, <1>3 DEF Known, RunnerType, RepoType, Lev
  <2>7. Ready(t)'
    <3>1. Own(t)' = Own(t)
      BY <1>3 DEF Own
    <3>2. ASSUME NEW w \in Own(t)
          PROVE  \/ branch'[t][w] = 0 /\ Lev(w)' = 0
                 \/ branch'[t][w] = Lev(w)' + 1 /\ ~Odd(Lev(w)')
      <4>1. \/ branch[t][w] = 0 /\ Lev(w) = 0
            \/ branch[t][w] = Lev(w) + 1 /\ ~Odd(Lev(w))
        BY <1>2 DEF Ready
      <4>2. w \in Unit /\ Concluded(t)[w] = branch[t][w]
        BY <2>1, <2>2
      <4>3. CASE branch[t][w] = 0 /\ Lev(w) = 0
        BY <2>3, <2>6, <4>2, <4>3, OddSucc
      <4>4. CASE branch[t][w] = Lev(w) + 1 /\ ~Odd(Lev(w))
        <5>1. branch[t][w] # 0
          BY <4>2, <4>4, NumsType, OwnUnits DEF Known
        <5>2. QED  BY <2>3, <2>6, <4>2, <4>4, <5>1
      <4>5. QED  BY <4>1, <4>3, <4>4
    <3>3. QED  BY <3>1, <3>2 DEF Ready
  <2>8. Stands(t)'
    BY <1>1, <1>2, <1>3, <2>7 DEF Stands
  <2>9. Points'
    BY <1>1, <1>2, <1>3, <2>4, <2>5, <2>6 DEF Points, MergingPc, At, Work
  <2>10. Reviewed'
    BY <1>1, <1>2, <1>3 DEF Reviewed, Known, Branches
  <2>11. \A w \in Unit \ Own(t) : Committed(t)[w] = branch[t][w] \/ Committed(t)[w] <= Lev(w)
    BY <2>1, <2>2, <2>3
  <2>12. QED  BY <1>1, <1>2, <1>3, <2>1, <2>4, <2>5, <2>8, <2>9, <2>10, <2>11, BranchStep DEF At
<1>4. CASE EndAttempt(t, "failed", "needs-human") /\ UNCHANGED branch /\ (Goto("escalate") \/ Return)
  <2>1. Frame(t)
    BY <1>2, <1>4 DEF Frame, EndAttempt, SetAttempt, SetTask, StillTree, Known, RunnerType, RecordType
  <2>2. /\ attempt'[t].st = "failed" /\ task'[t].st = "needs-human"
        /\ attempt'[t].n = attempt[t].n /\ attempt'[t].tree = attempt[t].tree
    BY <1>4 DEF EndAttempt, SetAttempt, SetTask, Known, RunnerType, RecordType
  <2>3. /\ op'.todo = op.todo
        /\ \/ op'.pc = "escalate" /\ op'.task = t
           \/ op'.pc = (IF op.todo = {} THEN "idle" ELSE "recover") /\ op'.task = None
    BY <1>1, <1>4, Queue DEF Known, RunnerType
  <2>4. Stands(t)'
    BY <1>1, <1>2, <2>1, <2>2, Unmoved DEF Stands, Frame
  <2>5. Attempted(t)'
    BY <1>1, <1>2, <2>2 DEF Attempted
  <2>6. Points'
    BY <1>1, <1>2, <2>1, <2>2, <2>3, Unmoved DEF Points, MergingPc, At, Frame
  <2>7. Reviewed'
    BY <1>1, <1>2 DEF Reviewed, Known, Branches, FinishPc
  <2>8. QED  BY <1>1, <1>2, <2>1, <2>3, <2>4, <2>5, <2>6, <2>7, QuietStep DEF At
<1>5. QED  BY <1>3, <1>4 DEF CommitWork

(* Work that was reverted and is not back is not accepted.                 *)
LEMMA AcceptKeeps ==
  ASSUME Known, ~AcceptUnapplied, NEW t \in Task, Accept(t)
  PROVE  Branches'
<1>1. /\ op.pc = "idle" /\ op.todo = {} /\ pending = None /\ mission \in {"running", "paused"}
      /\ task[t].st = "needs-human" /\ attempt[t].st = "succeeded" /\ ~Unapplied(t)
      /\ Stands(t) /\ Attempted(t) /\ Nums /\ OtherUnits
  BY NumsType DEF Accept, Idle, Known, Branches, Points, MergingPc, Standing, Attempts
<1>2. /\ log' = log /\ UNCHANGED <<mission, task, attempt, pending>>
      /\ branch' = [branch EXCEPT ![t] = Concluded(t)]
      /\ op'.pc = "integrate" /\ op'.task = t /\ op'.todo = {}
  BY <1>1, Queue DEF Accept, record, Known, RunnerType
<1>3. Ready(t)
  <2>1. SUFFICES ASSUME Lost(t) PROVE Unapplied(t)
    BY <1>1 DEF Stands
  <2>2. ASSUME NEW w \in Unit PROVE ~(branch[t][w] > Level(log, w))
    <3>1. branch[t][w] \in Nat /\ Lev(w) \in Nat
      BY <1>1, OwnUnits DEF Nums
    <3>2. CASE w \in Own(t)
      BY <2>1, <3>1, <3>2 DEF Lost, Undone, Caught, Lev
    <3>3. CASE w[1] # t
      BY <1>1, <3>1, <3>3 DEF OtherUnits, Lev
    <3>4. CASE w[1] = t /\ w \notin Own(t)
      <4>1. PICK k \in 1 .. MaxStarts : w = <<t, k>>
        BY <3>4 DEF Unit
      <4>2. k < attempt[t].tree \/ k > attempt[t].n
        BY <1>1, <3>4, <4>1, OwnUnits DEF Nums
      <4>3. QED  BY <1>1, <3>1, <4>1, <4>2 DEF OtherUnits, Lev
    <3>5. QED  BY <3>2, <3>3, <3>4
  <2>3. QED  BY <2>1, <2>2 DEF Unapplied, Brings, Lost
<1>4. /\ Concluded(t) \in [Unit -> Nat]
      /\ \A w \in Own(t) : Concluded(t)[w] = branch[t][w]
      /\ \A w \in Unit : Concluded(t)[w] = branch[t][w] \/ Concluded(t)[w] <= Lev(w)
      /\ \A w \in Unit : branch[t][w] <= Concluded(t)[w]
  BY <1>3, ConcludedReady
<1>5. Ready(t)'
  <2>1. branch'[t] = Concluded(t) /\ Own(t)' = Own(t) /\ \A w : Lev(w)' = Lev(w)
    BY <1>2 DEF Known, RunnerType, RepoType, Lev, Own
  <2>2. QED  BY <1>3, <1>4, <2>1 DEF Ready
<1>6. Concluded(t)[Work(t)] > 0
  <2>1. Work(t) \in Own(t) /\ Own(t) \subseteq Unit /\ branch[t][Work(t)] > 0
    BY <1>1, OwnUnits DEF Work, Nums, Attempted
  <2>2. QED  BY <1>4, <2>1
<1>7. Stands(t)'
  BY <1>1, <1>2, <1>5 DEF Stands
<1>8. Points'
  BY <1>1, <1>2, <1>5 DEF Points, MergingPc, At
<1>9. Reviewed'
  BY <1>1, <1>2 DEF Reviewed
<1>10. QED  BY <1>1, <1>2, <1>4, <1>6, <1>7, <1>8, <1>9, BranchStep DEF At

(* A merge brings what the task's tree has to the mission branch, and no   *)
(* more: the rest came from there.                                         *)
LEMMA BringsItsTree ==
  ASSUME Known, NEW t \in Task, Ready(t), attempt[t].st = "succeeded"
  PROVE  /\ Brings(branch[t], log) = {w \in Own(t) : branch[t][w] > 0}
         /\ Brings(branch[t], log) # {}
         /\ [kind |-> "merge", of |-> t, delta |-> Brings(branch[t], log)] \in Commit
<1>1. Nums /\ OtherUnits /\ Attempted(t)
  BY NumsType DEF Known, Branches, Attempts
<1>2. /\ Own(t) \subseteq Unit
      /\ \A w \in Unit : branch[t][w] \in Nat /\ Lev(w) \in Nat
  BY <1>1, OwnUnits DEF Nums
<1>3. ASSUME NEW w \in Own(t) PROVE branch[t][w] > Lev(w) <=> branch[t][w] > 0
  BY <1>2 DEF Ready
<1>4. ASSUME NEW w \in Unit \ Own(t) PROVE ~(branch[t][w] > Lev(w))
  <2>1. CASE w[1] # t
    BY <1>1, <1>2, <2>1 DEF OtherUnits
  <2>2. CASE w[1] = t
    <3>1. PICK k \in 1 .. MaxStarts : w = <<t, k>>
      BY <2>2 DEF Unit
    <3>2. k < attempt[t].tree \/ k > attempt[t].n
      BY <1>1, <3>1, OwnUnits DEF Nums
    <3>3. QED  BY <1>1, <1>2, <3>1, <3>2 DEF OtherUnits
  <2>3. QED  BY <2>1, <2>2
<1>5. Brings(branch[t], log) = {w \in Own(t) : branch[t][w] > 0}
  BY <1>2, <1>3, <1>4 DEF Brings, Lev
<1>6. Work(t) \in Own(t) /\ branch[t][Work(t)] > 0
  BY <1>1, OwnUnits DEF Work, Nums, Attempted
<1>7. Brings(branch[t], log) # {} /\ Brings(branch[t], log) \subseteq Unit
  BY <1>2, <1>5, <1>6
<1>8. QED  BY <1>5, <1>7 DEF Commit

LEMMA GitMergeKeeps ==
  ASSUME Known, NEW t \in Task, GitMerge(t)
  PROVE  Branches'
<1>1. /\ op.pc = "merge" /\ op.task = t /\ pending # None /\ pending.task = t /\ Made(0)
      /\ task[t].st = "integrating" /\ attempt[t].st = "succeeded" /\ Ready(t)
      /\ Stands(t) /\ Attempted(t) /\ Nums /\ OtherUnits
  <2>1. op.pc = "merge" /\ op.task = t /\ pending # None /\ pending.task = t /\ Made(0)
    BY DEF GitMerge, At, Known, Branches, Points, MergingPc
  <2>2. QED  BY <2>1, MergeUnderWay, NumsType DEF Known, Branches, Standing, Attempts
<1>2. /\ UNCHANGED <<mission, task, attempt, pending, branch>>
      /\ \A s \in Task : StillTree(s)
  BY DEF GitMerge, record, StillTree
<1> DEFINE news == Brings(branch[t], log)
           merge == [kind |-> "merge", of |-> t, delta |-> news]
<1>3. /\ news = {w \in Own(t) : branch[t][w] > 0} /\ news # {} /\ merge \in Commit
  BY <1>1, BringsItsTree
<1>4. CASE log' = Append(log, merge) /\ Goto("verify")
  <2>1. /\ OtherUnits'
        /\ \A w \in Unit : Lev(w)' = IF w \in news THEN Lev(w) + 1 ELSE Lev(w)
        /\ \A s \in Task \ {t} : \A w \in Own(s) : Lev(w)' = Lev(w)
    BY <1>1, <1>2, <1>3, <1>4, OthersOnCommit
  <2>2. op'.pc = "verify" /\ op'.task = t /\ op'.todo = op.todo
    BY <1>1, <1>4, Queue DEF Known, RunnerType
  <2>3. Own(t)' = Own(t) /\ Own(t) \subseteq Unit
    BY <1>1, <1>2, OwnUnits DEF Own
  <2>4. Held(t)'
    <3>1. ASSUME NEW w \in Own(t)
          PROVE  \/ branch'[t][w] = 0 /\ Lev(w)' = 0
                 \/ branch'[t][w] = Lev(w)' /\ Odd(Lev(w)')
      <4>1. Lev(w) \in Nat /\ branch[t][w] \in Nat
        BY <1>1, <2>3, OwnUnits DEF Nums
      <4>2. \/ branch[t][w] = 0 /\ Lev(w) = 0
            \/ branch[t][w] = Lev(w) + 1 /\ ~Odd(Lev(w))
        BY <1>1 DEF Ready
      <4>3. QED  BY <1>2, <1>3, <2>1, <2>3, <4>1, <4>2, OddSucc
    <3>2. QED  BY <2>3, <3>1 DEF Held
  <2>5. Len(log') = Len(log) + 1 /\ Len(log) \in Nat /\ Tip(log') = merge
    BY <1>1, <1>3, <1>4, AppendProperties, LenProperties DEF Nums, Tip
  <2>6. TipIs(t, "merge")'
    BY <1>2, <1>3, <2>3, <2>5 DEF TipIs
  <2>7. Made(1)' /\ pending.pre \in Nat
    BY <1>1, <1>2, <2>5 DEF Made, Known, RunnerType, RecordType
  <2>8. Stands(t)'
    BY <1>1, <1>2, <2>4, <2>6, <2>7 DEF Stands, Merging
  <2>9. Attempted(t)'
    BY <1>1, <1>2, <2>2 DEF Attempted, Work, At
  <2>10. Points'
    BY <1>1, <1>2, <2>2, <2>7 DEF Points, MergingPc, At
  <2>11. Reviewed'
    BY <1>1, <1>2 DEF Reviewed, Known, Branches
  <2>12. QED  BY <1>1, <1>2, <2>1, <2>2, <2>8, <2>9, <2>10, <2>11, GitStep DEF At
<1>5. CASE log' = log /\ (Goto("conflicted") \/ Goto("error"))
  <2>1. op'.pc \in {"conflicted", "error"} /\ op'.task = t /\ op'.todo = op.todo
    BY <1>1, <1>5, Queue DEF Known, RunnerType
  <2>2. Points'
    BY <1>1, <1>2, <1>5, <2>1, Unmoved DEF Points, MergingPc, At, Made
  <2>3. Reviewed'
    BY <1>1, <1>2 DEF Reviewed, Known, Branches
  <2>4. QED  BY <1>1, <1>2, <1>5, <2>1, <2>2, <2>3, TasksLeftAlone DEF At
<1>6. QED  BY <1>3, <1>4, <1>5 DEF GitMerge

LEMMA RevertMergeKeeps ==
  ASSUME Known, NEW t \in Task, RevertMerge(t), ~stray'
  PROVE  Branches'
<1>1. /\ op.pc = "revert" /\ op.task = t /\ pending # None /\ pending.task = t /\ Made(1)
      /\ task[t].st = "integrating" /\ attempt[t].st = "succeeded"
      /\ Held(t) /\ TipIs(t, "merge")
      /\ Stands(t) /\ Attempted(t) /\ Nums /\ OtherUnits
  <2>1. op.pc = "revert" /\ op.task = t /\ pending # None /\ pending.task = t /\ Made(1)
    BY DEF RevertMerge, At, Known, Branches, Points, MergingPc
  <2>2. QED  BY <2>1, MergeUnderWay, NumsType DEF Known, Branches, Standing, Attempts
<1>2. /\ UNCHANGED <<mission, task, attempt, pending, branch>>
      /\ \A s \in Task : StillTree(s)
  BY DEF RevertMerge, record, StillTree
<1> DEFINE commit == [Tip(log) EXCEPT !.kind = "revert"]
<1>3. log' = Append(log, commit) /\ Goto("reverted")
  BY <1>1 DEF RevertMerge, TipIs
<1>4. /\ Len(log) \in Nat /\ Tip(log) \in Commit
      /\ commit \in Commit /\ commit.kind = "revert" /\ commit.of = t
      /\ commit.delta = {w \in Own(t) : branch[t][w] > 0}
  <2>1. Len(log) \in Nat /\ Len(log) \in 1 .. Len(log)
    BY <1>1, LenProperties DEF Nums, TipIs
  <2>2. Tip(log) \in Commit
    BY <1>1, <2>1, ElementOfSeq DEF Nums, Tip
  <2>3. QED  BY <1>1, <2>1, <2>2 DEF TipIs, Commit
<1>5. /\ OtherUnits'
      /\ \A w \in Unit : Lev(w)' = IF w \in commit.delta THEN Lev(w) + 1 ELSE Lev(w)
      /\ \A s \in Task \ {t} : \A w \in Own(s) : Lev(w)' = Lev(w)
  <2>1. commit.delta \subseteq Own(t)
    BY <1>4
  <2>2. QED  BY <1>1, <1>2, <1>3, <1>4, <2>1, OthersOnCommit
<1>6. op'.pc = "reverted" /\ op'.task = t /\ op'.todo = op.todo
  BY <1>1, <1>3, Queue DEF Known, RunnerType
<1>7. Own(t)' = Own(t) /\ Own(t) \subseteq Unit
  BY <1>1, <1>2, OwnUnits DEF Own
<1>8. Undone(t)'
  <2>1. ASSUME NEW w \in Own(t)
        PROVE  \/ branch'[t][w] = 0 /\ Lev(w)' = 0
               \/ branch'[t][w] + 1 = Lev(w)' /\ ~Odd(Lev(w)')
    <3>1. Lev(w) \in Nat /\ branch[t][w] \in Nat
      BY <1>1, <1>7, OwnUnits DEF Nums
    <3>2. \/ branch[t][w] = 0 /\ Lev(w) = 0
          \/ branch[t][w] = Lev(w) /\ Odd(Lev(w))
      BY <1>1 DEF Held
    <3>3. QED  BY <1>2, <1>4, <1>5, <1>7, <3>1, <3>2, OddSucc
  <2>2. QED  BY <1>7, <2>1 DEF Undone
<1>9. /\ Len(log') = Len(log) + 1 /\ Tip(log') = commit
      /\ log'[Len(log') - 1] = Tip(log)
  BY <1>1, <1>3, <1>4, AppendProperties DEF Nums, Tip, TipIs
<1>10. TipIs(t, "revert")'
  BY <1>2, <1>4, <1>7, <1>9 DEF TipIs
<1>11. Made(2)' /\ pending.pre \in Nat
  BY <1>1, <1>2, <1>4, <1>9 DEF Made, Known, RunnerType, RecordType
<1>12. Stands(t)'
  BY <1>1, <1>2, <1>8, <1>9, <1>10, <1>11 DEF Stands, Merging, TipIs
<1>13. Attempted(t)'
  BY <1>1, <1>2, <1>6 DEF Attempted, Work, At
<1>14. Points'
  BY <1>1, <1>2, <1>6, <1>11 DEF Points, MergingPc, At
<1>15. Reviewed'
  BY <1>1, <1>2 DEF Reviewed, Known, Branches
<1>16. QED  BY <1>1, <1>2, <1>5, <1>6, <1>12, <1>13, <1>14, <1>15, GitStep DEF At

(* The mission branch merged into a task's.                                *)
LEMMA MergedIntoTask ==
  ASSUME Known, NEW t \in Task, NEW b, b = MergedWith(branch[t], log)
  PROVE  /\ b \in [Unit -> Nat]
         /\ \A w \in Unit : /\ b[w] = branch[t][w] \/ b[w] <= Lev(w)
                            /\ b[w] = IF branch[t][w] > Lev(w) THEN branch[t][w] ELSE Lev(w)
         /\ attempt[t].st = "succeeded" => b[Work(t)] > 0
<1>1. Nums /\ Attempted(t)
  BY NumsType DEF Known, Branches, Attempts
<1>2. \A w \in Unit : Lev(w) \in Nat /\ branch[t][w] \in Nat
  BY <1>1, OwnUnits DEF Nums
<1>3. /\ b \in [Unit -> Nat]
      /\ \A w \in Unit : b[w] = IF branch[t][w] > Lev(w) THEN branch[t][w] ELSE Lev(w)
  BY <1>2 DEF MergedWith, Lev
<1>4. attempt[t].st = "succeeded" => branch[t][Work(t)] > 0 /\ Work(t) \in Unit
  BY <1>1, OwnUnits DEF Work, Nums, Attempted
<1>5. QED  BY <1>2, <1>3, <1>4

LEMMA ResolveConflictKeeps ==
  ASSUME Known, NEW t \in Task, ResolveConflict(t)
  PROVE  Branches'
<1>1. /\ op.pc = "resolve" /\ op.task = t /\ pending = None /\ attempt[t].st = "succeeded"
      /\ task[t].st # "done" /\ Ready(t) /\ mission # "review" /\ Nums
  BY NumsType DEF ResolveConflict, At, Known, Branches, Points, MergingPc, Reviewed, FinishPc
<1>2. /\ UNCHANGED <<mission, task, attempt, pending, log>>
  BY DEF ResolveConflict, record
<1>3. Reviewed'
  BY <1>1, <1>2 DEF Reviewed
<1>4. CASE branch' = [branch EXCEPT ![t] = MergedWith(@, log)] /\ Goto("integrate")
  <2> DEFINE b == MergedWith(branch[t], log)
  <2>1. /\ b \in [Unit -> Nat]
        /\ \A w \in Unit : /\ b[w] = branch[t][w] \/ b[w] <= Lev(w)
                           /\ b[w] = IF branch[t][w] > Lev(w) THEN branch[t][w] ELSE Lev(w)
        /\ b[Work(t)] > 0
    BY <1>1, MergedIntoTask
  <2>2. branch' = [branch EXCEPT ![t] = b] /\ branch'[t] = b
    BY <1>4 DEF Known, RunnerType, RepoType
  <2> HIDE DEF b
  <2>3. op'.pc = "integrate" /\ op'.task = t /\ op'.todo = op.todo
    BY <1>1, <1>4, Queue DEF Known, RunnerType
  <2>4. /\ Own(t)' = Own(t) /\ Own(t) \subseteq Unit /\ \A w : Lev(w)' = Lev(w)
        /\ \A w \in Unit : Lev(w) \in Nat
    BY <1>1, <1>2, OwnUnits DEF Own, Lev
  <2>5. Ready(t)'
    BY <1>1, <2>1, <2>2, <2>4 DEF Ready
  <2>6. Stands(t)'
    BY <1>1, <1>2, <2>5 DEF Stands
  <2>7. Points'
    BY <1>1, <1>2, <2>3, <2>5 DEF Points, MergingPc, At
  <2>8. QED  BY <1>1, <1>2, <1>3, <2>1, <2>2, <2>3, <2>6, <2>7, BranchStep DEF At
<1>5. CASE branch' = branch /\ (Goto("launchResolver") \/ Return)
  <2>1. /\ op'.todo = op.todo
        /\ \/ op'.pc = "launchResolver" /\ op'.task = t
           \/ op'.pc = (IF op.todo = {} THEN "idle" ELSE "recover")
    BY <1>1, <1>5, Queue DEF Known, RunnerType
  <2>2. Points'
    BY <1>1, <1>2, <1>5, <2>1, Unmoved DEF Points, MergingPc, At, StillTree
  <2>3. QED  BY <1>1, <1>2, <1>3, <1>5, <2>1, <2>2, TasksLeftAlone DEF At
<1>6. QED  BY <1>4, <1>5 DEF ResolveConflict

LEMMA ReapplyMergeKeeps ==
  ASSUME Known, NEW t \in Task, ReapplyMerge(t)
  PROVE  Branches'
<1>1. /\ op.pc = "reapplyMerge" /\ op.task = t /\ pending = None /\ task[t].st # "done"
      /\ Undone(t) /\ TipIs(t, "revert") /\ mission # "review" /\ Nums /\ Stands(t)
  BY NumsType DEF ReapplyMerge, At, Known, Branches, Points, MergingPc, Reviewed, FinishPc,
                  Standing
<1>2. /\ UNCHANGED <<mission, task, attempt, pending, log>>
  BY DEF ReapplyMerge, record
<1>3. Reviewed'
  BY <1>1, <1>2 DEF Reviewed
<1>4. CASE branch' = [branch EXCEPT ![t] = MergedWith(@, log)] /\ Goto("reapplyRevert")
  <2> DEFINE b == MergedWith(branch[t], log)
  <2>1. /\ b \in [Unit -> Nat]
        /\ \A w \in Unit : /\ b[w] = branch[t][w] \/ b[w] <= Lev(w)
                           /\ b[w] = IF branch[t][w] > Lev(w) THEN branch[t][w] ELSE Lev(w)
        /\ attempt[t].st = "succeeded" => b[Work(t)] > 0
    BY <1>1, MergedIntoTask
  <2>2. branch' = [branch EXCEPT ![t] = b] /\ branch'[t] = b
    BY <1>4 DEF Known, RunnerType, RepoType
  <2> HIDE DEF b
  <2>3. op'.pc = "reapplyRevert" /\ op'.task = t /\ op'.todo = op.todo
    BY <1>1, <1>4, Queue DEF Known, RunnerType
  <2>4. /\ Own(t)' = Own(t) /\ Own(t) \subseteq Unit /\ \A w : Lev(w)' = Lev(w)
        /\ \A w \in Unit : Lev(w) \in Nat /\ branch[t][w] \in Nat
    BY <1>1, <1>2, OwnUnits DEF Own, Lev, Nums
  <2>5. \A w \in Own(t) : /\ b[w] = Lev(w) /\ (b[w] > 0 <=> branch[t][w] > 0)
                          /\ Lev(w) = 0 \/ ~Odd(Lev(w))
    <3>1. ASSUME NEW w \in Own(t)
          PROVE  /\ b[w] = Lev(w) /\ (b[w] > 0 <=> branch[t][w] > 0)
                 /\ Lev(w) = 0 \/ ~Odd(Lev(w))
      <4>1. \/ branch[t][w] = 0 /\ Lev(w) = 0
            \/ branch[t][w] + 1 = Lev(w) /\ ~Odd(Lev(w))
        BY <1>1 DEF Undone
      <4>2. ~Odd(Lev(w)) => Lev(w) # 1
        BY OddSucc DEF Odd
      <4>3. QED  BY <2>1, <2>4, <4>1, <4>2
    <3>2. QED  BY <3>1
  <2>6. Caught(t)' /\ TipIs(t, "revert")'
    <3>1. Caught(t)'
      BY <2>2, <2>4, <2>5 DEF Caught
    <3>2. Tip(log') = Tip(log) /\ {w \in Own(t) : b[w] > 0} = {w \in Own(t) : branch[t][w] > 0}
      BY <1>2, <2>5
    <3>3. QED  BY <1>1, <1>2, <2>2, <2>4, <3>1, <3>2 DEF TipIs
  <2>7. Stands(t)'
    <3>1. CASE Lost(t)
      BY <1>1, <1>2, <2>6, <3>1 DEF Stands, Lost
    <3>2. CASE Ready(t)
      <4>1. ASSUME NEW w \in Own(t) PROVE b[w] = 0 /\ Lev(w) = 0
        <5>1. \/ branch[t][w] = 0 /\ Lev(w) = 0
              \/ branch[t][w] = Lev(w) + 1 /\ branch[t][w] + 1 = Lev(w)
          BY <1>1, <2>4, <3>2, OddSucc DEF Ready, Undone
        <5>2. QED  BY <2>1, <2>4, <5>1
      <4>2. Ready(t)'
        BY <2>2, <2>4, <4>1 DEF Ready
      <4>3. QED  BY <1>1, <1>2, <4>2 DEF Stands
    <3>3. QED  BY <1>1, <3>1, <3>2 DEF Stands
  <2>8. Points'
    BY <1>1, <1>2, <2>3, <2>6 DEF Points, MergingPc, At
  <2>9. QED  BY <1>1, <1>2, <1>3, <2>1, <2>2, <2>3, <2>7, <2>8, BranchStep DEF At
<1>5. CASE branch' = branch /\ Return
  <2>1. op'.todo = op.todo /\ op'.pc = IF op.todo = {} THEN "idle" ELSE "recover"
    BY <1>1, <1>5, Queue DEF Known, RunnerType
  <2>2. Points'
    BY <1>1, <1>2, <1>5, <2>1, Unmoved DEF Points, MergingPc, At, StillTree
  <2>3. QED  BY <1>1, <1>2, <1>3, <1>5, <2>1, <2>2, TasksLeftAlone DEF At
<1>6. QED  BY <1>4, <1>5 DEF ReapplyMerge

LEMMA ReapplyRevertKeeps ==
  ASSUME Known, NEW t \in Task, ReapplyRevert(t)
  PROVE  Branches'
<1>1. /\ op.pc = "reapplyRevert" /\ op.task = t /\ pending = None /\ task[t].st # "done"
      /\ Caught(t) /\ TipIs(t, "revert") /\ mission # "review" /\ Nums /\ Attempted(t)
  BY NumsType DEF ReapplyRevert, At, Known, Branches, Points, MergingPc, Reviewed, FinishPc,
                  Attempts
<1>2. /\ UNCHANGED <<mission, task, attempt, pending, log>>
  BY DEF ReapplyRevert, record
<1>3. Reviewed'
  BY <1>1, <1>2 DEF Reviewed
<1>4. CASE branch' = [branch EXCEPT ![t] = Raised(@, Tip(log).delta)] /\ Goto("escalate")
  <2> DEFINE b == Raised(branch[t], Tip(log).delta)
  <2>1. /\ Own(t)' = Own(t) /\ Own(t) \subseteq Unit /\ \A w : Lev(w)' = Lev(w)
        /\ \A w \in Unit : Lev(w) \in Nat /\ branch[t][w] \in Nat
    BY <1>1, <1>2, OwnUnits DEF Own, Lev, Nums
  <2>2. /\ b \in [Unit -> Nat]
        /\ \A w \in Unit : b[w] = IF w \in Own(t) /\ branch[t][w] > 0 THEN branch[t][w] + 1
                                  ELSE branch[t][w]
    BY <1>1, <2>1 DEF Raised, TipIs
  <2>3. branch' = [branch EXCEPT ![t] = b] /\ branch'[t] = b
    BY <1>4 DEF Known, RunnerType, RepoType
  <2> HIDE DEF b
  <2>4. op'.pc = "escalate" /\ op'.task = t /\ op'.todo = op.todo
    BY <1>1, <1>4, Queue DEF Known, RunnerType
  <2>5. Ready(t)'
    <3>1. ASSUME NEW w \in Own(t)
          PROVE  \/ b[w] = 0 /\ Lev(w) = 0
                 \/ b[w] = Lev(w) + 1 /\ ~Odd(Lev(w))
      <4>1. \/ branch[t][w] = 0 /\ Lev(w) = 0
            \/ branch[t][w] = Lev(w) /\ ~Odd(Lev(w))
        BY <1>1 DEF Caught
      <4>2. QED  BY <2>1, <2>2, <4>1
    <3>2. QED  BY <2>1, <2>3, <3>1 DEF Ready
  <2>6. Stands(t)'
    BY <1>1, <1>2, <2>5 DEF Stands
  <2>7. Points'
    BY <1>1, <1>2, <2>4, <2>5 DEF Points, MergingPc, At
  <2>8. attempt[t].st = "succeeded" => b[Work(t)] > 0
    <3>1. attempt[t].st = "succeeded" => branch[t][Work(t)] > 0 /\ Work(t) \in Unit
      BY <1>1, OwnUnits DEF Work, Nums, Attempted
    <3>2. QED  BY <2>1, <2>2, <3>1
  <2>9. QED  BY <1>1, <1>2, <1>3, <2>2, <2>3, <2>4, <2>6, <2>7, <2>8, BranchStep DEF At
<1>5. CASE branch' = branch /\ Return
  <2>1. op'.todo = op.todo /\ op'.pc = IF op.todo = {} THEN "idle" ELSE "recover"
    BY <1>1, <1>5, Queue DEF Known, RunnerType
  <2>2. Points'
    BY <1>1, <1>2, <1>5, <2>1, Unmoved DEF Points, MergingPc, At, StillTree
  <2>3. QED  BY <1>1, <1>2, <1>3, <1>5, <2>1, <2>2, TasksLeftAlone DEF At
<1>6. QED  BY <1>4, <1>5 DEF ReapplyRevert

-----------------------------------------------------------------------------
(* The finish of the review leaves the branches alone.                     *)

LEMMA FinishMoves ==
  ASSUME Known, FinishCore \/ FinishOther
  PROVE  /\ UNCHANGED <<task, attempt, pending, log, branch>>
         /\ mission' = "review" => mission = "review"
         /\ \/ op' = op
            \/ /\ op.pc \in FinishPc \union {"idle"} /\ op'.todo = op.todo
               /\ \/ op'.pc \in FinishPc
                  \/ op'.pc = IF op.todo = {} THEN "idle" ELSE "recover"
            \/ /\ op.pc = "recover" /\ mission = "review"
               /\ op'.pc = "settle" /\ op'.todo = {}
<1>1. ASSUME NEW from, NEW to, Step(from, to)
      PROVE  /\ UNCHANGED <<mission, task, attempt, pending, log, branch>>
             /\ op.pc = from /\ op'.pc = to /\ op'.todo = op.todo
  BY <1>1, Queue DEF Step, At, record, repo, Known, RunnerType
<1>2. ASSUME Return
      PROVE  op'.todo = op.todo /\ op'.pc = IF op.todo = {} THEN "idle" ELSE "recover"
  BY <1>2, Queue DEF Known, RunnerType
<1>3. ASSUME NEW pc, Goto(pc)
      PROVE  op'.todo = op.todo /\ op'.pc = pc
  BY <1>3, Queue DEF Known, RunnerType
<1>4. CASE Detach \/ BuildMerge \/ Gate \/ FastForward \/ CreatePullRequest \/ Tidy
  BY <1>1, <1>4 DEF Detach, BuildMerge, Gate, FastForward, CreatePullRequest, Tidy, FinishPc
<1>5. CASE FinishThrows \/ Recheck
  <2>1. CASE FinishThrows
    BY <1>1, <2>1 DEF FinishThrows, FinishPc
  <2>2. CASE Recheck
    BY <1>1, <2>2 DEF Recheck, FinishPc
  <2>3. QED  BY <1>5, <2>1, <2>2
<1>6. CASE \E how \in Picks : AskFinish(how)
  <2>1. PICK how \in Picks : AskFinish(how)
    BY <1>6
  <2>2. Step("idle", "settle") \/ Step("idle", FirstStep(how))
    BY <2>1 DEF AskFinish
  <2>3. FirstStep(how) \in FinishPc /\ "settle" \in FinishPc
    BY DEF FirstStep, FinishPc
  <2>4. QED  BY <1>1, <2>2, <2>3
<1>7. CASE Refuse \/ SettleThrows
  BY <1>2, <1>7 DEF Refuse, SettleThrows, At, FinishPc, record, repo
<1>8. CASE Complete
  BY <1>2, <1>8 DEF Complete, At, FinishPc, repo
<1>9. CASE Settle
  BY <1>2, <1>3, <1>9 DEF Settle, At, FinishPc, record, repo
<1>10. CASE RecoverFinish
  BY <1>10 DEF RecoverFinish, At, record, repo, Known, Finishing
<1>11. CASE UserCommits \/ UserTakesCheckout
  BY <1>11 DEF UserCommits, UserTakesCheckout, runnerVars, record, repo
<1>12. QED  BY <1>4, <1>5, <1>6, <1>7, <1>8, <1>9, <1>10, <1>11 DEF FinishCore, FinishOther

LEMMA StutterKeeps ==
  ASSUME Known, UNCHANGED <<task, attempt, pending, log, branch, op>>,
         mission' = "review" => mission = "review"
  PROVE  Branches'
<1>1. \A s \in Task : StillTree(s)
  BY DEF StillTree
<1>2. ASSUME NEW t \in Task PROVE Stands(t)' /\ Attempted(t)'
  <2>1. Stands(t)'
    BY <1>1, StandsStill
  <2>2. Attempted(t)
    BY DEF Known, Branches, Attempts
  <2>3. Attempted(t)'
    BY <1>1, <2>2, Unmoved DEF Attempted, At
  <2>4. QED  BY <2>1, <2>3
<1>3. OtherUnits'
  BY <1>1, OthersUnmoved DEF Known, Branches
<1>4. Points'
  <2>1. Points
    BY DEF Known, Branches
  <2>2. \A t \in Task : /\ (Ready(t)' <=> Ready(t)) /\ (Undone(t)' <=> Undone(t))
                        /\ (Caught(t)' <=> Caught(t))
                        /\ (TipIs(t, "revert")' <=> TipIs(t, "revert"))
                        /\ Work(t)' = Work(t)
    BY <1>1, Unmoved
  <2>3. QED  BY <2>1, <2>2 DEF Points, MergingPc, At, Made
<1>5. Reviewed'
  BY DEF Reviewed, Known, Branches
<1>6. QED  BY <1>2, <1>3, <1>4, <1>5 DEF Branches, Standing, Attempts

LEMMA FinishBranches ==
  ASSUME Known, FinishCore \/ FinishOther
  PROVE  Branches'
<1>1. /\ UNCHANGED <<task, attempt, pending, log, branch>>
      /\ \A s \in Task : StillTree(s)
      /\ mission' = "review" => mission = "review"
  BY FinishMoves DEF StillTree
<1>2. CASE op' = op
  BY <1>1, <1>2, StutterKeeps
<1>3. CASE /\ op.pc \in FinishPc \union {"idle"} /\ op'.todo = op.todo
           /\ \/ op'.pc \in FinishPc
              \/ op'.pc = IF op.todo = {} THEN "idle" ELSE "recover"
  <2>1. pending = None
    BY <1>3 DEF Known, Branches, Points, MergingPc, FinishPc
  <2>2. Points'
    BY <1>1, <1>3, <2>1 DEF Points, MergingPc, At, FinishPc
  <2>3. Reviewed'
    BY <1>1, <1>3, <2>1 DEF Reviewed, Known, Branches
  <2>4. QED  BY <1>1, <1>3, <2>2, <2>3, TasksLeftAlone DEF At, FinishPc
<1>4. CASE /\ op.pc = "recover" /\ mission = "review"
           /\ op'.pc = "settle" /\ op'.todo = {}
  <2>1. pending = None /\ \A t \in Task : task[t].st \in {"done", "skipped"}
    BY <1>4 DEF Known, Branches, Reviewed
  <2>2. Points'
    BY <1>1, <1>4, <2>1 DEF Points, MergingPc, At
  <2>3. Reviewed'
    BY <1>1, <1>4, <2>1 DEF Reviewed, FinishPc
  <2>4. ASSUME NEW t \in Task PROVE Stands(t)' /\ Attempted(t)'
    <3>1. Stands(t)'
      BY <1>1, StandsStill
    <3>2. Attempted(t) /\ attempt[t].st # "finishing"
      BY <2>1 DEF Known, Branches, Attempts, Attempted
    <3>3. Attempted(t)'
      BY <1>1, <3>2, Unmoved DEF Attempted
    <3>4. QED  BY <3>1, <3>3
  <2>5. OtherUnits'
    BY <1>1, OthersUnmoved DEF Known, Branches
  <2>6. QED  BY <2>2, <2>3, <2>4, <2>5 DEF Branches, Standing, Attempts
<1>5. QED  BY <1>2, <1>3, <1>4, FinishMoves

-----------------------------------------------------------------------------
(* Every step.                                                             *)

LEMMA BranchesInit == Init => BInv
<1> SUFFICES ASSUME Init PROVE Branches
  BY DEF BInv
<1> USE DEF Init, RunnerInit, FinishInit
<1>1. /\ \A w : Lev(w) = 0
      /\ \A t \in Task : \A w \in Unit : branch[t][w] = 0
  <2>1. \A w : Level(<<>>, w) = 0
    <3>1. \A w : {i \in DOMAIN <<>> : w \in <<>>[i].delta} = {}
      OBVIOUS
    <3>2. QED  BY <3>1, FS_EmptySet DEF Level
  <2>2. QED  BY <2>1 DEF Lev, CutFrom
<1>2. \A t \in Task : Own(t) \subseteq Unit /\ Ready(t)
  <2>1. \A t \in Task : Own(t) \subseteq Unit
    BY MaxStartsAssumption DEF Own, Unit
  <2>2. QED  BY <1>1, <2>1 DEF Ready
<1>3. Standing
  BY <1>2 DEF Standing, Stands
<1>4. OtherUnits
  <2>1. ASSUME NEW t \in Task, NEW k \in 1 .. MaxStarts
        PROVE  branch[t][<<t, k>>] = 0 /\ Lev(<<t, k>>) = 0 /\ ~(k < attempt[t].tree)
    <3>1. attempt[t].tree = 1 /\ ~(k < 1) /\ <<t, k>> \in Unit
      BY MaxStartsAssumption DEF Unit
    <3>2. QED  BY <1>1, <3>1
  <2>2. QED  BY <1>1, <2>1 DEF OtherUnits
<1>5. Attempts
  BY DEF Attempts, Attempted
<1>6. Points
  BY DEF Points, MergingPc, At
<1>7. Reviewed
  BY DEF Reviewed
<1>8. QED  BY <1>3, <1>4, <1>5, <1>6, <1>7 DEF Branches

LEMMA RunnerBranches ==
  ASSUME Known, ~stray', RunnerCore
  PROVE  Branches'
<1>1. CASE AbortConflicted
  BY <1>1, AbortConflictedKeeps
<1>2. CASE AbortRevert
  BY <1>2 DEF AbortRevert, Known, Branches, Points
<1>3. CASE CancelMission
  BY <1>3, CancelMissionKeeps
<1>4. ASSUME NEW t \in Task, RunnerStep(t)
      PROVE  Branches'
  BY <1>4, CommitWorkKeeps, CheckKeeps, EscalateKeeps, IntegrateKeeps, BeforeMergeKeeps,
     GitMergeKeeps, VerifyMergeKeeps, RevertMergeKeeps, MergedKeeps, ConflictKeeps,
     RevertedKeeps, ErrorKeeps, ResolveConflictKeeps, LaunchResolverKeeps,
     ReapplyMergeKeeps, ReapplyRevertKeeps, CancelAttemptKeeps, RecoverMergeKeeps,
     RecoverTaskKeeps
     DEF RunnerStep
<1>5. QED  BY <1>1, <1>2, <1>3, <1>4 DEF RunnerCore

LEMMA ButtonBranches ==
  ASSUME Known, ~AcceptUnapplied, RunnerOther
  PROVE  Branches'
<1>1. CASE Cancel \/ PauseMission \/ ResumeMission \/ ReadyForReview
  BY <1>1, MissionButtonsKeep
<1>2. ASSUME NEW t \in Task,
             \/ Start(t) \/ RunEscalation(t) \/ CouldNotStart(t) \/ Finish(t)
             \/ LoseSession(t) \/ Accept(t) \/ Resume(t) \/ Retry(t) \/ Skip(t)
      PROVE  Branches'
  BY <1>2, StartKeeps, RunEscalationKeeps, CouldNotStartKeeps, FinishKeeps,
     LoseSessionKeeps, AcceptKeeps, ResumeKeeps, RetryKeeps, SkipKeeps
<1>3. QED  BY <1>1, <1>2 DEF RunnerOther

(* Once a merge was left on the branch without a verdict, it stays so.     *)
LEMMA StrayStays ==
  ASSUME RunnerType, [Next]_vars
  PROVE  stray => stray'
<1>1. CASE RunnerCore
  <2>1. CASE AbortConflicted \/ AbortRevert \/ CancelMission
    BY <2>1 DEF AbortConflicted, AbortRevert, CancelMission
  <2>2. ASSUME NEW t \in Task, RunnerStep(t)
        PROVE  stray => stray'
    BY <2>2 DEF RunnerStep, CommitWork, Check, Escalate, Integrate, BeforeMerge, GitMerge,
       VerifyMerge, RevertMerge, Merged, Conflict, Reverted, Error, ResolveConflict,
       LaunchResolver, ReapplyMerge, ReapplyRevert, CancelAttempt, RecoverMerge, RecoverTask
  <2>3. QED  BY <1>1, <2>1, <2>2 DEF RunnerCore
<1>2. CASE RunnerOther
  BY <1>2 DEF RunnerOther, Cancel, PauseMission, ResumeMission, ReadyForReview, Start,
     RunEscalation, CouldNotStart, Finish, LoseSession, Accept, Resume, Retry, Skip
<1>3. CASE FinishCore \/ FinishOther
  BY <1>3 DEF FinishCore, FinishOther, Detach, BuildMerge, Gate, FastForward,
     CreatePullRequest, Refuse, Tidy, Complete, Settle, RecoverFinish, FinishThrows,
     SettleThrows, Recheck, UserCommits, UserTakesCheckout, AskFinish, Step, runnerVars
<1>4. CASE Crash \/ Restart \/ UNCHANGED vars
  BY <1>4 DEF Crash, Restart, vars, runnerVars
<1>5. QED  BY <1>1, <1>2, <1>3, <1>4 DEF Next, Core

LEMMA BranchesNext ==
  ASSUME ~AcceptUnapplied, IInv, IInv', BInv, [Next]_vars
  PROVE  BInv'
<1>1. SUFFICES ASSUME ~stray' PROVE Branches'
  BY DEF BInv
<1>2. Known
  BY <1>1, StrayStays DEF Known, IInv, BInv
<1>3. CASE UNCHANGED vars
  BY <1>2, <1>3, StutterKeeps DEF vars, runnerVars, record, repo
<1>4. CASE Crash \/ Restart
  BY <1>2, <1>4, DeathKeeps
<1>5. QED  BY <1>1, <1>2, <1>3, <1>4, RunnerBranches, ButtonBranches, FinishBranches
           DEF Next, Core

(* A done task's tree is on the branch, and whatever is on the branch is   *)
(* of the tree of a task that is done or being merged.                     *)
LEMMA BranchesMatch ==
  ASSUME RunnerType, Branches
  PROVE  DoneHasItsWork /\ OnlyRecordedWork
<1>1. Nums /\ OtherUnits
  BY NumsType DEF Branches
<1>2. ASSUME NEW t \in Task, task[t].st = "done", NEW w \in Own(t), branch[t][w] > 0
      PROVE  w \in Present(log)
  <2>1. Held(t) /\ w \in Unit
    BY <1>1, <1>2, OwnUnits DEF Branches, Standing, Stands
  <2>2. QED  BY <1>2, <2>1 DEF Held, Present, Lev
<1>3. ASSUME NEW w \in Present(log), task[w[1]].st # "done", pending = None \/ pending.task # w[1]
      PROVE  FALSE
  <2>1. PICK t \in Task, k \in 1 .. MaxStarts : w = <<t, k>>
    BY <1>3 DEF Present, Unit
  <2>2. Ready(t) \/ Undone(t) \/ Caught(t)
    BY <1>3, <2>1 DEF Branches, Standing, Stands, Lost
  <2>3. Odd(Lev(w)) /\ Lev(w) # 0
    BY <1>3, OddSucc DEF Present, Lev
  <2>4. w \notin Own(t)
    BY <2>2, <2>3 DEF Ready, Undone, Caught
  <2>5. k < attempt[t].tree \/ k > attempt[t].n
    BY <1>1, <2>1, <2>4, OwnUnits DEF Nums
  <2>6. QED  BY <1>1, <2>1, <2>3, <2>5 DEF OtherUnits
<1>4. QED  BY <1>2, <1>3 DEF DoneHasItsWork, OnlyRecordedWork

(* At every step the mission branch holds what the record says is done,    *)
(* for any plan, any number of attempts, and any conflicts, failed checks, *)
(* failing commands and deaths of the core; but for a branch with a merge  *)
(* left without a verdict, and as long as reverted work that is not back   *)
(* on its branch is not accepted.                                          *)
THEOREM BranchMatchesRecordHolds ==
  ASSUME ~AcceptUnapplied
  PROVE  Spec => []BranchMatchesRecord
<1>1. BInv /\ IInv => BranchMatchesRecord
  BY BranchesMatch DEF BInv, IInv, BranchMatchesRecord
<1>2. IInv /\ IInv' /\ BInv /\ [Next]_vars => BInv'
  BY BranchesNext
<1>3. QED  BY <1>1, <1>2, BranchesInit, Invariant, PTL DEF Spec
=============================================================================
