--------------------------- MODULE MissionProofs ---------------------------
(***************************************************************************)
(* Proofs about Mission, for any tasks, attempts and bounds.               *)
(***************************************************************************)
EXTENDS Mission, FiniteSetTheorems, SequenceTheorems, TLAPS

(* TypeOK in the parts that one step changes together.                     *)
RecordType ==
  /\ mission \in {"running", "paused", "review", "completed", "cancelled"}
  /\ task \in [Task -> [st : TaskState, last : Outcome, retry : {"none", "continue", "fresh"}]]
  /\ attempt \in [Task -> [n : 0 .. MaxStarts, tries : 0 .. MaxAttempts, st : AttemptState, tree : 1 .. MaxStarts]]
  /\ \A t \in Task : attempt[t].tries <= attempt[t].n
  /\ pending \in [task : Task, pre : Nat] \union {None}

RepoType ==
  /\ log \in Seq(Commit)
  /\ half \in {"none", "merge", "revert"}
  /\ branch \in [Task -> [Unit -> Nat]]
  /\ marked \in [Task -> Nat]

(* A tree holds a merge of the mission branch as it was: it only grows.    *)
MarkedInLog == \A t \in Task : marked[t] <= Len(log)

OpType ==
  /\ op \in [pc : RunnerPc \union FinishPc, task : Task \union {None}, todo : SUBSET Task]
  /\ spent \in [Trouble -> 0 .. MaxTroubles]
  /\ stray \in BOOLEAN

FinishType ==
  /\ finish \in [how : How, unsure : BOOLEAN] \union {None}
  /\ finished \in How \union {"none"}
  /\ base \in [user : 0 .. MaxBaseMoves, commits : 0 .. MaxBaseMoves, has : BOOLEAN]
  /\ primary \in BOOLEAN /\ opened \in BOOLEAN
  /\ tree \in {"branch", "detached", "removed"}
  /\ made \in 0 .. MaxBaseMoves

(* Where a finish can be under way, and what its steps know of the base.   *)
Finishing ==
  /\ finish # None => mission = "review"
  /\ finished # "none" => mission \in {"completed", "cancelled"}
  /\ At("cancel") => mission \in {"running", "paused"}
  /\ op.pc \in FinishPc => finish # None
  /\ op.pc \in {"gated", "build", "gate", "fastForward"} =>
       finish.how = "merge-local" /\ ~base.has
  /\ At("create") => finish.how = "pull-request"
  /\ At("refuse") => ~base.has
  /\ op.pc \in {"tidy", "complete", "tidySettled", "completeSettled"} =>
       (finish.how = "merge-local" => base.has)

LEMMA TypeParts == TypeOK <=> RecordType /\ RepoType /\ OpType /\ FinishType
BY DEF TypeOK, RecordType, RepoType, OpType, FinishType

-----------------------------------------------------------------------------
(* The operators on branches.                                              *)

(* The level of a unit is a number.                                        *)
LEMMA LevelType ==
  ASSUME NEW l \in Seq(Commit), NEW w
  PROVE  Level(l, w) \in Nat
<1>1. DOMAIN l = 1 .. Len(l) /\ Len(l) \in Nat
  BY LenProperties
<1>2. IsFiniteSet(1 .. Len(l))
  BY <1>1, FS_Interval
<1>3. {i \in DOMAIN l : w \in l[i].delta} \subseteq 1 .. Len(l)
  BY <1>1
<1>4. IsFiniteSet({i \in DOMAIN l : w \in l[i].delta})
  BY <1>2, <1>3, FS_Subset
<1>5. QED  BY <1>4, FS_CardinalityType DEF Level

(* What a branch is after each operation on it.                            *)
LEMMA BranchTypes ==
  ASSUME NEW l \in Seq(Commit), NEW b \in [Unit -> Nat], NEW S
  PROVE  /\ CutFrom(l) \in [Unit -> Nat]
         /\ MergedWith(b, l) \in [Unit -> Nat]
         /\ Raised(b, S) \in [Unit -> Nat]
         /\ Brings(b, l) \subseteq Unit
BY LevelType DEF CutFrom, MergedWith, Raised, Brings

(* A trouble comes within its bound.                                       *)
LEMMA ComesType ==
  ASSUME OpType, NEW k \in Trouble, Comes(k)
  PROVE  spent' \in [Trouble -> 0 .. MaxTroubles]
<1>1. \A j \in Trouble : spent[j] \in Nat
  BY DEF OpType
<1>2. {"accept", "pause", "fault", "crash"} = Trouble
  BY DEF Trouble
<1>3. spent[k] + 1 \in 0 .. MaxTroubles
  BY <1>1, <1>2, RunnerBoundsAssumption DEF Comes, Trouble
<1>4. QED  BY <1>3 DEF Comes, OpType

LEMMA RetryWrite ==
  ASSUME RecordType, NEW t \in Task, NEW st \in TaskState,
         NEW how \in {"none", "continue", "fresh"},
         task' = [task EXCEPT ![t].st = st, ![t].retry = how]
  PROVE  task' \in [Task -> [st : TaskState, last : Outcome, retry : {"none", "continue", "fresh"}]]
<1>1. task \in [Task -> [st : TaskState, last : Outcome, retry : {"none", "continue", "fresh"}]]
  BY DEF RecordType
<1>2. QED
  BY ONLY <1>1, t \in Task, st \in TaskState, how \in {"none", "continue", "fresh"},
          task' = [task EXCEPT ![t].st = st, ![t].retry = how], ZenonT(40)

LEMMA LaunchType ==
  ASSUME RecordType, RepoType, NEW t \in Task, NEW how, Launch(t, how)
  PROVE  /\ attempt' \in [Task -> [n : 0 .. MaxStarts, tries : 0 .. MaxAttempts, st : AttemptState, tree : 1 .. MaxStarts]]
         /\ \A u \in Task : attempt'[u].tries <= attempt'[u].n
         /\ task' \in [Task -> [st : TaskState, last : Outcome, retry : {"none", "continue", "fresh"}]]
         /\ branch' \in [Task -> [Unit -> Nat]] /\ marked' \in [Task -> Nat]
         /\ \A u \in Task : marked'[u] \in {marked[u], 0, Len(log)}
<1> DEFINE n == attempt[t].n + 1
           tries == attempt[t].tries + (IF how = "resume" THEN 0 ELSE 1)
           next == [n |-> n, tries |-> tries, st |-> "running",
                    tree |-> IF how = "fresh" THEN n ELSE attempt[t].tree]
<1>1. CutFrom(log) \in [Unit -> Nat]
  BY LevelType DEF CutFrom, RepoType
<1>2. n \in 1 .. MaxStarts
  BY MaxStartsAssumption DEF Launch, RecordType
<1>3. branch' \in [Task -> [Unit -> Nat]] /\ marked' \in [Task -> Nat]
  <2>1. CASE how = "fresh"
    <3>1. branch' = [branch EXCEPT ![t] = CutFrom(log)] /\ marked' = [marked EXCEPT ![t] = 0]
      BY <2>1 DEF Launch
    <3>2. QED  BY <3>1, <1>1 DEF RepoType
  <2>2. CASE how # "fresh"
    BY <2>2 DEF Launch, RepoType
  <2>3. QED  BY <2>1, <2>2
<1>4. tries \in 0 .. MaxAttempts /\ tries <= n
  <2>1. attempt[t].tries \in 0 .. MaxAttempts /\ attempt[t].n \in Nat /\ MaxAttempts \in Nat
        /\ attempt[t].tries <= attempt[t].n
    BY RunnerBoundsAssumption, MaxStartsAssumption DEF RecordType
  <2>2. how = "resume" \/ attempt[t].tries < MaxAttempts
    BY DEF Launch, Admitted
  <2>3. QED  BY <2>1, <2>2
<1>5. attempt[t].tree \in 1 .. MaxStarts
  BY DEF RecordType
<1>6. next \in [n : 0 .. MaxStarts, tries : 0 .. MaxAttempts, st : AttemptState, tree : 1 .. MaxStarts]
  <2>1. n \in 0 .. MaxStarts /\ "running" \in AttemptState
    BY <1>2, MaxStartsAssumption DEF AttemptState
  <2>2. QED  BY <1>2, <1>4, <1>5, <2>1
<1>7. attempt' = [attempt EXCEPT ![t] = next]
  <2>1. attempt' = [attempt EXCEPT ![t] = [n |-> n, tries |-> tries, st |-> "running",
                                            tree |-> IF how = "fresh" THEN n ELSE @.tree]]
    BY DEF Launch
  <2>2. QED  BY <2>1
<1>8. attempt' \in [Task -> [n : 0 .. MaxStarts, tries : 0 .. MaxAttempts, st : AttemptState, tree : 1 .. MaxStarts]]
  BY <1>6, <1>7 DEF RecordType
<1>9. \A u \in Task : attempt'[u].tries <= attempt'[u].n
  <2>1. next.tries <= next.n
    BY <1>4
  <2>2. QED  BY <1>7, <2>1 DEF RecordType
<1>10. task' \in [Task -> [st : TaskState, last : Outcome, retry : {"none", "continue", "fresh"}]]
  <2>1. task' = [task EXCEPT ![t].st = "running", ![t].retry = "none"] /\ "running" \in TaskState
    BY DEF Launch, TaskState
  <2>2. QED  BY <2>1, RetryWrite
<1>11. marked' = marked \/ marked' = [marked EXCEPT ![t] = 0]
  BY DEF Launch
<1>12. \A u \in Task : marked'[u] \in {marked[u], 0, Len(log)}
  BY <1>11 DEF RepoType
<1>13. QED  BY <1>3, <1>8, <1>9, <1>10, <1>12

-----------------------------------------------------------------------------
(* The steps of the runner keep the types; but for a cancel and the        *)
(* buttons that say so they keep the mission's state, and they stay with   *)
(* the runner's own points of the queue.                                   *)

RunnerType == RecordType /\ RepoType /\ MarkedInLog /\ OpType

IInv == RunnerType /\ FinishType /\ Finishing /\ FinishMatchesBase

Kept == RunnerType' /\ op'.pc \in RunnerPc /\ mission' = mission

LEMMA Returns ==
  ASSUME OpType, Return
  PROVE  /\ op' \in [pc : RunnerPc \union FinishPc, task : Task \union {None}, todo : SUBSET Task]
         /\ op'.pc \in {"idle", "recover"} /\ op'.pc \in RunnerPc
BY DEF OpType, Return, RunnerPc

LEMMA Goes ==
  ASSUME OpType, NEW pc \in RunnerPc \union FinishPc, Goto(pc)
  PROVE  /\ op' \in [pc : RunnerPc \union FinishPc, task : Task \union {None}, todo : SUBSET Task]
         /\ op'.pc = pc
BY DEF OpType, Goto

LEMMA Begins ==
  ASSUME OpType, NEW pc \in RunnerPc, NEW t \in Task \union {None}, Begin(pc, t)
  PROVE  /\ op' \in [pc : RunnerPc \union FinishPc, task : Task \union {None}, todo : SUBSET Task]
         /\ op'.pc = pc
BY DEF OpType, Begin

(* The writes of one task and of one attempt.                              *)
LEMMA TaskWrites ==
  ASSUME RecordType, NEW t \in Task, NEW st \in TaskState, NEW last \in Outcome
  PROVE  /\ SetTask(t, st) => task' \in [Task -> [st : TaskState, last : Outcome, retry : {"none", "continue", "fresh"}]]
         /\ ToHuman(t, last) => task' \in [Task -> [st : TaskState, last : Outcome, retry : {"none", "continue", "fresh"}]]
         /\ task' = [task EXCEPT ![t].st = st, ![t].last = last] =>
              task' \in [Task -> [st : TaskState, last : Outcome, retry : {"none", "continue", "fresh"}]]
<1>1. task \in [Task -> [st : TaskState, last : Outcome, retry : {"none", "continue", "fresh"}]]
  BY DEF RecordType
<1>2. SetTask(t, st) => task' \in [Task -> [st : TaskState, last : Outcome, retry : {"none", "continue", "fresh"}]]
  BY <1>1 DEF SetTask
<1>3. ToHuman(t, last) => task' \in [Task -> [st : TaskState, last : Outcome, retry : {"none", "continue", "fresh"}]]
  <2>1. SUFFICES ASSUME ToHuman(t, last) PROVE task' \in [Task -> [st : TaskState, last : Outcome, retry : {"none", "continue", "fresh"}]]
    OBVIOUS
  <2>2. "needs-human" \in TaskState
    BY DEF TaskState
  <2>3. CASE task[t].st = "integrating"
    <3>1. task' = [task EXCEPT ![t] = [st |-> "needs-human", last |-> last, retry |-> task[t].retry]]
      BY <2>1, <2>3, <1>1 DEF ToHuman
    <3>2. QED  BY <3>1, <2>2, <1>1
  <2>4. CASE task[t].st # "integrating"
    <3>1. task' = [task EXCEPT ![t].last = last, ![t].st = task[t].st]
      BY <2>1, <2>4, <1>1 DEF ToHuman
    <3>2. QED  BY <3>1, <1>1
  <2>5. QED  BY <2>3, <2>4
<1>4. ASSUME task' = [task EXCEPT ![t].st = st, ![t].last = last]
      PROVE  task' \in [Task -> [st : TaskState, last : Outcome, retry : {"none", "continue", "fresh"}]]
  BY ONLY <1>1, <1>4, t \in Task, st \in TaskState, last \in Outcome, ZenonT(40)
<1>5. QED  BY <1>2, <1>3, <1>4

LEMMA AttemptWrites ==
  ASSUME RecordType, NEW t \in Task, NEW st \in AttemptState, SetAttempt(t, st)
  PROVE  /\ attempt' \in [Task -> [n : 0 .. MaxStarts, tries : 0 .. MaxAttempts, st : AttemptState, tree : 1 .. MaxStarts]]
         /\ \A u \in Task : attempt'[u].tries <= attempt'[u].n
BY DEF RecordType, SetAttempt

(* What a commit of all that is in a task's tree makes of its branch.      *)
LEMMA CommittedType ==
  ASSUME RepoType, MarkedInLog, NEW t \in Task
  PROVE  Concluded(t) \in [Unit -> Nat] /\ Committed(t) \in [Unit -> Nat]
<1>1. branch[t] \in [Unit -> Nat] /\ marked[t] \in Nat /\ log \in Seq(Commit)
  BY DEF RepoType
<1>2. SubSeq(log, 1, marked[t]) \in Seq(Commit)
  <2>1. marked[t] <= Len(log) /\ Len(log) \in Nat
    BY <1>1, LenProperties DEF MarkedInLog
  <2>2. QED  BY <1>1, <2>1, SubSeqProperties
<1>3. Concluded(t) \in [Unit -> Nat]
  BY <1>1, <1>2, BranchTypes DEF Concluded
<1>4. Raised(Concluded(t), {Work(t)}) \in [Unit -> Nat]
  BY <1>1, <1>3, BranchTypes
<1>5. QED  BY <1>3, <1>4 DEF Committed

(* The mission branch is only added to.                                    *)
LEMMA LogKept ==
  ASSUME RepoType, MarkedInLog,
         log' = log \/ \E c : log' = Append(log, c),
         \A t \in Task : marked'[t] \in {marked[t], 0, Len(log)}
  PROVE  MarkedInLog'
<1>1. log \in Seq(Commit) /\ Len(log) \in Nat /\ marked \in [Task -> Nat]
  BY LenProperties DEF RepoType
<1>2. Len(log') \in {Len(log), Len(log) + 1}
  <2>1. CASE log' = log
    BY <2>1
  <2>2. CASE \E c : log' = Append(log, c)
    BY <2>2, <1>1
  <2>3. QED  BY <2>1, <2>2
<1>3. QED  BY <1>1, <1>2 DEF MarkedInLog

LEMMA RunnerStepKeeps ==
  ASSUME RunnerType, NEW t \in Task, RunnerStep(t)
  PROVE  Kept /\ (op'.pc = "cancel" => At("cancel"))
<1> USE DEF RunnerType, record, repo, Fault
<1>1. CASE CommitWork(t)
  <2>1. RecordType' /\ mission' = mission
    BY <1>1, TaskWrites, AttemptWrites DEF CommitWork, EndAttempt, RecordType, TaskState, AttemptState, Outcome
  <2>2. RepoType'
    <3>1. CASE branch' = [branch EXCEPT ![t] = Committed(t)] /\ marked' = [marked EXCEPT ![t] = 0]
      BY <1>1, <3>1, CommittedType DEF CommitWork, RepoType
    <3>2. CASE UNCHANGED <<branch, marked>>
      BY <1>1, <3>2 DEF CommitWork, RepoType
    <3>3. QED  BY <1>1, <3>1, <3>2 DEF CommitWork
  <2>3. op' \in [pc : RunnerPc \union FinishPc, task : Task \union {None}, todo : SUBSET Task]
        /\ op'.pc \in RunnerPc /\ (op'.pc = "cancel" => At("cancel"))
    BY <1>1, Returns, Goes, Begins DEF CommitWork, RunnerPc, At
  <2>4. spent' \in [Trouble -> 0 .. MaxTroubles] /\ stray' \in BOOLEAN
    BY <1>1, ComesType DEF CommitWork, OpType, Trouble
  <2>5. MarkedInLog'
    BY <1>1, LogKept DEF CommitWork, RepoType
  <2>6. QED  BY <2>1, <2>2, <2>3, <2>4, <2>5 DEF Kept, OpType
<1>2. CASE Check(t)
  <2>1. RecordType' /\ mission' = mission
    BY <1>2, TaskWrites, AttemptWrites DEF Check, EndAttempt, RecordType, TaskState, AttemptState, Outcome
  <2>2. RepoType'
    BY <1>2, BranchTypes DEF Check, RepoType
  <2>3. op' \in [pc : RunnerPc \union FinishPc, task : Task \union {None}, todo : SUBSET Task]
        /\ op'.pc \in RunnerPc /\ (op'.pc = "cancel" => At("cancel"))
    BY <1>2, Returns, Goes, Begins DEF Check, RunnerPc, At
  <2>4. spent' \in [Trouble -> 0 .. MaxTroubles] /\ stray' \in BOOLEAN
    BY <1>2 DEF Check, OpType, Trouble
  <2>5. MarkedInLog'
    BY <1>2, LogKept DEF Check, RepoType
  <2>6. QED  BY <2>1, <2>2, <2>3, <2>4, <2>5 DEF Kept, OpType
<1>3. CASE Escalate(t)
  <2>1. RecordType' /\ mission' = mission
    <3>1. CASE UNCHANGED task
      BY <1>3, <3>1 DEF Escalate, RecordType
    <3>2. CASE \E how \in {"continue", "fresh"} :
                 task' = [task EXCEPT ![t].st = "queued", ![t].retry = how]
      <4>1. PICK how \in {"continue", "fresh"} :
              task' = [task EXCEPT ![t].st = "queued", ![t].retry = how]
        BY <3>2
      <4>2. "queued" \in TaskState
        BY DEF TaskState
      <4>3. task' \in [Task -> [st : TaskState, last : Outcome, retry : {"none", "continue", "fresh"}]]
        BY <4>1, <4>2, RetryWrite
      <4>4. QED  BY <1>3, <4>3 DEF Escalate, RecordType
    <3>3. QED  BY <1>3, <3>1, <3>2 DEF Escalate
  <2>2. RepoType'
    BY <1>3, BranchTypes DEF Escalate, RepoType
  <2>3. op' \in [pc : RunnerPc \union FinishPc, task : Task \union {None}, todo : SUBSET Task]
        /\ op'.pc \in RunnerPc /\ (op'.pc = "cancel" => At("cancel"))
    BY <1>3, Returns, Goes, Begins DEF Escalate, RunnerPc, At
  <2>4. spent' \in [Trouble -> 0 .. MaxTroubles] /\ stray' \in BOOLEAN
    BY <1>3 DEF Escalate, OpType, Trouble
  <2>5. MarkedInLog'
    BY <1>3, LogKept DEF Escalate, RepoType
  <2>6. QED  BY <2>1, <2>2, <2>3, <2>4, <2>5 DEF Kept, OpType
<1>4. CASE Integrate(t)
  <2>1. RecordType' /\ mission' = mission
    BY <1>4, TaskWrites, AttemptWrites DEF Integrate, EndAttempt, RecordType, TaskState, AttemptState, Outcome
  <2>2. RepoType'
    BY <1>4, BranchTypes DEF Integrate, RepoType
  <2>3. op' \in [pc : RunnerPc \union FinishPc, task : Task \union {None}, todo : SUBSET Task]
        /\ op'.pc \in RunnerPc /\ (op'.pc = "cancel" => At("cancel"))
    BY <1>4, Returns, Goes, Begins DEF Integrate, RunnerPc, At
  <2>4. spent' \in [Trouble -> 0 .. MaxTroubles] /\ stray' \in BOOLEAN
    BY <1>4 DEF Integrate, OpType, Trouble
  <2>5. MarkedInLog'
    BY <1>4, LogKept DEF Integrate, RepoType
  <2>6. QED  BY <2>1, <2>2, <2>3, <2>4, <2>5 DEF Kept, OpType
<1>5. CASE BeforeMerge(t)
  <2>1. RecordType' /\ mission' = mission
    BY <1>5 DEF BeforeMerge, RecordType, SetTask, SetAttempt, EndAttempt, TaskState, AttemptState, Outcome, ToHuman
  <2>2. RepoType'
    BY <1>5, BranchTypes DEF BeforeMerge, RepoType
  <2>3. op' \in [pc : RunnerPc \union FinishPc, task : Task \union {None}, todo : SUBSET Task]
        /\ op'.pc \in RunnerPc /\ (op'.pc = "cancel" => At("cancel"))
    BY <1>5, Returns, Goes, Begins DEF BeforeMerge, RunnerPc, At
  <2>4. spent' \in [Trouble -> 0 .. MaxTroubles] /\ stray' \in BOOLEAN
    BY <1>5, ComesType DEF BeforeMerge, OpType, Trouble
  <2>5. MarkedInLog'
    BY <1>5, LogKept DEF BeforeMerge, RepoType
  <2>6. QED  BY <2>1, <2>2, <2>3, <2>4, <2>5 DEF Kept, OpType
<1>6. CASE GitMerge(t)
  <2>1. RecordType' /\ mission' = mission
    BY <1>6 DEF GitMerge, RecordType, SetTask, SetAttempt, EndAttempt, TaskState, AttemptState, Outcome, ToHuman
  <2>2. RepoType'
    <3>1. log \in Seq(Commit) /\ branch[t] \in [Unit -> Nat]
      BY DEF RepoType
    <3>2. [kind |-> "merge", of |-> t, delta |-> Brings(branch[t], log)] \in Commit
      BY <3>1, BranchTypes DEF Commit
    <3>3. log' \in Seq(Commit)
      <4>1. \/ log' = log
            \/ log' = Append(log, [kind |-> "merge", of |-> t, delta |-> Brings(branch[t], log)])
        BY <1>6 DEF GitMerge
      <4>2. QED  BY <4>1, <3>1, <3>2
    <3>4. QED  BY <1>6, <3>3 DEF GitMerge, RepoType
  <2>3. op' \in [pc : RunnerPc \union FinishPc, task : Task \union {None}, todo : SUBSET Task]
        /\ op'.pc \in RunnerPc /\ (op'.pc = "cancel" => At("cancel"))
    BY <1>6, Returns, Goes, Begins DEF GitMerge, RunnerPc, At
  <2>4. spent' \in [Trouble -> 0 .. MaxTroubles] /\ stray' \in BOOLEAN
    BY <1>6, ComesType DEF GitMerge, OpType, Trouble
  <2>5. MarkedInLog'
    BY <1>6, LogKept DEF GitMerge, RepoType
  <2>6. QED  BY <2>1, <2>2, <2>3, <2>4, <2>5 DEF Kept, OpType
<1>7. CASE VerifyMerge(t)
  <2>1. RecordType' /\ mission' = mission
    BY <1>7 DEF VerifyMerge, RecordType, SetTask, SetAttempt, EndAttempt, TaskState, AttemptState, Outcome, ToHuman
  <2>2. RepoType'
    BY <1>7, BranchTypes DEF VerifyMerge, RepoType
  <2>3. op' \in [pc : RunnerPc \union FinishPc, task : Task \union {None}, todo : SUBSET Task]
        /\ op'.pc \in RunnerPc /\ (op'.pc = "cancel" => At("cancel"))
    BY <1>7, Returns, Goes, Begins DEF VerifyMerge, RunnerPc, At
  <2>4. spent' \in [Trouble -> 0 .. MaxTroubles] /\ stray' \in BOOLEAN
    BY <1>7, ComesType DEF VerifyMerge, OpType, Trouble
  <2>5. MarkedInLog'
    BY <1>7, LogKept DEF VerifyMerge, RepoType
  <2>6. QED  BY <2>1, <2>2, <2>3, <2>4, <2>5 DEF Kept, OpType
<1>8. CASE RevertMerge(t)
  <2>1. RecordType' /\ mission' = mission
    BY <1>8 DEF RevertMerge, RecordType, SetTask, SetAttempt, EndAttempt, TaskState, AttemptState, Outcome, ToHuman
  <2>2. RepoType'
    <3>1. log \in Seq(Commit)
      BY DEF RepoType
    <3>2. Len(log) > 0 => [Tip(log) EXCEPT !.kind = "revert"] \in Commit
      <4>1. Len(log) > 0 => Tip(log) \in Commit
        BY <3>1, LenProperties, ElementOfSeq DEF Tip
      <4>2. QED  BY <4>1 DEF Commit
    <3>3. log' \in Seq(Commit)
      BY <1>8, <3>1, <3>2 DEF RevertMerge
    <3>4. QED  BY <1>8, <3>3 DEF RevertMerge, RepoType
  <2>3. op' \in [pc : RunnerPc \union FinishPc, task : Task \union {None}, todo : SUBSET Task]
        /\ op'.pc \in RunnerPc /\ (op'.pc = "cancel" => At("cancel"))
    BY <1>8, Returns, Goes, Begins DEF RevertMerge, RunnerPc, At
  <2>4. spent' \in [Trouble -> 0 .. MaxTroubles] /\ stray' \in BOOLEAN
    BY <1>8, ComesType DEF RevertMerge, OpType, Trouble
  <2>5. MarkedInLog'
    BY <1>8, LogKept DEF RevertMerge, RepoType
  <2>6. QED  BY <2>1, <2>2, <2>3, <2>4, <2>5 DEF Kept, OpType
<1>9. CASE Merged(t)
  <2>1. RecordType' /\ mission' = mission
    <3>1. "done" \in TaskState /\ "merged" \in Outcome
      BY DEF TaskState, Outcome
    <3>2. QED  BY <1>9, <3>1, TaskWrites DEF Merged, RecordType
  <2>2. RepoType'
    BY <1>9, BranchTypes DEF Merged, RepoType
  <2>3. op' \in [pc : RunnerPc \union FinishPc, task : Task \union {None}, todo : SUBSET Task]
        /\ op'.pc \in RunnerPc /\ (op'.pc = "cancel" => At("cancel"))
    BY <1>9, Returns, Goes, Begins DEF Merged, RunnerPc, At
  <2>4. spent' \in [Trouble -> 0 .. MaxTroubles] /\ stray' \in BOOLEAN
    BY <1>9 DEF Merged, OpType, Trouble
  <2>5. MarkedInLog'
    BY <1>9, LogKept DEF Merged, RepoType
  <2>6. QED  BY <2>1, <2>2, <2>3, <2>4, <2>5 DEF Kept, OpType
<1>10. CASE Conflict(t)
  <2>1. RecordType' /\ mission' = mission
    BY <1>10, TaskWrites, AttemptWrites DEF Conflict, EndAttempt, RecordType, TaskState, AttemptState, Outcome
  <2>2. RepoType'
    BY <1>10, BranchTypes DEF Conflict, RepoType
  <2>3. op' \in [pc : RunnerPc \union FinishPc, task : Task \union {None}, todo : SUBSET Task]
        /\ op'.pc \in RunnerPc /\ (op'.pc = "cancel" => At("cancel"))
    BY <1>10, Returns, Goes, Begins DEF Conflict, RunnerPc, At
  <2>4. spent' \in [Trouble -> 0 .. MaxTroubles] /\ stray' \in BOOLEAN
    BY <1>10 DEF Conflict, OpType, Trouble
  <2>5. MarkedInLog'
    BY <1>10, LogKept DEF Conflict, RepoType
  <2>6. QED  BY <2>1, <2>2, <2>3, <2>4, <2>5 DEF Kept, OpType
<1>11. CASE Reverted(t)
  <2>1. RecordType' /\ mission' = mission
    BY <1>11, TaskWrites, AttemptWrites DEF Reverted, EndAttempt, RecordType, TaskState, AttemptState, Outcome
  <2>2. RepoType'
    BY <1>11, BranchTypes DEF Reverted, RepoType
  <2>3. op' \in [pc : RunnerPc \union FinishPc, task : Task \union {None}, todo : SUBSET Task]
        /\ op'.pc \in RunnerPc /\ (op'.pc = "cancel" => At("cancel"))
    BY <1>11, Returns, Goes, Begins DEF Reverted, RunnerPc, At
  <2>4. spent' \in [Trouble -> 0 .. MaxTroubles] /\ stray' \in BOOLEAN
    BY <1>11 DEF Reverted, OpType, Trouble
  <2>5. MarkedInLog'
    BY <1>11, LogKept DEF Reverted, RepoType
  <2>6. QED  BY <2>1, <2>2, <2>3, <2>4, <2>5 DEF Kept, OpType
<1>12. CASE Error(t)
  <2>1. RecordType' /\ mission' = mission
    BY <1>12, TaskWrites, AttemptWrites DEF Error, EndAttempt, RecordType, TaskState, AttemptState, Outcome
  <2>2. RepoType'
    BY <1>12, BranchTypes DEF Error, RepoType
  <2>3. op' \in [pc : RunnerPc \union FinishPc, task : Task \union {None}, todo : SUBSET Task]
        /\ op'.pc \in RunnerPc /\ (op'.pc = "cancel" => At("cancel"))
    BY <1>12, Returns, Goes, Begins DEF Error, RunnerPc, At
  <2>4. spent' \in [Trouble -> 0 .. MaxTroubles] /\ stray' \in BOOLEAN
    BY <1>12 DEF Error, OpType, Trouble
  <2>5. MarkedInLog'
    BY <1>12, LogKept DEF Error, RepoType
  <2>6. QED  BY <2>1, <2>2, <2>3, <2>4, <2>5 DEF Kept, OpType
<1>13. CASE ResolveConflict(t)
  <2>1. RecordType' /\ mission' = mission
    BY <1>13 DEF ResolveConflict, RecordType, SetTask, SetAttempt, EndAttempt, TaskState, AttemptState, Outcome, ToHuman
  <2>2. RepoType'
    <3>1. log \in Seq(Commit) /\ branch[t] \in [Unit -> Nat]
      BY DEF RepoType
    <3>2. MergedWith(branch[t], log) \in [Unit -> Nat]
      BY <3>1, BranchTypes
    <3>3. Len(log) \in Nat
      BY <3>1, LenProperties
    <3>4. QED  BY <1>13, <3>2, <3>3 DEF ResolveConflict, RepoType
  <2>3. op' \in [pc : RunnerPc \union FinishPc, task : Task \union {None}, todo : SUBSET Task]
        /\ op'.pc \in RunnerPc /\ (op'.pc = "cancel" => At("cancel"))
    BY <1>13, Returns, Goes, Begins DEF ResolveConflict, RunnerPc, At
  <2>4. spent' \in [Trouble -> 0 .. MaxTroubles] /\ stray' \in BOOLEAN
    BY <1>13, ComesType DEF ResolveConflict, OpType, Trouble
  <2>5. MarkedInLog'
    BY <1>13, LogKept DEF ResolveConflict, RepoType
  <2>6. QED  BY <2>1, <2>2, <2>3, <2>4, <2>5 DEF Kept, OpType
<1>14. CASE LaunchResolver(t)
  <2>1. RecordType' /\ mission' = mission
    BY <1>14, LaunchType DEF LaunchResolver, RecordType, SetTask, SetAttempt, EndAttempt, TaskState, AttemptState, Outcome, ToHuman
  <2>2. RepoType'
    BY <1>14, BranchTypes, LaunchType DEF LaunchResolver, RepoType
  <2>3. op' \in [pc : RunnerPc \union FinishPc, task : Task \union {None}, todo : SUBSET Task]
        /\ op'.pc \in RunnerPc /\ (op'.pc = "cancel" => At("cancel"))
    BY <1>14, Returns, Goes, Begins DEF LaunchResolver, RunnerPc, At
  <2>4. spent' \in [Trouble -> 0 .. MaxTroubles] /\ stray' \in BOOLEAN
    BY <1>14, ComesType DEF LaunchResolver, OpType, Trouble
  <2>5. MarkedInLog'
    <3>1. log' = log /\ \A u \in Task : marked'[u] \in {marked[u], 0, Len(log)}
      BY <1>14, LaunchType DEF LaunchResolver
    <3>2. QED  BY <3>1, LogKept
  <2>6. QED  BY <2>1, <2>2, <2>3, <2>4, <2>5 DEF Kept, OpType
<1>15. CASE ReapplyMerge(t)
  <2>1. RecordType' /\ mission' = mission
    BY <1>15 DEF ReapplyMerge, RecordType, SetTask, SetAttempt, EndAttempt, TaskState, AttemptState, Outcome, ToHuman
  <2>2. RepoType'
    <3>1. log \in Seq(Commit) /\ branch[t] \in [Unit -> Nat]
      BY DEF RepoType
    <3>2. MergedWith(branch[t], log) \in [Unit -> Nat]
      BY <3>1, BranchTypes
    <3>3. Len(log) \in Nat
      BY <3>1, LenProperties
    <3>4. QED  BY <1>15, <3>2, <3>3 DEF ReapplyMerge, RepoType
  <2>3. op' \in [pc : RunnerPc \union FinishPc, task : Task \union {None}, todo : SUBSET Task]
        /\ op'.pc \in RunnerPc /\ (op'.pc = "cancel" => At("cancel"))
    BY <1>15, Returns, Goes, Begins DEF ReapplyMerge, RunnerPc, At
  <2>4. spent' \in [Trouble -> 0 .. MaxTroubles] /\ stray' \in BOOLEAN
    BY <1>15, ComesType DEF ReapplyMerge, OpType, Trouble
  <2>5. MarkedInLog'
    BY <1>15, LogKept DEF ReapplyMerge, RepoType
  <2>6. QED  BY <2>1, <2>2, <2>3, <2>4, <2>5 DEF Kept, OpType
<1>16. CASE ReapplyRevert(t)
  <2>1. RecordType' /\ mission' = mission
    BY <1>16 DEF ReapplyRevert, RecordType, SetTask, SetAttempt, EndAttempt, TaskState, AttemptState, Outcome, ToHuman
  <2>2. RepoType'
    <3>1. log \in Seq(Commit) /\ branch[t] \in [Unit -> Nat]
      BY DEF RepoType
    <3>2. Raised(branch[t], Tip(log).delta) \in [Unit -> Nat]
      BY <3>1, BranchTypes
    <3>3. Len(log) \in Nat
      BY <3>1, LenProperties
    <3>4. QED  BY <1>16, <3>2, <3>3 DEF ReapplyRevert, RepoType
  <2>3. op' \in [pc : RunnerPc \union FinishPc, task : Task \union {None}, todo : SUBSET Task]
        /\ op'.pc \in RunnerPc /\ (op'.pc = "cancel" => At("cancel"))
    BY <1>16, Returns, Goes, Begins DEF ReapplyRevert, RunnerPc, At
  <2>4. spent' \in [Trouble -> 0 .. MaxTroubles] /\ stray' \in BOOLEAN
    BY <1>16, ComesType DEF ReapplyRevert, OpType, Trouble
  <2>5. MarkedInLog'
    BY <1>16, LogKept DEF ReapplyRevert, RepoType
  <2>6. QED  BY <2>1, <2>2, <2>3, <2>4, <2>5 DEF Kept, OpType
<1>17. CASE CancelAttempt(t)
  <2>1. RecordType' /\ mission' = mission
    BY <1>17, TaskWrites, AttemptWrites DEF CancelAttempt, EndAttempt, RecordType, TaskState, AttemptState, Outcome
  <2>2. RepoType'
    BY <1>17, BranchTypes DEF CancelAttempt, RepoType
  <2>3. op' \in [pc : RunnerPc \union FinishPc, task : Task \union {None}, todo : SUBSET Task]
        /\ op'.pc \in RunnerPc /\ (op'.pc = "cancel" => At("cancel"))
    BY <1>17, Returns, Goes, Begins DEF CancelAttempt, RunnerPc, At, OpType
  <2>4. spent' \in [Trouble -> 0 .. MaxTroubles] /\ stray' \in BOOLEAN
    BY <1>17 DEF CancelAttempt, OpType, Trouble
  <2>5. MarkedInLog'
    BY <1>17, LogKept DEF CancelAttempt, RepoType
  <2>6. QED  BY <2>1, <2>2, <2>3, <2>4, <2>5 DEF Kept, OpType
<1>18. CASE RecoverMerge(t)
  <2>1. RecordType' /\ mission' = mission
    BY <1>18 DEF RecoverMerge, RecordType, SetTask, SetAttempt, EndAttempt, TaskState, AttemptState, Outcome, ToHuman
  <2>2. RepoType'
    BY <1>18, BranchTypes DEF RecoverMerge, RepoType
  <2>3. op' \in [pc : RunnerPc \union FinishPc, task : Task \union {None}, todo : SUBSET Task]
        /\ op'.pc \in RunnerPc /\ (op'.pc = "cancel" => At("cancel"))
    BY <1>18, Returns, Goes, Begins DEF RecoverMerge, RunnerPc, At
  <2>4. spent' \in [Trouble -> 0 .. MaxTroubles] /\ stray' \in BOOLEAN
    BY <1>18 DEF RecoverMerge, OpType, Trouble
  <2>5. MarkedInLog'
    BY <1>18, LogKept DEF RecoverMerge, RepoType
  <2>6. QED  BY <2>1, <2>2, <2>3, <2>4, <2>5 DEF Kept, OpType
<1>19. CASE RecoverTask(t)
  <2>1. RecordType' /\ mission' = mission
    BY <1>19 DEF RecoverTask, RecordType, SetTask, SetAttempt, EndAttempt, TaskState, AttemptState, Outcome, ToHuman
  <2>2. RepoType'
    BY <1>19, BranchTypes DEF RecoverTask, RepoType
  <2>3. op' \in [pc : RunnerPc \union FinishPc, task : Task \union {None}, todo : SUBSET Task]
        /\ op'.pc \in RunnerPc /\ (op'.pc = "cancel" => At("cancel"))
    BY <1>19, Returns, Goes, Begins DEF RecoverTask, RunnerPc, At, OpType
  <2>4. spent' \in [Trouble -> 0 .. MaxTroubles] /\ stray' \in BOOLEAN
    BY <1>19 DEF RecoverTask, OpType, Trouble
  <2>5. MarkedInLog'
    BY <1>19, LogKept DEF RecoverTask, RepoType
  <2>6. QED  BY <2>1, <2>2, <2>3, <2>4, <2>5 DEF Kept, OpType
<1>20. QED  BY <1>1, <1>2, <1>3, <1>4, <1>5, <1>6, <1>7, <1>8, <1>9, <1>10, <1>11, <1>12, <1>13, <1>14, <1>15, <1>16, <1>17, <1>18, <1>19 DEF RunnerStep

LEMMA RunnerCoreKeeps ==
  ASSUME RunnerType, RunnerCore
  PROVE  /\ RunnerType' /\ op'.pc \in RunnerPc
         /\ op'.pc = "cancel" => At("cancel")
         /\ mission' # mission => At("cancel")
<1> USE DEF RunnerType, record, repo
<1>1. CASE AbortConflicted \/ AbortRevert
  <2>1. RecordType' /\ mission' = mission
    BY <1>1 DEF AbortConflicted, AbortRevert, RecordType
  <2>2. RepoType' /\ MarkedInLog'
    BY <1>1, LogKept DEF AbortConflicted, AbortRevert, RepoType
  <2>3. op' \in [pc : RunnerPc \union FinishPc, task : Task \union {None}, todo : SUBSET Task]
        /\ op'.pc \in {"conflict", "error"}
    BY <1>1, Goes DEF AbortConflicted, AbortRevert, RunnerPc
  <2>4. OpType'
    BY <1>1, <2>3 DEF AbortConflicted, AbortRevert, OpType
  <2>5. QED  BY <2>1, <2>2, <2>3, <2>4 DEF RunnerPc
<1>2. CASE CancelMission
  <2>1. RecordType'
    <3>1. \A t \in Task : task[t].st \notin Ended =>
            [task[t] EXCEPT !.st = "cancelled"] \in
              [st : TaskState, last : Outcome, retry : {"none", "continue", "fresh"}]
      BY DEF RecordType, TaskState
    <3>2. QED  BY <1>2, <3>1 DEF CancelMission, RecordType
  <2>2. RepoType' /\ MarkedInLog'
    BY <1>2, LogKept DEF CancelMission, RepoType
  <2>3. op' \in [pc : RunnerPc \union FinishPc, task : Task \union {None}, todo : SUBSET Task]
        /\ op'.pc \in {"idle", "recover"}
    BY <1>2, Returns DEF CancelMission
  <2>4. OpType'
    BY <1>2, <2>3 DEF CancelMission, OpType
  <2>5. QED  BY <1>2, <2>1, <2>2, <2>3, <2>4 DEF CancelMission, RunnerPc
<1>3. CASE \E t \in Task : RunnerStep(t)
  <2> PICK t \in Task : RunnerStep(t)
    BY <1>3
  <2>1. Kept /\ (op'.pc = "cancel" => At("cancel"))
    BY RunnerStepKeeps
  <2>2. QED  BY <2>1 DEF Kept
<1>4. QED  BY <1>1, <1>2, <1>3 DEF RunnerCore

(* What others ask of the runner, while its queue is free.                 *)
LEMMA RunnerOtherKeeps ==
  ASSUME RunnerType, RunnerOther
  PROVE  /\ RunnerType' /\ op'.pc \in RunnerPc
         /\ op'.pc = "cancel" => mission' \in {"running", "paused"}
         /\ mission' # mission => mission \in {"running", "paused"}
<1> USE DEF RunnerType, record, repo, Fault
<1>1. CASE Cancel
  <2>1. RecordType' /\ (mission' # mission => mission \in {"running", "paused"})
    BY <1>1 DEF Cancel, RecordType, TaskState, AttemptState, EndAttempt
  <2>2. RepoType' /\ MarkedInLog'
    BY <1>1, LogKept DEF Cancel, RepoType, Launch
  <2>3. op' \in [pc : RunnerPc \union FinishPc, task : Task \union {None}, todo : SUBSET Task]
        /\ op'.pc \in RunnerPc /\ (op'.pc = "cancel" => mission' \in {"running", "paused"})
    BY <1>1, Begins DEF Cancel, RunnerPc, OpType, Idle
  <2>4. spent' \in [Trouble -> 0 .. MaxTroubles] /\ stray' \in BOOLEAN
    BY <1>1, ComesType DEF Cancel, OpType, Trouble
  <2>5. QED  BY <2>1, <2>2, <2>3, <2>4 DEF OpType
<1>2. CASE PauseMission
  <2>1. RecordType' /\ (mission' # mission => mission \in {"running", "paused"})
    BY <1>2 DEF PauseMission, RecordType, TaskState, AttemptState, EndAttempt
  <2>2. RepoType' /\ MarkedInLog'
    BY <1>2, LogKept DEF PauseMission, RepoType, Launch
  <2>3. op' \in [pc : RunnerPc \union FinishPc, task : Task \union {None}, todo : SUBSET Task]
        /\ op'.pc \in RunnerPc /\ (op'.pc = "cancel" => mission' \in {"running", "paused"})
    BY <1>2 DEF PauseMission, RunnerPc, OpType, Idle
  <2>4. spent' \in [Trouble -> 0 .. MaxTroubles] /\ stray' \in BOOLEAN
    BY <1>2, ComesType DEF PauseMission, OpType, Trouble
  <2>5. QED  BY <2>1, <2>2, <2>3, <2>4 DEF OpType
<1>3. CASE ResumeMission
  <2>1. RecordType' /\ (mission' # mission => mission \in {"running", "paused"})
    BY <1>3 DEF ResumeMission, RecordType, TaskState, AttemptState, EndAttempt
  <2>2. RepoType' /\ MarkedInLog'
    BY <1>3, LogKept DEF ResumeMission, RepoType, Launch
  <2>3. op' \in [pc : RunnerPc \union FinishPc, task : Task \union {None}, todo : SUBSET Task]
        /\ op'.pc \in RunnerPc /\ (op'.pc = "cancel" => mission' \in {"running", "paused"})
    BY <1>3 DEF ResumeMission, RunnerPc, OpType, Idle
  <2>4. spent' \in [Trouble -> 0 .. MaxTroubles] /\ stray' \in BOOLEAN
    BY <1>3, ComesType DEF ResumeMission, OpType, Trouble
  <2>5. QED  BY <2>1, <2>2, <2>3, <2>4 DEF OpType
<1>4. CASE ReadyForReview
  <2>1. RecordType' /\ (mission' # mission => mission \in {"running", "paused"})
    BY <1>4 DEF ReadyForReview, RecordType, TaskState, AttemptState, EndAttempt
  <2>2. RepoType' /\ MarkedInLog'
    BY <1>4, LogKept DEF ReadyForReview, RepoType, Launch
  <2>3. op' \in [pc : RunnerPc \union FinishPc, task : Task \union {None}, todo : SUBSET Task]
        /\ op'.pc \in RunnerPc /\ (op'.pc = "cancel" => mission' \in {"running", "paused"})
    BY <1>4 DEF ReadyForReview, RunnerPc, OpType, Idle
  <2>4. spent' \in [Trouble -> 0 .. MaxTroubles] /\ stray' \in BOOLEAN
    BY <1>4, ComesType DEF ReadyForReview, OpType, Trouble
  <2>5. QED  BY <2>1, <2>2, <2>3, <2>4 DEF OpType
<1>5. CASE \E t \in Task : Start(t)
  <2> PICK t \in Task : Start(t)
    BY <1>5
  <2>1. RecordType' /\ (mission' # mission => mission \in {"running", "paused"})
    BY LaunchType DEF Start, RecordType, TaskState, AttemptState, EndAttempt
  <2>2. RepoType' /\ MarkedInLog'
    <3>1. log' = log /\ half' = half
      BY DEF Start
    <3>2. RepoType'
      BY <3>1, LaunchType DEF Start, RepoType
    <3>3. MarkedInLog'
      BY <3>1, LaunchType, LogKept DEF Start
    <3>4. QED  BY <3>2, <3>3
  <2>3. op' \in [pc : RunnerPc \union FinishPc, task : Task \union {None}, todo : SUBSET Task]
        /\ op'.pc \in RunnerPc /\ (op'.pc = "cancel" => mission' \in {"running", "paused"})
    BY DEF Start, RunnerPc, OpType, Idle
  <2>4. spent' \in [Trouble -> 0 .. MaxTroubles] /\ stray' \in BOOLEAN
    BY ComesType DEF Start, OpType, Trouble
  <2>5. QED  BY <2>1, <2>2, <2>3, <2>4 DEF OpType
<1>6. CASE \E t \in Task : RunEscalation(t)
  <2> PICK t \in Task : RunEscalation(t)
    BY <1>6
  <2>1. RecordType' /\ (mission' # mission => mission \in {"running", "paused"})
    BY LaunchType DEF RunEscalation, RecordType, TaskState, AttemptState, EndAttempt
  <2>2. RepoType' /\ MarkedInLog'
    <3>1. log' = log /\ half' = half
      BY DEF RunEscalation
    <3>2. RepoType'
      BY <3>1, LaunchType DEF RunEscalation, RepoType
    <3>3. MarkedInLog'
      BY <3>1, LaunchType, LogKept DEF RunEscalation
    <3>4. QED  BY <3>2, <3>3
  <2>3. op' \in [pc : RunnerPc \union FinishPc, task : Task \union {None}, todo : SUBSET Task]
        /\ op'.pc \in RunnerPc /\ (op'.pc = "cancel" => mission' \in {"running", "paused"})
    BY DEF RunEscalation, RunnerPc, OpType, Idle
  <2>4. spent' \in [Trouble -> 0 .. MaxTroubles] /\ stray' \in BOOLEAN
    BY ComesType DEF RunEscalation, OpType, Trouble
  <2>5. QED  BY <2>1, <2>2, <2>3, <2>4 DEF OpType
<1>7. CASE \E t \in Task : CouldNotStart(t)
  <2> PICK t \in Task : CouldNotStart(t)
    BY <1>7
  <2>1. RecordType' /\ (mission' # mission => mission \in {"running", "paused"})
    BY TaskWrites, RetryWrite, AttemptWrites DEF CouldNotStart, RecordType, TaskState, AttemptState, EndAttempt
  <2>2. RepoType' /\ MarkedInLog'
    BY LogKept DEF CouldNotStart, RepoType, Launch
  <2>3. op' \in [pc : RunnerPc \union FinishPc, task : Task \union {None}, todo : SUBSET Task]
        /\ op'.pc \in RunnerPc /\ (op'.pc = "cancel" => mission' \in {"running", "paused"})
    BY DEF CouldNotStart, RunnerPc, OpType, Idle
  <2>4. spent' \in [Trouble -> 0 .. MaxTroubles] /\ stray' \in BOOLEAN
    BY ComesType DEF CouldNotStart, OpType, Trouble
  <2>5. QED  BY <2>1, <2>2, <2>3, <2>4 DEF OpType
<1>8. CASE \E t \in Task : Finish(t)
  <2> PICK t \in Task : Finish(t)
    BY <1>8
  <2>1. RecordType' /\ (mission' # mission => mission \in {"running", "paused"})
    <3>1. "finishing" \in AttemptState
      BY DEF AttemptState
    <3>2. /\ attempt' \in [Task -> [n : 0 .. MaxStarts, tries : 0 .. MaxAttempts, st : AttemptState, tree : 1 .. MaxStarts]]
          /\ \A u \in Task : attempt'[u].tries <= attempt'[u].n
      BY <3>1, AttemptWrites DEF Finish
    <3>3. QED  BY <3>2 DEF Finish, RecordType
  <2>2. RepoType' /\ MarkedInLog'
    BY LogKept DEF Finish, RepoType, Launch
  <2>3. op' \in [pc : RunnerPc \union FinishPc, task : Task \union {None}, todo : SUBSET Task]
        /\ op'.pc \in RunnerPc /\ (op'.pc = "cancel" => mission' \in {"running", "paused"})
    BY Begins DEF Finish, RunnerPc, OpType, Idle
  <2>4. spent' \in [Trouble -> 0 .. MaxTroubles] /\ stray' \in BOOLEAN
    BY ComesType DEF Finish, OpType, Trouble
  <2>5. QED  BY <2>1, <2>2, <2>3, <2>4 DEF OpType
<1>9. CASE \E t \in Task : LoseSession(t)
  <2> PICK t \in Task : LoseSession(t)
    BY <1>9
  <2>1. RecordType' /\ (mission' # mission => mission \in {"running", "paused"})
    <3>1. PICK how \in {"failed", "interrupted", "cancelled"} : EndAttempt(t, how, "needs-human")
      BY DEF LoseSession
    <3>2. how \in AttemptState /\ "needs-human" \in TaskState /\ "none" \in Outcome
      BY DEF AttemptState, TaskState, Outcome
    <3>3. /\ attempt' \in [Task -> [n : 0 .. MaxStarts, tries : 0 .. MaxAttempts, st : AttemptState, tree : 1 .. MaxStarts]]
          /\ \A u \in Task : attempt'[u].tries <= attempt'[u].n
      BY <3>1, <3>2, AttemptWrites DEF EndAttempt
    <3>4. task' \in [Task -> [st : TaskState, last : Outcome, retry : {"none", "continue", "fresh"}]]
      BY <3>1, <3>2, TaskWrites DEF EndAttempt
    <3>5. QED  BY <3>3, <3>4 DEF LoseSession, RecordType
  <2>2. RepoType' /\ MarkedInLog'
    BY LogKept DEF LoseSession, RepoType, Launch
  <2>3. op' \in [pc : RunnerPc \union FinishPc, task : Task \union {None}, todo : SUBSET Task]
        /\ op'.pc \in RunnerPc /\ (op'.pc = "cancel" => mission' \in {"running", "paused"})
    BY Begins DEF LoseSession, RunnerPc, OpType, Idle
  <2>4. spent' \in [Trouble -> 0 .. MaxTroubles] /\ stray' \in BOOLEAN
    BY ComesType DEF LoseSession, OpType, Trouble
  <2>5. QED  BY <2>1, <2>2, <2>3, <2>4 DEF OpType
<1>10. CASE \E t \in Task : Accept(t)
  <2> PICK t \in Task : Accept(t)
    BY <1>10
  <2>1. RecordType' /\ (mission' # mission => mission \in {"running", "paused"})
    BY TaskWrites, RetryWrite, AttemptWrites DEF Accept, RecordType, TaskState, AttemptState, EndAttempt
  <2>2. RepoType' /\ MarkedInLog'
    BY LogKept, CommittedType DEF Accept, RepoType, Launch
  <2>3. op' \in [pc : RunnerPc \union FinishPc, task : Task \union {None}, todo : SUBSET Task]
        /\ op'.pc \in RunnerPc /\ (op'.pc = "cancel" => mission' \in {"running", "paused"})
    BY Begins DEF Accept, RunnerPc, OpType, Idle
  <2>4. spent' \in [Trouble -> 0 .. MaxTroubles] /\ stray' \in BOOLEAN
    BY ComesType DEF Accept, OpType, Trouble
  <2>5. QED  BY <2>1, <2>2, <2>3, <2>4 DEF OpType
<1>11. CASE \E t \in Task : Resume(t)
  <2> PICK t \in Task : Resume(t)
    BY <1>11
  <2>1. RecordType' /\ (mission' # mission => mission \in {"running", "paused"})
    BY LaunchType DEF Resume, RecordType, TaskState, AttemptState, EndAttempt
  <2>2. RepoType' /\ MarkedInLog'
    <3>1. log' = log /\ half' = half
      BY DEF Resume
    <3>2. RepoType'
      BY <3>1, LaunchType DEF Resume, RepoType
    <3>3. MarkedInLog'
      BY <3>1, LaunchType, LogKept DEF Resume
    <3>4. QED  BY <3>2, <3>3
  <2>3. op' \in [pc : RunnerPc \union FinishPc, task : Task \union {None}, todo : SUBSET Task]
        /\ op'.pc \in RunnerPc /\ (op'.pc = "cancel" => mission' \in {"running", "paused"})
    BY DEF Resume, RunnerPc, OpType, Idle
  <2>4. spent' \in [Trouble -> 0 .. MaxTroubles] /\ stray' \in BOOLEAN
    BY ComesType DEF Resume, OpType, Trouble
  <2>5. QED  BY <2>1, <2>2, <2>3, <2>4 DEF OpType
<1>12. CASE \E t \in Task : Retry(t)
  <2> PICK t \in Task : Retry(t)
    BY <1>12
  <2>1. RecordType' /\ (mission' # mission => mission \in {"running", "paused"})
    BY LaunchType DEF Retry, RecordType, TaskState, AttemptState, EndAttempt
  <2>2. RepoType' /\ MarkedInLog'
    <3>1. log' = log /\ half' = half
      BY DEF Retry
    <3>2. RepoType'
      BY <3>1, LaunchType DEF Retry, RepoType
    <3>3. MarkedInLog'
      BY <3>1, LaunchType, LogKept DEF Retry
    <3>4. QED  BY <3>2, <3>3
  <2>3. op' \in [pc : RunnerPc \union FinishPc, task : Task \union {None}, todo : SUBSET Task]
        /\ op'.pc \in RunnerPc /\ (op'.pc = "cancel" => mission' \in {"running", "paused"})
    BY DEF Retry, RunnerPc, OpType, Idle
  <2>4. spent' \in [Trouble -> 0 .. MaxTroubles] /\ stray' \in BOOLEAN
    BY ComesType DEF Retry, OpType, Trouble
  <2>5. QED  BY <2>1, <2>2, <2>3, <2>4 DEF OpType
<1>13. CASE \E t \in Task : Skip(t)
  <2> PICK t \in Task : Skip(t)
    BY <1>13
  <2>1. RecordType' /\ (mission' # mission => mission \in {"running", "paused"})
    BY TaskWrites, RetryWrite, AttemptWrites DEF Skip, RecordType, TaskState, AttemptState, EndAttempt
  <2>2. RepoType' /\ MarkedInLog'
    BY LogKept DEF Skip, RepoType, Launch
  <2>3. op' \in [pc : RunnerPc \union FinishPc, task : Task \union {None}, todo : SUBSET Task]
        /\ op'.pc \in RunnerPc /\ (op'.pc = "cancel" => mission' \in {"running", "paused"})
    BY DEF Skip, RunnerPc, OpType, Idle
  <2>4. spent' \in [Trouble -> 0 .. MaxTroubles] /\ stray' \in BOOLEAN
    BY ComesType DEF Skip, OpType, Trouble
  <2>5. QED  BY <2>1, <2>2, <2>3, <2>4 DEF OpType
<1>14. QED  BY <1>1, <1>2, <1>3, <1>4, <1>5, <1>6, <1>7, <1>8, <1>9, <1>10, <1>11, <1>12, <1>13 DEF RunnerOther

-----------------------------------------------------------------------------
(* The steps of a finish.                                                  *)

(* A step that leaves the finish alone and stays with the runner.          *)
LEMMA FinishLeftAlone ==
  ASSUME FinishType, Finishing, FinishMatchesBase, UNCHANGED finishVars,
         op'.pc \in RunnerPc,
         op'.pc = "cancel" => mission' \in {"running", "paused"},
         mission' # mission => mission \in {"running", "paused"}
  PROVE  FinishType' /\ Finishing' /\ FinishMatchesBase'
<1>1. op'.pc \notin FinishPc
        /\ op'.pc \notin {"gated", "build", "gate", "fastForward", "create", "refuse",
                         "tidy", "complete", "tidySettled", "completeSettled"}
  BY DEF RunnerPc, FinishPc
<1>2. FinishType' /\ FinishMatchesBase'
  BY DEF FinishType, FinishMatchesBase, finishVars
<1>3. Finishing'
  BY <1>1 DEF Finishing, finishVars, At
<1>4. QED  BY <1>2, <1>3

(* A step of the finish keeps the runner's record and branches.            *)
LEMMA RecordLeftAlone ==
  ASSUME RunnerType, UNCHANGED <<task, attempt, pending, repo, stray>>,
         mission' \in {"running", "paused", "review", "completed", "cancelled"}
  PROVE  RecordType' /\ RepoType' /\ MarkedInLog' /\ stray' \in BOOLEAN
BY DEF RunnerType, RecordType, RepoType, MarkedInLog, OpType, repo

LEMMA FinishSteps ==
  ASSUME RunnerType, FinishType, Finishing, FinishMatchesBase, FinishCore \/ FinishOther
  PROVE  RunnerType' /\ FinishType' /\ Finishing' /\ FinishMatchesBase'
<1> USE DEF RunnerType, record
<1>1. CASE Detach
  <2>1. op' \in [pc : RunnerPc \union FinishPc, task : Task \union {None}, todo : SUBSET Task]
    BY <1>1, Goes, Returns DEF Detach, Step, OpType, RunnerPc, FinishPc, runnerVars
  <2>2. RecordType' /\ RepoType' /\ MarkedInLog' /\ stray' \in BOOLEAN
    BY <1>1, RecordLeftAlone DEF Detach, Step, RecordType, runnerVars
  <2>3. spent' \in [Trouble -> 0 .. MaxTroubles]
    BY <1>1, ComesType DEF Detach, Fault, OpType, Trouble, runnerVars
  <2>4. FinishType'
    BY <1>1, FinishAssumption DEF Detach, FinishType, finishVars, How, Finishing, FinishMatchesBase, At, Step, FinishPc, Happened
  <2>5. Finishing'
    BY <1>1, <2>1, FinishAssumption, FinishNoneAssumption DEF Detach, Step, At, Idle, Goto, Return, Finishing, finishVars, FinishMatchesBase, FinishType, FinishPc, How, Happened, runnerVars, OpType
  <2>6. FinishMatchesBase'
    BY <1>1, FinishNoneAssumption DEF Detach, Step, At, Idle, Finishing, finishVars, FinishMatchesBase, FinishType, FinishPc, How, Happened
  <2>7. QED  BY <2>1, <2>2, <2>3, <2>4, <2>5, <2>6 DEF OpType
<1>2. CASE BuildMerge
  <2>1. op' \in [pc : RunnerPc \union FinishPc, task : Task \union {None}, todo : SUBSET Task]
    BY <1>2, Goes, Returns DEF BuildMerge, Step, OpType, RunnerPc, FinishPc, runnerVars
  <2>2. RecordType' /\ RepoType' /\ MarkedInLog' /\ stray' \in BOOLEAN
    BY <1>2, RecordLeftAlone DEF BuildMerge, Step, RecordType, runnerVars
  <2>3. spent' \in [Trouble -> 0 .. MaxTroubles]
    BY <1>2, ComesType DEF BuildMerge, Fault, OpType, Trouble, runnerVars
  <2>4. FinishType'
    BY <1>2, FinishAssumption DEF BuildMerge, FinishType, finishVars, How, Finishing, FinishMatchesBase, At, Step, FinishPc, Happened
  <2>5. Finishing'
    BY <1>2, <2>1, FinishAssumption, FinishNoneAssumption DEF BuildMerge, Step, At, Idle, Goto, Return, Finishing, finishVars, FinishMatchesBase, FinishType, FinishPc, How, Happened, runnerVars, OpType
  <2>6. FinishMatchesBase'
    BY <1>2, FinishNoneAssumption DEF BuildMerge, Step, At, Idle, Finishing, finishVars, FinishMatchesBase, FinishType, FinishPc, How, Happened
  <2>7. QED  BY <2>1, <2>2, <2>3, <2>4, <2>5, <2>6 DEF OpType
<1>3. CASE Gate
  <2>1. op' \in [pc : RunnerPc \union FinishPc, task : Task \union {None}, todo : SUBSET Task]
    BY <1>3, Goes, Returns DEF Gate, Step, OpType, RunnerPc, FinishPc, runnerVars
  <2>2. RecordType' /\ RepoType' /\ MarkedInLog' /\ stray' \in BOOLEAN
    BY <1>3, RecordLeftAlone DEF Gate, Step, RecordType, runnerVars
  <2>3. spent' \in [Trouble -> 0 .. MaxTroubles]
    BY <1>3, ComesType DEF Gate, Fault, OpType, Trouble, runnerVars
  <2>4. FinishType'
    BY <1>3, FinishAssumption DEF Gate, FinishType, finishVars, How, Finishing, FinishMatchesBase, At, Step, FinishPc, Happened
  <2>5. Finishing'
    BY <1>3, <2>1, FinishAssumption, FinishNoneAssumption DEF Gate, Step, At, Idle, Goto, Return, Finishing, finishVars, FinishMatchesBase, FinishType, FinishPc, How, Happened, runnerVars, OpType
  <2>6. FinishMatchesBase'
    BY <1>3, FinishNoneAssumption DEF Gate, Step, At, Idle, Finishing, finishVars, FinishMatchesBase, FinishType, FinishPc, How, Happened
  <2>7. QED  BY <2>1, <2>2, <2>3, <2>4, <2>5, <2>6 DEF OpType
<1>4. CASE FastForward
  <2>1. op' \in [pc : RunnerPc \union FinishPc, task : Task \union {None}, todo : SUBSET Task]
    BY <1>4, Goes, Returns DEF FastForward, Step, OpType, RunnerPc, FinishPc, runnerVars
  <2>2. RecordType' /\ RepoType' /\ MarkedInLog' /\ stray' \in BOOLEAN
    BY <1>4, RecordLeftAlone DEF FastForward, Step, RecordType, runnerVars
  <2>3. spent' \in [Trouble -> 0 .. MaxTroubles]
    BY <1>4, ComesType DEF FastForward, Fault, OpType, Trouble, runnerVars
  <2>4. FinishType'
    BY <1>4, FinishAssumption DEF FastForward, FinishType, finishVars, How, Finishing, FinishMatchesBase, At, Step, FinishPc, Happened
  <2>5. Finishing'
    <3>1. finish # None /\ finish.how = "merge-local" /\ ~base.has /\ mission = "review"
      BY <1>4 DEF FastForward, Step, At, Finishing, FinishPc
    <3>2. \/ op'.pc = "tidy" /\ base'.has
          \/ op'.pc = "refuse" /\ base' = base
      BY <1>4, Goes DEF FastForward, Step, FinishType, FinishPc
    <3>3. UNCHANGED <<mission, finish, finished>>
      BY <1>4 DEF FastForward, Step
    <3>4. QED  BY <3>1, <3>2, <3>3 DEF Finishing, FinishPc, At
  <2>6. FinishMatchesBase'
    BY <1>4, FinishNoneAssumption DEF FastForward, Step, At, Idle, Finishing, finishVars, FinishMatchesBase, FinishType, FinishPc, How, Happened
  <2>7. QED  BY <2>1, <2>2, <2>3, <2>4, <2>5, <2>6 DEF OpType
<1>5. CASE CreatePullRequest
  <2>1. op' \in [pc : RunnerPc \union FinishPc, task : Task \union {None}, todo : SUBSET Task]
    BY <1>5, Goes, Returns DEF CreatePullRequest, Step, OpType, RunnerPc, FinishPc, runnerVars
  <2>2. RecordType' /\ RepoType' /\ MarkedInLog' /\ stray' \in BOOLEAN
    BY <1>5, RecordLeftAlone DEF CreatePullRequest, Step, RecordType, runnerVars
  <2>3. spent' \in [Trouble -> 0 .. MaxTroubles]
    BY <1>5, ComesType DEF CreatePullRequest, Fault, OpType, Trouble, runnerVars
  <2>4. FinishType'
    BY <1>5, FinishAssumption DEF CreatePullRequest, FinishType, finishVars, How, Finishing, FinishMatchesBase, At, Step, FinishPc, Happened
  <2>5. Finishing'
    BY <1>5, <2>1, FinishAssumption, FinishNoneAssumption DEF CreatePullRequest, Step, At, Idle, Goto, Return, Finishing, finishVars, FinishMatchesBase, FinishType, FinishPc, How, Happened, runnerVars, OpType
  <2>6. FinishMatchesBase'
    BY <1>5, FinishNoneAssumption DEF CreatePullRequest, Step, At, Idle, Finishing, finishVars, FinishMatchesBase, FinishType, FinishPc, How, Happened
  <2>7. QED  BY <2>1, <2>2, <2>3, <2>4, <2>5, <2>6 DEF OpType
<1>6. CASE Refuse
  <2>1. op' \in [pc : RunnerPc \union FinishPc, task : Task \union {None}, todo : SUBSET Task]
    BY <1>6, Goes, Returns DEF Refuse, Step, OpType, RunnerPc, FinishPc, runnerVars
  <2>2. RecordType' /\ RepoType' /\ MarkedInLog' /\ stray' \in BOOLEAN
    BY <1>6, RecordLeftAlone DEF Refuse, Step, RecordType, runnerVars
  <2>3. spent' \in [Trouble -> 0 .. MaxTroubles]
    BY <1>6, ComesType DEF Refuse, Fault, OpType, Trouble, runnerVars
  <2>4. FinishType'
    BY <1>6, FinishAssumption DEF Refuse, FinishType, finishVars, How, Finishing, FinishMatchesBase, At, Step, FinishPc, Happened
  <2>5. Finishing'
    BY <1>6, <2>1, FinishAssumption, FinishNoneAssumption DEF Refuse, Step, At, Idle, Goto, Return, Finishing, finishVars, FinishMatchesBase, FinishType, FinishPc, How, Happened, runnerVars, OpType
  <2>6. FinishMatchesBase'
    BY <1>6, FinishNoneAssumption DEF Refuse, Step, At, Idle, Finishing, finishVars, FinishMatchesBase, FinishType, FinishPc, How, Happened
  <2>7. QED  BY <2>1, <2>2, <2>3, <2>4, <2>5, <2>6 DEF OpType
<1>7. CASE Tidy
  <2>1. op' \in [pc : RunnerPc \union FinishPc, task : Task \union {None}, todo : SUBSET Task]
    BY <1>7, Goes, Returns DEF Tidy, Step, OpType, RunnerPc, FinishPc, runnerVars
  <2>2. RecordType' /\ RepoType' /\ MarkedInLog' /\ stray' \in BOOLEAN
    BY <1>7, RecordLeftAlone DEF Tidy, Step, RecordType, runnerVars
  <2>3. spent' \in [Trouble -> 0 .. MaxTroubles]
    BY <1>7, ComesType DEF Tidy, Fault, OpType, Trouble, runnerVars
  <2>4. FinishType'
    BY <1>7, FinishAssumption DEF Tidy, FinishType, finishVars, How, Finishing, FinishMatchesBase, At, Step, FinishPc, Happened
  <2>5. Finishing'
    BY <1>7, <2>1, FinishAssumption, FinishNoneAssumption DEF Tidy, Step, At, Idle, Goto, Return, Finishing, finishVars, FinishMatchesBase, FinishType, FinishPc, How, Happened, runnerVars, OpType
  <2>6. FinishMatchesBase'
    BY <1>7, FinishNoneAssumption DEF Tidy, Step, At, Idle, Finishing, finishVars, FinishMatchesBase, FinishType, FinishPc, How, Happened
  <2>7. QED  BY <2>1, <2>2, <2>3, <2>4, <2>5, <2>6 DEF OpType
<1>8. CASE Complete
  <2>1. op' \in [pc : RunnerPc \union FinishPc, task : Task \union {None}, todo : SUBSET Task]
    BY <1>8, Goes, Returns DEF Complete, Step, OpType, RunnerPc, FinishPc, runnerVars
  <2>2. RecordType' /\ RepoType' /\ MarkedInLog' /\ stray' \in BOOLEAN
    BY <1>8, RecordLeftAlone DEF Complete, Step, RecordType, runnerVars
  <2>3. spent' \in [Trouble -> 0 .. MaxTroubles]
    BY <1>8, ComesType DEF Complete, Fault, OpType, Trouble, runnerVars
  <2>4. FinishType'
    BY <1>8, FinishAssumption DEF Complete, FinishType, finishVars, How, Finishing, FinishMatchesBase, At, Step, FinishPc, Happened
  <2>5. Finishing'
    <3>1. finish' = None /\ mission' \in {"completed", "cancelled"} /\ op'.pc \in {"idle", "recover"}
      BY <1>8, Returns DEF Complete
    <3>2. QED  BY <3>1 DEF Finishing, At, FinishPc
  <2>6. FinishMatchesBase'
    BY <1>8, FinishNoneAssumption DEF Complete, Step, At, Idle, Finishing, finishVars, FinishMatchesBase, FinishType, FinishPc, How, Happened
  <2>7. QED  BY <2>1, <2>2, <2>3, <2>4, <2>5, <2>6 DEF OpType
<1>9. CASE Settle
  <2>1. op' \in [pc : RunnerPc \union FinishPc, task : Task \union {None}, todo : SUBSET Task]
    BY <1>9, Goes, Returns DEF Settle, Step, OpType, RunnerPc, FinishPc, runnerVars
  <2>2. RecordType' /\ RepoType' /\ MarkedInLog' /\ stray' \in BOOLEAN
    BY <1>9, RecordLeftAlone DEF Settle, Step, RecordType, runnerVars
  <2>3. spent' \in [Trouble -> 0 .. MaxTroubles]
    BY <1>9, ComesType DEF Settle, Fault, OpType, Trouble, runnerVars
  <2>4. FinishType'
    BY <1>9, FinishAssumption DEF Settle, FinishType, finishVars, How, Finishing, FinishMatchesBase, At, Step, FinishPc, Happened
  <2>5. Finishing'
    <3>1. finish # None /\ UNCHANGED <<mission, finished, base>> /\ mission = "review"
      BY <1>9 DEF Settle, At, Finishing, FinishPc
    <3>2. CASE Happened /\ Goto("tidySettled") /\ UNCHANGED <<finish, spent>>
      <4>1. op'.pc = "tidySettled"
        BY <3>2, Goes DEF FinishPc
      <4>2. finish.how = "merge-local" => base.has
        BY <3>2 DEF Happened
      <4>3. QED  BY <3>1, <3>2, <4>1, <4>2 DEF Finishing, FinishPc, At
    <3>3. CASE finish' = None /\ Return
      <4>1. op'.pc \in {"idle", "recover"}
        BY <3>3, Returns
      <4>2. QED  BY <3>1, <3>3, <4>1 DEF Finishing, FinishPc, At
    <3>4. CASE finish' = [finish EXCEPT !.unsure = TRUE] /\ Return
      <4>1. op'.pc \in {"idle", "recover"}
        BY <3>4, Returns
      <4>2. QED  BY <3>1, <3>4, <4>1 DEF Finishing, FinishPc, At
    <3>5. QED  BY <1>9, <3>2, <3>3, <3>4 DEF Settle
  <2>6. FinishMatchesBase'
    <3>1. finish # None /\ UNCHANGED <<base, finished>>
      BY <1>9 DEF Settle, At, Finishing, FinishPc
    <3>2. \/ finish' = finish
          \/ finish' = None /\ (base.has => finish.how # "merge-local")
          \/ finish' # None /\ finish'.how = finish.how
      BY <1>9, <3>1, FinishNoneAssumption DEF Settle, Happened, FinishType, How
    <3>3. QED  BY <3>1, <3>2 DEF FinishMatchesBase
  <2>7. QED  BY <2>1, <2>2, <2>3, <2>4, <2>5, <2>6 DEF OpType
<1>10. CASE RecoverFinish
  <2>1. op' \in [pc : RunnerPc \union FinishPc, task : Task \union {None}, todo : SUBSET Task]
    BY <1>10, Goes, Returns DEF RecoverFinish, Step, OpType, RunnerPc, FinishPc, runnerVars
  <2>2. RecordType' /\ RepoType' /\ MarkedInLog' /\ stray' \in BOOLEAN
    BY <1>10, RecordLeftAlone DEF RecoverFinish, Step, RecordType, runnerVars
  <2>3. spent' \in [Trouble -> 0 .. MaxTroubles]
    BY <1>10, ComesType DEF RecoverFinish, Fault, OpType, Trouble, runnerVars
  <2>4. FinishType'
    BY <1>10, FinishAssumption DEF RecoverFinish, FinishType, finishVars, How, Finishing, FinishMatchesBase, At, Step, FinishPc, Happened
  <2>5. Finishing'
    BY <1>10, <2>1, FinishAssumption, FinishNoneAssumption DEF RecoverFinish, Step, At, Idle, Goto, Return, Finishing, finishVars, FinishMatchesBase, FinishType, FinishPc, How, Happened, runnerVars, OpType
  <2>6. FinishMatchesBase'
    BY <1>10, FinishNoneAssumption DEF RecoverFinish, Step, At, Idle, Finishing, finishVars, FinishMatchesBase, FinishType, FinishPc, How, Happened
  <2>7. QED  BY <2>1, <2>2, <2>3, <2>4, <2>5, <2>6 DEF OpType
<1>11. CASE FinishThrows
  <2>1. op' \in [pc : RunnerPc \union FinishPc, task : Task \union {None}, todo : SUBSET Task]
    BY <1>11, Goes, Returns DEF FinishThrows, Step, OpType, RunnerPc, FinishPc, runnerVars
  <2>2. RecordType' /\ RepoType' /\ MarkedInLog' /\ stray' \in BOOLEAN
    BY <1>11, RecordLeftAlone DEF FinishThrows, Step, RecordType, runnerVars
  <2>3. spent' \in [Trouble -> 0 .. MaxTroubles]
    BY <1>11, ComesType DEF FinishThrows, Fault, OpType, Trouble, runnerVars
  <2>4. FinishType'
    BY <1>11, FinishAssumption DEF FinishThrows, FinishType, finishVars, How, Finishing, FinishMatchesBase, At, Step, FinishPc, Happened
  <2>5. Finishing'
    BY <1>11, <2>1, FinishAssumption, FinishNoneAssumption DEF FinishThrows, Step, At, Idle, Goto, Return, Finishing, finishVars, FinishMatchesBase, FinishType, FinishPc, How, Happened, runnerVars, OpType
  <2>6. FinishMatchesBase'
    BY <1>11, FinishNoneAssumption DEF FinishThrows, Step, At, Idle, Finishing, finishVars, FinishMatchesBase, FinishType, FinishPc, How, Happened
  <2>7. QED  BY <2>1, <2>2, <2>3, <2>4, <2>5, <2>6 DEF OpType
<1>12. CASE SettleThrows
  <2>1. op' \in [pc : RunnerPc \union FinishPc, task : Task \union {None}, todo : SUBSET Task]
    BY <1>12, Goes, Returns DEF SettleThrows, Step, OpType, RunnerPc, FinishPc, runnerVars
  <2>2. RecordType' /\ RepoType' /\ MarkedInLog' /\ stray' \in BOOLEAN
    BY <1>12, RecordLeftAlone DEF SettleThrows, Step, RecordType, runnerVars
  <2>3. spent' \in [Trouble -> 0 .. MaxTroubles]
    BY <1>12, ComesType DEF SettleThrows, Fault, OpType, Trouble, runnerVars
  <2>4. FinishType'
    BY <1>12, FinishAssumption DEF SettleThrows, FinishType, finishVars, How, Finishing, FinishMatchesBase, At, Step, FinishPc, Happened
  <2>5. Finishing'
    BY <1>12, <2>1, FinishAssumption, FinishNoneAssumption DEF SettleThrows, Step, At, Idle, Goto, Return, Finishing, finishVars, FinishMatchesBase, FinishType, FinishPc, How, Happened, runnerVars, OpType
  <2>6. FinishMatchesBase'
    BY <1>12, FinishNoneAssumption DEF SettleThrows, Step, At, Idle, Finishing, finishVars, FinishMatchesBase, FinishType, FinishPc, How, Happened
  <2>7. QED  BY <2>1, <2>2, <2>3, <2>4, <2>5, <2>6 DEF OpType
<1>13. CASE Recheck
  <2>1. op' \in [pc : RunnerPc \union FinishPc, task : Task \union {None}, todo : SUBSET Task]
    BY <1>13, Goes, Returns DEF Recheck, Step, OpType, RunnerPc, FinishPc, runnerVars
  <2>2. RecordType' /\ RepoType' /\ MarkedInLog' /\ stray' \in BOOLEAN
    BY <1>13, RecordLeftAlone DEF Recheck, Step, RecordType, runnerVars
  <2>3. spent' \in [Trouble -> 0 .. MaxTroubles]
    BY <1>13, ComesType DEF Recheck, Fault, OpType, Trouble, runnerVars
  <2>4. FinishType'
    BY <1>13, FinishAssumption DEF Recheck, FinishType, finishVars, How, Finishing, FinishMatchesBase, At, Step, FinishPc, Happened
  <2>5. Finishing'
    BY <1>13, <2>1, FinishAssumption, FinishNoneAssumption DEF Recheck, Step, At, Idle, Goto, Return, Finishing, finishVars, FinishMatchesBase, FinishType, FinishPc, How, Happened, runnerVars, OpType
  <2>6. FinishMatchesBase'
    BY <1>13, FinishNoneAssumption DEF Recheck, Step, At, Idle, Finishing, finishVars, FinishMatchesBase, FinishType, FinishPc, How, Happened
  <2>7. QED  BY <2>1, <2>2, <2>3, <2>4, <2>5, <2>6 DEF OpType
<1>14. CASE UserCommits
  <2>1. op' \in [pc : RunnerPc \union FinishPc, task : Task \union {None}, todo : SUBSET Task]
    BY <1>14, Goes, Returns DEF UserCommits, Step, OpType, RunnerPc, FinishPc, runnerVars
  <2>2. RecordType' /\ RepoType' /\ MarkedInLog' /\ stray' \in BOOLEAN
    BY <1>14, RecordLeftAlone DEF UserCommits, Step, RecordType, runnerVars
  <2>3. spent' \in [Trouble -> 0 .. MaxTroubles]
    BY <1>14, ComesType DEF UserCommits, Fault, OpType, Trouble, runnerVars
  <2>4. FinishType'
    <3>1. base.user \in Nat /\ base.user + 1 \in 0 .. MaxBaseMoves /\ base.commits = base.user
      BY <1>14, FinishAssumption DEF UserCommits, FinishType, FinishMatchesBase
    <3>2. base' \in [user : 0 .. MaxBaseMoves, commits : 0 .. MaxBaseMoves, has : BOOLEAN]
      BY <1>14, <3>1 DEF UserCommits, FinishType
    <3>3. QED  BY <1>14, <3>2 DEF UserCommits, FinishType
  <2>5. Finishing'
    BY <1>14, <2>1, FinishAssumption, FinishNoneAssumption DEF UserCommits, Step, At, Idle, Goto, Return, Finishing, finishVars, FinishMatchesBase, FinishType, FinishPc, How, Happened, runnerVars, OpType
  <2>6. FinishMatchesBase'
    BY <1>14, FinishNoneAssumption DEF UserCommits, Step, At, Idle, Finishing, finishVars, FinishMatchesBase, FinishType, FinishPc, How, Happened
  <2>7. QED  BY <2>1, <2>2, <2>3, <2>4, <2>5, <2>6 DEF OpType
<1>15. CASE UserTakesCheckout
  <2>1. op' \in [pc : RunnerPc \union FinishPc, task : Task \union {None}, todo : SUBSET Task]
    BY <1>15, Goes, Returns DEF UserTakesCheckout, Step, OpType, RunnerPc, FinishPc, runnerVars
  <2>2. RecordType' /\ RepoType' /\ MarkedInLog' /\ stray' \in BOOLEAN
    BY <1>15, RecordLeftAlone DEF UserTakesCheckout, Step, RecordType, runnerVars
  <2>3. spent' \in [Trouble -> 0 .. MaxTroubles]
    BY <1>15, ComesType DEF UserTakesCheckout, Fault, OpType, Trouble, runnerVars
  <2>4. FinishType'
    BY <1>15, FinishAssumption DEF UserTakesCheckout, FinishType, finishVars, How, Finishing, FinishMatchesBase, At, Step, FinishPc, Happened
  <2>5. Finishing'
    BY <1>15, <2>1, FinishAssumption, FinishNoneAssumption DEF UserTakesCheckout, Step, At, Idle, Goto, Return, Finishing, finishVars, FinishMatchesBase, FinishType, FinishPc, How, Happened, runnerVars, OpType
  <2>6. FinishMatchesBase'
    BY <1>15, FinishNoneAssumption DEF UserTakesCheckout, Step, At, Idle, Finishing, finishVars, FinishMatchesBase, FinishType, FinishPc, How, Happened
  <2>7. QED  BY <2>1, <2>2, <2>3, <2>4, <2>5, <2>6 DEF OpType
<1>16. CASE \E how \in Picks : AskFinish(how)
  <2> PICK how \in Picks : AskFinish(how)
    BY <1>16
  <2>1. op' \in [pc : RunnerPc \union FinishPc, task : Task \union {None}, todo : SUBSET Task]
    BY Goes, Returns DEF AskFinish, FirstStep, Step, OpType, RunnerPc, FinishPc, runnerVars
  <2>2. RecordType' /\ RepoType' /\ MarkedInLog' /\ stray' \in BOOLEAN
    BY RecordLeftAlone DEF AskFinish, FirstStep, Step, RecordType, runnerVars
  <2>3. spent' \in [Trouble -> 0 .. MaxTroubles]
    BY ComesType DEF AskFinish, FirstStep, Fault, OpType, Trouble, runnerVars
  <2>4. FinishType'
    <3>1. [how |-> how, unsure |-> FALSE] \in [how : How, unsure : BOOLEAN]
      BY FinishAssumption
    <3>2. finish' \in [how : How, unsure : BOOLEAN] \union {None}
      BY <3>1 DEF AskFinish, FinishType
    <3>3. QED  BY <3>2 DEF AskFinish, FinishType
  <2>5. Finishing'
    <3>1. UNCHANGED <<mission, finished, base>> /\ mission = "review"
      BY DEF AskFinish, Step
    <3>2. CASE finish # None
      <4>1. op'.pc = "settle" /\ finish' = finish
        BY <3>2, Goes DEF AskFinish, Step, FinishPc
      <4>2. QED  BY <3>1, <3>2, <4>1 DEF Finishing, FinishPc, At
    <3>3. CASE finish = None
      <4>1. ~base.has
        BY <3>1, <3>3 DEF Finishing, FinishMatchesBase
      <4>2. finish' # None /\ finish'.how = how /\ how \in How
        <5>1. finish' = [how |-> how, unsure |-> FALSE] /\ how \in How
          BY <3>3, FinishAssumption DEF AskFinish
        <5>2. finish' \in [how : How, unsure : BOOLEAN]
          BY <5>1
        <5>3. QED  BY <5>1, <5>2, FinishNoneAssumption
      <4>3. op'.pc = FirstStep(how)
        BY <3>3, <4>2, Goes DEF AskFinish, Step, FirstStep, FinishPc, How
      <4>4. \/ how = "merge-local" /\ op'.pc = "gated"
            \/ how = "pull-request" /\ op'.pc = "create"
            \/ how \in {"keep", "discard"} /\ op'.pc = "tidy"
        BY <4>2, <4>3 DEF FirstStep, How
      <4>5. QED  BY <3>1, <4>1, <4>2, <4>4 DEF Finishing, FinishPc, At
    <3>4. QED  BY <3>2, <3>3
  <2>6. FinishMatchesBase'
    BY FinishNoneAssumption DEF AskFinish, FirstStep, Step, At, Idle, Finishing, finishVars, FinishMatchesBase, FinishType, FinishPc, How, Happened
  <2>7. QED  BY <2>1, <2>2, <2>3, <2>4, <2>5, <2>6 DEF OpType
<1>17. QED  BY <1>1, <1>2, <1>3, <1>4, <1>5, <1>6, <1>7, <1>8, <1>9, <1>10, <1>11, <1>12, <1>13, <1>14, <1>15, <1>16 DEF FinishCore, FinishOther

-----------------------------------------------------------------------------
LEMMA InitHolds == Init => IInv
<1> SUFFICES ASSUME Init PROVE IInv
  OBVIOUS
<1> USE DEF Init, RunnerInit, FinishInit
<1>1. RecordType
  BY MaxStartsAssumption, RunnerBoundsAssumption DEF RecordType, TaskState, AttemptState, Outcome
<1>2. RepoType /\ MarkedInLog
  <2>1. <<>> \in Seq(Commit) /\ Len(<<>>) = 0
    OBVIOUS
  <2>2. CutFrom(<<>>) \in [Unit -> Nat]
    BY <2>1, LevelType DEF CutFrom
  <2>3. QED  BY <2>1, <2>2 DEF RepoType, MarkedInLog
<1>3. OpType
  <2>1. spent \in [Trouble -> 0 .. MaxTroubles]
    BY RunnerBoundsAssumption
  <2>2. "idle" \in RunnerPc
    BY DEF RunnerPc
  <2>3. QED  BY <2>1, <2>2 DEF OpType
<1>4. FinishType /\ FinishMatchesBase
  <2>1. 0 \in 0 .. MaxBaseMoves
    BY FinishAssumption
  <2>2. base \in [user : 0 .. MaxBaseMoves, commits : 0 .. MaxBaseMoves, has : BOOLEAN]
        /\ base.user = 0 /\ base.commits = 0 /\ ~base.has
    BY <2>1
  <2>3. FinishType
    BY <2>1, <2>2 DEF FinishType
  <2>4. FinishMatchesBase
    BY <2>2 DEF FinishMatchesBase
  <2>5. QED  BY <2>3, <2>4
<1>5. Finishing
  BY DEF Finishing, FinishPc, At
<1>6. QED  BY <1>1, <1>2, <1>3, <1>4, <1>5 DEF IInv, RunnerType

LEMMA NextKeeps == IInv /\ [Next]_vars => IInv'
<1> SUFFICES ASSUME IInv, [Next]_vars PROVE IInv'
  OBVIOUS
<1>1. RunnerType /\ FinishType /\ Finishing /\ FinishMatchesBase
  BY DEF IInv
<1>2. CASE RunnerCore /\ UNCHANGED finishVars
  <2>1. /\ RunnerType' /\ op'.pc \in RunnerPc
        /\ op'.pc = "cancel" => At("cancel")
        /\ mission' # mission => At("cancel")
    BY <1>1, <1>2, RunnerCoreKeeps
  <2>2. At("cancel") => mission \in {"running", "paused"}
    BY <1>1 DEF Finishing
  <2>3. op'.pc = "cancel" => mission' \in {"running", "paused"}
    <3>1. CASE mission' = mission
      BY <3>1, <2>1, <2>2
    <3>2. CASE CancelMission
      <4>1. op'.pc \in {"idle", "recover"}
        BY <1>1, <3>2, Returns DEF CancelMission, RunnerType
      <4>2. QED  BY <4>1
    <3>3. CASE AbortConflicted \/ AbortRevert
      BY <3>3, <2>1, <2>2 DEF AbortConflicted, AbortRevert, record
    <3>4. CASE \E t \in Task : RunnerStep(t)
      <4>1. PICK t \in Task : RunnerStep(t)
        BY <3>4
      <4>2. mission' = mission
        BY <1>1, <4>1, RunnerStepKeeps DEF Kept
      <4>3. QED  BY <4>2, <2>1, <2>2
    <3>5. QED  BY <1>2, <3>2, <3>3, <3>4 DEF RunnerCore
  <2>4. FinishType' /\ Finishing' /\ FinishMatchesBase'
    BY <1>1, <1>2, <2>1, <2>2, <2>3, FinishLeftAlone
  <2>5. QED  BY <2>1, <2>4 DEF IInv
<1>3. CASE RunnerOther /\ UNCHANGED finishVars
  <2>1. /\ RunnerType' /\ op'.pc \in RunnerPc
        /\ op'.pc = "cancel" => mission' \in {"running", "paused"}
        /\ mission' # mission => mission \in {"running", "paused"}
    BY <1>1, <1>3, RunnerOtherKeeps
  <2>2. FinishType' /\ Finishing' /\ FinishMatchesBase'
    BY <1>1, <1>3, <2>1, FinishLeftAlone
  <2>3. QED  BY <2>1, <2>2 DEF IInv
<1>4. CASE FinishCore \/ FinishOther
  BY <1>1, <1>4, FinishSteps DEF IInv
<1>5. CASE Crash \/ Restart
  <2>1. /\ op' \in [pc : RunnerPc \union FinishPc, task : Task \union {None}, todo : SUBSET Task]
        /\ op'.pc \in {"down", "recover"}
    BY <1>5 DEF Crash, Restart, RunnerPc
  <2>2. spent' \in [Trouble -> 0 .. MaxTroubles]
    BY <1>1, <1>5, ComesType DEF Crash, Restart, RunnerType, OpType, Trouble
  <2>3. UNCHANGED <<record, repo, stray, finishVars>>
    BY <1>5 DEF Crash, Restart
  <2>4. RecordType' /\ RepoType' /\ MarkedInLog' /\ stray' \in BOOLEAN
    BY <1>1, <2>3 DEF RunnerType, RecordType, RepoType, MarkedInLog, OpType, record, repo
  <2>5. RunnerType'
    BY <2>1, <2>2, <2>4 DEF RunnerType, OpType
  <2>6. FinishType' /\ Finishing' /\ FinishMatchesBase'
    BY <1>1, <2>1, <2>3, FinishLeftAlone DEF RunnerPc, record
  <2>7. QED  BY <2>5, <2>6 DEF IInv
<1>6. CASE UNCHANGED vars
  BY <1>1, <1>6 DEF IInv, RunnerType, RecordType, RepoType, MarkedInLog, OpType, FinishType,
                    Finishing, FinishMatchesBase, At, vars, runnerVars, finishVars, record, repo
<1>7. QED  BY <1>2, <1>3, <1>4, <1>5, <1>6 DEF Next, Core

(* The invariant that the theorems below and the proof about the mission   *)
(* branch rest on: types, where a finish can be under way, and the base.   *)
THEOREM Invariant == Spec => []IInv
<1>1. QED  BY InitHolds, NextKeeps, PTL DEF Spec

(* Record, repository, queue and finish keep their types, and of a task's  *)
(* attempts those that resumed no other are at most caps.maxAttempts,      *)
(* whether the scheduler, escalation, a conflict or the user's Retry asked *)
(* for them (admissionRefusal), for any tasks, bounds and troubles.        *)
THEOREM TypeCorrect == Spec => []TypeOK
<1>1. IInv => TypeOK
  BY TypeParts DEF IInv, RunnerType
<1>2. QED  BY <1>1, Invariant, PTL

(* What the record says of a finish is what the base has, for any tasks,   *)
(* user's commits, deaths of the core and failing commands.                *)
THEOREM FinishMatchesBaseHolds == Spec => []FinishMatchesBase
<1>1. IInv => FinishMatchesBase
  BY DEF IInv
<1>2. QED  BY <1>1, Invariant, PTL
=============================================================================
