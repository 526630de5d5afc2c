--------------------------- MODULE LeaseDirProofs ---------------------------
(***************************************************************************)
(* Proofs about LeaseDir. Its types hold for every value of the constants, *)
(* and so does what a reaper may remove. That the lease excludes holds of  *)
(* any number of sessions, resumed or not, if the lease is for the turn or *)
(* a session makes one tool call at a time (Orderly): with two calls of    *)
(* one session and a command lease it does not.                            *)
(***************************************************************************)
EXTENDS LeaseDir, TLAPS

Orderly ==
  Scopes = {"turn"} \/ \A c, d \in Call : SessionOf[c] = SessionOf[d] => c = d

Files ==
  /\ holder # None => dir /\ maker = None
  /\ maker # None => dir
  /\ dir => holder # None \/ maker # None

-----------------------------------------------------------------------------
(* Types, for every value of the constants.                                *)

LEMMA SelfType ==
  ASSUME TypeOK, NEW c \in Call
  PROVE  Self(c) \in Session \X (1..MaxRuns) /\ SessionOf[c] \in Session
BY ConstantsAssumption DEF TypeOK, Self, Process

LEMMA GotoType ==
  ASSUME TypeOK, NEW c \in Call \cup {Core}, NEW step \in CallSteps, Goto(c, step),
         c = Core => step \in ReapSteps \cup {"idle"}
  PROVE  pc' \in [Call \cup {Core} -> CallSteps] /\ pc'[Core] \in ReapSteps \cup {"idle"}
BY ConstantsAssumption DEF TypeOK, Goto

LEMMA OwnerType ==
  ASSUME TypeOK
  PROVE  Owner \subseteq Session
BY DEF TypeOK, Owner

LEMMA VerdictType ==
  ASSUME TypeOK, NEW c \in Call \cup {Core}, NEW dead, Verdict(c, dead)
  PROVE  /\ pc' \in [Call \cup {Core} -> CallSteps] /\ pc'[Core] \in ReapSteps \cup {"idle"}
         /\ seen' \in [Call \cup {Core} -> (Session \X (1..MaxRuns)) \cup {None}]
BY ConstantsAssumption
   DEF TypeOK, Verdict, Goto, CallSteps, HookSteps, ReapSteps, LookSteps

LEMMA SeenType ==
  ASSUME TypeOK, NEW c \in Call \cup {Core}, holder # None, seen' = [seen EXCEPT ![c] = holder]
  PROVE  seen' \in [Call \cup {Core} -> (Session \X (1..MaxRuns)) \cup {None}]
BY DEF TypeOK

LEMMA LookTypeOK ==
  ASSUME TypeOK, \/ \E c \in Call : HookLook(c)
                 \/ CoreLook
  PROVE  TypeOK'
<1> USE GotoType, VerdictType, ConstantsAssumption
<1> USE DEF CallSteps, HookSteps, ReapSteps, LookSteps, fileVars, procVars, LookOn
<1> DEFINE Looked ==
      /\ pc' \in [Call \cup {Core} -> CallSteps] /\ pc'[Core] \in ReapSteps \cup {"idle"}
      /\ seen' \in [Call \cup {Core} -> (Session \X (1..MaxRuns)) \cup {None}]
<1>1. ASSUME NEW c \in Call, HookLook(c)
      PROVE  Looked
  <2>1. CASE Judge(c)  BY <2>1 DEF Judge, TypeOK, Stale, IsDead
  <2>2. CASE ReadPid(c)
    <3>1. CASE holder = None
      <4>1. Verdict(c, TRUE)  BY <2>2, <3>1 DEF ReadPid
      <4>2. QED  BY <4>1
    <3>2. CASE holder # None
      <4>1. seen' = [seen EXCEPT ![c] = holder] /\ Goto(c, "process")  BY <2>2, <3>2 DEF ReadPid
      <4>2. QED  BY <3>2, <4>1, SeenType
    <3>3. QED  BY <3>1, <3>2
  <2>3. CASE CheckProcess(c)  BY <2>3 DEF CheckProcess, TypeOK
  <2>4. CASE ReadStart(c)  BY <2>4 DEF ReadStart, TypeOK
  <2>5. CASE CheckStart(c)  BY <2>5 DEF CheckStart, TypeOK, IsDead
  <2>6. QED  BY <1>1, <2>1, <2>2, <2>3, <2>4, <2>5 DEF HookLook
<1>2. ASSUME CoreLook
      PROVE  Looked
  <2>1. CASE CoreReads
    <3>1. CASE holder # None /\ ~Over
      <4>1. seen' = [seen EXCEPT ![Core] = holder] /\ Goto(Core, "process")
        BY <2>1, <3>1 DEF CoreReads
      <4>2. QED  BY <3>1, <4>1, SeenType
    <3>2. CASE ~(holder # None /\ ~Over)
      <4>1. Verdict(Core, dir /\ (Over \/ Stale))  BY <2>1, <3>2 DEF CoreReads
      <4>2. QED  BY <4>1
    <3>3. QED  BY <3>1, <3>2
  <2>2. CASE CoreAsks
    <3>1. Verdict(Core, dir /\ IsDead(seen[Core]))  BY <2>2 DEF CoreAsks
    <3>2. QED  BY <3>1
  <2>3. QED  BY <1>2, <2>1, <2>2 DEF CoreLook
<1>3. Looked  BY ONLY <1>1, <1>2, (\E c \in Call : HookLook(c)) \/ CoreLook
<1>4. UNCHANGED <<fileVars, reapLock, reaping, procVars, stopping, relying, robbed, overtaken>>
  BY DEF HookLook, CoreLook
<1>5. QED  BY <1>3, <1>4 DEF TypeOK

LEMMA HookTypeOK ==
  ASSUME TypeOK, NEW c \in Call, BeginCall(c) \/ Hook(c)
  PROVE  TypeOK'
<1> USE SelfType, GotoType, OwnerType, ConstantsAssumption
<1> USE DEF CallSteps, HookSteps, ReapSteps, LookSteps, fileVars, reapVars, procVars, Overtake, RobAs
<1>1. CASE BeginCall(c)  BY <1>1 DEF BeginCall, TypeOK
<1>2. CASE MakeDir(c)
  <2>1. pc' \in [Call \cup {Core} -> CallSteps] /\ pc'[Core] \in ReapSteps \cup {"idle"}
    BY <1>2 DEF MakeDir
  <2>2. maker' \in Session \X (1..MaxRuns) \cup {None}  BY <1>2 DEF MakeDir, TypeOK
  <2>3. dir' \in BOOLEAN /\ overtaken' \subseteq reaping  BY <1>2 DEF MakeDir, TypeOK
  <2>4. UNCHANGED <<holder, uses, ended, reapVars, procVars, stopping, relying, robbed>>
    BY <1>2 DEF MakeDir
  <2>5. QED  BY <2>1, <2>2, <2>3, <2>4 DEF TypeOK
<1>3. CASE WriteHolder(c)
  <2>1. pc' \in [Call \cup {Core} -> CallSteps] /\ pc'[Core] \in ReapSteps \cup {"idle"}
    BY <1>3 DEF WriteHolder, Grant
  <2>2. relying' \subseteq Session  BY <1>3 DEF WriteHolder, Grant, TypeOK
  <2>3. robbed' \subseteq Session  BY <1>3 DEF WriteHolder, TypeOK
  <2>4. /\ holder' \in Session \X (1..MaxRuns) \cup {None}
        /\ maker' \in Session \X (1..MaxRuns) \cup {None}
        /\ ended' \in BOOLEAN /\ overtaken' \subseteq reaping
    <3>1. CASE dir
      <4>1. holder' = Self(c) /\ maker' = None /\ ended' = FALSE /\ overtaken' = reaping
        BY <1>3, <3>1 DEF WriteHolder
      <4>2. QED  BY <4>1
    <3>2. CASE ~dir
      BY <1>3, <3>2 DEF WriteHolder, TypeOK
    <3>3. QED  BY <3>1, <3>2
  <2>5. UNCHANGED <<dir, uses, reapVars, procVars, stopping>>  BY <1>3 DEF WriteHolder
  <2>6. QED  BY <2>1, <2>2, <2>3, <2>4, <2>5 DEF TypeOK
<1>4. CASE UseOwn(c)  BY <1>4 DEF UseOwn, Grant, TypeOK
<1>5. CASE ReadHolder(c)  BY <1>5 DEF ReadHolder, TypeOK
<1>6. CASE ReadScope(c)  BY <1>6 DEF ReadScope, Grant, TypeOK
<1>7. CASE UseHeld(c)  BY <1>7 DEF UseHeld, Grant, TypeOK
<1>8. CASE HookLook(c)  BY <1>8, LookTypeOK
<1>9. CASE WaitMore(c)  BY <1>9 DEF WaitMore, TypeOK
<1>10. CASE Deny(c)  BY <1>10 DEF Deny, TypeOK
<1>11. QED  BY <1>1, <1>2, <1>3, <1>4, <1>5, <1>6, <1>7, <1>8, <1>9, <1>10 DEF Hook

LEMMA ReapTypeOK ==
  ASSUME TypeOK, NEW c \in Call \cup {Core}, Reap(c)
  PROVE  TypeOK'
<1> USE GotoType, OwnerType, ConstantsAssumption
<1> USE DEF CallSteps, HookSteps, ReapSteps, LookSteps, fileVars, reapVars, procVars, RemoveDir, Rob, RobAs
<1>0. AfterReap(c) \in CallSteps /\ (c = Core => AfterReap(c) = "idle")
  BY DEF AfterReap
<1>1. CASE TakeReapLock(c)  BY <1>0, <1>1 DEF TakeReapLock, TypeOK
<1>2. CASE BreakReapLock(c)  BY <1>0, <1>2 DEF BreakReapLock, TypeOK
<1>3. CASE RemoveStale(c)  BY <1>3 DEF RemoveStale, TypeOK
<1>4. CASE DropReapLock(c)  BY <1>0, <1>4 DEF DropReapLock, TypeOK
<1>5. QED  BY <1>1, <1>2, <1>3, <1>4 DEF Reap

LEMMA ReleaseTypeOK ==
  ASSUME TypeOK, NEW c \in Call,
         EndCall(c) \/ PostUse(c) \/ PostRelease(c) \/ InterruptCall(c)
  PROVE  TypeOK'
<1> USE GotoType, OwnerType, ConstantsAssumption
<1> USE DEF CallSteps, HookSteps, ReapSteps, LookSteps, fileVars, reapVars, procVars, RemoveDir, Rob, RobAs
<1>1. CASE EndCall(c)  BY <1>1 DEF EndCall, StopRelying, TypeOK
<1>2. CASE PostUse(c)  BY <1>2 DEF PostUse, TypeOK
<1>3. CASE PostRelease(c)  BY <1>3 DEF PostRelease, TypeOK
<1>4. CASE InterruptCall(c)  BY <1>4 DEF InterruptCall, StopRelying, TypeOK
<1>5. QED  BY <1>1, <1>2, <1>3, <1>4

LEMMA SessionTypeOK ==
  ASSUME TypeOK, NEW s \in Session,
         EndTurn(s) \/ StopRelease(s) \/ Die(s) \/ Resume(s)
  PROVE  TypeOK'
<1> USE ConstantsAssumption, OwnerType DEF fileVars, reapVars, procVars, RemoveDir, Rob, RobAs
<1>1. CASE EndTurn(s)  BY <1>1 DEF EndTurn, TypeOK
<1>2. CASE StopRelease(s)  BY <1>2 DEF StopRelease, TypeOK
<1>3. CASE Die(s)
  <2>1. pc' \in [Call \cup {Core} -> CallSteps] /\ pc'[Core] \in ReapSteps \cup {"idle"}
    BY <1>3 DEF Die, TypeOK, CallSteps
  <2>2. seen' \in [Call \cup {Core} -> (Session \X (1..MaxRuns)) \cup {None}]
    BY <1>3 DEF Die, TypeOK
  <2>3. /\ reaping' \subseteq Call \cup {Core} /\ overtaken' \subseteq reaping'
        /\ up' \subseteq Session
        /\ stopping' \subseteq Session /\ relying' \subseteq Session /\ robbed' \subseteq Session
    BY <1>3 DEF Die, TypeOK
  <2>4. UNCHANGED <<fileVars, reapLock, run, scope>>  BY <1>3 DEF Die
  <2>5. QED  BY <2>1, <2>2, <2>3, <2>4 DEF TypeOK
<1>4. CASE Resume(s)
  <2>1. run' \in [Session -> 1..MaxRuns]  BY <1>4 DEF Resume, TypeOK
  <2>2. up' \subseteq Session /\ ended' \in BOOLEAN  BY <1>4 DEF Resume, TypeOK
  <2>3. UNCHANGED <<dir, holder, maker, uses, reapVars, scope, pc, stopping, relying, robbed, overtaken>>
    BY <1>4 DEF Resume
  <2>4. QED  BY <2>1, <2>2, <2>3 DEF TypeOK
<1>5. QED  BY <1>1, <1>2, <1>3, <1>4

LEMMA CoreTypeOK ==
  ASSUME TypeOK, ForceRelease \/ RecordEnds
  PROVE  TypeOK'
<1> USE OwnerType DEF reapVars, procVars, RemoveDir, Rob
<1>1. CASE ForceRelease  BY <1>1 DEF ForceRelease, TypeOK
<1>2. CASE RecordEnds  BY <1>2 DEF RecordEnds, TypeOK
<1>3. QED  BY <1>1, <1>2

LEMMA InitTypeOK ==
  ASSUME Init
  PROVE  TypeOK
<1>1. 1 \in 1..MaxRuns
  BY ConstantsAssumption
<1>2. run \in [Session -> 1..MaxRuns]
  BY <1>1 DEF Init
<1>3. pc \in [Call \cup {Core} -> CallSteps] /\ pc[Core] = "idle"
  BY DEF Init, CallSteps
<1>4. QED  BY <1>2, <1>3 DEF Init, TypeOK

LEMMA NextTypeOK ==
  ASSUME TypeOK, [Next]_vars
  PROVE  TypeOK'
<1>1. CASE UNCHANGED vars
  BY <1>1 DEF vars, TypeOK
<1>2. ASSUME NEW c \in Call, BeginCall(c) \/ Hook(c)
      PROVE  TypeOK'
  BY <1>2, HookTypeOK
<1>3. ASSUME NEW c \in Call, EndCall(c) \/ PostUse(c) \/ PostRelease(c) \/ InterruptCall(c)
      PROVE  TypeOK'
  BY <1>3, ReleaseTypeOK
<1>4. ASSUME NEW c \in Call \cup {Core}, Reap(c)
      PROVE  TypeOK'
  BY <1>4, ReapTypeOK
<1>5. CASE CoreLook
  BY <1>5, LookTypeOK
<1>6. ASSUME NEW s \in Session, EndTurn(s) \/ StopRelease(s) \/ Die(s) \/ Resume(s)
      PROVE  TypeOK'
  BY <1>6, SessionTypeOK
<1>7. CASE ForceRelease \/ RecordEnds
  BY <1>7, CoreTypeOK
<1>8. QED  BY <1>1, <1>2, <1>3, <1>4, <1>5, <1>6, <1>7 DEF Next

(* Every variable keeps its type, for any sessions, calls and bounds.      *)
THEOREM TypeCorrect == Spec => []TypeOK
<1>1. Init => TypeOK  BY InitTypeOK
<1>2. TypeOK /\ [Next]_vars => TypeOK'  BY NextTypeOK
<1>3. QED  BY <1>1, <1>2, PTL DEF Spec

-----------------------------------------------------------------------------

-----------------------------------------------------------------------------
(* What a reaper removes, for every value of the constants.                *)

(* No lease names a process that is yet to come. *)
RunBound ==
  /\ holder # None => holder[2] <= run[holder[1]]
  /\ maker # None => maker[2] <= run[maker[1]]

AfterFile == {"process", "start", "age"}

(* A look that is not overtaken sees one lease all along. *)
Looks ==
  \A c \in reaping \ overtaken : dir =>
    /\ pc[c] = "pid" => holder # None
    /\ pc[c] \in AfterFile => holder # None /\ holder = seen[c]
    /\ pc[c] = "remove" => Stale \/ (c = Core /\ Over)

RInv == Files /\ RunBound /\ Looks

(* The dead stay dead: a resumed session runs in another process.          *)
LEMMA DeadStays ==
  ASSUME TypeOK, NEW p \in Session \X (1..MaxRuns), p[2] <= run[p[1]], IsDead(p),
         NEW s \in Session, UNCHANGED <<up, run>> \/ Die(s) \/ Resume(s)
  PROVE  IsDead(p)' /\ p[2] <= run'[p[1]]
<1> USE ConstantsAssumption DEF TypeOK, IsDead
<1>1. CASE UNCHANGED <<up, run>>  BY <1>1
<1>2. CASE Die(s)  BY <1>2 DEF Die
<1>3. CASE Resume(s)
  <2>1. p[1] \in Session /\ p[2] \in Nat /\ run[s] \in Nat /\ run[p[1]] \in Nat  OBVIOUS
  <2>2. run' = [run EXCEPT ![s] = run[s] + 1] /\ up' = up \cup {s}  BY <1>3 DEF Resume
  <2>3. CASE p[1] = s
    <3>1. run'[p[1]] = run[p[1]] + 1  BY <2>2, <2>3
    <3>2. run'[p[1]] # p[2] /\ p[2] <= run'[p[1]]  BY <2>1, <3>1
    <3>3. QED  BY <3>2
  <2>4. CASE p[1] # s  BY <2>1, <2>2, <2>4
  <2>5. QED  BY <2>3, <2>4
<1>4. QED  BY <1>1, <1>2, <1>3

(* Most steps touch neither the lease nor the processes, and take no look  *)
(* further.                                                                *)
LEMMA QuietRInv ==
  ASSUME RInv, UNCHANGED <<dir, holder, maker, ended, up, run, seen>>,
         \A c \in reaping' \ overtaken' :
           \/ c \in reaping \ overtaken /\ pc'[c] = pc[c]
           \/ pc'[c] \notin {"pid", "remove"} \cup AfterFile
  PROVE  RInv'
<1>1. Files' /\ RunBound'  BY DEF RInv, Files, RunBound
<1>2. Looks'  BY DEF RInv, Looks, Stale, Over, IsDead
<1>3. QED  BY <1>1, <1>2 DEF RInv

LEMMA GotoElse ==
  ASSUME TypeOK, NEW c \in Call \cup {Core}, NEW step, Goto(c, step)
  PROVE  \A d \in Call \cup {Core} : pc'[d] = IF d = c THEN step ELSE pc[d]
BY DEF TypeOK, Goto

(* The lease is gone, or every look at it is overtaken. *)
LEMMA RemovedRInv ==
  ASSUME RemoveDir
  PROVE  RInv'
BY DEF RemoveDir, RInv, Files, RunBound, Looks

LEMMA HookRInv ==
  ASSUME TypeOK, RInv, NEW c \in Call,
         \/ BeginCall(c) \/ MakeDir(c) \/ WriteHolder(c) \/ UseOwn(c) \/ ReadHolder(c)
         \/ ReadScope(c) \/ UseHeld(c) \/ WaitMore(c) \/ Deny(c)
  PROVE  RInv'
<1> USE DEF fileVars, reapVars, procVars, AfterFile
<1>0. reaping \subseteq Call \cup {Core}  BY DEF TypeOK
<1>1. ASSUME NEW step, Goto(c, step), step \notin {"pid", "remove"} \cup AfterFile,
             UNCHANGED <<dir, holder, maker, ended, up, run, seen, reaping, overtaken>>
      PROVE  RInv'
  BY <1>0, <1>1, QuietRInv, GotoElse
<1>2. CASE BeginCall(c)  BY <1>1, <1>2 DEF BeginCall
<1>3. CASE MakeDir(c)
  <2>1. CASE dir
    <3>1. Goto(c, "read")  BY <1>3, <2>1 DEF MakeDir
    <3>2. UNCHANGED <<dir, holder, maker, ended, up, run, seen, reaping, overtaken>>
      BY <1>3, <2>1 DEF MakeDir
    <3>3. QED  BY <1>1, <3>1, <3>2
  <2>2. CASE ~dir
    <3>1. /\ dir' = TRUE /\ maker' = Self(c) /\ holder' = holder /\ run' = run
          /\ overtaken' = reaping /\ reaping' = reaping
      BY <1>3, <2>2 DEF MakeDir, Overtake
    <3>2. holder = None  BY <2>2 DEF RInv, Files
    <3>3. Self(c) # None /\ Self(c)[2] = run[Self(c)[1]]
      BY SelfType, ConstantsAssumption DEF Self, Process
    <3>4. Self(c)[2] <= run[Self(c)[1]]
      BY <3>3, ConstantsAssumption DEF TypeOK, Self, Process
    <3>5. QED  BY <3>1, <3>2, <3>3, <3>4 DEF RInv, Files, RunBound, Looks
  <2>3. QED  BY <2>1, <2>2
<1>4. CASE WriteHolder(c)
  <2>1. CASE dir
    <3>1. /\ dir' = dir /\ maker' = None /\ holder' = Self(c) /\ run' = run
          /\ overtaken' = reaping /\ reaping' = reaping
      BY <1>4, <2>1 DEF WriteHolder, Overtake
    <3>2. Self(c) # None /\ Self(c)[2] <= run[Self(c)[1]]
      BY SelfType, ConstantsAssumption DEF TypeOK, Self, Process
    <3>3. QED  BY <2>1, <3>1, <3>2 DEF RInv, Files, RunBound, Looks
  <2>2. CASE ~dir
    <3>1. \E step : Goto(c, step) /\ step \in {"use", "running"}
      BY <1>4, <2>2 DEF WriteHolder, Grant
    <3>2. UNCHANGED <<dir, holder, maker, ended, up, run, seen, reaping, overtaken>>
      BY <1>4, <2>2 DEF WriteHolder
    <3>3. QED  BY <1>1, <3>1, <3>2
  <2>3. QED  BY <2>1, <2>2
<1>5. CASE UseOwn(c)  BY <1>1, <1>5 DEF UseOwn, Grant
<1>6. CASE ReadHolder(c)  BY <1>1, <1>6 DEF ReadHolder
<1>7. CASE ReadScope(c)  BY <1>1, <1>7 DEF ReadScope, Grant
<1>8. CASE UseHeld(c)  BY <1>1, <1>8 DEF UseHeld, Grant
<1>9. CASE WaitMore(c)  BY <1>1, <1>9 DEF WaitMore
<1>10. CASE Deny(c)  BY <1>1, <1>10 DEF Deny
<1>11. QED  BY <1>2, <1>3, <1>4, <1>5, <1>6, <1>7, <1>8, <1>9, <1>10

(* A step of a look. What it goes on, under the lock and not overtaken, is *)
(* the lease on disk.                                                      *)
LEMMA LookRInv ==
  ASSUME TypeOK, RInv, NEW c \in Call \cup {Core}, (c \in Call /\ HookLook(c)) \/ (c = Core /\ CoreLook)
  PROVE  RInv'
<1> USE ConstantsAssumption DEF AfterFile
<1>0. /\ UNCHANGED <<dir, holder, maker, ended, up, run, reaping, overtaken>>
      /\ reaping \subseteq Call \cup {Core}
  BY DEF HookLook, CoreLook, fileVars, procVars, TypeOK
<1>1. Files' /\ RunBound'  BY <1>0 DEF RInv, Files, RunBound
<1>2. \A d \in Call \cup {Core} : d # c => pc'[d] = pc[d] /\ seen'[d] = seen[d]
  BY DEF HookLook, Judge, ReadPid, CheckProcess, ReadStart, CheckStart,
         CoreLook, CoreReads, CoreAsks, Verdict, LookOn, Goto, TypeOK
<1>3. ASSUME c \in reaping \ overtaken, dir
      PROVE  /\ pc'[c] = "pid" => holder # None
             /\ pc'[c] \in AfterFile => holder # None /\ holder = seen'[c]
             /\ pc'[c] = "remove" => Stale \/ (c = Core /\ Over)
  <2>1. /\ pc[c] = "pid" => holder # None
        /\ pc[c] \in AfterFile => holder # None /\ holder = seen[c]
    BY <1>3 DEF RInv, Looks
  <2>2. ASSUME NEW dead, Verdict(c, dead), dead => Stale \/ (c = Core /\ Over)
        PROVE  /\ pc'[c] \in {"remove", "unlock"}
               /\ pc'[c] = "remove" => Stale \/ (c = Core /\ Over)
    BY <1>3, <2>2 DEF Verdict, Goto, TypeOK
  <2>3. ASSUME HookLook(c), c \in Call
        PROVE  /\ pc'[c] = "pid" => holder # None
               /\ pc'[c] \in AfterFile => holder # None /\ holder = seen'[c]
               /\ pc'[c] = "remove" => Stale \/ (c = Core /\ Over)
    <3>1. CASE Judge(c)  BY <1>3, <2>2, <3>1 DEF Judge, LookOn, Goto, TypeOK
    <3>2. CASE ReadPid(c)  BY <2>1, <3>2 DEF ReadPid, Goto, TypeOK
    <3>3. CASE CheckProcess(c)
      <4>1. IsDead(seen[c]) => Stale  BY <2>1, <3>3 DEF CheckProcess, Stale
      <4>2. QED  BY <2>1, <2>2, <3>3, <4>1 DEF CheckProcess, LookOn, Goto, TypeOK
    <3>4. CASE ReadStart(c)
      BY <2>1, <3>4 DEF ReadStart, LookOn, Goto, TypeOK
    <3>5. CASE CheckStart(c)
      <4>1. IsDead(seen[c]) => Stale  BY <2>1, <3>5 DEF CheckStart, Stale
      <4>2. Verdict(c, IsDead(seen[c]))  BY <3>5 DEF CheckStart
      <4>3. QED  BY <2>2, <4>1, <4>2
    <3>6. QED  BY <2>3, <3>1, <3>2, <3>3, <3>4, <3>5 DEF HookLook
  <2>4. ASSUME c = Core, CoreLook
        PROVE  /\ pc'[c] = "pid" => holder # None
               /\ pc'[c] \in AfterFile => holder # None /\ holder = seen'[c]
               /\ pc'[c] = "remove" => Stale \/ (c = Core /\ Over)
    <3>1. CASE CoreReads
      <4>1. CASE holder # None /\ ~Over  BY <2>4, <3>1, <4>1 DEF CoreReads, Goto, TypeOK
      <4>2. CASE ~(holder # None /\ ~Over)
        <5>1. Verdict(c, dir /\ (Over \/ Stale))  BY <2>4, <3>1, <4>2 DEF CoreReads
        <5>2. QED  BY <2>2, <2>4, <5>1
      <4>3. QED  BY <4>1, <4>2
    <3>2. CASE CoreAsks
      <4>1. IsDead(seen[c]) => Stale  BY <2>1, <2>4, <3>2 DEF CoreAsks, Stale
      <4>2. Verdict(c, dir /\ IsDead(seen[c]))  BY <2>4, <3>2 DEF CoreAsks
      <4>3. QED  BY <2>2, <4>1, <4>2
    <3>3. QED  BY <2>4, <3>1, <3>2 DEF CoreLook
  <2>5. QED  BY <2>3, <2>4
<1>4. Stale' = Stale /\ Over' = Over  BY <1>0 DEF Stale, Over, IsDead
<1>5. Looks'
  <2> SUFFICES ASSUME NEW d \in (reaping \ overtaken)', dir'
               PROVE  /\ pc'[d] = "pid" => holder' # None
                      /\ pc'[d] \in AfterFile => holder' # None /\ holder' = seen'[d]
                      /\ pc'[d] = "remove" => Stale' \/ (d = Core /\ Over')
    BY DEF Looks
  <2>1. d \in reaping \ overtaken /\ d \in Call \cup {Core} /\ dir  BY <1>0
  <2>2. CASE d = c  BY <1>0, <1>3, <1>4, <2>1, <2>2
  <2>3. CASE d # c  BY <1>0, <1>2, <1>4, <2>1, <2>3 DEF RInv, Looks
  <2>4. QED  BY <2>2, <2>3
<1>6. QED  BY <1>1, <1>5 DEF RInv

LEMMA ReapRInv ==
  ASSUME TypeOK, RInv, NEW c \in Call \cup {Core}, Reap(c)
  PROVE  RInv'
<1> USE DEF fileVars, reapVars, procVars, AfterFile
<1>0. reaping \subseteq Call \cup {Core} /\ overtaken \subseteq reaping  BY DEF TypeOK
<1>1. AfterReap(c) \in {"idle", "wait", "mkdir"}  BY DEF AfterReap
<1>2. ASSUME NEW step, Goto(c, step), step \notin {"pid", "remove"} \cup AfterFile,
             UNCHANGED <<dir, holder, maker, ended, up, run, seen, overtaken>>,
             reaping' \subseteq reaping \cup {c}
      PROVE  RInv'
  BY <1>0, <1>2, QuietRInv, GotoElse
<1>3. CASE TakeReapLock(c)  BY <1>1, <1>2, <1>3 DEF TakeReapLock
<1>4. CASE BreakReapLock(c)  BY <1>1, <1>2, <1>4 DEF BreakReapLock
<1>5. CASE RemoveStale(c)  BY <1>5, RemovedRInv DEF RemoveStale
<1>6. CASE DropReapLock(c)
  <2>1. \A d \in reaping' \ overtaken' : d \in reaping \ overtaken /\ d # c
    BY <1>6 DEF DropReapLock
  <2>2. Goto(c, AfterReap(c)) /\ UNCHANGED <<dir, holder, maker, ended, up, run, seen>>
    BY <1>6 DEF DropReapLock
  <2>3. QED  BY <1>0, <2>1, <2>2, QuietRInv, GotoElse
<1>7. QED  BY <1>3, <1>4, <1>5, <1>6 DEF Reap

LEMMA ReleaseRInv ==
  ASSUME TypeOK, RInv, NEW c \in Call,
         EndCall(c) \/ PostUse(c) \/ PostRelease(c) \/ InterruptCall(c)
  PROVE  RInv'
<1> USE DEF fileVars, reapVars, procVars, AfterFile
<1>0. reaping \subseteq Call \cup {Core}  BY DEF TypeOK
<1>1. ASSUME NEW step, Goto(c, step), step \notin {"pid", "remove"} \cup AfterFile,
             UNCHANGED <<dir, holder, maker, ended, up, run, seen, reaping, overtaken>>
      PROVE  RInv'
  BY <1>0, <1>1, QuietRInv, GotoElse
<1>2. CASE EndCall(c)  BY <1>1, <1>2 DEF EndCall
<1>3. CASE PostUse(c)  BY <1>1, <1>3 DEF PostUse
<1>4. CASE PostRelease(c)  BY <1>4, RemovedRInv DEF PostRelease
<1>5. CASE InterruptCall(c)  BY <1>1, <1>5 DEF InterruptCall
<1>6. QED  BY <1>2, <1>3, <1>4, <1>5

LEMMA SessionRInv ==
  ASSUME TypeOK, RInv, NEW s \in Session,
         EndTurn(s) \/ StopRelease(s) \/ Die(s) \/ Resume(s)
  PROVE  RInv'
<1> USE DEF fileVars, reapVars, procVars, AfterFile
<1>1. CASE EndTurn(s)  BY <1>1, QuietRInv DEF EndTurn
<1>2. CASE StopRelease(s)  BY <1>2, RemovedRInv DEF StopRelease
<1>3. CASE Die(s)
  <2>1. UNCHANGED <<dir, holder, maker, ended, run>>  BY <1>3 DEF Die
  <2>2. Files' /\ RunBound'  BY <2>1 DEF RInv, Files, RunBound
  <2>3. \A d \in reaping' \ overtaken' :
          d \in reaping \ overtaken /\ pc'[d] = pc[d] /\ seen'[d] = seen[d]
    BY <1>3 DEF Die, TypeOK
  <2>4. Stale => Stale'  BY <1>3, <2>1 DEF Die, Stale, IsDead
  <2>5. Over' = Over  BY <2>1 DEF Over
  <2>6. Looks'  BY <2>1, <2>3, <2>4, <2>5 DEF RInv, Looks
  <2>7. QED  BY <2>2, <2>6 DEF RInv
<1>4. CASE Resume(s)
  <2>1. UNCHANGED <<dir, holder, maker, pc, seen, reaping, overtaken>>  BY <1>4 DEF Resume
  <2>2. holder # None => holder \in Session \X (1..MaxRuns)  BY DEF TypeOK
  <2>3. maker # None => maker \in Session \X (1..MaxRuns)  BY DEF TypeOK
  <2>4. ASSUME NEW p \in Session \X (1..MaxRuns), p[2] <= run[p[1]]
        PROVE  p[2] <= run'[p[1]]
    <3>1. p[1] \in Session /\ p[2] \in Nat /\ run[s] \in Nat /\ run[p[1]] \in Nat
      BY ConstantsAssumption DEF TypeOK
    <3>2. run' = [run EXCEPT ![s] = run[s] + 1]  BY <1>4 DEF Resume
    <3>3. run'[p[1]] = IF p[1] = s THEN run[p[1]] + 1 ELSE run[p[1]]
      BY <3>1, <3>2 DEF TypeOK
    <3>4. QED  BY <2>4, <3>1, <3>3
  <2>5. Files' /\ RunBound'  BY <2>1, <2>2, <2>3, <2>4 DEF RInv, Files, RunBound
  <2>6. Stale => Stale'
    <3>1. holder # None /\ IsDead(holder) => IsDead(holder)'
      BY <1>4, <2>1, <2>2, DeadStays DEF RInv, RunBound, IsDead
    <3>2. maker # None /\ IsDead(maker) => IsDead(maker)'
      BY <1>4, <2>1, <2>3, DeadStays DEF RInv, RunBound, IsDead
    <3>3. QED  BY <2>1, <3>1, <3>2 DEF Stale
  <2>7. pc[Core] = "remove" => Over' = Over
    BY <1>4, <2>1 DEF Resume, Over
  <2>8. Looks'  BY <2>1, <2>6, <2>7 DEF RInv, Looks
  <2>9. QED  BY <2>5, <2>8 DEF RInv
<1>5. QED  BY <1>1, <1>2, <1>3, <1>4

LEMMA NextRInv ==
  ASSUME TypeOK, RInv, [Next]_vars
  PROVE  RInv'
<1>1. CASE UNCHANGED vars
  BY <1>1 DEF vars, RInv, Files, RunBound, Looks, Stale, Over, IsDead
<1>2. ASSUME NEW c \in Call, BeginCall(c) \/ Hook(c)
      PROVE  RInv'
  BY <1>2, HookRInv, LookRInv DEF Hook
<1>3. ASSUME NEW c \in Call, EndCall(c) \/ PostUse(c) \/ PostRelease(c) \/ InterruptCall(c)
      PROVE  RInv'
  BY <1>3, ReleaseRInv
<1>4. ASSUME NEW c \in Call \cup {Core}, Reap(c)
      PROVE  RInv'
  BY <1>4, ReapRInv
<1>5. CASE CoreLook
  BY <1>5, LookRInv
<1>6. ASSUME NEW s \in Session, EndTurn(s) \/ StopRelease(s) \/ Die(s) \/ Resume(s)
      PROVE  RInv'
  BY <1>6, SessionRInv
<1>7. CASE ForceRelease
  BY <1>7, RemovedRInv DEF ForceRelease
<1>8. CASE RecordEnds
  <2>1. UNCHANGED <<dir, holder, maker, up, run, seen, pc, reaping, overtaken>>
    BY <1>8 DEF RecordEnds, reapVars, procVars
  <2>2. (Stale => Stale') /\ (Over => Over')
    BY <1>8, <2>1 DEF RecordEnds, Stale, Over, IsDead
  <2>3. QED  BY <2>1, <2>2 DEF RInv, Files, RunBound, Looks
<1>9. QED  BY <1>1, <1>2, <1>3, <1>4, <1>5, <1>6, <1>7, <1>8 DEF Next

LEMMA SpecRInv == Spec => [](TypeOK /\ RInv)
<1>1. Init => TypeOK /\ RInv
  BY InitTypeOK DEF Init, RInv, Files, RunBound, Looks
<1>2. TypeOK /\ RInv /\ [Next]_vars => (TypeOK /\ RInv)'  BY NextTypeOK, NextRInv
<1>3. QED  BY <1>1, <1>2, PTL DEF Spec

(* Unless the lease has been made or written since a reaper took the .reap *)
(* lock, what the reaper is about to remove is dead, or of a session the   *)
(* core has recorded the end of: whatever dies, comes back, is released or *)
(* breaks locks between its reads.                                         *)
THEOREM ReapsOnlyTheDeadHolds == Spec => []ReapsOnlyTheDead
<1>1. TypeOK /\ RInv => ReapsOnlyTheDead
  BY DEF RInv, Looks, ReapsOnlyTheDead
<1>2. QED  BY <1>1, SpecRInv, PTL

-----------------------------------------------------------------------------
(* The lease excludes, under Orderly.                                         *)

(* Where a call stands while its session must hold the lease on disk.      *)
HoldSteps == {"use", "scope", "useHeld", "running", "post", "release"}

Holds(s) == dir /\ holder # None /\ holder[1] = s

(* The dead do nothing. *)
OnlyTheLive ==
  /\ \A c \in Call : pc[c] # "idle" => SessionOf[c] \in up
  /\ stopping \subseteq up /\ relying \subseteq up

Makers ==
  \A c \in Call : pc[c] = "write" /\ SessionOf[c] \notin robbed =>
    dir /\ (maker = Self(c) \/ holder = Self(c))

Holders ==
  \A c \in Call : pc[c] \in HoldSteps /\ SessionOf[c] \notin robbed => Holds(SessionOf[c])

(* What is about to be removed by its session is not counted on any more.  *)
LetGo ==
  /\ \A c \in Call : pc[c] \in {"post", "release"} /\ scope = "command" => SessionOf[c] \notin relying
  /\ \A c \in Call : pc[c] = "release" => scope = "command"

Stopping ==
  \A s \in stopping :
    /\ s \notin relying
    /\ s \notin robbed => Holds(s)
    /\ \A c \in Call : SessionOf[c] = s => pc[c] = "idle"

EInv == Files /\ OnlyTheLive /\ Makers /\ Holders /\ LetGo /\ Stopping /\ GrantedIsHeld

LEMMA InitEInv ==
  ASSUME Init
  PROVE  EInv
BY ConstantsAssumption
   DEF Init, EInv, Files, OnlyTheLive, Makers, Holders, LetGo, Stopping, GrantedIsHeld, HoldSteps

(* Steps of a hook. *)
LEMMA HookEInv ==
  ASSUME Orderly, TypeOK, EInv, NEW c \in Call, BeginCall(c) \/ Hook(c)
  PROVE  EInv'
<1> USE ConstantsAssumption
<1> USE DEF Goto, EInv, Files, OnlyTheLive, Makers, Holders, LetGo, Stopping, Holds,
       GrantedIsHeld, HoldSteps, TypeOK, Orderly, fileVars, reapVars, procVars, Self, Process
<1>1. CASE BeginCall(c)  BY <1>1 DEF BeginCall
<1>2. CASE MakeDir(c)  BY <1>2 DEF MakeDir
<1>3. CASE WriteHolder(c)  BY <1>3 DEF WriteHolder, Grant, RobAs, Owner
<1>4. CASE UseOwn(c)  BY <1>4 DEF UseOwn, Grant
<1>5. CASE ReadHolder(c)  BY <1>5 DEF ReadHolder
<1>6. CASE ReadScope(c)  BY <1>6 DEF ReadScope, Grant
<1>7. CASE UseHeld(c)  BY <1>7 DEF UseHeld, Grant
<1>8. CASE HookLook(c)
  BY <1>8 DEF HookLook, Judge, ReadPid, CheckProcess, ReadStart, CheckStart, Verdict, LookOn
<1>9. CASE WaitMore(c)  BY <1>9 DEF WaitMore
<1>10. CASE Deny(c)  BY <1>10 DEF Deny
<1>11. QED  BY <1>1, <1>2, <1>3, <1>4, <1>5, <1>6, <1>7, <1>8, <1>9, <1>10 DEF Hook

(* Steps of a reaper. Whoever has the lease it removes has been robbed.    *)
LEMMA ReapEInv ==
  ASSUME Orderly, TypeOK, EInv, NEW c \in Call \cup {Core}, Reap(c)
  PROVE  EInv'
<1> USE ConstantsAssumption
<1> USE DEF Goto, EInv, Files, OnlyTheLive, Makers, Holders, LetGo, Stopping, Holds,
       GrantedIsHeld, HoldSteps, TypeOK, Orderly, fileVars, reapVars, procVars, Self, Process
<1>1. CASE TakeReapLock(c)  BY <1>1 DEF TakeReapLock, AfterReap
<1>2. CASE BreakReapLock(c)  BY <1>2 DEF BreakReapLock, AfterReap
<1>3. CASE RemoveStale(c)  BY <1>3 DEF RemoveStale, RemoveDir, Rob, Owner
<1>4. CASE DropReapLock(c)  BY <1>4 DEF DropReapLock, AfterReap
<1>5. QED  BY <1>1, <1>2, <1>3, <1>4 DEF Reap

(* Steps of a call that ends.                                              *)
LEMMA ReleaseEInv ==
  ASSUME Orderly, TypeOK, EInv, NEW c \in Call,
         EndCall(c) \/ PostUse(c) \/ PostRelease(c) \/ InterruptCall(c)
  PROVE  EInv'
<1> USE ConstantsAssumption
<1> USE DEF Goto, EInv, Files, OnlyTheLive, Makers, Holders, LetGo, Stopping, Holds,
       GrantedIsHeld, HoldSteps, TypeOK, Orderly, fileVars, reapVars, procVars, Self, Process
<1>1. CASE EndCall(c)  BY <1>1 DEF EndCall, StopRelying, StillRelying
<1>2. CASE PostUse(c)  BY <1>2 DEF PostUse
<1>3. CASE PostRelease(c)  BY <1>3 DEF PostRelease, RemoveDir, RobAs, Owner
<1>4. CASE InterruptCall(c)  BY <1>4 DEF InterruptCall, StopRelying, StillRelying
<1>5. QED  BY <1>1, <1>2, <1>3, <1>4

(* Steps of a session, and of the core besides its reaper.                 *)
LEMMA SessionEInv ==
  ASSUME Orderly, TypeOK, EInv, NEW s \in Session,
         EndTurn(s) \/ StopRelease(s) \/ Die(s) \/ Resume(s)
  PROVE  EInv'
<1> USE ConstantsAssumption
<1> USE DEF Goto, EInv, Files, OnlyTheLive, Makers, Holders, LetGo, Stopping, Holds,
       GrantedIsHeld, HoldSteps, TypeOK, Orderly, fileVars, reapVars, procVars, Self, Process
<1>1. CASE EndTurn(s)  BY <1>1 DEF EndTurn
<1>2. CASE StopRelease(s)  BY <1>2 DEF StopRelease, RemoveDir, RobAs, Owner
<1>3. CASE Die(s)  BY <1>3 DEF Die
<1>4. CASE Resume(s)  BY <1>4 DEF Resume
<1>5. QED  BY <1>1, <1>2, <1>3, <1>4

LEMMA CoreEInv ==
  ASSUME Orderly, TypeOK, EInv, CoreLook \/ ForceRelease \/ RecordEnds
  PROVE  EInv'
<1> USE ConstantsAssumption
<1> USE DEF Goto, EInv, Files, OnlyTheLive, Makers, Holders, LetGo, Stopping, Holds,
       GrantedIsHeld, HoldSteps, TypeOK, Orderly, fileVars, reapVars, procVars, Self, Process
<1>1. CASE CoreLook  BY <1>1 DEF CoreLook, CoreReads, CoreAsks, Verdict
<1>2. CASE ForceRelease  BY <1>2 DEF ForceRelease, RemoveDir, Rob, Owner
<1>3. CASE RecordEnds  BY <1>3 DEF RecordEnds
<1>4. QED  BY <1>1, <1>2, <1>3

LEMMA NextEInv ==
  ASSUME Orderly, TypeOK, EInv, [Next]_vars
  PROVE  EInv'
<1>1. CASE UNCHANGED vars
  BY <1>1 DEF vars, EInv, Files, OnlyTheLive, Makers, Holders, LetGo, Stopping, Holds,
       GrantedIsHeld, Self, Process
<1>2. ASSUME NEW c \in Call, BeginCall(c) \/ Hook(c)
      PROVE  EInv'
  BY <1>2, HookEInv
<1>3. ASSUME NEW c \in Call, EndCall(c) \/ PostUse(c) \/ PostRelease(c) \/ InterruptCall(c)
      PROVE  EInv'
  BY <1>3, ReleaseEInv
<1>4. ASSUME NEW c \in Call \cup {Core}, Reap(c)
      PROVE  EInv'
  BY <1>4, ReapEInv
<1>5. CASE CoreLook \/ ForceRelease \/ RecordEnds
  BY <1>5, CoreEInv
<1>6. ASSUME NEW s \in Session, EndTurn(s) \/ StopRelease(s) \/ Die(s) \/ Resume(s)
      PROVE  EInv'
  BY <1>6, SessionEInv
<1>7. QED  BY <1>1, <1>2, <1>3, <1>4, <1>5, <1>6 DEF Next

LEMMA SpecEInv ==
  ASSUME Orderly
  PROVE  Spec => [](TypeOK /\ EInv)
<1>1. Init => TypeOK /\ EInv  BY InitTypeOK, InitEInv
<1>2. TypeOK /\ EInv /\ [Next]_vars => (TypeOK /\ EInv)'  BY NextTypeOK, NextEInv
<1>3. QED  BY <1>1, <1>2, PTL DEF Spec

(* A session that was granted the lease holds it on disk until it lets go, *)
(* unless a reaper or the user took it: no hook of another session does,   *)
(* in whatever order their calls and the deaths between them come.         *)
THEOREM GrantedIsHeldHolds ==
  ASSUME Orderly
  PROVE  Spec => []GrantedIsHeld
<1>1. TypeOK /\ EInv => GrantedIsHeld  BY DEF EInv
<1>2. QED  BY <1>1, SpecEInv, PTL

(* Of the sessions whose lease nobody took, two never count on it at once: *)
(* there is one holder.json.                                               *)
THEOREM MutualExclusionHolds ==
  ASSUME Orderly
  PROVE  Spec => []MutualExclusion
<1>1. TypeOK /\ EInv => MutualExclusion
  BY DEF EInv, GrantedIsHeld, MutualExclusion
<1>2. QED  BY <1>1, SpecEInv, PTL
=============================================================================
