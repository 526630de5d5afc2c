------------------------------ MODULE LeaseDir ------------------------------
(***************************************************************************)
(* One exclusive-resource lease: a directory whose mkdir is the atomic     *)
(* acquire, holder.json inside it, and a sibling .reap directory that      *)
(* locks its removal when the holder has died. Nothing serialises the      *)
(* processes that use it but the file system: every session's hook script  *)
(* (src/src/claude/leaseHook.ts), for each of its tool calls, and the core *)
(* (src/src/core/leases/leaseService.ts). A step here is one call to the   *)
(* file system or to ps, or several that nothing between them could tell   *)
(* apart; the look at a holder, by which a lease is reaped, is one step    *)
(* for each thing it reads.                                                *)
(*                                                                         *)
(* Ages are modelled by what they stand for: a lease without a holder, or  *)
(* a .reap lock, is older than a minute only if the process that made it   *)
(* is gone. A session that dies takes its hooks with it. The core takes no *)
(* step of its own between looking at a lease and dropping the .reap lock, *)
(* but other processes do.                                                 *)
(***************************************************************************)
EXTENDS Integers, FiniteSets

CONSTANTS
  Session,     \* session ids
  Call,        \* tool calls that may be under way at once
  SessionOf,   \* the session each call belongs to
  Scopes,      \* the scopes the resource may be declared with: "command", "turn"
  Core,        \* the core's reaper
  None,        \* nobody; no holder.json
  MaxRuns,     \* bound: processes a session id has, one after another
  Resumed      \* bound: the sessions that may be resumed

ASSUME ConstantsAssumption ==
  /\ SessionOf \in [Call -> Session]
  /\ Scopes \subseteq {"command", "turn"}
  /\ MaxRuns \in Nat \ {0} /\ Resumed \subseteq Session
  /\ Core \notin Call
  /\ None \notin Call \cup {Core} /\ None \notin Session \X (1..MaxRuns)

VARIABLES
  dir,        \* the lease directory exists
  holder,     \* holder.json: the session and the process (pid, start time) it names
  maker,      \* who made the directory, while it has no holder.json
  uses,       \* the files under uses/
  ended,      \* the registry has recorded an end of the holder's session since it took the lease
  reapLock,   \* who made the .reap directory, or None
  reaping,    \* reapers that made it and are at work under it
  seen,       \* the process a look at holder.json has read there, while it goes on
  up,         \* sessions whose claude process runs
  run,        \* which process of its session that is, or was
  scope,      \* the scope the resource is declared with
  pc,         \* where each call's hook stands, and the core's reaper
  stopping,   \* sessions whose Stop hook is about to remove the lease
  relying,    \* history: sessions that were granted the lease and still need it
  robbed,     \* history: sessions that had the lease taken from them, and have not made it anew
  overtaken   \* history: reapers at work under .reap since when the lease was made or written

vars == <<dir, holder, maker, uses, ended, reapLock, reaping, seen, up, run, scope,
          pc, stopping, relying, robbed, overtaken>>
fileVars == <<dir, holder, maker, uses, ended>>
reapVars == <<reapLock, reaping, seen>>
procVars == <<up, run, scope>>

Process(s) == <<s, run[s]>>
Self(c) == Process(SessionOf[c])
IsDead(p) == p[1] \notin up \/ run[p[1]] # p[2]

LookSteps == {"judge", "pid", "process", "start", "age"}
HookSteps == {"mkdir", "write", "use", "read", "scope", "useHeld", "wait"}
ReapSteps == {"lock", "break", "remove", "unlock"} \cup LookSteps
CallSteps == HookSteps \cup ReapSteps \cup {"idle", "running", "post", "release"}

Goto(c, step) == pc' = [pc EXCEPT ![c] = step]

Init ==
  /\ dir = FALSE /\ holder = None /\ maker = None /\ uses = {} /\ ended = FALSE
  /\ reapLock = None /\ reaping = {} /\ seen = [c \in Call \cup {Core} |-> None]
  /\ up = Session /\ run = [s \in Session |-> 1]
  /\ scope \in Scopes
  /\ pc = [c \in Call \cup {Core} |-> "idle"]
  /\ stopping = {} /\ relying = {} /\ robbed = {} /\ overtaken = {}

(* rm -rf of the directory, whoever's it is by now.                        *)
RemoveDir ==
  /\ dir' = FALSE /\ holder' = None /\ maker' = None /\ uses' = {} /\ ended' = FALSE

(* The session that has the lease, or is making it, and runs.              *)
Owner == {p[1] : p \in {holder, maker} \ {None}} \cap up

(* Somebody who is not its session takes the lease.                        *)
Rob == robbed' = robbed \cup Owner

(* Session s removes the lease or writes itself into it. What it does to   *)
(* another's is put down to whoever took its own from it, if anybody did.  *)
RobAs(s) == robbed' = IF s \in robbed THEN robbed \cup (Owner \ {s}) ELSE robbed

(* A reaper at work has looked at another lease than this one.             *)
Overtake == overtaken' = reaping

-----------------------------------------------------------------------------
(* PreToolUse: the hook of a call acquires the lease, or finds it is its    *)
(* session's already, or waits, or denies the call.                        *)

BeginCall(c) ==
  /\ pc[c] = "idle"
  /\ SessionOf[c] \in up \ stopping
  /\ Goto(c, "mkdir")
  /\ UNCHANGED <<fileVars, reapVars, procVars, stopping, relying, robbed, overtaken>>

(* Mutant: `mkdir -p`. *)
MutMakeDir(c) ==
  /\ pc[c] = "mkdir"
  /\ dir' = TRUE /\ maker' = (IF holder = None THEN Self(c) ELSE None)
  /\ Goto(c, "write")
  /\ Overtake
  /\ UNCHANGED <<holder, uses, ended, reapVars, procVars, stopping, relying, robbed>>

MakeDir(c) ==
  /\ pc[c] = "mkdir"
  /\ IF dir
       THEN /\ Goto(c, "read")
            /\ UNCHANGED <<dir, maker, overtaken>>
       ELSE /\ dir' = TRUE /\ maker' = Self(c)
            /\ Goto(c, "write")
            /\ Overtake
  /\ UNCHANGED <<holder, uses, ended, reapVars, procVars, stopping, relying, robbed>>

(* The call goes on to the permission flow, counting on the lease.          *)
Grant(c) ==
  /\ Goto(c, "running")
  /\ relying' = relying \cup {SessionOf[c]}

(* holder.json is moved into place; a turn lease needs nothing more. The    *)
(* lease is newer than any end the registry has recorded.                  *)
WriteHolder(c) ==
  /\ pc[c] = "write"
  /\ IF dir
       THEN holder' = Self(c) /\ maker' = None /\ ended' = FALSE /\ Overtake
       ELSE UNCHANGED <<holder, maker, ended, overtaken>>
  /\ IF dir /\ maker = Self(c)
       THEN robbed' = robbed \ {SessionOf[c]}
       ELSE RobAs(SessionOf[c])
  /\ IF scope = "command"
       THEN Goto(c, "use") /\ UNCHANGED relying
       ELSE Grant(c)
  /\ UNCHANGED <<dir, uses, reapVars, procVars, stopping>>

(* `use` on the lease this call has just made: its failure is not looked at. *)
UseOwn(c) ==
  /\ pc[c] = "use"
  /\ uses' = IF dir /\ holder # None THEN uses \cup {c} ELSE uses
  /\ Grant(c)
  /\ UNCHANGED <<dir, holder, maker, ended, reapVars, procVars, stopping, robbed, overtaken>>

(* The directory was there: whose is it? *)
ReadHolder(c) ==
  /\ pc[c] = "read"
  /\ IF holder # None /\ holder[1] = SessionOf[c]
       THEN Goto(c, "scope")
       ELSE Goto(c, "judge")
  /\ UNCHANGED <<fileVars, reapVars, procVars, stopping, relying, robbed, overtaken>>

(* Its own session's: the scope is read from holder.json. A command lease   *)
(* is then used; of any other scope, an unreadable one included, `use` has  *)
(* nothing to do and succeeds.                                             *)
ReadScope(c) ==
  /\ pc[c] = "scope"
  /\ IF holder # None /\ scope = "command"
       THEN Goto(c, "useHeld") /\ UNCHANGED relying
       ELSE Grant(c)
  /\ UNCHANGED <<fileVars, reapVars, procVars, stopping, robbed, overtaken>>

(* `use` on a lease found held: fails if it was released meanwhile.         *)
UseHeld(c) ==
  /\ pc[c] = "useHeld"
  /\ IF dir /\ holder # None
       THEN uses' = uses \cup {c} /\ Grant(c)
       ELSE Goto(c, "mkdir") /\ UNCHANGED <<uses, relying>>
  /\ UNCHANGED <<dir, holder, maker, ended, reapVars, procVars, stopping, robbed, overtaken>>

(* Try again after half a second; past the deadline, or cancelled by the    *)
(* user, the call is denied.                                               *)
WaitMore(c) ==
  /\ pc[c] = "wait"
  /\ Goto(c, "mkdir")
  /\ UNCHANGED <<fileVars, reapVars, procVars, stopping, relying, robbed, overtaken>>

Deny(c) ==
  /\ pc[c] = "wait"
  /\ Goto(c, "idle")
  /\ UNCHANGED <<fileVars, reapVars, procVars, stopping, relying, robbed, overtaken>>

-----------------------------------------------------------------------------
(* Is the holder of the lease alive? Asked before a reaper takes the .reap  *)
(* lock and asked again under it, in reads that others come between.       *)

(* The lease needs no reading: its holder's process is gone, or nobody will *)
(* write its holder.json.                                                  *)
Stale == IF holder = None THEN maker # None /\ IsDead(maker) ELSE IsDead(holder)

(* The core's registry says the session that holds it is over, whether its *)
(* process lives or not.                                                   *)
Over == holder # None /\ ended

(* A look has come to its end.                                             *)
Verdict(c, dead) ==
  /\ seen' = [seen EXCEPT ![c] = None]
  /\ \/ c \in reaping /\ Goto(c, IF dead THEN "remove" ELSE "unlock")
     \/ c \notin reaping /\ dead /\ Goto(c, "lock")
     \/ c \notin reaping /\ ~dead /\ Goto(c, IF c = Core THEN "idle" ELSE "wait")

LookOn(c, step) == Goto(c, step) /\ UNCHANGED seen

(* Is there a directory, and a holder.json? Without it, how old?            *)
Judge(c) ==
  /\ pc[c] = "judge"
  /\ IF dir /\ holder # None THEN LookOn(c, "pid") ELSE Verdict(c, dir /\ Stale)

(* The pid in holder.json. Not there: taken for dead.                       *)
ReadPid(c) ==
  /\ pc[c] = "pid"
  /\ IF holder = None
       THEN Verdict(c, TRUE)
       ELSE seen' = [seen EXCEPT ![c] = holder] /\ Goto(c, "process")

(* kill -0 *)
CheckProcess(c) ==
  /\ pc[c] = "process"
  /\ IF IsDead(seen[c]) THEN Verdict(c, TRUE) ELSE LookOn(c, "start")

(* The start time in holder.json. Not there: taken for alive. That of       *)
(* another process than the one whose pid was read will not fit.           *)
ReadStart(c) ==
  /\ pc[c] = "start"
  /\ IF holder = seen[c] THEN LookOn(c, "age") ELSE Verdict(c, holder # None)

(* The start time of the process.                                          *)
CheckStart(c) ==
  /\ pc[c] = "age"
  /\ Verdict(c, IsDead(seen[c]))

HookLook(c) ==
  /\ Judge(c) \/ ReadPid(c) \/ CheckProcess(c) \/ ReadStart(c) \/ CheckStart(c)
  /\ UNCHANGED <<fileVars, reapLock, reaping, procVars, stopping, relying, robbed, overtaken>>

(* The core goes through the lease directories every few seconds, and looks *)
(* again under the lock. It reads the whole of holder.json, then asks its   *)
(* registry, which is its own, and then for the process.                    *)
CoreReads ==
  /\ pc[Core] = "judge" \/ (pc[Core] = "idle" /\ dir)
  /\ IF holder # None /\ ~Over
       THEN seen' = [seen EXCEPT ![Core] = holder] /\ Goto(Core, "process")
       ELSE Verdict(Core, dir /\ (Over \/ Stale))

CoreAsks ==
  /\ pc[Core] = "process"
  /\ Verdict(Core, dir /\ IsDead(seen[Core]))

CoreLook ==
  /\ CoreReads \/ CoreAsks
  /\ UNCHANGED <<fileVars, reapLock, reaping, procVars, stopping, relying, robbed, overtaken>>

-----------------------------------------------------------------------------
(* Reaping, by a hook (c \in Call) or by the core, under the .reap lock. A   *)
(* lock left by a reaper that died is removed.                             *)

(* Mutant: the core goes on as a hook does. *)
MutAfterReapCore(c) == IF dir THEN "wait" ELSE "mkdir"

(* Mutant: tries the reap again at once instead of waiting. *)
MutAfterReapHasty(c) == IF c = Core THEN "idle" ELSE IF dir THEN "lock" ELSE "mkdir"

(* A hook waits only if the lease is still there. *)
AfterReap(c) == IF c = Core THEN "idle" ELSE IF dir THEN "wait" ELSE "mkdir"

ReaperIsGone == reapLock # Core /\ reapLock \notin reaping

(* Mutant: not looked at again under the lock. *)
MutTakeReapLockBlind(c) ==
  /\ pc[c] = "lock"
  /\ \/ /\ reapLock = None
        /\ reapLock' = c /\ reaping' = reaping \cup {c}
        /\ Goto(c, "remove")
     \/ /\ reapLock # None /\ ReaperIsGone
        /\ Goto(c, "break")
        /\ UNCHANGED <<reapLock, reaping>>
     \/ /\ reapLock # None /\ ~ReaperIsGone
        /\ Goto(c, AfterReap(c))
        /\ UNCHANGED <<reapLock, reaping>>
  /\ UNCHANGED <<fileVars, seen, procVars, stopping, relying, robbed, overtaken>>

(* Mutant: a lock left behind is never removed. *)
MutTakeReapLock(c) ==
  /\ pc[c] = "lock"
  /\ IF reapLock = None
       THEN /\ reapLock' = c /\ reaping' = reaping \cup {c}
            /\ Goto(c, "judge")
       ELSE Goto(c, AfterReap(c)) /\ UNCHANGED <<reapLock, reaping>>
  /\ UNCHANGED <<fileVars, seen, procVars, stopping, relying, robbed, overtaken>>

TakeReapLock(c) ==
  /\ pc[c] = "lock"
  /\ \/ /\ reapLock = None
        /\ reapLock' = c /\ reaping' = reaping \cup {c}
        /\ Goto(c, "judge")
     \/ /\ reapLock # None /\ ReaperIsGone
        /\ Goto(c, "break")
        /\ UNCHANGED <<reapLock, reaping>>
     \/ /\ reapLock # None /\ ~ReaperIsGone
        /\ Goto(c, AfterReap(c))
        /\ UNCHANGED <<reapLock, reaping>>
  /\ UNCHANGED <<fileVars, seen, procVars, stopping, relying, robbed, overtaken>>

(* rm -rf of the lock found old, whoever's it is by now.                    *)
BreakReapLock(c) ==
  /\ pc[c] = "break"
  /\ reapLock' = None
  /\ Goto(c, AfterReap(c))
  /\ UNCHANGED <<fileVars, reaping, seen, procVars, stopping, relying, robbed, overtaken>>

RemoveStale(c) ==
  /\ pc[c] = "remove"
  /\ RemoveDir
  /\ Rob
  /\ Goto(c, "unlock")
  /\ UNCHANGED <<reapVars, procVars, stopping, relying, overtaken>>

DropReapLock(c) ==
  /\ pc[c] = "unlock"
  /\ reapLock' = None
  /\ reaping' = reaping \ {c} /\ overtaken' = overtaken \ {c}
  /\ Goto(c, AfterReap(c))
  /\ UNCHANGED <<fileVars, seen, procVars, stopping, relying, robbed>>

-----------------------------------------------------------------------------
(* Releasing.                                                              *)

StillRelying(c) ==
  scope = "turn" \/ \E d \in Call \ {c} : SessionOf[d] = SessionOf[c] /\ pc[d] = "running"

StopRelying(c) == relying' = IF StillRelying(c) THEN relying ELSE relying \ {SessionOf[c]}

(* PostToolUse, PostToolUseFailure, or PermissionDenied of a call that took *)
(* its lease: its use goes, then the lease if it is a command lease of this *)
(* session that nobody uses.                                               *)
EndCall(c) ==
  /\ pc[c] = "running"
  /\ SessionOf[c] \in up
  /\ StopRelying(c)
  /\ Goto(c, "post")
  /\ UNCHANGED <<fileVars, reapVars, procVars, stopping, robbed, overtaken>>

PostUse(c) ==
  /\ pc[c] = "post"
  /\ uses' = uses \ {c}
  /\ Goto(c, IF /\ holder # None /\ holder[1] = SessionOf[c]
                /\ scope = "command" /\ uses \ {c} = {}
             THEN "release" ELSE "idle")
  /\ UNCHANGED <<dir, holder, maker, ended, reapVars, procVars, stopping, relying, robbed, overtaken>>

PostRelease(c) ==
  /\ pc[c] = "release"
  /\ RemoveDir
  /\ RobAs(SessionOf[c])
  /\ Goto(c, "idle")
  /\ UNCHANGED <<reapVars, procVars, stopping, relying, overtaken>>

(* An interrupted call fires no hook: its use stays behind until the turn ends. *)
InterruptCall(c) ==
  /\ pc[c] = "running"
  /\ StopRelying(c)
  /\ Goto(c, "idle")
  /\ UNCHANGED <<fileVars, reapVars, procVars, stopping, robbed, overtaken>>

(* Mutant: the turn's end takes the lease whoever holds it. *)
MutEndTurn(s) ==
  /\ s \in up \ stopping
  /\ \A c \in Call : SessionOf[c] = s => pc[c] = "idle"
  /\ holder # None
  /\ stopping' = stopping \cup {s}
  /\ relying' = relying \ {s}
  /\ UNCHANGED <<fileVars, reapVars, procVars, pc, robbed, overtaken>>

(* Stop, StopFailure: the turn is over and no call of it still runs. The     *)
(* session's lease goes, of either scope.                                  *)
EndTurn(s) ==
  /\ s \in up \ stopping
  /\ \A c \in Call : SessionOf[c] = s => pc[c] = "idle"
  /\ holder # None /\ holder[1] = s
  /\ stopping' = stopping \cup {s}
  /\ relying' = relying \ {s}
  /\ UNCHANGED <<fileVars, reapVars, procVars, pc, robbed, overtaken>>

StopRelease(s) ==
  /\ s \in stopping
  /\ RemoveDir
  /\ RobAs(s)
  /\ stopping' = stopping \ {s}
  /\ UNCHANGED <<reapVars, procVars, pc, relying, overtaken>>

(* The user's Release, from the core: no lock, and nobody is asked.         *)
ForceRelease ==
  /\ pc[Core] = "idle"
  /\ dir /\ holder # None
  /\ RemoveDir
  /\ Rob
  /\ UNCHANGED <<reapVars, procVars, pc, stopping, relying, overtaken>>

-----------------------------------------------------------------------------
(* Sessions end, and may be resumed under the same id in a new process.     *)

(* The registry records the end of the session that holds the lease, with   *)
(* its process gone or not: an agent outlives a lost host, or takes its     *)
(* time to close.                                                          *)
RecordEnds ==
  /\ pc[Core] = "idle"
  /\ holder # None /\ ~ended
  /\ ended' = TRUE
  /\ UNCHANGED <<dir, holder, maker, uses, reapVars, procVars, pc, stopping, relying, robbed, overtaken>>

Die(s) ==
  /\ s \in up
  /\ up' = up \ {s}
  /\ LET itsCalls == {c \in Call : SessionOf[c] = s} IN
       /\ pc' = [c \in DOMAIN pc |-> IF c \in itsCalls THEN "idle" ELSE pc[c]]
       /\ seen' = [c \in DOMAIN seen |-> IF c \in itsCalls THEN None ELSE seen[c]]
       /\ reaping' = reaping \ itsCalls /\ overtaken' = overtaken \ itsCalls
  /\ stopping' = stopping \ {s}
  /\ relying' = relying \ {s} /\ robbed' = robbed \ {s}
  /\ UNCHANGED <<fileVars, reapLock, run, scope>>

(* In a terminal, where the registry does not see it, or by the core, which *)
(* records the session as running.                                         *)
Resume(s) ==
  /\ s \in Resumed \ up
  /\ run[s] < MaxRuns
  /\ up' = up \cup {s}
  /\ run' = [run EXCEPT ![s] = @ + 1]
  /\ \/ UNCHANGED ended
     \/ pc[Core] = "idle" /\ holder # None /\ holder[1] = s /\ ended' = FALSE
  /\ UNCHANGED <<dir, holder, maker, uses, reapVars, scope, pc, stopping, relying, robbed, overtaken>>

-----------------------------------------------------------------------------
Hook(c) ==
  \/ MakeDir(c) \/ WriteHolder(c) \/ UseOwn(c)
  \/ ReadHolder(c) \/ ReadScope(c) \/ UseHeld(c)
  \/ HookLook(c) \/ WaitMore(c) \/ Deny(c)

Reap(c) == TakeReapLock(c) \/ BreakReapLock(c) \/ RemoveStale(c) \/ DropReapLock(c)

Next ==
  \/ \E c \in Call : BeginCall(c) \/ Hook(c)
  \/ \E c \in Call : EndCall(c) \/ PostUse(c) \/ PostRelease(c) \/ InterruptCall(c)
  \/ \E c \in Call \cup {Core} : Reap(c)
  \/ CoreLook
  \/ ForceRelease \/ RecordEnds
  \/ \E s \in Session : EndTurn(s) \/ StopRelease(s) \/ Die(s) \/ Resume(s)

(* A hook is a script that runs to its end, its deadline passes while it    *)
(* waits, and the core's reaper looks every few seconds. Calls need not be  *)
(* made, and one that runs need not end. A hook looks at its deadline only  *)
(* when it waits: that it does not find the lease gone and lose the race    *)
(* to make it for ever is asked of the scheduler (MakesIt).                 *)
MakesIt(c) == ~dir /\ MakeDir(c)

Fairness ==
  /\ \A c \in Call : /\ WF_vars(Hook(c) \/ Reap(c) \/ PostUse(c) \/ PostRelease(c))
                     /\ SF_vars(Deny(c) \/ MakesIt(c))
  /\ WF_vars(CoreLook \/ Reap(Core))
  /\ \A s \in Session : WF_vars(StopRelease(s))

Spec == Init /\ [][Next]_vars /\ Fairness

-----------------------------------------------------------------------------
TypeOK ==
  /\ dir \in BOOLEAN /\ ended \in BOOLEAN
  /\ holder \in (Session \X (1..MaxRuns)) \cup {None}
  /\ maker \in (Session \X (1..MaxRuns)) \cup {None}
  /\ uses \subseteq Call
  /\ reapLock \in Call \cup {Core, None}
  /\ reaping \subseteq Call \cup {Core} /\ overtaken \subseteq reaping
  /\ seen \in [Call \cup {Core} -> (Session \X (1..MaxRuns)) \cup {None}]
  /\ up \subseteq Session
  /\ run \in [Session -> 1..MaxRuns]
  /\ scope \in Scopes
  /\ pc \in [Call \cup {Core} -> CallSteps] /\ pc[Core] \in ReapSteps \cup {"idle"}
  /\ stopping \subseteq Session
  /\ relying \subseteq Session /\ robbed \subseteq Session

(* Of the sessions whose lease nobody has taken from them, two never count  *)
(* on it at once: a call runs under it, or a turn goes on with it, in one   *)
(* session only (leaseHook.ts:92-96, shared/leases.ts:1-11).                *)
MutualExclusion == \A s, t \in relying \ robbed : s = t

(* A session that was granted the lease has it on disk, in its own name,    *)
(* until it lets go or a reaper or the user takes it: no hook of another    *)
(* session does (leaseHook.ts:149-176), unless its own was taken while it   *)
(* was about to release it.                                                *)
GrantedIsHeld ==
  \A s \in relying \ robbed : dir /\ holder # None /\ holder[1] = s

(* What a reaper is about to remove is dead, or of a session the core has   *)
(* recorded the end of, if nobody has made or written the lease since the   *)
(* reaper took the .reap lock (leaseHook.ts:137-140).                       *)
ReapsOnlyTheDead ==
  \A c \in reaping \ overtaken :
    pc[c] = "remove" /\ dir => Stale \/ (c = Core /\ Over)

(* "nobody can replace a lease while it exists, so the check cannot be      *)
(* overtaken" (leaseHook.ts:135-136, of the hook): what it is about to      *)
(* remove is dead.                                                         *)
NotOvertaken ==
  \A c \in reaping \ {Core} : pc[c] = "remove" /\ dir => Stale

(* A hook ends: the call is let go or denied, however often the lease       *)
(* changes hands meanwhile (leaseHook.ts:230-291).                          *)
HookEnds == \A c \in Call : []<>(pc[c] \in {"running", "idle"})

(* The lease of a session that died is not kept for ever                    *)
(* (leaseService.ts:308-323).                                              *)
DeadLeaseGoes == []<>~(dir /\ Stale)
=============================================================================
