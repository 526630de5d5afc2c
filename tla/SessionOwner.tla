---------------------------- MODULE SessionOwner ----------------------------
(* One Claude conversation, and every process that may run it: the agents   *)
(* of session hosts, started one after another, and any `claude` somebody   *)
(* runs in a terminal. The CLI has no lock of its own, and two processes on *)
(* one id fork its transcript, so the core sweeps before it resumes:        *)
(* whatever runs the id is accounted for, and the agent of a host that died *)
(* is ended and waited for. Hosts outlive the core; what they leave (a      *)
(* manifest, an exit record) and the registry's record tell the next core   *)
(* what became of the session, and whether to bring it back by itself.      *)
(* Nothing is held while a resume is on its way: `crossed` keeps what has   *)
(* come between that the code does nothing to keep apart.                   *)
(*                                                                          *)
(* core/session/orphanSweep.ts, hostSupervisor.ts, recovery.ts and          *)
(* sessionRegistry.ts, as app/createApp.ts and claude/runner/               *)
(* runnerService.ts call them; sessionHost/main.ts for what a host writes.  *)
EXTENDS Integers, FiniteSets

CONSTANTS
  Terminal,  \* processes of `claude` in terminals
  MaxHosts,  \* bound: hosts ever started for the session
  MaxStops,  \* bound: times the core stops, by itself or with the machine
  None,
  Overlaps   \* bound: what may come between (Kinds)

Kinds ==
  {"resumes",   \* two resumes at once: the user's and the automatic one
   "closes",    \* a resume, and a close that has not come to its end
   "terminal",  \* a resume or its launch, and a process started in a terminal
   "launch",    \* a launch, and the death of its host or of the core
   "unread"}    \* a sweep, and an entry of the CLI's registry it cannot read, or is too early for

Host == 1..MaxHosts
Proc == Host \cup Terminal

ASSUME OwnerAssumption ==
  /\ MaxHosts \in Nat /\ MaxStops \in Nat /\ Overlaps \subseteq Kinds
  /\ Terminal \cap Host = {} /\ None \notin Proc
  /\ None \notin {"ended", "failed", "stopped", "idle", "signal", "crashed"}

VARIABLES
  started,    \* hosts spawned so far: 1..started
  host,       \* each host's process: none, starting, up, gone
  alive,      \* the agents that run (Proc)
  spawned,    \* the hosts that have spawned their agent
  listed,     \* the processes with a sessions/<pid>.json of their own
  files,      \* the hosts whose manifest is on disk
  recorded,   \* the manifests that name their agent (pid and start time)
  exit,       \* each manifest's exit record
  asked,      \* why a host is ending its session, when it was told to
  booted,     \* the hosts that started before the machine last booted
  killed,     \* the processes sent SIGKILL
  core,       \* the core daemon runs
  view,       \* how the core follows each host: none, following, closing, quitting, ended
  rec,        \* the registry's record of the session
  sweep,      \* the sweep in flight
  adopt,      \* how far the user's Resume or Take over is
  taking,     \* the process a Take over is ending
  auto,       \* how far the automatic resume of this start is
  forgetting, \* lost hosts whose manifest goes once this start's sweep is clear
  stops,      \* times the core stopped
  crossed     \* history: what has come between

procVars == <<host, alive, spawned, listed, asked, booted>>
diskVars == <<files, recorded, exit>>
resumeVars == <<adopt, taking, auto>>
coreVars == <<core, view, sweep, resumeVars, forgetting, stops>>
vars == <<started, procVars, diskVars, killed, rec, coreVars, crossed>>

(* The kinds of S come between now.                                         *)
Crossing(S) == S \subseteq Overlaps /\ crossed' = crossed \cup S
When(kind, cond) == IF cond THEN {kind} ELSE {}

-----------------------------------------------------------------------------
(* What the core reads fresh from manifests and processes.                 *)

Running(h) == host[h] \in {"starting", "up"}
Held == \E h \in files : host[h] = "up"
HeldAgents == {h \in files \cap recorded : host[h] = "up"}
LostAgents == {h \in files \cap recorded : host[h] = "gone"}

(* Mutant: what runs in a terminal is not looked at.                       *)
MutVisible == (alive \cap listed) \ Terminal

(* The processes with an entry in the CLI's own registry.                  *)
Visible == alive \cap listed
Ending(h) == view[h] \in {"closing", "quitting"}
Owned == \E h \in Host : view[h] = "following" \/ (Ending(h) /\ Running(h))

(* An agent that is not yet where the sweep looks.                         *)
Unseen(h) == h \in alive \ (listed \cap recorded)

-----------------------------------------------------------------------------
(* A host and its agent.                                                   *)

(* The host listens, then writes its manifest.                              *)
HostReady(h) ==
  /\ host[h] = "starting"
  /\ host' = [host EXCEPT ![h] = "up"]
  /\ files' = files \cup {h}
  /\ UNCHANGED <<started, alive, spawned, listed, asked, booted, recorded, exit, killed, rec, coreVars, crossed>>

SpawnAgent(h) ==
  /\ host[h] = "up" /\ h \notin spawned /\ asked[h] = None
  /\ spawned' = spawned \cup {h} /\ alive' = alive \cup {h}
  /\ UNCHANGED <<started, host, listed, asked, booted, diskVars, killed, rec, coreVars, crossed>>

(* The host hears of the spawn and writes the agent's pid and start time.  *)
RecordAgent(h) ==
  /\ host[h] = "up" /\ h \in spawned \ recorded
  /\ recorded' = recorded \cup {h}
  /\ UNCHANGED <<started, procVars, files, exit, killed, rec, coreVars, crossed>>

(* The CLI writes its own entry.                                            *)
ListAgent(h) ==
  /\ h \in alive \ listed
  /\ listed' = listed \cup {h}
  /\ UNCHANGED <<started, host, alive, spawned, asked, booted, diskVars, killed, rec, coreVars, crossed>>

(* A process on the session ends: it finished, failed, or was signalled. An *)
(* orphan exits at once if idle, or after its turn.                         *)
AgentEnds(p) ==
  /\ p \in alive
  /\ alive' = alive \ {p}
  /\ UNCHANGED <<started, host, spawned, listed, asked, booted, diskVars, killed, rec, coreVars, crossed>>

(* The session is over and the host says so on disk; an end it was asked    *)
(* for is reported as that, sometimes before the agent has gone.            *)
WriteExit(h) ==
  /\ host[h] = "up" /\ exit[h] = None
  /\ \/ asked[h] # None /\ exit' = [exit EXCEPT ![h] = asked[h]]
     \/ /\ asked[h] = None /\ h \in spawned \ alive
        /\ \E why \in {"ended", "failed"} : exit' = [exit EXCEPT ![h] = why]
  /\ UNCHANGED <<started, procVars, files, recorded, killed, rec, coreVars, crossed>>

(* Once the news was drained the host goes, and takes its agent with it.    *)
HostLeaves(h) ==
  /\ host[h] = "up" /\ exit[h] # None
  /\ host' = [host EXCEPT ![h] = "gone"]
  /\ alive' = alive \ {h}
  /\ UNCHANGED <<started, spawned, listed, asked, booted, diskVars, killed, rec, coreVars, crossed>>

(* SIGKILL, out of memory: no record, and the agent is left behind.         *)
HostKilled(h) ==
  /\ host[h] = "up"
  /\ Crossing(When("launch", Unseen(h)))
  /\ host' = [host EXCEPT ![h] = "gone"]
  /\ UNCHANGED <<started, alive, spawned, listed, asked, booted, diskVars, killed, rec, coreVars>>

(* An uncaught error: the agent is sent SIGTERM, and a record is written.   *)
HostCrashes(h) ==
  /\ host[h] = "up"
  /\ Crossing(When("launch", Unseen(h)))
  /\ host' = [host EXCEPT ![h] = "gone"]
  /\ exit' = [exit EXCEPT ![h] = IF @ = None THEN "crashed" ELSE @]
  /\ UNCHANGED <<started, alive, spawned, listed, asked, booted, files, recorded, killed, rec, coreVars>>

(* It never came up.                                                        *)
HostFails(h) ==
  /\ host[h] = "starting"
  /\ host' = [host EXCEPT ![h] = "gone"]
  /\ UNCHANGED <<started, alive, spawned, listed, asked, booted, diskVars, killed, rec, coreVars, crossed>>

(* A logout signals the host; an idle one nobody connects to parks itself.  *)
HostTold(h) ==
  /\ host[h] = "up" /\ asked[h] = None /\ exit[h] = None
  /\ \/ asked' = [asked EXCEPT ![h] = "signal"]
     \/ ~core /\ h \in listed /\ asked' = [asked EXCEPT ![h] = "idle"]
  /\ UNCHANGED <<started, host, alive, spawned, listed, booted, diskVars, killed, rec, coreVars, crossed>>

-----------------------------------------------------------------------------
(* Starting hosts, and the sweep every resume waits for.                   *)

(* Mutant: a spawned host is not counted.                                   *)
MutLaunch(n) ==
  /\ UNCHANGED started
  /\ host' = [h \in Host |-> IF h \in started+1..started+n THEN "starting" ELSE host[h]]
  /\ view' = [h \in Host |-> IF h \in started+1..started+n THEN "following" ELSE view[h]]
  /\ rec' = IF n > 0 THEN "live" ELSE rec

(* Spawn n hosts, follow them and record the session live.                  *)
Launch(n) ==
  LET new == started+1..started+n
  IN  /\ started' = started + n
      /\ host' = [h \in Host |-> IF h \in new THEN "starting" ELSE host[h]]
      /\ view' = [h \in Host |-> IF h \in new THEN "following" ELSE view[h]]
      /\ rec' = IF n > 0 THEN "live" ELSE rec

(* One sweep at a time: a second caller shares the one in flight.           *)
JoinSweep ==
  sweep' = IF sweep # None THEN sweep ELSE [step |-> "read", found |-> {}, blocked |-> FALSE]

(* An entry, or the directory, that cannot be read is as good as not there. *)
SweepReads ==
  /\ core /\ sweep # None /\ sweep.step = "read"
  /\ \E S \in SUBSET Visible :
       /\ sweep' = [sweep EXCEPT !.step = "judge", !.found = S]
       /\ Crossing(When("unread", S # Visible))
  /\ UNCHANGED <<started, procVars, diskVars, killed, rec, core, view, resumeVars, forgetting, stops>>

(* The result reaches every waiter: the resumes that wait go ahead or are   *)
(* refused, and the manifests of lost hosts have done their job.            *)
SweepDone(clear) ==
  /\ sweep' = None
  /\ adopt' = CASE adopt = "sweep" -> "swept" [] adopt = "resume" -> "no" [] OTHER -> adopt
  /\ auto' = IF auto = "sweep" THEN "done" ELSE auto
  /\ forgetting' = {}
  /\ files' = IF clear THEN files \ {h \in forgetting : exit[h] = None /\ host[h] = "gone"}
                       ELSE files
  /\ Launch(IF clear THEN Cardinality({w \in {<<adopt, "resume">>, <<auto, "sweep">>} : w[1] = w[2]})
                     ELSE 0)

(* Each entry found is stale, held by a live host, the orphan of a dead one *)
(* or an owner. Orphans get SIGTERM and are waited for.                     *)
SweepJudges ==
  /\ core /\ sweep # None /\ sweep.step = "judge"
  /\ LET found   == sweep.found \cap alive
         orphans == (found \cap LostAgents) \ HeldAgents
         blocked == found # orphans
     IN  IF orphans = {}
           THEN SweepDone(~blocked)
           ELSE /\ sweep' = [step |-> "term", found |-> orphans, blocked |-> blocked]
                /\ UNCHANGED <<started, host, view, rec, adopt, auto, forgetting, files>>
  /\ UNCHANGED <<alive, spawned, listed, asked, booted, recorded, exit, killed, core, taking, stops, crossed>>

(* Five seconds are over: what is left is killed.                           *)
SweepKills ==
  /\ core /\ sweep # None /\ sweep.step = "term" /\ sweep.found \cap alive # {}
  /\ killed' = killed \cup (sweep.found \cap alive)
  /\ sweep' = [sweep EXCEPT !.step = "kill"]
  /\ UNCHANGED <<started, procVars, diskVars, rec, core, view, resumeVars, forgetting, stops, crossed>>

(* The orphans have gone, or would not even on SIGKILL in two seconds.      *)
SweepEnds ==
  /\ core /\ sweep # None /\ sweep.step \in {"term", "kill"}
  /\ LET refused == sweep.found \cap alive # {}
     IN  /\ refused => sweep.step = "kill"
         /\ SweepDone(~sweep.blocked /\ ~refused)
  /\ UNCHANGED <<alive, spawned, listed, asked, booted, recorded, exit, killed, core, taking, stops, crossed>>

-----------------------------------------------------------------------------
(* The user: Resume here or Take over, Close, a terminal, and Quit.        *)

AutoPending == auto \in {"due", "sweep"}
Pending == adopt # "no" \/ AutoPending
MayLaunch == started + (IF adopt # "no" THEN 1 ELSE 0) + (IF auto = "sweep" THEN 1 ELSE 0) < MaxHosts

(* One at a time for each row. Not while this core runs it, nor while a     *)
(* live host holds it.                                                      *)
Adopt ==
  /\ core /\ adopt = "no" /\ ~Owned /\ ~Held /\ MayLaunch
  /\ Crossing(When("resumes", AutoPending) \cup When("closes", \E h \in Host : Ending(h)))
  /\ adopt' = "sweep" /\ JoinSweep
  /\ UNCHANGED <<started, procVars, diskVars, killed, rec, core, view, taking, auto, forgetting, stops>>

(* The last look before the resume: nothing alive may be listed on the id.  *)
AdoptResumes ==
  IF Visible = {}
    THEN adopt' = "resume" /\ JoinSweep
    ELSE adopt' = "no" /\ UNCHANGED sweep

(* Taking over, if the user confirms it, ends the process first that runs   *)
(* the session, if it is the only one on the id and not this core's.        *)
AdoptGoesOn ==
  /\ core /\ adopt = "swept"
  /\ \/ /\ ~Owned
        /\ \E p \in Visible : Visible = {p} /\ taking' = p
        /\ adopt' = "ending" /\ UNCHANGED sweep
     \/ AdoptResumes /\ UNCHANGED taking
  /\ UNCHANGED <<started, procVars, diskVars, killed, rec, core, view, auto, forgetting, stops, crossed>>

(* It went, on a signal or by itself; or it would not, and nothing is done. *)
AdoptEnded ==
  /\ core /\ adopt = "ending"
  /\ \/ taking \notin alive /\ AdoptResumes /\ taking' = None /\ UNCHANGED killed
     \/ /\ taking \in alive \ killed /\ killed' = killed \cup {taking}
        /\ UNCHANGED <<adopt, taking, sweep>>
     \/ /\ taking \in alive \cap killed /\ adopt' = "no" /\ taking' = None
        /\ UNCHANGED <<sweep, killed>>
  /\ UNCHANGED <<started, procVars, diskVars, rec, core, view, auto, forgetting, stops, crossed>>

(* Somebody runs `claude` on the session in a terminal, at any time: the    *)
(* CLI does not stop them.                                                  *)
TerminalStarts(t) ==
  /\ t \notin listed
  /\ Crossing(When("terminal", Pending \/ \E h \in Host : Running(h) /\ h \notin spawned))
  /\ alive' = alive \cup {t} /\ listed' = listed \cup {t}
  /\ UNCHANGED <<started, host, spawned, asked, booted, diskVars, killed, rec, coreVars>>

(* Tell a host to end its session.                                          *)
Ask(h) ==
  asked' = IF Running(h) /\ asked[h] = None THEN [asked EXCEPT ![h] = "stopped"] ELSE asked

(* Close: the record says stopped and the host is told to end.              *)
Close(h) ==
  /\ core /\ view[h] = "following"
  /\ view' = [view EXCEPT ![h] = "closing"]
  /\ rec' = "stopped"
  /\ Ask(h)
  /\ UNCHANGED <<started, host, alive, spawned, listed, booted, diskVars, killed, core, sweep, resumeVars,
                 forgetting, stops, crossed>>

(* The host has gone, and the close says stopped once more.                 *)
CloseDone(h) ==
  /\ core /\ view[h] = "closing" /\ host[h] = "gone"
  /\ view' = [view EXCEPT ![h] = "ended"]
  /\ rec' = "stopped"
  /\ UNCHANGED <<started, procVars, diskVars, killed, core, sweep, resumeVars, forgetting, stops, crossed>>

(* Quit and Stop All Agents: the host is told to end, and the record goes   *)
(* on saying live, for the next start to bring the session back.            *)
Quit(h) ==
  /\ core /\ view[h] = "following"
  /\ view' = [view EXCEPT ![h] = "quitting"]
  /\ Ask(h)
  /\ UNCHANGED <<started, host, alive, spawned, listed, booted, diskVars, killed, rec, core, sweep, resumeVars,
                 forgetting, stops, crossed>>

-----------------------------------------------------------------------------
(* The core: hearing of an end, stopping, starting.                        *)

(* Mutant: nobody looks for the agent of a host that was lost.              *)
MutViewEnds(h) ==
  /\ core /\ view[h] = "following"
  /\ exit[h] # None \/ host[h] = "gone"
  /\ view' = [view EXCEPT ![h] = "ended"]
  /\ rec' = CASE exit[h] \in {"ended", "stopped", "idle", "signal"} -> "ended"
              [] exit[h] = None /\ h \in files -> "lost"
              [] OTHER -> "failed"
  /\ UNCHANGED <<started, procVars, diskVars, killed, core, sweep, resumeVars, forgetting, stops, crossed>>

(* What a followed host's end means: its exit record, or that it was lost,  *)
(* which sweeps for its agent, or shares a sweep that has read by then.     *)
ViewEnds(h) ==
  /\ core /\ view[h] = "following"
  /\ exit[h] # None \/ host[h] = "gone"
  /\ view' = [view EXCEPT ![h] = "ended"]
  /\ LET lost == exit[h] = None /\ h \in files
     IN  /\ rec' = CASE exit[h] \in {"ended", "stopped", "idle", "signal"} -> "ended"
                     [] lost -> "lost"
                     [] OTHER -> "failed"
         /\ IF lost THEN JoinSweep ELSE UNCHANGED sweep
         /\ Crossing(When("unread", lost /\ h \in alive /\ sweep # None /\ sweep.step # "read"
                                      /\ h \notin sweep.found))
  /\ UNCHANGED <<started, procVars, diskVars, killed, core, resumeVars, forgetting, stops>>

CoreGoes ==
  /\ core => stops < MaxStops
  /\ stops' = IF core THEN stops + 1 ELSE stops
  /\ core' = FALSE
  /\ view' = [h \in Host |-> "none"]
  /\ sweep' = None /\ adopt' = "no" /\ taking' = None /\ auto' = "done" /\ forgetting' = {}
  /\ UNCHANGED <<started, spawned, listed, asked, diskVars, killed, rec>>

(* It quits, crashes, or is updated; hosts and agents go on.                *)
CoreStops ==
  /\ core
  /\ CoreGoes
  /\ Crossing(When("launch", \E h \in Host : host[h] = "starting"))
  /\ UNCHANGED <<host, alive, booted>>

(* The machine restarts, or its power goes: nothing that ran is left.       *)
MachineRestarts ==
  /\ CoreGoes
  /\ host' = [h \in Host |-> IF host[h] = "none" THEN "none" ELSE "gone"]
  /\ alive' = {} /\ booted' = 1..started
  /\ UNCHANGED crossed

Dead == {h \in files : host[h] = "gone"}
Newest(S) == CHOOSE h \in S : \A g \in S : g <= h

(* Mutant: a host without an exit record is no more than a restart.         *)
MutOutcome(why) ==
  CASE why = "ended" -> "ended"
    [] why = "idle" -> "stopped"
    [] why \in {"failed", "crashed"} -> "failed"
    [] OTHER -> "interrupted"

(* deadHostOutcome                                                          *)
Outcome(why) ==
  CASE why = None -> "lost"
    [] why = "ended" -> "ended"
    [] why = "idle" -> "stopped"
    [] why \in {"stopped", "signal"} -> "interrupted"
    [] OTHER -> "failed"

(* outcomesFromDeadHosts. Without an exit record, and with a boot since the *)
(* host started if that can be told, it was cut off by the machine.         *)
Outcomes(h) ==
  {Outcome(exit[h])} \cup When("interrupted", exit[h] = None /\ h \in booted)

(* Mutant: a live record is what the dead hosts say, whoever holds it now.  *)
MutClassify ==
  CASE rec # "live" -> {rec}
    [] rec = "live" /\ Dead = {} -> {"interrupted"}
    [] OTHER -> Outcomes(Newest(Dead))

(* classifyOnStartup, for the one record. The newest dead host speaks for   *)
(* the run if it belongs to it; an older one may by its slack of a minute.  *)
Classify ==
  CASE Held -> {"live"}
    [] ~Held /\ rec # "live" -> {rec}
    [] OTHER -> IF Dead = {} THEN {"interrupted"}
                ELSE Outcomes(Newest(Dead)) \cup When("interrupted", Newest(Dead) # started)

(* Mutant: collect removes the manifests of all dead hosts.                 *)
MutCollected == files \ Dead

(* collect: a dead host without an exit record keeps its manifest.          *)
Collected == files \ {h \in Dead : exit[h] # None}

(* Scan, classify, collect, sweep for the agents of lost hosts, and follow  *)
(* the hosts that live.                                                     *)
CoreStarts ==
  /\ ~core
  /\ core' = TRUE
  /\ rec' \in Classify
  /\ files' = Collected
  /\ forgetting' = {h \in Dead : exit[h] = None}
  /\ sweep' = IF forgetting' = {} THEN None ELSE [step |-> "read", found |-> {}, blocked |-> FALSE]
  /\ view' = [h \in Host |-> IF h \in files /\ host[h] = "up" THEN "following" ELSE "none"]
  /\ auto' = IF rec = "live" /\ rec' = "interrupted" THEN "due" ELSE "done"
  /\ UNCHANGED <<started, procVars, recorded, exit, killed, adopt, taking, stops, crossed>>

(* Two seconds after the start: unless something is seen to run the id, or  *)
(* its transcript was just written, the interrupted session comes back.     *)
AutoResume ==
  /\ core /\ auto = "due"
  /\ \/ auto' = "done" /\ UNCHANGED sweep
     \/ Visible = {} /\ MayLaunch /\ auto' = "sweep" /\ JoinSweep
  /\ UNCHANGED <<started, procVars, diskVars, killed, rec, core, view, adopt, taking, forgetting, stops, crossed>>

-----------------------------------------------------------------------------
Init ==
  /\ started = 0 /\ host = [h \in Host |-> "none"]
  /\ alive = {} /\ spawned = {} /\ listed = {}
  /\ files = {} /\ recorded = {} /\ exit = [h \in Host |-> None]
  /\ asked = [h \in Host |-> None] /\ booted = {} /\ killed = {}
  /\ core = TRUE /\ view = [h \in Host |-> "none"] /\ rec = "none"
  /\ sweep = None /\ adopt = "no" /\ taking = None /\ auto = "done" /\ forgetting = {}
  /\ stops = 0 /\ crossed = {}

HostStep(h) ==
  \/ HostReady(h) \/ SpawnAgent(h) \/ RecordAgent(h) \/ ListAgent(h)
  \/ WriteExit(h) \/ HostLeaves(h)
  \/ HostKilled(h) \/ HostCrashes(h) \/ HostFails(h) \/ HostTold(h)

ViewStep(h) == Close(h) \/ CloseDone(h) \/ Quit(h) \/ ViewEnds(h)
SweepStep == SweepReads \/ SweepJudges \/ SweepKills \/ SweepEnds

Next ==
  \/ \E h \in Host : HostStep(h) \/ ViewStep(h)
  \/ \E p \in Proc : AgentEnds(p)
  \/ \E t \in Terminal : TerminalStarts(t)
  \/ SweepStep
  \/ Adopt \/ AdoptGoesOn \/ AdoptEnded \/ AutoResume
  \/ CoreStops \/ MachineRestarts \/ CoreStarts

(* launchd brings the core back, which runs its event loop; what was sent   *)
(* SIGKILL goes. Hosts and agents owe nobody anything here.                 *)
Fairness ==
  /\ WF_vars(CoreStarts) /\ WF_vars(SweepStep)
  /\ \A h \in Host : WF_vars(ViewEnds(h))
  /\ \A p \in Proc : WF_vars(p \in killed /\ AgentEnds(p))

Spec == Init /\ [][Next]_vars /\ Fairness

-----------------------------------------------------------------------------
TypeOK ==
  /\ started \in 0..MaxHosts /\ stops \in 0..MaxStops /\ core \in BOOLEAN
  /\ host \in [Host -> {"none", "starting", "up", "gone"}]
  /\ \A h \in Host : host[h] = "none" <=> h > started
  /\ alive \subseteq Proc /\ killed \subseteq Proc
  /\ spawned \subseteq 1..started /\ listed \subseteq spawned \cup Terminal
  /\ files \subseteq 1..started /\ recorded \subseteq spawned
  /\ forgetting \subseteq 1..started /\ booted \subseteq 1..started
  /\ exit \in [Host -> {None, "ended", "failed", "stopped", "idle", "signal", "crashed"}]
  /\ asked \in [Host -> {None, "stopped", "idle", "signal"}]
  /\ view \in [Host -> {"none", "following", "closing", "quitting", "ended"}]
  /\ rec \in {"none", "live", "interrupted", "lost", "stopped", "ended", "failed"}
  /\ sweep \in [step : {"read", "judge", "term", "kill"}, found : SUBSET Proc, blocked : BOOLEAN] \cup {None}
  /\ adopt \in {"no", "sweep", "swept", "ending", "resume"}
  /\ taking \in Proc \cup {None}
  /\ auto \in {"due", "sweep", "done"}
  /\ crossed \subseteq Overlaps

(* The agent of a host starts when nothing else runs the session: no agent  *)
(* of another host, whatever host or core died and left it, and nobody's    *)
(* terminal, whoever ran it before (runnerService.ts:156-160). It holds as  *)
(* long as nothing has come between that the code does not keep apart.      *)
OneProcess ==
  [][crossed = {} => \A h \in Host \cap (alive' \ alive) : alive = {}]_vars

(* "and there is never a second process on the id" (runnerService.ts:160),  *)
(* of the processes this program starts.                                    *)
NoSecondAgent == Cardinality(alive \cap Host) <= 1

(* The manifest that names an agent which outlived its host stays until     *)
(* that agent has gone: it is the sweep's only proof that the process may   *)
(* be ended (hostSupervisor.ts:124-131, 146-156).                           *)
OrphanStaysNamed ==
  crossed \cap {"launch", "unread"} = {} =>
    \A h \in recorded \cap alive : host[h] = "gone" /\ exit[h] = None => h \in files

(* The record says live exactly while this core follows a host that runs    *)
(* the session, or ends it to quit, over any number of restarts             *)
(* (recovery.ts:101-113, runnerService.ts:233-238).                         *)
LiveIsFollowed ==
  core /\ crossed = {} =>
    (rec = "live" <=> \E h \in Host : view[h] \in {"following", "quitting"})

(* A run of the session that a stop, a signal or a restart of the machine   *)
(* cut off, or that never had its agent.                                    *)
CutOff(h) ==
  \/ h \notin spawned
  \/ exit[h] \in {"stopped", "signal"}
  \/ exit[h] = None /\ h \in booted

(* Nothing whose host was lost, crashed, finished, failed or parked itself  *)
(* is brought back without the user: only what was cut off. A host that was *)
(* lost before the machine restarted counts as cut off by that              *)
(* (recovery.ts:16-22, 76-79, 110-112, 195-208).                            *)
OnlyInterruptedComesBack ==
  [][crossed = {} /\ started' > started /\ auto = "sweep" => CutOff(started)]_vars

(* An agent whose host died without a record does not run on headless for   *)
(* ever, unless the user ends the session first: a close, or a quit, is     *)
(* taken to end the agent by itself (createApp.ts:557-568,                  *)
(* runnerService.ts:284-293).                                               *)
OrphansGo ==
  \A h \in Host :
    h \in recorded \cap alive /\ host[h] = "gone" /\ exit[h] = None /\ view[h] # "ended"
      ~> h \notin alive \/ Ending(h) \/ crossed # {}
=============================================================================
