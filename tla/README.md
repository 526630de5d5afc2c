# Agent Wrangler: verification project

TLA+ models of the parts of Agent Wrangler where processes, files and sockets
interleave, the TLC runs that check them on small instances, and TLAPS proofs of
the properties that matter most, for every value of the constants.

Agent Wrangler supervises coding agents (Claude Code and Codex) on one machine. A
long-lived **core** daemon keeps the picture; **session hosts** are separate
processes, one per session, each owning one agent; **clients** (VS Code panes, the
Mac app, a browser) talk to the core. Hooks that the agents run (shell scripts) talk
to the core through the file system only. Missions are plans of
several tasks that the core runs by itself, with git branches and worktrees for its results.
Hosts outlive the core, agents may outlive their host, a browser's sockets come and go under its
commands, a mission's record and repository outlive all of them: most of what is hard in this code is
what one process finds after another has gone, or before it has noticed.

    agent (claude) <-- SDK --> session host --- Unix socket ---> core ---> clients
        |                        |  manifest, exit record          |  registry record
        +-- hooks --- leases/<name>/ (mkdir, holder.json, rm) -----+
        +-- ~/.claude/sessions/<pid>.json ------------------------>+
                                                                   +-- mission record, git

## Inventory

Source paths are below `src/src/`. "Hard" is what a test would hardly reach.

### Modelled

**Session event log** (`core/session/seqLog.ts`, SeqLog). State: the next sequence
number, a ring of events bounded in bytes, an outbox, the subscriptions, a flag "the
loop is delivering". Operations: push, subscribe from a number (or be refused),
dispose, snapshot, since. One thread, but listeners run synchronously inside `push` and may
push, subscribe and dispose themselves. Hard: re-entrancy and the edge of the ring. Right when
every listener sees every event once, in order and without a gap, and the loop leaves nothing
behind.

**Session link** (`sessionHost/server.ts`, `sessionHost/outQueue.ts`,
`core/session/hostClient.ts`). State: at the host the log, one out-queue per
connection, which connections are subscribed; at the client its phase of catching up, the
buffer of held-back events, the highest number handed over, the asks its listeners know.
Operations: connect, snapshot, paging, reconcile, subscribe, streaming, overflow and resync,
loss of the connection, exit and death of the host. Hard: a snapshot older than the pages
read after it, a queue that drops lines between a reply and an event, a host that dies at any
point. Right when the view is fed in order with no silent gap, agrees with the host when
nothing is under way, is told of the exit once, and catches up.

**Exclusive-resource leases** (`claude/leaseHook.ts`, a POSIX shell hook;
`core/leases/leaseService.ts`, `leaseFs.ts`). State: directories
`leases/<name>/` made by `mkdir`, their `holder.json` and `uses/`, and the `.reap` lock. Operations:
acquire before a tool call, wait, reap, release after the call or at the end of a turn,
forced release, the core's own reaper, which also takes the lease of a session whose end is recorded. No process
coordinates them: only `mkdir` is atomic.
Hard: a check of several reads, and a removal after it, by two reapers; a hook that dies between two file operations; two calls
of one session; a session that runs on without its lease. Right when no two sessions count on a lease but those that had theirs taken
from them, a reaper that nobody overtakes removes only what is dead or over, and a dead lease goes.

**Hosted agent session** (`claude/runner/claudeSdkSession.ts`, with
`core/runner/inputQueue.ts`). State: the session's state, pending asks with their promises, the ids
lately settled and sent, how far an ending is, why. Operations: start, send, canUseTool,
respondAsk, abort, end (interrupt, grace, end of input, kill), terminate, the loop over the
SDK's messages and its end. Hard: all of these crossing at awaits. Right when an ask is
answered once, by the client that is told so, none is left hanging, a resend reaches the agent
once, an ending that was asked for is never reported as a failure, and the exit is said once and last.

**Session ownership** (`core/session/hostSupervisor.ts`, `orphanSweep.ts`,
`recovery.ts`, `sessionRegistry.ts`, `claude/runner/runnerService.ts`,
`app/createApp.ts`, `sessionHost/main.ts`). State: manifests and exit records on disk, the agents' own
entries, the registry's record, the sweep in flight, the resumes in flight. Operations: spawn
a host, resume and take over, close, quit, sweep, the start of the core (scan, classify, collect,
sweep, follow, resume automatically). Hard: a host, an agent, the core or the machine going at any step; two
callers resuming; somebody who runs `claude` on the session in a terminal. Right when no two processes ever run one conversation (the CLI has no lock and
two would fork its transcript), an orphan can always be proved ours, and is ended, and only
what was cut off comes back by itself.

**Browser gateway: commands** (`webview/webshim/main.ts`, `core/web/browserConnections.ts`,
`core/web/commandResults.ts`). State: in the tab the envelopes not acknowledged, the socket
and whether its hello has come; at the server, per socket, the acknowledgements due and the commands
awaiting their answer; per device the cache of commands and their first answers. Operations:
post, resend, acknowledge, admit, answer, close at either end, forget after ten minutes. Hard:
two sockets of one tab alive at once with copies of the same commands, a close between a command and its
acknowledgement, frames read after a close. Right when a command is acted on once, in order, behind the `ready`
that binds its pane, and in the end.

**Missions: task runner** (`orchestration/engine/taskRunner.ts`, `integration/integrator.ts`,
`worktrees/worktreeManager.ts`, `domain/lifecycles.ts`). State: the mission's record (states of the mission, its
tasks and attempts, `pendingMerge`), the mission branch, one branch per task, the
integration worktree, and the queue in which everything of one mission runs. Operations: start, the end of an attempt,
commit, check, escalate, merge, verify, revert, put the work back, resolve a conflict, Accept, Resume, Retry, Skip, Cancel,
pause and resume, the start-up pass. Hard: the core dying between a record and the git command it announces; a reverted
merge, which git still counts as merged; Accept after any of it. Right when the mission branch holds the work of the
tasks that are done, all of it, and nobody else's.

**Missions: finish** (`orchestration/engine/missionFinish.ts`, `taskRunner.ts`). State: `pendingFinish`, the base branch, the
primary checkout, the integration worktree, the pull request. Operations: gated merge, pull request, keep, discard,
reading a cut-off finish back, "Check again". Hard: the user at work in the same checkout; a
death of the core, or an error, around the one command that cannot be taken back. Right when the base and the
record say the same, and every write-ahead record is settled.

### Not modelled

| Component | State and operations | What makes it hard; what would make it right |
|---|---|---|
| Session view and projection (`core/session/sessionView.ts`, ...) | cards built from events | presentation; its exit and lost rules are part of SessionLink and SessionOwner |
| Session store, provider scans (`core/sessionStore.ts`, `claude/claudeProvider.ts`) | rows, by polling files | read-only; a row follows from the last scan |
| Pause, automatic pause (`core/pauseService.ts`, `core/autoPause.ts`) | the set of stopped pids; pause, resume, `ps` | a `ps` begun before a pause that answers after it; the set agrees with the processes in the end. *Planned.* |
| JSON documents (`core/jsonStore.ts`, ...) | whole-file writes, tmp and rename | nothing interleaves within the process |
| Approvals (`app/approvals.ts`) | buttons and the asks they were drawn from | a press after the ask has changed. *Planned.* |
| Permission hook, hook log (`claude/hookLog.ts`, ...) | prompts of terminals, by files | polling and timeouts. *Planned.* |
| Transcripts, archives (`claude/transcriptTail.ts`, ...) | append-only files | parsing |
| Gateway: pairing, login codes, devices | offers, attempts, lockouts | single use, counters over time. *Planned.* |
| Gateway: HTTP, TLS, files, shell | connections | plumbing |
| Control socket, CLI | none of its own | each request is a call into another component |
| Access, clients, request scope | tables | decision tables |
| Scheduled jobs, PR sweeps (`app/scheduledJobs.ts`) | slots, runs | sleep, overlap, restart: each slot at most once and never lost in silence. *Planned.* |
| Durable agents, child conversations | one conversation per agent | recovery. *Planned after the jobs.* |
| Mission grants | confirmations | *Planned with approvals.* |
| Codex app server, runner | threads, one app server | reconnection; the other side is Codex's own. *Planned.* |
| Remote control (relay, Discord) | virtual sockets | a lossy relay. *Planned.* |
| Mission scheduler (`orchestration/engine/scheduler.ts`, ...) | none: a pure function of a snapshot of all missions | a step must follow whatever frees a waiting task; dependencies, slots, contention. The runner's model takes its start and finish actions whenever their conditions hold. *Planned.* |
| Mission store (`orchestration/store/missionStore.ts`) | mission files, backup, index | dying between file and index: the start-up pass goes by the index. One step in the runner's model. *Planned.* |
| Verification, review | command output | runs commands |
| Routing, planner, local endpoints | none or caches | scoring, prompts, network |
| Telemetry, usage | append-only statistics | nothing decides on them but the usage windows |
| Daemon, launcher, macOS shell | processes under launchd | SessionOwner assumes only that the core is brought back |
| Interfaces | panes, dictation, previews | presentation |

## The modules

| Module | What it is |
|---|---|
| `SeqLog`, `MCSeqLog`, `SeqLogProofs` | the event log; its instances; its proofs |
| `ViewFeed` | what a view of a session is promised: the abstract specification of the link |
| `SessionLink`, `MCSessionLink`, `SessionLinkProofs` | host server, out-queue, socket and host client; shown to implement `ViewFeed` |
| `LeaseDir`, `MCLeaseDir`, `LeaseDirProofs` | one lease directory, its hooks and reapers |
| `HostSession`, `MCHostSession`, `HostSessionProofs` | one `ClaudeSdkSession` |
| `SessionOwner`, `MCSessionOwner`, `SessionOwnerProofs` | one conversation and all the processes that may run it |
| `WebCommands`, `MCWebCommands`, `WebCommandsProofs` | one tab of one device, its sockets and the device's cache of commands |
| `MissionGit` | what git does with a mission's branches |
| `MissionRunner` | the task runner and the Integrator of one parallel mission |
| `MissionFinish` | how a reviewed mission is finished; EXTENDS `MissionRunner` |
| `Mission`, `MCMission` | the two composed with a core that dies and is started again; the properties and their instances |
| `MissionProofs` | types, the finish and the base; EXTENDED by the next |
| `MissionBranchProofs` | the mission branch and its record |

The modules meet where the code does: SessionLink takes from SeqLog that the host's
events form one numbered, ordered stream with an edge; SessionOwner takes from SessionLink that a view
is told in the end of an exit (`ViewEnds`), and from HostSession that a host says why it ended
(`HostTold`, `WriteExit`).

### SeqLog

`turn` says who runs: nobody (`idle`), the delivery loop, or a listener. `Push` numbers the event, puts it
in ring and outbox and evicts by bytes in one step; the loop is `NextEvent`, `CallListener`
for each subscription of the copy it took, `StopDelivering`. A push inside a listener only queues, as in
the code. A replay happens inside `subscribe`; listeners do not push during it. Errors a
listener throws are swallowed by the code and left out; an event's size is a
constant function.

### SessionLink

Sizes are counted in lines, one per event or reply. One action per handler on the host (`Emit`, `Serve...`,
`Respond`, `Drain`, `HostLeaves`, `HostDies`); the socket takes lines up to `WireCap` and is read in chunks
(`ReadChunk`); the client dispatches a chunk line by line, and what awaited a reply runs
after the chunk (`resumed`), as promise continuations do. The catch-up is `GotSnapshot`, `GotPage`, `GotLastPage`,
`EventsGone`, `Subscribed`, `SubscribeRefused`: at most three attempts, then the
connection is dropped. `Adopt` is the mode for a host that an earlier core left. Calls other than the catch-up's own (send,
respondAsk, end, ping), the hello and the roles are left out.

An event of the model is one of the view's own conversation, and a message is one event. `filterAdopt` leaves out three kinds of
events when a host is adopted (`hostClient.ts:531-554`): what the transcript shows, which is modelled (`shown`, `HandedOver`), and,
which is not, messages of a conversation that `/clear` replaced and the deltas that streamed a message which is complete by now. So
"the view is given every event that the host still has and the transcript does not show" (`ViewFeed`) speaks of the others.

### LeaseDir

A step is one call to the file system or to `ps`, by the hook or by the core, or a run of calls that nobody else
can see inside of. `pc` of a call is the place of its script; the core's reaper is one more process, `Core`. `alive()` of the script
is its five reads (`Judge`, `ReadPid`, `CheckProcess`, `ReadStart`, `CheckStart`), before the `.reap` lock and once more under it, with
what it has read so far in `seen`; the core reads the whole file once, then asks its registry and the process table (`CoreReads`,
`CoreAsks`). A look under the lock ends in `remove` or `unlock`, and the removal is a step of its own. A `.reap` lock found old is removed
one step later (`BreakReapLock`), whoever's it is by then, so two reapers may be at work at once (`reaping`).

The core takes a lease for three reasons: its maker has gone, its holder has gone, or the registry has recorded an end of the
session since the lease was taken (`Over`, `RecordEnds`), whether its process lives or not. The user may take any lease (`ForceRelease`). A session
that goes on after its lease was taken is `robbed` until it makes the lease anew; one that goes on to remove or to overwrite another's
lease passes this on (`RobAs`). A reaper is `overtaken` when the lease was made, or its holder written, since it took the lock. These
histories and `relying` are read by the properties and by no guard.

The ages that the code compares (a lease without a holder, a `.reap` lock older than a minute) are modelled by what
they stand for, that the maker has gone: a hook that is slower than a minute and still alive is not in the
model, and is listed as a hazard. `lstart` is taken to tell two processes apart, though it counts whole seconds. Hooks die with their session; `rm -rf` is one
step. `SessionOf` says which calls a session makes, several at a time or one; `Scopes` the scopes that the resource may have; `Resumed` which
sessions come back under their id, once or more (`MaxRuns`). Leases of orchestrated attempts (made, bound and kept alive by the core), calls that need several leases, and
cancelled waits are left out.

### HostSession

Each call runs to its next await in one step, so a step of the model is a turn of the event loop. `canUseTool`
raises an ask (`raised`), whose promise is resolved once (`answer`); `replies`, `closings` and `sends` are
histories that the properties speak of and no guard reads. `endStep` is where `runEnd` waits. A terminated agent may go on
raising asks until it goes. Ask ids are unique, as the SDK makes them. Control calls, session id
changes and the options of the SDK are left out.

### SessionOwner

One conversation id. Hosts are numbered in the order they are spawned; `Terminal` is the set of `claude` processes in
terminals, each of which may start at any time, once, and counts from its entry in the CLI's registry on. What is read fresh from disk and from the process table is an operator (`Visible`,
`Held`, `Dead`, `LostAgents`...), what is kept in memory is a variable. The sweep has the code's steps: read the
entries, judge them, SIGTERM, SIGKILL, end; two callers that ask for it meanwhile share it
(`JoinSweep`), even if it has read already. A start of the core is one step up to the first timer. `CoreStops` is the core alone going,
`MachineRestarts` everything: a host that it found running has no exit record and started before the boot (`booted`), which the next start may
take for interrupted, and brings back (`Outcomes`, `Classify`; `recovery.ts:75-81`), or for lost if the time of the boot is not to be had. `Quit` is
`endAllForQuit`: the views end, the record stays live, and the next start brings the session back.

Nothing in the code is held while a resume is on its way. `crossed` is a history of what has come between that the code does
not keep apart, of five `Kinds`: two resumes; a resume and a close; a resume or a launch and a terminal; a launch and the death of its host
or of the core; and a sweep that misses an agent (an entry it cannot read, or a host lost after a sweep that is shared has read). A property excuses
the kinds that break it, from then on. `Overlaps` bounds which kinds TLC explores; the proofs assume nothing of it.

The user's last look before a Take over reads every entry. Manifests of other versions, `stopHost`, migration to a new build, the hand-over to a
terminal, `/clear`, and the retention of old records are left out.

### WebCommands

A command is its number in the order posted; a pane's `ready` is a message that is never remembered. The two ends of a socket close
on their own, so that two sockets of the tab may be open at the server with frames on both. A frame is handled in
one step: `Arrive` acknowledges, admits and hands on, in that order. `ArriveLate` is what `ws` still delivers after a close
with a code: the cache admits the command and nobody runs it. `admitted` is a history variable: what the cache let through, in
order, and whether a host acted on it. `ActedOnce` counts by it, since the cache remembers what it let through and not what was acted
on. `Age` is ten minutes passing; nothing in the model is faster or
slower than that. Other tabs, the number of devices, envelopes in parts, the table's coalesced
snapshots and a rebuilt server (which begins with an empty cache) are left out.

### MissionGit, MissionRunner

What counts about a branch is which commits of an attempt's work it contains. That history is linear (committed, merged and reverted, the
revert reverted, ...), so a branch maps each attempt to a number, its level: a merge takes the higher level of
each, and the work is in the tree when the level is odd. "A reverted merge is still merged" follows from it and is not
assumed. A merge may conflict when the mission branch has something that the task's branch lacks.

All that changes a mission runs in its queue: `op` is the function under way and where it is, and each of its
steps is one write of the record (`put`) or one git command, so that `Crash` finds every state between two of them. Crash keeps the
record and the repository and forgets `op`; the start-up pass is `RecoverFinish`, `RecoverMerge`, then `RecoverTask` for
each task. What the scheduler, an agent or the user may begin stands under `RunnerOther`. `Launch` is admitted by `Admitted`, whoever asks:
of a task's attempts those that resume no other (`tries`) are at most `caps.maxAttempts` (`MaxAttempts`), if the policy sets it; a resume is not another
try, and without a cap (`MaxAttempts` not below `MaxStarts`) the user's Retry is not limited. `MaxStarts` is the model's own bound, on all attempts of a task.
What the code limits by itself before it asks the user (`escalation.ts:229-236`, attempts at a conflict) is a choice of `Escalate` and `Conflict`.
`LoseSession` ends an attempt as failed or interrupted and escalates, or as cancelled when the user stopped its session, and leaves the task to the user.

Abstracted: a launch is atomic at
the write that records the attempt, a Retry that the cap refuses does not retire the tree before (`taskRunner.ts:1150`), launching and waiting attempts are running ones, `blocked` for a rate limit is `queued`, the reason of a
failure is left out. Left out: dependencies between tasks, missions of one task or with one shared tree, planning, attempts that are taken over or held elsewhere, leases and verification slots, the caps on cost, on agents at once and on a usage window, failover to another server, commits that an agent makes on the mission branch itself, a
record that cannot be saved (but in the completion of a finish), and the few writes of a mission's record that happen outside of
its queue (the turns an attempt has had, what a task waits for, an assessment, a worktree's assignment; each is read and put in one go, and none is of a field modelled here).

`stray` is a history variable: a merge was left on the mission branch without a verdict, because its verification could not run or its
revert failed. The code leaves such a branch to the user, and `BranchMatchesRecord` speaks of the others.
`AcceptUnapplied` says whether the user may Accept a task whose reverted work is not back on its branch (finding 3).

### MissionFinish

The mission branch does not move in review, so the base either has it or not. `UserCommits` and `UserTakesCheckout` may come between any
two steps but the last look at the checkout and `--ff-only`, which the model takes as one (`FastForward`). `FinishThrows` is an
error of any command whose outcome is then read back (`Settle`); a pull request may have been opened though `gh` failed.

## The runs

| Run | Instance | What it shows |
|---|---|---|
| `seqlog` | 2 listeners, sizes 1 and 2, 2 bytes, 4 events | `NoGap`, `InOrderOnce`, `RingInBudget`, and `AllHandedOut`: every numbered event is handed out, though listeners push, join and leave inside callbacks |
| `link` | ring 2, queue 1, wire 2, 4 events, 1 ask, one loss, a host being adopted | `AgreesWhenQuiet`, `ExitIsFinal`, the refinement `FeedSpec`, `ExitReachesView`, `CatchesUp` |
| `link_lost_resync` | ring 4, queue 2, wire 2, 5 events, no loss | refutes `LiveMeansFollowing` (finding 1) |
| `lease` | 2 sessions with one call each, one resumed once, a lease of either scope, recorded ends, forced releases | `MutualExclusion`, `GrantedIsHeld`, `ReapsOnlyTheDead`, `HookEnds`: every hook is granted or denied; `DeadLeaseGoes`: the lease of a dead session, or a directory nobody owns, goes |
| `lease_overtaken` | 2 sessions with one call each, command leases | refutes `NotOvertaken` (finding 4) |
| `session` | 2 asks, 2 clients, 2 uuids, memories of 1, 3 sends | `AppliedIsAnswered`, `NothingHangs`, `SentOnce`, `EndingIsNoFailure`, `ExitIsLast`, `LateIsStale`, `EndingEnds` |
| `owner` | 2 hosts, a process in a terminal, a stop of the core or a restart of the machine, nothing crossed | `OneProcess`, `OrphanStaysNamed`, `LiveIsFollowed`, `OnlyInterruptedComesBack`, `OrphansGo` |
| `owner_race` | 3 hosts, a process in a terminal, 1 stop, resumes that overlap | refutes `NoSecondAgent` (finding 2) |
| `web_commands` | 2 commands, 2 sockets, ten minutes pass once, 2 envelopes kept, a cache of 1 | `ActedOnce`, `ActedInOrder`, `BoundFirst`, and `AllActedOrSwallowed`: every command is acted on and acknowledged in the end |
| `mission` | 2 tasks of 2 attempts, 2 troubles (an Accept, a failing command, a death of the core), each once | `BranchMatchesRecord`: what is on the mission branch is what the record says is done |
| `mission_finish` | 1 task of 3 attempts under a cap of 2, 4 troubles with 2 deaths and a pause, every finish, 1 commit by the user | `FinishMatchesBase`, `RecordsSettle`: no write-ahead record stays, and in `TypeOK` that the cap on attempts is kept |
| `mission_lost` | 2 tasks of 1 attempt, an Accept and a death | refutes `DoneHasItsWork` (finding 3) |

### Bounds

Two listeners are enough for one to act inside the other's callback; two bytes with events of one and two make a push
evict one event, or two, and an event fill the ring by itself. A ring of 2 and a queue of 1 make eviction and overflow
happen within four events, with replies in the queue at that moment. Two lease calls and the core are two reapers
and the one who makes the lease between them, and a session resumed once is a holder whose pid is no longer its session's. Two asks and memories of 1 make the memories forget; three sends are a
message, another and the resend. Two hosts are a host that is lost and its successor; a stop between them is a start that finds
what an earlier core or the machine has left. Two commands over two sockets, with a cache of one, are a resend whose first copy
was pushed out, or is still on the other socket. Two tasks of two attempts are a merge, another that conflicts with it or is reverted,
and a second attempt on the same or a fresh branch; two troubles are a death and an Accept after it, or a failing command and a death;
a single task with two deaths and a failing command is what a finish that is cut off twice needs. The bounds are named constants and appear only in guards: `MaxSeq`, `MaxLosses`, `MaxRuns`, `Resumed`, `MaxSends`, `MaxHosts`,
`MaxStops`, `Overlaps`, `MaxCommands`, `MaxConns`, `MaxAges`, `MaxOf` and `MaxTroubles` (of each kind, and in all), `MaxBaseMoves`, `MaxStarts`. `MaxAttempts` is
the policy's cap; three starts are one more than a cap of two lets through without a resume. `Picks` says which finishes the user may ask for.

Deadlock is not checked where the system really may stop: in LeaseDir when every session has gone, in
HostSession when the session is over, in SessionOwner when it is over or the bounds are reached, in WebCommands when all is
acknowledged, in Mission when the mission has ended or waits for the user.

### Fairness

* SeqLog: the synchronous loop runs on; nobody is obliged to push.
* SessionLink: both event loops run, the socket delivers what it took, the socket of a dead host
  closes, a client retries, an exited host leaves within its minute. Nothing obliges the agent to emit, or a
  host to die; a connection need never be lost while the host lives.
* LeaseDir: scripts and reapers run to their end while their session lives, the core looks every few seconds,
  and a wait's deadline comes. The deadline is looked at only when a hook waits, so a hook that finds the lease gone each time and
  loses the race to make it each time would not see it: `SF_vars(Deny(c) \/ MakesIt(c))` says that this does not go on for ever, which is
  the scheduler's to give and not the code's.
* HostSession: the timers of `runEnd` fire, and an agent whose `close()` was called goes (the SDK escalates to SIGKILL). The agent owes
  nothing before that: it may ignore interrupt and end of input.
* SessionOwner: launchd restarts the core, the sweep goes on, a view is told of its host's end, and a
  process sent SIGKILL goes. A Take over, a close and an automatic resume need not go on.
* WebCommands: the tab reconnects on its timer and notices a closed socket, frames arrive while both ends are open, a turn of the server ends
  and sends its acknowledgements, a host answers. The last socket lasts: a network that fails for ever delivers nothing.
* Mission: `WF_vars(Core)`: the function under way goes on, and the core is started again. Every git, `gh` and check
  command has a time limit. Nobody is obliged to press a button, an agent may work for ever, and the scheduler may be slow.

## Proofs

Proved with TLAPS, for every value of the constants that the named assumptions allow:

* `SeqLogProofs`: `TypeCorrect`, `NoGapHolds`, `InOrderOnceHolds`, `RingInBudgetHolds`, for any
  subscriptions, sizes and budget. `NoGap` is not inductive: it needs what the loop relies on (`LoopInv`): nobody was called with an event that
  is not yet out, and when nobody runs the outbox is empty and nobody is left to call. `IInv` is `TypeOK /\ LoopInv /\ NoGap /\ InOrderOnce`.
* `SessionLinkProofs`: `TypeCorrect`, `AgreesWhenQuietHolds`, `ExitIsFinalHolds`, and `ImplementsFeed`, that the link implements
  `ViewFeed`, for any ring, queue and socket, any number of events and losses, a client that adopts its host or not, and any set of
  asks. The chunk, the socket and the queue are reasoned about as one sequence, `Stream`: draining and reading leave it as it is, a push
  adds a line at its end, a dispatch takes its first. The invariant has three parts. `Link`: what a catch-up awaits is in exactly one place, asked,
  answered, on its way or received (`Turns`), and says what the host could say when it was served (`Replies`); until a subscription
  nothing but that reply is on its way, and behind a refused one nothing (`Pipe`); once the host streams, the held-back events and those of the
  stream go on from `lastSeq` without a gap, up to the newest if the client is still subscribed (`Follows`). `Paging`: an attempt's pages
  start no later than its snapshot and leave out nothing that the client lacks and the host still has.
  `History`: what the view was told is what the first `lastSeq` events say, but for the end of a host that has gone. Agreement is
  `Follows` and `History` with an empty stream; a step of the link that hands over events is the promise's `Hear`, since `Follows` or `Paging`
  says which ones come next. An overflow keeps the lines that are not dropped (`Undroppable`, a recursive function); since at most one
  reply is ever queued, what it leaves is nothing or that reply, which `UndroppableFacts` shows by the least index at which it fails.
  That `None` is no line, request or buffer is assumed (`NoneAssumption`).
* `LeaseDirProofs`: `TypeCorrect` and `ReapsOnlyTheDeadHolds` for every value of the constants; `GrantedIsHeldHolds` and
  `MutualExclusionHolds` under `Orderly`: the lease is for the turn, or a session makes one call at a time. Sessions may be
  resumed, leases forced from them or reaped with the session alive, and reapers may overtake each other. What a reaper removes rests on
  `Looks`: what a look has read so far (`seen`) is of the lease that is there, or of none, as long as nobody made or wrote one since the
  reaper took the lock; with it, a verdict "dead" is true when the removal comes. Exclusion rests on
  `EInv`: of the sessions that nobody robbed, the one that makes the lease or counts on it is the one that the directory names (`Makers`, `Holders`,
  `GrantedIsHeld`), one that is about to release it no longer counts on it (`LetGo`, `Stopping`), and only the living are counted (`OnlyTheLive`).
  Exclusion then follows because there is one directory and `holder.json` names one session. Outside of `Orderly` both are false.
* `HostSessionProofs`: `TypeCorrect`, `AppliedIsAnsweredHolds`, `NothingHangsHolds`,
  `EndingIsNoFailureHolds`, and the action property `ExitIsLastHolds`, for any asks, clients, uuids and memories. `Asks` says that an ask is
  pending exactly when it was raised and not answered; `Ending` ties `endStep`, the reason and the exit
  together: this is why the exit finds nothing pending and the reason in place.
  `SentOnceHolds` and the action property `LateIsStaleHolds` rest on `Memories`: what is remembered of sent messages and
  of settled asks is the end of its whole history (`EndOf`), as long as its bound allows, and a settled ask is in it.
* `SessionOwnerProofs`: for any number of hosts, of processes in terminals and of stops and restarts, and every `Overlaps`. `TypeCorrect`.
  `OrphanStaysNamedHolds`: until a host dies with an agent nobody can see yet, or a sweep misses one (`Tidy`), a host that has gone
  leaves its agent both in the CLI's registry and in its manifest, and what a sweep has read contains every
  agent whose manifest its end may remove (`Named`). `OneProcessHolds`, `LiveIsFollowedHolds` and the action property
  `OnlyInterruptedComesBackHolds` until anything comes between (`crossed`): only the
  newest host runs or is followed (`Alone`), while a resume is on its way the session is nobody's and from its last look on
  nothing runs it (`Reserved`), and what the next start will find of the newest host is what the record says
  (`Found`). A terminal may start at any time; what it may not do is come in while a resume or a launch is on its way, where the code
  has nothing against it. That the code does not prevent two resumes either is finding 2, so nothing stronger holds.
* `WebCommandsProofs`: `TypeCorrect`, `ActedOnceHolds`, `ActedInOrderHolds`, `BoundFirstHolds`, for any commands, sockets and bounds. None
  of the last three is inductive. A command is `Done` when it needs no more sending (given up, acted on, or swallowed by a close).
  `Order`: what is kept and what each socket carries goes up, and every command is done or kept. `Gapless`: ahead of a command on a
  socket is every earlier one, unless it is done; `Acknowledged`: what is acknowledged, remembered or running is done, so that
  an acknowledgement never makes a gap. `Remembered`: the cache is the newest of `admitted`, but for what is old. `Carried`: a socket
  carries nothing that was let through on it. `ReadyFirst`: a pane's `ready` is ahead of every command on its socket.
  `Without` is a recursive function; what it leaves (`WithoutFacts`) is proved by the least index at which the claim fails
  (`Least`), which needs no induction theorem.

* `MissionProofs`: `TypeCorrect`, which has the cap on attempts, and `FinishMatchesBaseHolds`, for any plan and bounds. `FinishMatchesBase` needs `Finishing`: at which
  points of the queue a finish is under way, with which choice, and whether the base has the branch there. That
  `None` is none of the records it stands in for is assumed (`NoneAssumption`, `FinishNoneAssumption`).
* `MissionBranchProofs`: `BranchMatchesRecordHolds` under `~AcceptUnapplied`, for any tasks and attempts, any conflicts, reverts and
  faults, and a death between any two steps; with `AcceptUnapplied` it is false, as the `mission_lost` run shows. The record says only
  done or not done, so the invariant (`Branches`) says where each
  task's tree stands in between. `Standing`: a tree is `Ready` (its work one level above the mission branch), `Held` (merged),
  `Undone` (its merge reverted) or `Caught` (the revert merged into it, not yet reverted there), by the task's state and by how many
  commits the branch has beyond the head that `pendingMerge` recorded (`Merging`); this is what recovery reads back, and why it
  resumes at the right step. `OtherUnits`: units outside of a tree are never above the mission branch, and those of
  earlier trees are not in it. `Attempts`, `Points` and `Reviewed` tie attempts, the queue's points and the
  review to that. Its lemmas say what a commit, a prefix and a merge do to `Level` (`LevelAppend`, `LevelPrefix`,
  `MergedIntoTask`), and that a step about one task leaves the others where they stand (`QuietStep`, `GitStep`).

The attempt to prove `ActedOnce` showed that an earlier form of it, which counted the commands acted on, was false as soon as three envelopes
may be kept: commands that a closed socket swallowed take their place in the cache too. The property now counts what was let through.

Only model-checked: every liveness property (outside the prover's reach). Every safety property, action
property and refinement that a passing run checks is also a theorem, two of them only under `Orderly` and one under
`~AcceptUnapplied`, which the runs assume as well.

## Findings

1. `link_lost_resync`: when the reply to `subscribe` and a `resync` behind it arrive in one chunk, the notification
   is passed over (`hostClient.ts:427`), and the client is live without a subscription. The
   `link` run therefore speaks of subscribed clients (`AgreesWhenQuiet`) and excuses the case in `CatchesUp`.
2. `owner_race`: the sweep and the start behind it reserve nothing; two resumes of one id both find it free and both
   spawn a host (`runnerService.ts`).
3. `mission_lost`: a reverted merge is recorded as the user's to decide before its work is back on the task's branch; if the
   core dies in between, or one of the two git commands fails, Accept merges nothing, and the task is done without its work
   (`taskRunner.ts:2905`). The `mission` run leaves that Accept out.
4. `lease_overtaken`: the hook's check under the `.reap` lock is several reads and its `rm -rf` another step, and neither an acquire nor a
   release takes that lock, so the check can be overtaken: a lease that is released and made anew in between is removed, with its session
   alive (`leaseHook.ts:135-139`). `ReapsOnlyTheDead` is about reapers that nobody overtook.

Seen while modelling, and checked by no run; the hazards name the lines:

* SeqLog: a listener that subscribes inside a callback, at the number that the snapshot reports, is handed events up to that number
  once more, since they are still in the outbox.
* LeaseDir: with two calls in one session under a command lease, the one that ends releases it between the other's reading of its
  session and of its scope, and the other runs under none. The core takes the lease of a session whose end is recorded with its process
  still alive (an orphan agent, one that is closing), and a forced release takes no `.reap` lock: the session goes on without its lease, and when its turn
  ends may remove another's. Two reapers may get past one old `.reap` lock. A resumed session finds its dead process's lease
  its own by the session id alone, while anybody may reap it.
* SessionOwner: the second `setState('stopped')` of a close may overwrite the record of a resume begun meanwhile; the core may die
  between spawning a host and writing its manifest; a host killed while its session is being closed, or quit, leaves an agent that
  runs on to the next start; so does one that is lost while a sweep that has read is shared.
* WebCommands: a frame read after a close with a code is remembered and run by nobody, and its resend waits for an answer that never comes
  (`AllActedOrSwallowed` excuses it and fails without the excuse). A command is acknowledged when it arrives, so its
  answer may be lost with its socket. "Once" lasts ten minutes and as many commands as the cache holds.
* Mission: after a verification that could not run, Accept merges nothing, and if the check then fails the revert
  hits the head, which may be another task's merge. A core that dies before a conflict is handed to its agent leaves the markers in
  the tree, and Accept commits them. A task that passed in a paused mission is merged by the next start only, and only if the mission
  runs by then. A Cancel cut off half way leaves a running task with no attempt. A Discard cut off after the worktrees have gone reads back as not
  done, and the merge can no longer be picked.

## Plan

1. Theorems. An abstract lease (taken, given back, lost with its holder) that LeaseDir implements under `Orderly` until it is taken from somebody, and an
   abstract owner that SessionOwner implements until something comes between; the parts of the liveness arguments that are about single steps.
2. Mission store: file, backup and index with a death between them, under `Restart`. Abstract specification: what was saved is loaded.
3. The scheduler's step as an operator over the runner's state: dependencies, slots, and that a step follows whatever frees a task. Leases of
   attempts, in LeaseDir's directory.
4. Scheduled jobs (slots across sleep and restart), pause (a `ps` that reads late), pairing and login codes, the permission hook.
5. Durable agents, the relay's virtual sockets, Codex threads.
