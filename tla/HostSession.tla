---------------------------- MODULE HostSession ----------------------------
(***************************************************************************)
(* One agent a session host runs: ClaudeSdkSession in                      *)
(* src/src/claude/runner/claudeSdkSession.ts. Clients send it messages and *)
(* answer its asks; the agent (the `claude` process behind the SDK's       *)
(* Query) takes messages, raises asks, ends turns and goes; `end` and      *)
(* `terminate` may come at any moment, and may cross with each other, with *)
(* the start, and with the agent going by itself. Each call runs to its    *)
(* next await in one step. Timers are free to fire at any time.            *)
(***************************************************************************)
EXTENDS Integers, Sequences, FiniteSets

CONSTANTS
  Ask,            \* request ids of the asks the agent may raise
  Client,         \* who answers them
  Uuid,           \* the uuids of messages clients send, and send again
  None,
  SentMemory,     \* SENT_MEMORY
  SettledMemory,  \* SETTLED_MEMORY
  MaxSends        \* bound: messages accepted

ASSUME ConstantsAssumption ==
  /\ SentMemory \in Nat \ {0} /\ SettledMemory \in Nat \ {0} /\ MaxSends \in Nat
  /\ None \notin Client \cup {"allow", "deny"}
  /\ Client \cap {"allow", "deny"} = {}
  /\ None \notin {"ended", "stopped", "signal", "error"}
  /\ IsFiniteSet(Ask)

VARIABLES
  state,       \* snap.state
  query,       \* "none", "key" (awaiting the endpoint's key), or "set": this.query
  pending,     \* the asks waiting for an answer
  settled,     \* the ids last settled, oldest first
  sentUuids,   \* the uuids last sent, oldest first
  inputClosed,
  endStep,     \* where runEnd waits: "none", "grace", "eof", "kill" or "done"
  endReason,   \* None, "stopped" or "signal"
  exitReason,  \* None until the exit event, then what it says
  agent,       \* the process: "none", "idle", "turn" or "gone"
  closed,      \* the SDK's close(): the process is being terminated
  raised,      \* history: the asks raised with canUseTool
  answer,      \* history: what each ask's promise was resolved with: a client, "allow" or "deny"
  replies,     \* history: what each client's answer got: "applied", "stale", "gone"
  closings,    \* history: the ids settled, in order
  sends        \* history: the uuids handed to the CLI, in order

askVars == <<pending, settled, raised, answer, replies, closings>>
sendVars == <<sentUuids, sends>>
endVars == <<endStep, endReason>>
vars == <<state, query, askVars, sendVars, inputClosed, endVars, exitReason, agent, closed>>

Init ==
  /\ state = "starting" /\ query = "none"
  /\ pending = {} /\ settled = <<>> /\ sentUuids = <<>>
  /\ inputClosed = FALSE
  /\ endStep = "none" /\ endReason = None /\ exitReason = None
  /\ agent = "none" /\ closed = FALSE
  /\ raised = {} /\ answer = [a \in Ask |-> None]
  /\ replies = [c \in Client |-> [a \in Ask |-> {}]]
  /\ closings = <<>> /\ sends = <<>>

-----------------------------------------------------------------------------
(* Helpers of every step.                                                  *)

(* What is kept of a list of at most max. *)
Newest(list, max) ==
  IF Len(list) > max THEN SubSeq(list, Len(list) - max + 1, Len(list)) ELSE list

(* Mutant: the memory is one short.                                        *)
MutRemember(list, id, max) == Newest(Append(list, id), max - 1)

(* Mutant: the memory is never cut.                                        *)
MutRememberAll(list, id, max) == Append(list, id)

Remember(list, id, max) == Newest(Append(list, id), max)

(* Mutant: only an ending session keeps its state.                          *)
MutNextState(next) == IF state = "ending" THEN state ELSE next

(* setState: once ending the only way on is out.                           *)
NextState(next) == IF state \in {"ending", "exited"} THEN state ELSE next

(* A promise keeps the first value it is resolved with.                    *)
Resolve(a, with) == answer' = [answer EXCEPT ![a] = IF @ = None THEN with ELSE @]

(* An ask is settled: it is pending no more, and remembered for late answers. *)
Settle(a) ==
  /\ pending' = pending \ {a}
  /\ settled' = Remember(settled, a, SettledMemory)
  /\ closings' = Append(closings, a)

Orders(S) ==
  {s \in [1..Cardinality(S) -> S] : \A i, j \in DOMAIN s : s[i] = s[j] => i = j}

DenyAll == answer' = [a \in Ask |-> IF a \in pending /\ answer[a] = None THEN "deny" ELSE answer[a]]

(* Mutant: the ids are not remembered.                                      *)
MutSettleAll ==
  \E order \in Orders(pending) :
    /\ pending' = {}
    /\ UNCHANGED settled
    /\ closings' = closings \o order
    /\ DenyAll

(* settleAll: every pending ask is denied, one after the other.             *)
SettleAll ==
  \E order \in Orders(pending) :
    /\ pending' = {}
    /\ settled' = Newest(settled \o order, SettledMemory)
    /\ closings' = closings \o order
    /\ DenyAll

(* exit: asks settled, stdin closed, then the exit event, once.            *)
Exit(reason) ==
  IF state = "exited"
    THEN UNCHANGED <<state, pending, settled, closings, answer, inputClosed, exitReason>>
    ELSE /\ SettleAll
         /\ inputClosed' = TRUE
         /\ state' = "exited"
         /\ exitReason' = reason

Why == IF endReason = None THEN "ended" ELSE endReason

-----------------------------------------------------------------------------
(* Starting.                                                               *)

(* start, when a local endpoint's key has to be read first.                 *)
StartWithKey ==
  /\ query = "none" /\ agent = "none" /\ state = "starting"
  /\ query' = "key"
  /\ UNCHANGED <<state, askVars, sendVars, inputClosed, endVars, exitReason, agent, closed>>

Launch ==
  /\ query' = "set" /\ agent' = "idle"
  /\ UNCHANGED <<state, askVars, inputClosed, exitReason>>

StartFails ==
  /\ Exit("error")
  /\ query' = "none"
  /\ UNCHANGED <<raised, replies, agent>>

(* Start without a key, or the key came: the session may be over by then.   *)
StartQuery ==
  /\ query = "key" \/ (query = "none" /\ agent = "none" /\ state # "exited")
  /\ \/ state \notin {"ending", "exited"} /\ Launch
     \/ state \notin {"ending", "exited"} /\ StartFails
     \/ /\ query = "key" /\ state \in {"ending", "exited"}
        /\ query' = "none" /\ agent' = "gone"
        /\ UNCHANGED <<state, askVars, inputClosed, exitReason>>
  /\ UNCHANGED <<sendVars, endVars, closed>>

-----------------------------------------------------------------------------
(* Clients.                                                                *)

(* send: idempotent on the uuid; refused once the session is ending.        *)
Send(u) ==
  /\ Len(sends) < MaxSends
  /\ u \notin {sentUuids[i] : i \in DOMAIN sentUuids}
  /\ state \notin {"ending", "exited"} /\ ~inputClosed
  /\ sentUuids' = Remember(sentUuids, u, SentMemory)
  /\ sends' = Append(sends, u)
  /\ state' = NextState("running")
  /\ UNCHANGED <<query, askVars, inputClosed, endVars, exitReason, agent, closed>>

(* Mutant: the answer goes to the agent and the ask stays.                  *)
MutRespondAsk(c, a) ==
  /\ replies[c][a] = {}
  /\ IF a \in pending
       THEN /\ Resolve(a, c)
            /\ replies' = [replies EXCEPT ![c][a] = {"applied"}]
            /\ UNCHANGED <<pending, settled, closings>>
       ELSE /\ replies' = [replies EXCEPT ![c][a] =
                 {IF a \in {settled[i] : i \in DOMAIN settled} THEN "stale" ELSE "gone"}]
            /\ UNCHANGED <<pending, settled, closings, answer>>
  /\ UNCHANGED <<state, query, sendVars, raised, inputClosed, endVars, exitReason, agent, closed>>

(* respondAsk: the first answer is applied, a later one is stale.           *)
RespondAsk(c, a) ==
  /\ replies[c][a] = {}
  /\ IF a \in pending
       THEN /\ Settle(a)
            /\ Resolve(a, c)
            /\ replies' = [replies EXCEPT ![c][a] = {"applied"}]
       ELSE /\ replies' = [replies EXCEPT ![c][a] =
                 {IF a \in {settled[i] : i \in DOMAIN settled} THEN "stale" ELSE "gone"}]
            /\ UNCHANGED <<pending, settled, closings, answer>>
  /\ UNCHANGED <<state, query, sendVars, raised, inputClosed, endVars, exitReason, agent, closed>>

-----------------------------------------------------------------------------
(* The agent.                                                              *)

Alive == agent \in {"idle", "turn"}

(* Mutant: only an ending session refuses an ask.                           *)
MutCanUseTool(a) ==
  /\ Alive /\ a \notin raised
  /\ raised' = raised \cup {a}
  /\ IF state = "ending"
       THEN Resolve(a, "deny") /\ UNCHANGED <<state, pending>>
       ELSE /\ pending' = pending \cup {a}
            /\ state' = NextState("running")
            /\ UNCHANGED answer
  /\ UNCHANGED <<query, settled, replies, closings, sendVars, inputClosed, endVars, exitReason, agent, closed>>

(* canUseTool: denied when the session is over or nearly, allowed when the  *)
(* parent's rules cover a subagent's ask, else a pending ask.               *)
CanUseTool(a) ==
  /\ Alive /\ a \notin raised
  /\ raised' = raised \cup {a}
  /\ \/ /\ state \in {"ending", "exited"}
        /\ Resolve(a, "deny")
        /\ UNCHANGED <<state, pending>>
     \/ /\ state \notin {"ending", "exited"}
        /\ Resolve(a, "allow")
        /\ UNCHANGED <<state, pending>>
     \/ /\ state \notin {"ending", "exited"}
        /\ pending' = pending \cup {a}
        /\ state' = NextState("running")
        /\ UNCHANGED answer
  /\ UNCHANGED <<query, settled, replies, closings, sendVars, inputClosed, endVars, exitReason, agent, closed>>

(* The agent's abort of an ask, or a tool_result of a tool decided by its   *)
(* own permission hook (settleAnsweredElsewhere): the card goes.            *)
AskClosedByAgent(a) ==
  /\ Alive /\ a \in pending
  /\ Settle(a)
  /\ Resolve(a, "deny")
  /\ UNCHANGED <<state, query, raised, replies, sendVars, inputClosed, endVars, exitReason, agent, closed>>

(* It is initialised, takes a message, or writes: onMessage.                *)
InitMessage ==
  /\ Alive /\ state = "starting"
  /\ state' = "idle"
  /\ UNCHANGED <<query, askVars, sendVars, inputClosed, endVars, exitReason, agent, closed>>

Work ==
  /\ Alive
  /\ agent' = "turn"
  /\ state' = IF state = "idle" THEN "running" ELSE state
  /\ UNCHANGED <<query, askVars, sendVars, inputClosed, endVars, exitReason, closed>>

(* `result`: the turn is over; with messages queued the next one begins.    *)
ResultMessage ==
  /\ agent = "turn"
  /\ \E queued \in BOOLEAN :
       /\ agent' = IF queued THEN "turn" ELSE "idle"
       /\ state' = NextState(IF queued THEN "running" ELSE "idle")
  /\ UNCHANGED <<query, askVars, sendVars, inputClosed, endVars, exitReason, closed>>

(* Mutant: the iterator's error is reported whatever ended the agent.       *)
MutAgentEnds ==
  /\ Alive
  /\ agent' = "gone"
  /\ \E threw \in BOOLEAN : Exit(IF threw THEN "error" ELSE Why)
  /\ UNCHANGED <<query, raised, replies, sendVars, endVars, closed>>

(* pump: the agent is gone, with the iterator done or throwing.             *)
AgentEnds ==
  /\ Alive
  /\ agent' = "gone"
  /\ \E threw \in BOOLEAN : Exit(IF threw /\ state # "ending" THEN "error" ELSE Why)
  /\ UNCHANGED <<query, raised, replies, sendVars, endVars, closed>>

-----------------------------------------------------------------------------
(* end and terminate.                                                      *)

CloseInput ==
  /\ SettleAll
  /\ inputClosed' = TRUE

(* end, to its first await: a busy agent is interrupted and given a grace.  *)
End ==
  /\ endStep = "none" /\ state # "exited"
  /\ LET why  == IF endReason = None THEN "stopped" ELSE endReason
         busy == state = "running" \/ pending # {}
     IN  /\ endReason' = why
         /\ \/ /\ query # "set"
               /\ Exit(why) /\ endStep' = "done"
            \/ /\ query = "set" /\ busy
               /\ state' = "ending" /\ endStep' = "grace"
               /\ UNCHANGED <<pending, settled, closings, answer, inputClosed, exitReason>>
            \/ /\ query = "set" /\ ~busy
               /\ state' = "ending" /\ endStep' = "eof" /\ CloseInput
               /\ UNCHANGED exitReason
  /\ UNCHANGED <<query, raised, replies, sendVars, agent, closed>>

(* The turn ended, the agent went, or the grace is over.                    *)
GraceOver ==
  /\ endStep = "grace"
  /\ CloseInput
  /\ endStep' = "eof"
  /\ UNCHANGED <<state, query, raised, replies, sendVars, endReason, exitReason, agent, closed>>

(* Mutant: stdin EOF is the whole plan.                                     *)
MutEofOver ==
  /\ endStep = "eof"
  /\ endStep' = "done"
  /\ UNCHANGED <<state, query, askVars, sendVars, inputClosed, endReason, exitReason, agent, closed>>

EofOver ==
  /\ endStep = "eof"
  /\ IF state = "exited"
       THEN endStep' = "done" /\ UNCHANGED closed
       ELSE endStep' = "kill" /\ closed' = TRUE
  /\ UNCHANGED <<state, query, askVars, sendVars, inputClosed, endReason, exitReason, agent>>

(* Past the last wait an exit is reported even if nobody saw the agent go.  *)
KillOver ==
  /\ endStep = "kill"
  /\ endStep' = "done"
  /\ Exit(Why)
  /\ UNCHANGED <<query, raised, replies, sendVars, endReason, agent, closed>>

(* terminate, on a signal to the host: no interrupt and no grace.           *)
Terminate ==
  /\ state # "exited"
  /\ endReason' = "signal"
  /\ IF query # "set"
       THEN Exit("signal") /\ UNCHANGED closed
       ELSE /\ state' = "ending" /\ CloseInput /\ closed' = TRUE
            /\ UNCHANGED exitReason
  /\ UNCHANGED <<query, raised, replies, sendVars, endStep, agent>>

-----------------------------------------------------------------------------
Next ==
  \/ StartWithKey \/ StartQuery
  \/ \E u \in Uuid : Send(u)
  \/ \E c \in Client, a \in Ask : RespondAsk(c, a)
  \/ \E a \in Ask : CanUseTool(a) \/ AskClosedByAgent(a)
  \/ InitMessage \/ Work \/ ResultMessage \/ AgentEnds
  \/ End \/ GraceOver \/ EofOver \/ KillOver \/ Terminate

(* Timers fire. A terminated agent goes (SIGTERM, then SIGKILL). Mid-turn   *)
(* an agent may ignore its stdin's end for ever.                           *)
Fairness ==
  /\ WF_vars(GraceOver) /\ WF_vars(EofOver) /\ WF_vars(KillOver)
  /\ WF_vars(closed /\ AgentEnds)

Spec == Init /\ [][Next]_vars /\ Fairness

-----------------------------------------------------------------------------
TypeOK ==
  /\ state \in {"starting", "idle", "running", "ending", "exited"}
  /\ query \in {"none", "key", "set"}
  /\ pending \subseteq Ask /\ raised \subseteq Ask
  /\ settled \in Seq(Ask) /\ Len(settled) <= SettledMemory
  /\ closings \in Seq(Ask)
  /\ sentUuids \in Seq(Uuid) /\ Len(sentUuids) <= SentMemory
  /\ sends \in Seq(Uuid)
  /\ inputClosed \in BOOLEAN /\ closed \in BOOLEAN
  /\ endStep \in {"none", "grace", "eof", "kill", "done"}
  /\ endReason \in {None, "stopped", "signal"}
  /\ exitReason \in {None, "ended", "stopped", "signal", "error"}
  /\ agent \in {"none", "idle", "turn", "gone"}
  /\ answer \in [Ask -> Client \cup {None, "allow", "deny"}]
  /\ replies \in [Client -> [Ask -> SUBSET {"applied", "stale", "gone"}]]

(* The client told "applied" is the one whose answer the agent has, so two  *)
(* clients are never both told so (claudeSdkSession.ts:337-343).            *)
AppliedIsAnswered ==
  \A c \in Client, a \in Ask : "applied" \in replies[c][a] => answer[a] = c

(* Once the session is over no ask is pending and every ask the agent       *)
(* raised was answered: nothing is left parked on a human (claudeSdkSession.ts:561-572). *)
NothingHangs ==
  state = "exited" => pending = {} /\ \A a \in raised : answer[a] # None

(* A message sent again is handed to the CLI once, while fewer than         *)
(* SENT_MEMORY others were sent since (claudeSdkSession.ts:318-335).        *)
SentOnce ==
  \A i, j \in DOMAIN sends : i < j /\ sends[i] = sends[j] => j - i > SentMemory

(* An answer that came too late is told so: "gone" only means an ask that   *)
(* was never raised, or settled so long ago that SETTLED_MEMORY others were *)
(* settled since (claudeSdkSession.ts:144-145, 339).                        *)
LateIsStale ==
  [][\A c \in Client, a \in Ask :
       replies[c][a] = {} /\ replies'[c][a] = {"gone"} =>
         \A i \in DOMAIN closings : closings[i] = a => Len(closings) - i >= SettledMemory]_vars

(* An ending that was asked for is reported as that, whatever the agent's   *)
(* going looked like (claudeSdkSession.ts:478-487).                         *)
EndingIsNoFailure == endReason # None => exitReason \in {None, "stopped", "signal"}

(* After the exit event nothing is reported and nothing changes for the     *)
(* clients (claudeSdkSession.ts:490-492, 574-580).                          *)
ExitIsLast ==
  [][state = "exited" => UNCHANGED <<state, exitReason, pending, closings, sends>>]_vars

(* A session that is ending ends, though the agent may ignore the           *)
(* interrupt and the end of its input (claudeSdkSession.ts:374-427).        *)
EndingEnds == state = "ending" ~> state = "exited"
=============================================================================
