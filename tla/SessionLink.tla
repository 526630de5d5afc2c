---------------------------- MODULE SessionLink ----------------------------
(***************************************************************************)
(* A session host and the core's client of it, over a Unix socket:         *)
(* src/src/sessionHost/server.ts and outQueue.ts on one side,              *)
(* src/src/core/session/hostClient.ts on the other. The host streams the   *)
(* session's events to a subscribed client through a byte-bounded queue;   *)
(* a client that falls behind is told to resync; a client that connects,   *)
(* reconnects or resyncs catches up: snapshot, page the held events,       *)
(* reconcile, subscribe from where the paging stopped.                     *)
(*                                                                         *)
(* Sizes are counted in lines: every event and reply is one. The events    *)
(* that matter to catching up are messages, asks, their settling and the   *)
(* exit; `state` and `sessionId` events ride the same way.                 *)
(***************************************************************************)
EXTENDS Integers, Sequences, FiniteSets

CONSTANTS
  Ask,         \* the ids of the asks the agent may raise
  None,        \* no request, no reply, no buffer
  RingCap,     \* events the host's SeqLog keeps
  QueueCap,    \* lines one client's OutQueue holds
  WireCap,     \* lines the socket takes before `write` answers false
  Adopt,       \* opts.mode = "adopt": the host is one a previous run left behind
  MaxSeq,      \* bound: events the host emits
  MaxLosses    \* bound: connections lost while the host lives

ASSUME BoundAssumption ==
  /\ RingCap \in Nat \ {0} /\ QueueCap \in Nat \ {0} /\ WireCap \in Nat \ {0}
  /\ MaxSeq \in Nat /\ MaxLosses \in Nat
  /\ Adopt \in BOOLEAN

CatchUpAttempts == 3   \* CATCH_UP_ATTEMPTS

VARIABLES
  \* the host
  hist,       \* every event emitted; the ring holds the last RingCap of them
  hostUp,     \* the host process is alive
  tombstone,  \* the host's manifest has an exit record
  \* the host's end of the connection
  events,     \* conn.events: this client is subscribed
  answer,     \* a handled request's reply, not yet pushed to the queue
  queue,      \* OutQueue.items
  blocked,    \* OutQueue.blocked: the socket asked to wait for `drain`
  \* the socket
  request,    \* the catch-up request under way to the host (one at a time)
  wire,       \* lines the socket took, not yet read by the client
  \* the client
  phase,      \* "off", what its catch-up awaits ("snapshot", "events", "subscribe"), or "live"
  ours,       \* this.peer is this connection: its handshake completed
  connectedOnce,
  attempt,    \* the catch-up attempt, from 1
  chunk,      \* lines of the chunk the peer is dispatching, synchronously
  resumed,    \* the reply whose awaiting continuation runs after the chunk
  buffer,     \* live events held back while catching up, or None
  snap,       \* the snapshot of this attempt: its seq and where its ring starts
  paged,      \* the events paged in this attempt: after `from`, through `to`
  lastSeq,    \* highest host seq handed to listeners or passed over
  knownAsks,  \* asks the listeners were told of and not told were settled
  exitTold,   \* None, or how the exit was told: "exit" or "lost"
  shown,      \* adopt: the transcript holds the messages through this seq
  heard,      \* history: the seqs handed to listeners
  losses      \* connections lost so far

hostVars == <<hist, hostUp, tombstone>>
connVars == <<events, answer, queue, blocked, request, wire>>
viewVars == <<lastSeq, knownAsks, exitTold, heard>>
linkVars == <<phase, ours, connectedOnce, attempt, chunk, resumed, buffer, snap, paged, shown, losses>>
vars == <<hostVars, connVars, viewVars, linkVars>>

Max2(a, b) == IF a > b THEN a ELSE b
Min2(a, b) == IF a < b THEN a ELSE b

-----------------------------------------------------------------------------
(* Events, and the state they fold into (reduceHostSnapshot).              *)

Body ==
  [type : {"message", "exit"}] \cup [type : {"ask", "askSettled"}, id : Ask]

Exited(h) == \E i \in DOMAIN h : h[i].type = "exit"
Raises(e, a) == e.type = "ask" /\ e.id = a
Closes(e, a) == e.type = "exit" \/ (e.type = "askSettled" /\ e.id = a)

(* The pending asks after the events S of h, in order, on top of `asks`.   *)
AsksAfter(h, asks, S) ==
  {a \in Ask :
     \/ a \in asks /\ \A i \in S : ~Closes(h[i], a)
     \/ \E i \in S : /\ Raises(h[i], a)
                     /\ \A j \in S : j > i => ~Closes(h[j], a)}

HostAsks(h, n) == AsksAfter(h, {}, 1..n)

Evicted(h) == Max2(Len(h) - RingCap, 0)

-----------------------------------------------------------------------------
(* The client's out-queue on the host (OutQueue).                          *)

Droppable(line) == line.kind = "event"
EventLine(s) == [kind |-> "event", seq |-> s]
ResyncLine == [kind |-> "resync"]
Reply(m, status, a, b) == [kind |-> "reply", method |-> m, status |-> status, from |-> a, to |-> b]

(* What an overflow leaves of the queue: the lines that are never dropped.  *)
Undroppable(s) ==
  LET kept[i \in 0..Len(s)] ==
        IF i = 0 THEN <<>>
        ELSE IF Droppable(s[i]) THEN kept[i-1] ELSE Append(kept[i-1], s[i])
  IN kept[Len(s)]

(* push of a line that is never dropped. *)
PushReply(line) ==
  IF blocked
    THEN /\ queue' = Append(queue, line)
         /\ UNCHANGED <<wire, blocked>>
    ELSE /\ wire' = Append(wire, line)
         /\ blocked' = (Len(wire) + 1 >= WireCap)
         /\ UNCHANGED queue

(* Mutant: past the budget the queued events go and nobody is told.         *)
MutPushEvent(s) ==
  /\ IF blocked /\ Len(queue) + 1 > QueueCap
       THEN queue' = Undroppable(queue) /\ UNCHANGED <<wire, blocked>>
       ELSE PushReply(EventLine(s))
  /\ UNCHANGED events

(* push of an event to a subscribed client; past the budget, `overflow`:    *)
(* the queued events go, the subscription ends, and `resync` is queued.     *)
PushEvent(s) ==
  IF blocked /\ Len(queue) + 1 > QueueCap
    THEN /\ events' = FALSE
         /\ queue' = Append(Undroppable(queue), ResyncLine)
         /\ UNCHANGED <<wire, blocked>>
    ELSE /\ PushReply(EventLine(s))
         /\ UNCHANGED events

(* Mutant: one line is flushed for each drain.                              *)
MutDrain ==
  /\ blocked
  /\ Len(wire) < WireCap
  /\ IF queue = <<>>
       THEN UNCHANGED <<wire, queue>>
       ELSE wire' = Append(wire, Head(queue)) /\ queue' = Tail(queue)
  /\ blocked' = (Len(wire') >= WireCap)
  /\ UNCHANGED <<hostVars, events, answer, request, viewVars, linkVars>>

(* The socket drained: flush until it asks to wait again. *)
Drain ==
  /\ blocked
  /\ Len(wire) < WireCap
  /\ LET n == Min2(Len(queue), WireCap - Len(wire))
     IN  /\ wire' = wire \o SubSeq(queue, 1, n)
         /\ queue' = SubSeq(queue, n + 1, Len(queue))
         /\ blocked' = (Len(wire) + n >= WireCap)
  /\ UNCHANGED <<hostVars, events, answer, request, viewVars, linkVars>>

-----------------------------------------------------------------------------
(* The host: its session emits events, answers requests, and goes.         *)

(* An event of the session, folded, kept, and streamed. The exit settles    *)
(* every ask first and writes the tombstone in the same turn.               *)
Emit(body) ==
  /\ hostUp /\ ~Exited(hist)
  /\ Len(hist) < MaxSeq
  /\ body.type = "ask" => \A i \in DOMAIN hist : ~Raises(hist[i], body.id)
  /\ body.type = "askSettled" => body.id \in HostAsks(hist, Len(hist))
  /\ body.type = "exit" => HostAsks(hist, Len(hist)) = {}
  /\ hist' = Append(hist, body)
  /\ tombstone' = (tombstone \/ body.type = "exit")
  /\ IF events
       THEN PushEvent(Len(hist) + 1)
       ELSE UNCHANGED <<events, queue, wire, blocked>>
  /\ UNCHANGED <<hostUp, answer, request, viewVars, linkVars>>

(* The reply a request gets, and what handling it changes; the reply is    *)
(* pushed a microtask later (Respond), and events may come in between.     *)
ServeSnapshot ==
  /\ request # None /\ request.method = "snapshot"
  /\ answer' = Reply("snapshot", "ok", Evicted(hist), Len(hist))
  /\ request' = None
  /\ UNCHANGED <<hostVars, events, queue, blocked, wire, viewVars, linkVars>>

(* A page always moves on by at least one event if there is one; "more"     *)
(* says it was cut before the newest (the code's `done`).                   *)
ServeEvents ==
  /\ request # None /\ request.method = "events"
  /\ IF request.from < Evicted(hist) \/ request.from > Len(hist)
       THEN answer' = Reply("events", "resync", request.from, request.from)
       ELSE \E to \in Min2(request.from + 1, Len(hist))..Len(hist) :
              answer' = Reply("events", IF to = Len(hist) THEN "ok" ELSE "more", request.from, to)
  /\ request' = None
  /\ UNCHANGED <<hostVars, events, queue, blocked, wire, viewVars, linkVars>>

(* subscribe replays the held events after fromSeq through the queue. They  *)
(* go out before the answer; if they overflow it, the call fails and        *)
(* nothing streams. The queue is empty when a client catching up subscribes. *)
ServeSubscribe ==
  /\ request # None /\ request.method = "subscribe"
  /\ request' = None
  /\ LET from    == request.from
         backlog == [i \in 1..Len(hist) - from |-> EventLine(from + i)]
         n       == IF blocked THEN 0 ELSE Min2(Len(backlog), WireCap - Len(wire))
         rest    == Len(backlog) - n
     IN  IF from < Evicted(hist) \/ from > Len(hist)
           THEN /\ events' = FALSE
                /\ answer' = Reply("subscribe", "resync", from, from)
                /\ UNCHANGED <<queue, blocked, wire>>
           ELSE /\ wire' = wire \o SubSeq(backlog, 1, n)
                /\ blocked' = (blocked \/ Len(wire) + n >= WireCap)
                /\ IF rest <= QueueCap
                     THEN /\ queue' = queue \o SubSeq(backlog, n + 1, Len(backlog))
                          /\ events' = TRUE
                          /\ answer' = Reply("subscribe", "ok", from, from)
                     ELSE \* the events after the last overflow are still queued
                          /\ queue' = queue \o SubSeq(backlog, Len(backlog) - (rest % (QueueCap + 1)) + 1, Len(backlog))
                          /\ events' = FALSE
                          /\ answer' = Reply("subscribe", "resync", from, from)
  /\ UNCHANGED <<hostVars, viewVars, linkVars>>

Respond ==
  /\ answer # None
  /\ PushReply(answer)
  /\ answer' = None
  /\ UNCHANGED <<hostVars, events, request, viewVars, linkVars>>

(* Once the agent has exited and the news had its chance, or after a minute, *)
(* the host process leaves (drainThenExit). *)
HostLeaves ==
  /\ hostUp /\ Exited(hist)
  /\ hostUp' = FALSE
  /\ UNCHANGED <<hist, tombstone, connVars, viewVars, linkVars>>

(* It dies at any time: killed outright, or by an error it could still record. *)
HostDies ==
  /\ hostUp /\ ~Exited(hist)
  /\ hostUp' = FALSE
  /\ tombstone' \in BOOLEAN
  /\ UNCHANGED <<hist, connVars, viewVars, linkVars>>

-----------------------------------------------------------------------------
(* The client: connecting and losing the connection.                       *)

Call(m, from) == [method |-> m, from |-> from]
Adopting == Adopt /\ ~connectedOnce
Connected == phase # "off"
AtRest == chunk = <<>> /\ resumed = None   \* between two socket events

(* Hand listeners the events S, in order: those not yet handed over.       *)
Deliver(S) ==
  LET fresh == {s \in S : s > lastSeq}
  IN  /\ heard' = heard \cup fresh
      /\ lastSeq' = IF fresh = {} THEN lastSeq
                    ELSE CHOOSE s \in fresh : \A t \in fresh : t <= s
      /\ knownAsks' = AsksAfter(hist, knownAsks, fresh)
      /\ exitTold' = IF exitTold = None /\ \E s \in fresh : hist[s].type = "exit"
                       THEN "exit" ELSE exitTold

(* A fresh attempt of catchUp: hold live events back and ask for a snapshot. *)
StartAttempt(n) ==
  /\ attempt' = n
  /\ buffer' = <<>>
  /\ phase' = "snapshot"
  /\ request' = Call("snapshot", 0)

(* The connection is gone, whoever closed it: what was in it is lost.      *)
CloseConnection ==
  /\ phase' = "off" /\ ours' = FALSE
  /\ events' = FALSE /\ answer' = None /\ request' = None
  /\ queue' = <<>> /\ blocked' = FALSE /\ wire' = <<>>

(* connectOnce: the socket connects, hello is answered, catchUp begins. An  *)
(* adopting client has read the transcript by then, at the latest now.      *)
Connect ==
  /\ ~Connected /\ hostUp /\ exitTold = None
  /\ StartAttempt(1)
  /\ IF Adopting /\ lastSeq = 0
       THEN shown' \in {0} \cup {s \in DOMAIN hist : hist[s].type = "message"}
       ELSE UNCHANGED shown
  /\ UNCHANGED <<hostVars, events, answer, queue, blocked, wire, viewVars,
                 ours, connectedOnce, chunk, resumed, snap, paged, losses>>

(* Mutant: the tombstone is not read.                                       *)
MutHostGoneBlind ==
  /\ ~Connected /\ ~hostUp /\ exitTold = None
  /\ exitTold' = "lost"
  /\ knownAsks' = {}
  /\ UNCHANGED <<hostVars, connVars, lastSeq, heard, linkVars>>

(* Mutant: a host that died without an exit record is reconnected to for ever. *)
MutHostGoneRecorded ==
  /\ ~Connected /\ ~hostUp /\ exitTold = None
  /\ exitTold' = IF tombstone THEN "exit" ELSE None
  /\ knownAsks' = {}
  /\ UNCHANGED <<hostVars, connVars, lastSeq, heard, linkVars>>

(* connectLoop when the host process is gone: hostGone tells the exit the   *)
(* tombstone records, or that the host was lost.                            *)
HostGone ==
  /\ ~Connected /\ ~hostUp /\ exitTold = None
  /\ exitTold' = IF tombstone THEN "exit" ELSE "lost"
  /\ knownAsks' = {}
  /\ UNCHANGED <<hostVars, connVars, lastSeq, heard, linkVars>>

(* The socket closes: a request timed out, the host let go, or it is dead.  *)
LoseConnection ==
  /\ Connected /\ AtRest
  /\ hostUp => losses < MaxLosses
  /\ losses' = IF hostUp THEN losses + 1 ELSE losses
  /\ CloseConnection
  /\ buffer' = IF ours THEN None ELSE buffer
  /\ UNCHANGED <<hostVars, viewVars, connectedOnce, attempt, chunk, resumed, snap, paged, shown>>

-----------------------------------------------------------------------------
(* The client: reading the socket (NdjsonPeer.feed). A chunk of lines is    *)
(* dispatched synchronously; only then does the code awaiting a reply run.  *)

ReadChunk ==
  /\ Connected /\ AtRest
  /\ \E n \in 1..Len(wire) :
       /\ chunk' = SubSeq(wire, 1, n)
       /\ wire' = SubSeq(wire, n + 1, Len(wire))
  /\ UNCHANGED <<hostVars, events, answer, queue, blocked, request, viewVars, phase, ours,
                 connectedOnce, attempt, resumed, buffer, snap, paged, shown, losses>>

NextLine(kind) == chunk # <<>> /\ Head(chunk).kind = kind /\ chunk' = Tail(chunk)

DispatchEvent ==
  /\ NextLine("event")
  /\ IF buffer # None
       THEN buffer' = Append(buffer, Head(chunk).seq) /\ UNCHANGED viewVars
       ELSE Deliver({Head(chunk).seq}) /\ UNCHANGED buffer
  /\ UNCHANGED <<hostVars, connVars, phase, ours, connectedOnce, attempt, resumed, snap, paged, shown, losses>>

DispatchReply ==
  /\ NextLine("reply")
  /\ resumed' = Head(chunk)
  /\ UNCHANGED <<hostVars, connVars, viewVars, phase, ours, connectedOnce, attempt, buffer, snap, paged, shown, losses>>

(* "only a live link resyncs": mid-catch-up the notification is passed over. *)
DispatchResync ==
  /\ NextLine("resync")
  /\ IF buffer = None /\ ours
       THEN StartAttempt(1)
       ELSE UNCHANGED <<attempt, buffer, phase, request>>
  /\ UNCHANGED <<hostVars, events, answer, queue, blocked, wire, viewVars,
                 ours, connectedOnce, resumed, snap, paged, shown, losses>>

-----------------------------------------------------------------------------
(* The client: catchUp, resumed by the reply it awaits.                     *)

Resume(method) ==
  /\ chunk = <<>>
  /\ resumed # None /\ resumed.method = method
  /\ resumed' = None

(* RPC_RESYNC: the ring moved on under this attempt. After the last one the *)
(* error destroys the socket.                                               *)
TryAgain ==
  /\ IF attempt < CatchUpAttempts
       THEN /\ StartAttempt(attempt + 1)
            /\ UNCHANGED <<events, answer, queue, blocked, wire, ours>>
       ELSE /\ CloseConnection
            /\ buffer' = None
            /\ UNCHANGED attempt
  /\ UNCHANGED <<hostVars, viewVars, connectedOnce, chunk, snap, paged, shown, losses>>

GotSnapshot ==
  /\ Resume("snapshot")
  /\ LET from == IF Adopting THEN resumed.from ELSE Max2(lastSeq, resumed.from)
     IN  /\ snap' = [seq |-> resumed.to, from |-> resumed.from]
         /\ paged' = [from |-> from, to |-> from]
         /\ phase' = "events"
         /\ request' = Call("events", from)
  /\ UNCHANGED <<hostVars, events, answer, queue, blocked, wire, viewVars, ours,
                 connectedOnce, attempt, chunk, buffer, shown, losses>>

(* A page cut before the newest event: ask for the next one.                *)
GotPage ==
  /\ Resume("events") /\ resumed.status = "more"
  /\ paged' = [paged EXCEPT !.to = resumed.to]
  /\ request' = Call("events", resumed.to)
  /\ UNCHANGED <<hostVars, events, answer, queue, blocked, wire, viewVars, phase, ours,
                 connectedOnce, attempt, chunk, buffer, snap, shown, losses>>

(* What is handed over of the paged events: an adopting client leaves out   *)
(* what the transcript already shows (filterAdopt). An event of the model   *)
(* is one of this conversation and whole: filterAdopt also leaves out the   *)
(* messages of a conversation that /clear replaced, and the deltas that     *)
(* streamed a message which is complete by now.                             *)
HandedOver(S) == IF Adopting THEN {s \in S : s > shown} ELSE S

(* Mutant: reconcile trusts the snapshot alone, not the events paged after it. *)
MutReconcile(to) ==
  /\ knownAsks' = HostAsks(hist, snap.seq)
  /\ exitTold' = IF exitTold = None /\ \E s \in 1..snap.seq : hist[s].type = "exit"
                   THEN "exit" ELSE exitTold

(* reconcile: the snapshot and the paged events after it decide what is     *)
(* pending and whether it is over, whatever the listeners heard of.         *)
Reconcile(to) ==
  LET after == {s \in paged.from+1..to : s > snap.seq}
      over  == \E s \in 1..snap.seq \cup after : hist[s].type = "exit"
  IN  /\ knownAsks' = AsksAfter(hist, HostAsks(hist, snap.seq), after)
      /\ exitTold' = IF exitTold = None /\ over THEN "exit" ELSE exitTold

(* The last page: hand over, reconcile, subscribe.                          *)
GotLastPage ==
  /\ Resume("events") /\ resumed.status = "ok"
  /\ LET to    == resumed.to
         fresh == {s \in paged.from+1..to : s > lastSeq}
     IN  /\ paged' = [paged EXCEPT !.to = to]
         /\ heard' = heard \cup HandedOver(fresh)
         /\ lastSeq' = Max2(lastSeq, to)
         /\ Reconcile(to)
         /\ request' = Call("subscribe", Max2(lastSeq, to))
  /\ phase' = "subscribe"
  /\ UNCHANGED <<hostVars, events, answer, queue, blocked, wire, ours, connectedOnce,
                 attempt, chunk, buffer, snap, shown, losses>>

EventsGone == Resume("events") /\ resumed.status = "resync" /\ TryAgain
SubscribeRefused == Resume("subscribe") /\ resumed.status = "resync" /\ TryAgain

(* Mutant: the catch-up ends without taking the buffer away.                *)
MutSubscribed ==
  /\ Resume("subscribe") /\ resumed.status = "ok"
  /\ Deliver({buffer[i] : i \in DOMAIN buffer})
  /\ buffer' = <<>>
  /\ phase' = "live"
  /\ ours' = TRUE
  /\ connectedOnce' = TRUE
  /\ UNCHANGED <<hostVars, connVars, attempt, chunk, snap, paged, shown, losses>>

(* Caught up: hand over what was held back; the link is live.               *)
Subscribed ==
  /\ Resume("subscribe") /\ resumed.status = "ok"
  /\ Deliver({buffer[i] : i \in DOMAIN buffer})
  /\ buffer' = None
  /\ phase' = "live"
  /\ ours' = TRUE
  /\ connectedOnce' = TRUE
  /\ UNCHANGED <<hostVars, connVars, attempt, chunk, snap, paged, shown, losses>>

-----------------------------------------------------------------------------
Init ==
  /\ hist = <<>> /\ hostUp = TRUE /\ tombstone = FALSE
  /\ events = FALSE /\ answer = None /\ queue = <<>> /\ blocked = FALSE
  /\ request = None /\ wire = <<>>
  /\ phase = "off" /\ ours = FALSE /\ connectedOnce = FALSE
  /\ attempt = 1 /\ chunk = <<>> /\ resumed = None /\ buffer = None
  /\ snap = [seq |-> 0, from |-> 0] /\ paged = [from |-> 0, to |-> 0]
  /\ lastSeq = 0 /\ knownAsks = {} /\ exitTold = None
  /\ shown = 0 /\ heard = {} /\ losses = 0

Serve == ServeSnapshot \/ ServeEvents \/ ServeSubscribe

Dispatch == DispatchEvent \/ DispatchReply \/ DispatchResync

Continue ==
  \/ GotSnapshot \/ GotPage \/ GotLastPage \/ EventsGone
  \/ Subscribed \/ SubscribeRefused

(* All that is left is a client that has been told, and no connection.      *)
Finished == exitTold # None /\ ~Connected /\ ~hostUp /\ UNCHANGED vars

Next ==
  \/ \E body \in Body : Emit(body)
  \/ HostLeaves \/ HostDies
  \/ Serve \/ Respond \/ Drain
  \/ Connect \/ HostGone \/ LoseConnection
  \/ ReadChunk \/ Dispatch \/ Continue
  \/ Finished

(* Both processes run their event loops; the socket delivers what it took;  *)
(* a dead host's socket closes; an exited host leaves within a minute.      *)
(* Nothing obliges the agent to emit, or its host to die.                   *)
Fairness ==
  /\ WF_vars(Serve) /\ WF_vars(Respond) /\ WF_vars(Drain)
  /\ WF_vars(ReadChunk) /\ WF_vars(Dispatch) /\ WF_vars(Continue)
  /\ WF_vars(Connect) /\ WF_vars(HostGone) /\ WF_vars(HostLeaves)
  /\ WF_vars(~hostUp /\ LoseConnection)

Spec == Init /\ [][Next]_vars /\ Fairness

-----------------------------------------------------------------------------
Method == {"snapshot", "events", "subscribe"}

Line ==
  [kind : {"event"}, seq : 1..MaxSeq] \cup {ResyncLine}
    \cup [kind : {"reply"}, method : Method, status : {"ok", "more", "resync"}, from : 0..MaxSeq, to : 0..MaxSeq]

Request == [method : Method, from : 0..MaxSeq]

ASSUME NoneAssumption ==
  None \notin Line \cup Request \cup Seq(1..MaxSeq) \cup {"exit", "lost"}

TypeOK ==
  /\ hist \in Seq(Body) /\ Len(hist) <= MaxSeq
  /\ hostUp \in BOOLEAN /\ tombstone \in BOOLEAN
  /\ events \in BOOLEAN /\ blocked \in BOOLEAN
  /\ answer \in Line \cup {None} /\ resumed \in Line \cup {None}
  /\ queue \in Seq(Line) /\ wire \in Seq(Line) /\ chunk \in Seq(Line)
  /\ queue # <<>> => blocked   \* so no line overtakes a queued one
  /\ request \in Request \cup {None}
  /\ phase \in {"off", "snapshot", "events", "subscribe", "live"}
  /\ ours \in BOOLEAN /\ connectedOnce \in BOOLEAN
  /\ attempt \in 1..CatchUpAttempts
  /\ buffer \in Seq(1..MaxSeq) \cup {None}
  /\ snap \in [seq : 0..MaxSeq, from : 0..MaxSeq]
  /\ paged \in [from : 0..MaxSeq, to : 0..MaxSeq]
  /\ lastSeq \in 0..MaxSeq /\ knownAsks \subseteq Ask
  /\ exitTold \in {None, "exit", "lost"}
  /\ shown \in 0..MaxSeq /\ heard \subseteq 1..MaxSeq /\ losses \in 0..MaxLosses

Quiet ==
  /\ phase = "live" /\ AtRest
  /\ wire = <<>> /\ queue = <<>> /\ answer = None /\ request = None

(* Whatever was dropped, evicted, replayed or lost on the way: once a       *)
(* subscribed client has nothing left to read, it and the host agree on     *)
(* every pending ask, on the newest event and on whether it is over         *)
(* (hostClient.ts:9-19, 508-529).                                           *)
AgreesWhenQuiet ==
  Quiet /\ events =>
    /\ lastSeq = Len(hist)
    /\ knownAsks = HostAsks(hist, Len(hist))
    /\ exitTold = None <=> ~Exited(hist)

(* A view that was told "lost" was told the truth: no exit was recorded. A  *)
(* view told of an exit holds no ask that could still be answered           *)
(* (hostClient.ts:355-364, 615-624).                                        *)
ExitIsFinal ==
  /\ exitTold = "lost" => ~hostUp /\ ~tombstone
  /\ exitTold # None => knownAsks = {}

(* The view is always told in the end that the session is over, whether the *)
(* exit event reached it, the next snapshot had it, or its host was found   *)
(* dead (hostClient.ts:321-364, main.ts:293-299).                           *)
ExitReachesView == (Exited(hist) \/ ~hostUp) ~> exitTold # None

(* The view catches up with the host again and again, however often it is   *)
(* overflowed, cut off or sent back to a fresh snapshot, unless it went     *)
(* live without its subscription (see LiveMeansFollowing)                   *)
(* (hostClient.ts:9-19, 454-493).                                           *)
CatchesUp == []<>(lastSeq = Len(hist) \/ exitTold # None \/ (Quiet /\ ~events))

(* What the client relies on: "Mid-catch-up a `subscribe` answers           *)
(* RPC_RESYNC itself; only a live link resyncs" (hostClient.ts:426). If so  *)
(* a live link with nothing on its way is a subscribed one.                 *)
LiveMeansFollowing == Quiet /\ hostUp => events

(* The link implements what the view is promised.                           *)
Feed == INSTANCE ViewFeed WITH
  emitted <- Len(hist), gone <- Evicted(hist), over <- Exited(hist) \/ ~hostUp,
  last <- lastSeq, told <- exitTold # None

FeedSpec == Feed!Spec
=============================================================================
