------------------------------- MODULE SeqLog -------------------------------
(***************************************************************************)
(* The numbered, bounded event log with replay that every session host and *)
(* every session view hands its events out through                         *)
(* (src/src/core/session/seqLog.ts).                                       *)
(*                                                                         *)
(* All of the log runs on one thread, but a listener may push, subscribe   *)
(* or dispose while it is being called: `turn` says where the delivery     *)
(* loop of `push` stands, and callers act only when it is idle or when a   *)
(* listener has the thread.                                                *)
(***************************************************************************)
EXTENDS Integers, FiniteSets

CONSTANTS
  Listener,   \* the subscriptions: each is one closure given to `subscribe`
  Size,       \* the estimated sizes an event may have
  MaxBytes,   \* opts.maxBytes
  MaxSeq      \* bound: how many events are ever pushed

ASSUME SizeAssumption  == Size \subseteq Nat /\ Size # {}
ASSUME BoundAssumption == MaxBytes \in Nat /\ MaxSeq \in Nat

VARIABLES
  lastSeq,    \* the seq of the newest event, 0 before the first
  total,      \* total[s]: bytes of the events 1..s, so held bytes are a difference
  evicted,    \* highest seq no longer held; the entries are evicted+1..lastSeq
  handedOut,  \* highest seq handed to listeners; the outbox is handedOut+1..lastSeq
  turn,       \* "idle": not delivering; "loop": in push's loop; "listener": inside a callback
  toCall,     \* the copy of `listeners` the loop still has to call with event handedOut
  listeners,  \* the subscriptions that are added and not disposed
  joined,     \* joined[l]: the fromSeq l subscribed with
  got         \* history: the seqs l has been called with since it subscribed

vars == <<lastSeq, total, evicted, handedOut, turn, toCall, listeners, joined, got>>

Init ==
  /\ lastSeq = 0
  /\ total = [s \in 0..MaxSeq |-> 0]
  /\ evicted = 0
  /\ handedOut = 0
  /\ turn = "idle"
  /\ toCall = {}
  /\ listeners = {}
  /\ joined = [l \in Listener |-> 0]
  /\ got = [l \in Listener |-> {}]

CallersMayRun == turn # "loop"

(* The entries with seq > fromSeq, as `since` filters them.                *)
Since(fromSeq) == {s \in evicted+1..lastSeq : s > fromSeq}

(* Mutant: since keeps no check that the gap is still held.                *)
MutResyncNeeded(fromSeq) == fromSeq > lastSeq

(* `since` throws ResyncNeeded: events after fromSeq are gone, or fromSeq  *)
(* comes from another instance's numbering.                                *)
ResyncNeeded(fromSeq) == fromSeq < evicted \/ fromSeq > lastSeq

(* Mutant: the eviction loop lets one byte too many stay.                  *)
MutOver(bytes, gone) == bytes - total[gone] > MaxBytes + 1

(* Bytes held once events 1..gone are dropped and `bytes` in all were pushed. *)
Over(bytes, gone) == bytes - total[gone] > MaxBytes

(* The eviction loop of push: drop the oldest entry while over budget and  *)
(* more than the newest one is held.                                       *)
Evict(bytes) ==
  \E gone \in evicted..lastSeq :
    /\ gone = lastSeq \/ ~Over(bytes, gone)
    /\ \A g \in evicted..gone-1 : Over(bytes, g)
    /\ evicted' = gone

(* push: number the event, append it, evict; start the delivery loop only  *)
(* if no outer push is already running it.                                 *)
Push(size) ==
  /\ CallersMayRun
  /\ lastSeq < MaxSeq
  /\ lastSeq' = lastSeq + 1
  /\ total' = [total EXCEPT ![lastSeq + 1] = total[lastSeq] + size]
  /\ Evict(total[lastSeq] + size)
  /\ IF turn = "idle"
       THEN /\ turn' = "loop"
            /\ handedOut' = lastSeq + 1
            /\ toCall' = listeners
       ELSE UNCHANGED <<turn, handedOut, toCall>>
  /\ UNCHANGED <<listeners, joined, got>>

(* The loop calls the next listener of its copy, even one disposed since.  *)
CallListener(l) ==
  /\ turn # "idle"
  /\ l \in toCall
  /\ toCall' = toCall \ {l}
  /\ turn' = "listener"
  /\ got' = [got EXCEPT ![l] = @ \cup {handedOut}]
  /\ UNCHANGED <<lastSeq, total, evicted, handedOut, listeners, joined>>

(* Mutant: the loop goes round once more than the outbox has events.       *)
MutNextEvent ==
  /\ turn # "idle"
  /\ toCall = {}
  /\ handedOut' = handedOut + 1
  /\ toCall' = listeners
  /\ turn' = "loop"
  /\ UNCHANGED <<lastSeq, total, evicted, listeners, joined, got>>

(* Every listener of this event has returned: the outbox's next one.       *)
NextEvent ==
  /\ turn # "idle"
  /\ toCall = {}
  /\ handedOut < lastSeq
  /\ handedOut' = handedOut + 1
  /\ toCall' = listeners
  /\ turn' = "loop"
  /\ UNCHANGED <<lastSeq, total, evicted, listeners, joined, got>>

(* Mutant: push hands out its own event only, not what its listeners pushed. *)
MutStopDelivering ==
  /\ turn # "idle"
  /\ toCall = {}
  /\ turn' = "idle"
  /\ UNCHANGED <<lastSeq, total, evicted, handedOut, toCall, listeners, joined, got>>

(* The outbox is empty: the outermost push returns.                        *)
StopDelivering ==
  /\ turn # "idle"
  /\ toCall = {}
  /\ handedOut = lastSeq
  /\ turn' = "idle"
  /\ UNCHANGED <<lastSeq, total, evicted, handedOut, toCall, listeners, joined, got>>

(* Mutant: subscribe replays the whole backlog, the outbox included.       *)
MutSubscribe(l, fromSeq) ==
  /\ CallersMayRun
  /\ l \notin listeners \cup toCall
  /\ ~ResyncNeeded(fromSeq)
  /\ listeners' = listeners \cup {l}
  /\ joined' = [joined EXCEPT ![l] = fromSeq]
  /\ got' = [got EXCEPT ![l] = Since(fromSeq)]
  /\ UNCHANGED <<lastSeq, total, evicted, handedOut, turn, toCall>>

(* subscribe: replay the held events after fromSeq that the loop has       *)
(* already handed out, then follow. The listeners of this code do not push *)
(* while they are being replayed to, so the replay is one step.            *)
Subscribe(l, fromSeq) ==
  /\ CallersMayRun
  /\ l \notin listeners \cup toCall
  /\ ~ResyncNeeded(fromSeq)
  /\ listeners' = listeners \cup {l}
  /\ joined' = [joined EXCEPT ![l] = fromSeq]
  /\ got' = [got EXCEPT ![l] = {s \in Since(fromSeq) : s <= handedOut}]
  /\ UNCHANGED <<lastSeq, total, evicted, handedOut, turn, toCall>>

(* The Disposable that subscribe returned.                                 *)
Unsubscribe(l) ==
  /\ CallersMayRun
  /\ l \in listeners
  /\ listeners' = listeners \ {l}
  /\ UNCHANGED <<lastSeq, total, evicted, handedOut, turn, toCall, joined, got>>

Next ==
  \/ \E size \in Size : Push(size)
  \/ \E l \in Listener : CallListener(l)
  \/ NextEvent
  \/ StopDelivering
  \/ \E l \in Listener, fromSeq \in 0..MaxSeq : Subscribe(l, fromSeq)
  \/ \E l \in Listener : Unsubscribe(l)

(* The loop is synchronous code: once started it runs on. Nothing obliges  *)
(* callers to push or to subscribe.                                        *)
Fairness ==
  /\ \A l \in Listener : WF_vars(CallListener(l))
  /\ WF_vars(NextEvent)
  /\ WF_vars(StopDelivering)

Spec == Init /\ [][Next]_vars /\ Fairness

-----------------------------------------------------------------------------
TypeOK ==
  /\ lastSeq \in 0..MaxSeq
  /\ total \in [0..MaxSeq -> Nat]
  /\ evicted \in 0..lastSeq
  /\ handedOut \in 0..lastSeq
  /\ turn \in {"idle", "loop", "listener"}
  /\ toCall \subseteq Listener
  /\ listeners \subseteq Listener
  /\ joined \in [Listener -> 0..MaxSeq]
  /\ got \in [Listener -> SUBSET (1..MaxSeq)]

(* A subscriber misses nothing after the seq it joined at, whatever was     *)
(* pushed, evicted or subscribed inside other listeners' callbacks: it has  *)
(* been called with every event handed out since, save the one the loop is  *)
(* still bringing it (seqLog.ts:116-123, 131-144).                          *)
NoGap ==
  \A l \in listeners : \A s \in joined[l]+1..handedOut :
    s \in got[l] \/ (s = handedOut /\ l \in toCall)

(* Nobody is called with an event before the ones that precede it, or with  *)
(* one it was already called with: the event being handed out is newer than *)
(* anything a listener still to be called has got (seqLog.ts:91-101).       *)
InOrderOnce ==
  \A l \in toCall : \A s \in got[l] : s < handedOut

(* The ring holds no more than its budget, except that the newest event is  *)
(* kept however large it is, so a subscriber exactly caught up can be given *)
(* it (seqLog.ts:84-90).                                                    *)
RingInBudget ==
  /\ lastSeq > 0 => evicted < lastSeq
  /\ total[lastSeq] - total[evicted] <= MaxBytes \/ evicted = lastSeq - 1

(* A push made inside a listener is not lost in the outbox: every numbered  *)
(* event is handed out in the end (seqLog.ts:94-112).                       *)
AllHandedOut == \A s \in 1..MaxSeq : lastSeq >= s ~> handedOut >= s

=============================================================================
