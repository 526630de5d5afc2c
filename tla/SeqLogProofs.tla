---------------------------- MODULE SeqLogProofs ----------------------------
(***************************************************************************)
(* For every set of subscriptions, every event size, every ring budget and *)
(* every number of events: SeqLog keeps its types and its budget, and a    *)
(* subscriber misses nothing and hears nothing twice or out of order.      *)
(*                                                                         *)
(* The loop is what makes NoGap inductive: when it is idle the outbox is   *)
(* empty and nobody is left to call, so the event a push hands out is the  *)
(* next one for every listener.                                            *)
(***************************************************************************)
EXTENDS SeqLog, TLAPS

(* Where the loop stands, and what its listeners have been called with.    *)
LoopInv ==
  /\ turn = "idle" => toCall = {} /\ handedOut = lastSeq
  /\ turn # "idle" => handedOut > 0
  /\ \A l \in Listener : \A s \in got[l] : s <= handedOut

IInv == TypeOK /\ LoopInv /\ NoGap /\ InOrderOnce

USE SizeAssumption, BoundAssumption

LEMMA InitIInv == Init => IInv
  BY DEF Init, IInv, TypeOK, LoopInv, NoGap, InOrderOnce

(* Numbering an event touches nothing anyone was called with; if the loop   *)
(* was idle, everyone it copies is exactly one event behind.                *)
LEMMA PushStep ==
  ASSUME IInv, NEW size \in Size, Push(size)
  PROVE  IInv'
<1> USE DEF IInv, Push
<1>1. lastSeq \in Nat /\ lastSeq' = lastSeq + 1 /\ lastSeq' \in 0..MaxSeq
  BY DEF TypeOK
<1>2. evicted' \in 0..lastSeq'
  BY <1>1 DEF TypeOK, Evict
<1>3. total' \in [0..MaxSeq -> Nat]
  BY <1>1 DEF TypeOK
<1>4. handedOut' \in 0..lastSeq' /\ toCall' \subseteq Listener
      /\ turn' \in {"idle", "loop", "listener"}
  BY <1>1 DEF TypeOK
<1>5. TypeOK'
  <2>1. UNCHANGED <<listeners, joined, got>>
    OBVIOUS
  <2> QED BY <1>1, <1>2, <1>3, <1>4, <2>1 DEF TypeOK
<1>6. CASE turn = "idle"
  <2>1. toCall' = listeners /\ handedOut' = handedOut + 1 /\ toCall = {} /\ turn' = "loop"
    BY <1>6 DEF LoopInv
  <2>2. LoopInv' /\ InOrderOnce'
    BY <1>1, <2>1 DEF LoopInv, InOrderOnce, TypeOK
  <2>3. NoGap'
    BY <1>1, <2>1 DEF NoGap, TypeOK
  <2> QED BY <1>5, <2>2, <2>3
<1>7. CASE turn # "idle"
  BY <1>5, <1>7 DEF LoopInv, NoGap, InOrderOnce
<1> QED BY <1>6, <1>7

LEMMA CallStep ==
  ASSUME IInv, NEW l \in Listener, CallListener(l)
  PROVE  IInv'
<1> USE DEF IInv, CallListener
<1>1. handedOut \in 1..MaxSeq
  BY DEF TypeOK, LoopInv
<1>2. TypeOK'
  BY <1>1 DEF TypeOK
<1>3. LoopInv' /\ InOrderOnce'
  BY <1>1 DEF LoopInv, InOrderOnce, TypeOK
<1>4. NoGap'
  BY DEF NoGap, TypeOK
<1> QED BY <1>2, <1>3, <1>4

LEMMA NextEventStep ==
  ASSUME IInv, NextEvent
  PROVE  IInv'
<1> USE DEF IInv, NextEvent
<1>1. TypeOK'
  BY DEF TypeOK
<1>2. LoopInv' /\ InOrderOnce'
  BY DEF LoopInv, InOrderOnce, TypeOK
<1>3. NoGap'
  BY DEF NoGap, TypeOK
<1> QED BY <1>1, <1>2, <1>3

(* A new subscriber is replayed all of the handed-out events after fromSeq: *)
(* none of them is evicted, or subscribe would have refused.                *)
LEMMA SubscribeStep ==
  ASSUME IInv, NEW l \in Listener, NEW fromSeq \in 0..MaxSeq, Subscribe(l, fromSeq)
  PROVE  IInv'
<1> USE DEF IInv, Subscribe
<1> DEFINE replayed == {s \in Since(fromSeq) : s <= handedOut}
<1>1. replayed \subseteq 1..MaxSeq
  BY DEF Since, TypeOK
<1>2. got' = [got EXCEPT ![l] = replayed]
  OBVIOUS
<1>3. TypeOK'
  BY <1>1, <1>2 DEF TypeOK
<1>4. LoopInv'
  BY <1>1, <1>2 DEF LoopInv, TypeOK
<1>5. \A s \in fromSeq+1..handedOut : s \in replayed
  BY DEF Since, ResyncNeeded, TypeOK
<1>6. NoGap'
  BY <1>2, <1>5 DEF NoGap, TypeOK
<1>7. InOrderOnce'
  BY <1>2 DEF InOrderOnce, TypeOK
<1> QED BY <1>3, <1>4, <1>6, <1>7

LEMMA NextIInv == IInv /\ [Next]_vars => IInv'
<1> SUFFICES ASSUME IInv, [Next]_vars
             PROVE  IInv'
  OBVIOUS
<1>1. ASSUME NEW size \in Size, Push(size)
      PROVE  IInv'
  BY <1>1, PushStep
<1>2. ASSUME NEW l \in Listener, CallListener(l)
      PROVE  IInv'
  BY <1>2, CallStep
<1>3. CASE NextEvent
  BY <1>3, NextEventStep
<1>4. CASE StopDelivering
  BY <1>4 DEF StopDelivering, IInv, TypeOK, LoopInv, NoGap, InOrderOnce
<1>5. ASSUME NEW l \in Listener, NEW fromSeq \in 0..MaxSeq, Subscribe(l, fromSeq)
      PROVE  IInv'
  BY <1>5, SubscribeStep
<1>6. ASSUME NEW l \in Listener, Unsubscribe(l)
      PROVE  IInv'
  BY <1>6 DEF Unsubscribe, IInv, TypeOK, LoopInv, NoGap, InOrderOnce
<1>7. CASE UNCHANGED vars
  BY <1>7 DEF vars, IInv, TypeOK, LoopInv, NoGap, InOrderOnce
<1> QED
  BY <1>1, <1>2, <1>3, <1>4, <1>5, <1>6, <1>7 DEF Next

LEMMA SpecIInv == Spec => []IInv
  BY InitIInv, NextIInv, PTL DEF Spec

(* The eviction loop stops only within the budget, or at the newest event.  *)
LEMMA RingStep ==
  ASSUME TypeOK, NEW size \in Size, Push(size)
  PROVE  RingInBudget'
<1> USE DEF Push
<1>1. PICK gone \in evicted..lastSeq :
        /\ gone = lastSeq \/ total[lastSeq] + size - total[gone] <= MaxBytes
        /\ evicted' = gone
  BY DEF Evict, Over, TypeOK
<1>2. /\ lastSeq \in Nat /\ lastSeq' = lastSeq + 1 /\ gone \in 0..lastSeq
      /\ total'[lastSeq'] = total[lastSeq] + size /\ total'[gone] = total[gone]
  BY <1>1 DEF TypeOK
<1>3. total[lastSeq] \in Int /\ size \in Int /\ total[gone] \in Int /\ MaxBytes \in Int
  BY <1>2 DEF TypeOK
<1> HIDE DEF Push
<1>4. gone = lastSeq' - 1 \/ total'[lastSeq'] - total'[gone] <= MaxBytes
  <2>1. CASE gone = lastSeq
    BY <2>1, <1>2, <1>3
  <2>2. CASE total[lastSeq] + size - total[gone] <= MaxBytes
    BY <2>2, <1>2, <1>3
  <2> QED BY <2>1, <2>2, <1>1
<1>5. evicted' = gone /\ gone < lastSeq'
  BY <1>1, <1>2
<1> QED BY <1>4, <1>5 DEF RingInBudget

LEMMA SpecRing == Spec => [](IInv /\ RingInBudget)
<1>1. Init => IInv /\ RingInBudget
  BY InitIInv DEF Init, RingInBudget
<1>2. IInv /\ RingInBudget /\ [Next]_vars => (IInv /\ RingInBudget)'
  <2> SUFFICES ASSUME IInv, RingInBudget, [Next]_vars
               PROVE  RingInBudget'
    BY NextIInv
  <2>1. ASSUME NEW size \in Size, Push(size)
        PROVE  RingInBudget'
    BY <2>1, RingStep DEF IInv
  <2>2. CASE UNCHANGED <<lastSeq, total, evicted>>
    BY <2>2 DEF RingInBudget
  <2> QED
    BY <2>1, <2>2 DEF Next, vars, CallListener, NextEvent, StopDelivering, Subscribe, Unsubscribe
<1> QED BY <1>1, <1>2, PTL DEF Spec

(* The log's variables keep their types: in particular the outbox and the   *)
(* ring stay within what was numbered (seqLog.ts:44-56).                    *)
THEOREM TypeCorrect == Spec => []TypeOK
<1>1. IInv => TypeOK
  BY DEF IInv
<1> QED BY <1>1, SpecIInv, PTL

(* Whatever listeners push, subscribe or dispose while they are called, a   *)
(* subscriber is called with every event after the seq it joined at         *)
(* (seqLog.ts:116-144).                                                     *)
THEOREM NoGapHolds == Spec => []NoGap
<1>1. IInv => NoGap
  BY DEF IInv
<1> QED BY <1>1, SpecIInv, PTL

(* No listener is called with an event twice, or with one older than an     *)
(* event it was called with (seqLog.ts:91-101).                             *)
THEOREM InOrderOnceHolds == Spec => []InOrderOnce
<1>1. IInv => InOrderOnce
  BY DEF IInv
<1> QED BY <1>1, SpecIInv, PTL

(* However large the events are, the ring stays within its budget or holds  *)
(* the newest event alone (seqLog.ts:84-90).                                *)
THEOREM RingInBudgetHolds == Spec => []RingInBudget
  BY SpecRing, PTL
=============================================================================
