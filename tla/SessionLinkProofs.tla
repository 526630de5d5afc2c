-------------------------- MODULE SessionLinkProofs --------------------------
(* Proofs about SessionLink, for any ring, queue and socket, any number of   *)
(* events and losses, and a client that adopts its host or not. The two      *)
(* queues, the socket and the chunk being read are reasoned about as one     *)
(* sequence, the lines on their way to the client.                           *)
EXTENDS SessionLink, SequenceTheorems, WellFoundedInduction, TLAPS

(* The replies in a sequence of lines, and how many are ahead of a place.    *)
RepliesIn(s) == {i \in 1..Len(s) : s[i].kind = "reply"}
Ahead(s, i) == IF \E j \in RepliesIn(s) : j < i THEN 1 ELSE 0

(* The events of a sequence go on from n without a gap.                      *)
Following(s, n) == \A i \in 1..Len(s) : s[i].kind = "event" => s[i].seq = n + i - Ahead(s, i)
AtMost(s, n) == \A i \in 1..Len(s) : s[i].kind = "event" => s[i].seq <= n
ResyncLast(s) ==
  \A i \in 1..Len(s) : s[i].kind = "resync" => \A j \in i+1..Len(s) : s[j].kind = "reply"

Stream == chunk \o (wire \o queue)

(* What a catch-up awaits is in one place: asked, answered, on its way or    *)
(* received.                                                                 *)
Waiting == phase \in Method
Idle == request = None /\ answer = None /\ resumed = None /\ RepliesIn(Stream) = {}
Asked == request # None /\ answer = None /\ resumed = None /\ RepliesIn(Stream) = {}
Answered == request = None /\ answer # None /\ resumed = None /\ RepliesIn(Stream) = {}
Sent == request = None /\ answer = None /\ resumed = None
        /\ \E p \in 1..Len(Stream) : RepliesIn(Stream) = {p}
Received == request = None /\ answer = None /\ resumed # None /\ RepliesIn(Stream) = {}

Turns == IF Waiting THEN Asked \/ Answered \/ Sent \/ Received ELSE Idle

(* What the reply on its way says.                                           *)
OnItsWay(r) ==
  r \in Line /\ (answer = r \/ resumed = r \/ \E p \in RepliesIn(Stream) : Stream[p] = r)
Refused == \E r \in Line : OnItsWay(r) /\ r.status = "resync"

Says(r) ==
  /\ r.kind = "reply" /\ r.method = phase
  /\ phase = "snapshot" => /\ r.from <= Evicted(hist) /\ r.from <= r.to
                           /\ lastSeq <= r.to /\ r.to <= Len(hist)
  /\ phase = "events" /\ r.status # "resync" => r.to <= Len(hist) /\ (r.status = "ok" => snap.seq <= r.to)

Replies ==
  /\ \A r \in Line : OnItsWay(r) => Says(r)
  /\ request # None => request.method = phase /\ (phase = "subscribe" => request.from = lastSeq)

(* The connection: nothing but the reply is on its way before a              *)
(* subscription, and nothing behind one that was refused; no event comes     *)
(* after a resync.                                                           *)
Streaming == phase = "live" \/ (phase = "subscribe" /\ request = None /\ ~Refused)
Before == phase \in {"off", "snapshot", "events"} \/ request # None

Pipe ==
  /\ Before => \A i \in 1..Len(Stream) : Stream[i].kind = "reply"
  /\ Before /\ Waiting => buffer = <<>>
  /\ Waiting => buffer # None
  /\ phase = "live" => ours /\ buffer = None
  /\ phase = "off" => Stream = <<>>
  /\ phase = "subscribe" /\ Refused =>
       \A i \in 1..Len(Stream) : /\ Stream[i].kind # "resync"
                                 /\ Stream[i].kind = "reply" => i = Len(Stream)
  /\ phase = "subscribe" /\ Refused /\ resumed # None => Stream = <<>>
  /\ ResyncLast(Stream)
  /\ events => Streaming /\ \A i \in 1..Len(Stream) : Stream[i].kind # "resync"

(* Events on their way follow, without a gap, on what the client has.        *)
Held == IF buffer = None THEN 0 ELSE Len(buffer)

Follows ==
  /\ AtMost(Stream, Len(hist))
  /\ Waiting => \A i \in 1..Len(buffer) : buffer[i] <= Len(hist)
  /\ Streaming =>
       /\ buffer # None => \A i \in 1..Len(buffer) : buffer[i] = lastSeq + i
       /\ Following(Stream, lastSeq + Held)
       /\ events => lastSeq + Held + Len(Stream) - Ahead(Stream, Len(Stream)+1) = Len(hist)

Link == Turns /\ Replies /\ Pipe /\ Follows

(* The events of an attempt are paged from no later than its snapshot, and   *)
(* nothing that the client lacks and the host still has is left out.         *)
Paging ==
  phase = "events" => /\ lastSeq <= snap.seq /\ snap.seq <= Len(hist)
                      /\ paged.from <= snap.seq
                      /\ paged.from <= Max2(lastSeq, Evicted(hist))

(* What the view was told is what the host's history says, but for the end   *)
(* of a host that has gone.                                                  *)
ExitIn(h, n) == \E i \in 1..n : h[i].type = "exit"

History ==
  /\ \A i \in 1..Len(hist) : hist[i].type = "exit" => i = Len(hist) /\ tombstone
  /\ lastSeq <= Len(hist)
  /\ exitTold = "lost" => ~hostUp /\ ~tombstone
  /\ exitTold # None => knownAsks = {}
  /\ phase # "off" \/ hostUp \/ exitTold = None =>
       /\ knownAsks = HostAsks(hist, lastSeq)
       /\ exitTold # None <=> ExitIn(hist, lastSeq)

IInv == Link /\ Paging /\ History

-----------------------------------------------------------------------------
(* Sequences of lines.                                                       *)

(* What the constants are assumed to be, in the form the proofs cite.        *)
LEMMA NoneIsNone ==
  /\ None \notin Line /\ None \notin Request /\ None \notin Seq(1..MaxSeq) /\ None \notin {"exit", "lost"}
  /\ RingCap \in Nat \ {0} /\ QueueCap \in Nat \ {0} /\ WireCap \in Nat \ {0} /\ MaxSeq \in Nat
  /\ MaxLosses \in Nat /\ Adopt \in BOOLEAN
BY NoneAssumption, BoundAssumption

(* The kinds of line, and what each one carries.                             *)
LEMMA LineTypes ==
  /\ \A l \in Line : l.kind \in {"event", "resync", "reply"}
  /\ \A l \in Line : l.kind = "event" => l.seq \in 1..MaxSeq
  /\ \A l \in Line : l.kind = "resync" => l = ResyncLine
  /\ \A l \in Line : l.kind = "reply" => l.method \in Method /\ l.status \in {"ok", "more", "resync"}
                                         /\ l.from \in 0..MaxSeq /\ l.to \in 0..MaxSeq
  /\ \A s \in 1..MaxSeq : EventLine(s) \in Line /\ EventLine(s).kind = "event" /\ EventLine(s).seq = s
  /\ ResyncLine \in Line /\ ResyncLine.kind = "resync"
  /\ \A m \in Method, st \in {"ok", "more", "resync"}, a, b \in 0..MaxSeq :
       LET r == Reply(m, st, a, b)
       IN  r \in Line /\ r.kind = "reply" /\ r.method = m /\ r.status = st /\ r.from = a /\ r.to = b
BY DEF Line, EventLine, ResyncLine, Reply, Method

(* A line at the end.                                                        *)
LEMMA Appended ==
  ASSUME NEW s \in Seq(Line), NEW l \in Line, NEW t, t = Append(s, l)
  PROVE  /\ t \in Seq(Line) /\ Len(s) \in Nat /\ Len(t) = Len(s) + 1 /\ t # <<>>
         /\ \A i \in 1..Len(s) : t[i] = s[i] /\ i \in 1..Len(t)
         /\ t[Len(s)+1] = l
         /\ \A i \in 1..Len(t) : i \in 1..Len(s) \/ i = Len(s)+1
<1>1. /\ t \in Seq(Line) /\ Len(s) \in Nat /\ Len(t) = Len(s) + 1 /\ t # <<>>
      /\ \A i \in 1..Len(s) : t[i] = s[i]
      /\ t[Len(s)+1] = l
  BY AppendProperties, LenProperties
<1>2. \A i \in 1..Len(t) : i \in 1..Len(s) \/ i = Len(s)+1  BY <1>1
<1>3. \A i \in 1..Len(s) : i \in 1..Len(t)  BY <1>1
<1>4. QED  BY <1>1, <1>2, <1>3

(* The replies in a sequence with a line more.                               *)
LEMMA AppendedReplies ==
  ASSUME NEW s \in Seq(Line), NEW l \in Line, NEW t, t = Append(s, l)
  PROVE  /\ l.kind = "reply" => RepliesIn(t) = RepliesIn(s) \cup {Len(s)+1}
         /\ l.kind # "reply" => RepliesIn(t) = RepliesIn(s)
<1>1. /\ \A i \in 1..Len(s) : t[i] = s[i] /\ i \in 1..Len(t)
      /\ t[Len(s)+1] = l /\ Len(s)+1 \in 1..Len(t)
      /\ \A i \in 1..Len(t) : i \in 1..Len(s) \/ i = Len(s)+1
  BY Appended
<1>2. QED  BY <1>1 DEF RepliesIn

(* No place before the new line gets a reply ahead of it.                    *)
LEMMA AppendedAhead ==
  ASSUME NEW s \in Seq(Line), NEW l \in Line, NEW t, t = Append(s, l)
  PROVE  /\ \A i \in 1..Len(s)+1 : Ahead(t, i) = Ahead(s, i)
         /\ l.kind # "reply" => Ahead(t, Len(t)+1) = Ahead(s, Len(s)+1)
<1>1. Len(s) \in Nat /\ Len(t) = Len(s) + 1  BY Appended
<1>2. RepliesIn(t) = RepliesIn(s) \cup {Len(s)+1} \/ RepliesIn(t) = RepliesIn(s)  BY AppendedReplies
<1>3. \A i \in 1..Len(s)+1 : Ahead(t, i) = Ahead(s, i)  BY <1>1, <1>2 DEF Ahead
<1>4. ASSUME l.kind # "reply" PROVE Ahead(t, Len(t)+1) = Ahead(s, Len(s)+1)
  <2>1. \A j \in RepliesIn(s) : j < Len(s)+1 /\ j < Len(t)+1  BY <1>1 DEF RepliesIn
  <2>2. RepliesIn(t) = RepliesIn(s)  BY <1>4, AppendedReplies
  <2>3. QED  BY <2>1, <2>2 DEF Ahead
<1>5. QED  BY <1>3, <1>4

(* A reply may follow a resync; a resync or an event only where there is     *)
(* none.                                                                     *)
LEMMA AppendedResync ==
  ASSUME NEW s \in Seq(Line), NEW l \in Line, NEW t, t = Append(s, l), ResyncLast(s),
         l.kind = "reply" \/ \A i \in 1..Len(s) : s[i].kind # "resync"
  PROVE  ResyncLast(t)
<1>1. /\ \A i \in 1..Len(s) : t[i] = s[i] /\ i \in 1..Len(t)
      /\ t[Len(s)+1] = l /\ Len(s) \in Nat /\ Len(t) = Len(s) + 1
      /\ \A i \in 1..Len(t) : i \in 1..Len(s) \/ i = Len(s)+1
  BY Appended
<1>2. QED  BY <1>1 DEF ResyncLast

(* An event that goes on from the last one keeps the sequence without a gap. *)
LEMMA AppendedEvent ==
  ASSUME NEW s \in Seq(Line), NEW l \in Line, NEW t, t = Append(s, l), NEW n \in Int
  PROVE  /\ Following(s, n) /\ (l.kind = "event" => l.seq = n + (Len(s)+1) - Ahead(s, Len(s)+1))
              => Following(t, n)
         /\ AtMost(s, n) /\ (l.kind = "event" => l.seq <= n) => AtMost(t, n)
<1>1. /\ Len(s) \in Nat /\ Len(t) = Len(s) + 1
      /\ \A i \in 1..Len(s) : t[i] = s[i]
      /\ t[Len(s)+1] = l
      /\ \A i \in 1..Len(t) : i \in 1..Len(s) \/ i = Len(s)+1
  BY Appended
<1>2. \A i \in 1..Len(s)+1 : Ahead(t, i) = Ahead(s, i)  BY AppendedAhead
<1>3. ASSUME Following(s, n), l.kind = "event" => l.seq = n + (Len(s)+1) - Ahead(s, Len(s)+1)
      PROVE  Following(t, n)
  <2>1. \A i \in 1..Len(s) : t[i].kind = "event" => t[i].seq = n + i - Ahead(t, i)
    BY <1>1, <1>2, <1>3 DEF Following
  <2>2. l.kind = "event" => l.seq = n + (Len(s)+1) - Ahead(t, Len(s)+1)  BY <1>1, <1>2, <1>3
  <2>3. QED  BY <1>1, <2>1, <2>2 DEF Following
<1>4. ASSUME AtMost(s, n), l.kind = "event" => l.seq <= n
      PROVE  AtMost(t, n)
  BY <1>1, <1>4 DEF AtMost
<1>5. QED  BY <1>3, <1>4

(* A line taken from the front.                                              *)
TailOf(t, s) == t = Tail(s)

(* What is left is the sequence, moved up by one place.                      *)
LEMMA Tailed ==
  ASSUME NEW s \in Seq(Line), s # <<>>, NEW t, TailOf(t, s)
  PROVE  /\ t \in Seq(Line) /\ Len(s) \in Nat /\ Len(t) \in Nat /\ Len(s) = Len(t) + 1
         /\ \A i \in 1..Len(t) : t[i] = s[i+1] /\ i+1 \in 1..Len(s)
         /\ s[1] \in Line /\ 1 \in 1..Len(s)
         /\ \A i : i \in RepliesIn(t) <=> i \in 1..Len(t) /\ i+1 \in RepliesIn(s)
         /\ \A n : AtMost(s, n) => AtMost(t, n)
         /\ ResyncLast(s) => ResyncLast(t)
<1>1. /\ t \in Seq(Line) /\ Len(s) \in Nat /\ Len(t) \in Nat /\ Len(s) = Len(t) + 1
      /\ \A i \in 1..Len(t) : t[i] = s[i+1]
  BY HeadTailProperties, LenProperties DEF TailOf
<1>2. /\ \A i \in 1..Len(t) : i+1 \in 1..Len(s)
      /\ 1 \in 1..Len(s)
      /\ \A i \in 1..Len(s) : i = 1 \/ i-1 \in 1..Len(t)
  BY <1>1
<1>3. s[1] \in Line  BY <1>2, ElementOfSeq
<1>4. \A i : i \in RepliesIn(t) <=> i \in 1..Len(t) /\ i+1 \in RepliesIn(s)
  BY <1>1, <1>2 DEF RepliesIn
<1>5. \A n : AtMost(s, n) => AtMost(t, n)  BY <1>1, <1>2 DEF AtMost
<1>6. ResyncLast(s) => ResyncLast(t)
  <2>1. SUFFICES ASSUME ResyncLast(s), NEW i \in 1..Len(t), t[i].kind = "resync", NEW j \in i+1..Len(t)
                 PROVE  t[j].kind = "reply"
    BY DEF ResyncLast
  <2>2. j \in 1..Len(t) /\ j+1 \in (i+1)+1..Len(s)  BY <1>1
  <2>3. QED  BY <1>1, <1>2, <2>1, <2>2 DEF ResyncLast
<1>7. QED  BY <1>1, <1>2, <1>3, <1>4, <1>5, <1>6

(* It was not a reply.                                                       *)
LEMMA TailedOther ==
  ASSUME NEW s \in Seq(Line), s # <<>>, NEW t, TailOf(t, s), s[1].kind # "reply"
  PROVE  /\ \A i \in 1..Len(s) : Ahead(t, i) = Ahead(s, i+1)
         /\ \A p : RepliesIn(s) = {p} => RepliesIn(t) = {p-1} /\ p-1 \in 1..Len(t)
         /\ RepliesIn(s) = {} => RepliesIn(t) = {}
<1>1. /\ t \in Seq(Line) /\ Len(s) \in Nat /\ Len(t) \in Nat /\ Len(s) = Len(t) + 1
      /\ \A i \in 1..Len(t) : t[i] = s[i+1] /\ i+1 \in 1..Len(s)
      /\ 1 \in 1..Len(s)
      /\ \A i : i \in RepliesIn(t) <=> i \in 1..Len(t) /\ i+1 \in RepliesIn(s)
  BY Tailed
<1>2. \A i \in RepliesIn(s) : i \in 1..Len(s)  BY DEF RepliesIn
<1>3. 1 \notin RepliesIn(s)  BY DEF RepliesIn
<1>4. \A j \in RepliesIn(s) : j-1 \in RepliesIn(t)
  <2>1. TAKE j \in RepliesIn(s)
  <2>2. j \in 1..Len(s) /\ j # 1  BY <1>2, <1>3
  <2>3. j-1 \in 1..Len(t) /\ (j-1)+1 = j  BY <1>1, <2>2
  <2>4. QED  BY <1>1, <2>3
<1>5. \A i \in 1..Len(s) : (\E j \in RepliesIn(t) : j < i) <=> (\E j \in RepliesIn(s) : j < i+1)
  <2>1. TAKE i \in 1..Len(s)
  <2>2. ASSUME NEW j \in RepliesIn(t), j < i PROVE j+1 \in RepliesIn(s) /\ j+1 < i+1
    BY <1>1, <2>2
  <2>3. ASSUME NEW j \in RepliesIn(s), j < i+1 PROVE j-1 \in RepliesIn(t) /\ j-1 < i
    BY <1>2, <1>4, <2>3
  <2>4. QED  BY <2>2, <2>3
<1>6. \A p : RepliesIn(s) = {p} => RepliesIn(t) = {p-1} /\ p-1 \in 1..Len(t)
  <2>1. SUFFICES ASSUME NEW p, RepliesIn(s) = {p} PROVE RepliesIn(t) = {p-1} /\ p-1 \in 1..Len(t)
    OBVIOUS
  <2>2. p \in 1..Len(s) /\ p-1 \in RepliesIn(t)  BY <1>2, <1>4, <2>1
  <2>3. \A i \in RepliesIn(t) : i \in 1..Len(t) /\ i+1 = p  BY <1>1, <2>1
  <2>4. \A i \in RepliesIn(t) : i = p-1  BY <1>1, <2>2, <2>3
  <2>5. QED  BY <2>2, <2>3, <2>4
<1>7. RepliesIn(s) = {} => RepliesIn(t) = {}  BY <1>1
<1>8. QED  BY <1>5, <1>6, <1>7 DEF Ahead

(* It was the reply.                                                         *)
LEMMA TailedReply ==
  ASSUME NEW s \in Seq(Line), s # <<>>, NEW t, TailOf(t, s), s[1].kind = "reply",
         NEW p, RepliesIn(s) = {p}
  PROVE  /\ RepliesIn(s) = {1} /\ RepliesIn(t) = {}
         /\ \A i \in 1..Len(s) : Ahead(t, i) = 0 /\ Ahead(s, i+1) = 1
<1>1. /\ t \in Seq(Line) /\ Len(s) \in Nat /\ Len(t) \in Nat /\ Len(s) = Len(t) + 1
      /\ \A i \in 1..Len(t) : t[i] = s[i+1] /\ i+1 \in 1..Len(s)
      /\ 1 \in 1..Len(s)
      /\ \A i : i \in RepliesIn(t) <=> i \in 1..Len(t) /\ i+1 \in RepliesIn(s)
  BY Tailed
<1>2. \A i \in RepliesIn(s) : i \in 1..Len(s)  BY DEF RepliesIn
<1>3. 1 \in RepliesIn(s)  BY <1>1 DEF RepliesIn
<1>4. RepliesIn(s) = {1}  BY <1>3
<1>5. \A i \in 1..Len(t) : i+1 # 1  BY <1>1
<1>6. RepliesIn(t) = {}  BY <1>1, <1>4, <1>5
<1>7. \A i \in 1..Len(s) : 1 < i+1  BY <1>1
<1>8. QED  BY <1>4, <1>6, <1>7 DEF Ahead

(* What an overflow leaves of a queue with one line that is never dropped,   *)
(* or none: the recursive function is this one, by the least place where     *)
(* they would differ.                                                        *)
LEMMA UndroppableFacts ==
  ASSUME NEW T, NEW s \in Seq(T), NEW p \in 1..Len(s)+1,
         \A i \in 1..Len(s) : Droppable(s[i]) <=> i # p
  PROVE  Undroppable(s) = IF p = Len(s)+1 THEN <<>> ELSE <<s[p]>>
<1> DEFINE Def(f) == f = [i \in 0..Len(s) |->
                            IF i = 0 THEN <<>>
                            ELSE IF Droppable(s[i]) THEN f[i-1] ELSE Append(f[i-1], s[i])]
           g == [i \in 0..Len(s) |-> IF i < p THEN <<>> ELSE <<s[p]>>]
           h == [i \in 0..Len(s) |-> IF i = 0 THEN <<>>
                                     ELSE IF Droppable(s[i]) THEN g[i-1] ELSE Append(g[i-1], s[i])]
<1>1. Len(s) \in Nat /\ p \in Nat /\ p >= 1  BY LenProperties
<1>2. ASSUME NEW i \in 0..Len(s) PROVE g[i] = h[i]
  <2>1. CASE i = 0  BY <1>1, <2>1
  <2>2. CASE i # 0
    <3>1. i \in 1..Len(s) /\ i-1 \in 0..Len(s)  BY <1>1, <2>2
    <3>2. CASE i = p
      <4>1. g[i-1] = <<>> /\ g[i] = <<s[i]>>  BY <1>1, <3>1, <3>2
      <4>2. h[i] = Append(g[i-1], s[i])  BY <2>2, <3>1, <3>2
      <4> HIDE DEF g, h
      <4>3. Append(<<>>, s[i]) = <<s[i]>>  OBVIOUS
      <4>4. QED  BY <4>1, <4>2, <4>3
    <3>3. CASE i # p
      <4>1. g[i-1] = g[i]  BY <1>1, <3>1, <3>3
      <4>2. h[i] = g[i-1]  BY <2>2, <3>1, <3>3
      <4>3. QED  BY <4>1, <4>2
    <3>4. QED  BY <3>2, <3>3
  <2>3. QED  BY <2>1, <2>2
<1>3. Def(g)
  <2>1. g = [i \in 0..Len(s) |-> g[i]] /\ h = [i \in 0..Len(s) |-> h[i]]  OBVIOUS
  <2>2. g = h
    <3> HIDE DEF g, h
    <3>1. QED  BY <1>2, <2>1
  <2>3. QED  BY <2>2
<1> DEFINE F == CHOOSE f : Def(f)
<1>4. Def(F)
  <2>1. \E f : Def(f)  BY <1>3
  <2> HIDE DEF Def
  <2>2. QED  BY <2>1
<1>5. Undroppable(s) = F[Len(s)]  BY DEF Undroppable
<1>6. \A i \in 0..Len(s) : F[i] = IF i = 0 THEN <<>>
                                  ELSE IF Droppable(s[i]) THEN F[i-1] ELSE Append(F[i-1], s[i])
  <2> HIDE DEF F
  <2>1. QED  BY <1>4
<1>7. \A i \in 0..Len(s) : g[i] = IF i = 0 THEN <<>>
                                  ELSE IF Droppable(s[i]) THEN g[i-1] ELSE Append(g[i-1], s[i])
  BY <1>2
<1> DEFINE B == {i \in 0..Len(s) : F[i] # g[i]}
<1>8. B = {}
  <2>1. SUFFICES ASSUME B # {} PROVE FALSE  OBVIOUS
  <2>2. B \subseteq Nat /\ \A i \in B : i \in 0..Len(s) /\ F[i] # g[i]  BY <1>1
  <2>3. \A i \in 0..Len(s) : i \notin B => F[i] = g[i]  OBVIOUS
  <2> HIDE DEF B, F, g
  <2>4. IsWellFoundedOn(OpToRel(<, Nat), Nat)  BY NatLessThanWellFounded
  <2>5. PICK n \in B : \A m \in B : ~(<<m, n>> \in OpToRel(<, Nat))  BY <2>1, <2>2, <2>4, WFMin
  <2>6. \A m, k \in Nat : m < k => <<m, k>> \in OpToRel(<, Nat)  BY Zenon DEF OpToRel
  <2>7. \A m \in B : ~(m < n)  BY <2>2, <2>5, <2>6, Zenon
  <2>8. n \in 0..Len(s) /\ F[n] # g[n]  BY <2>2
  <2>9. CASE n = 0  BY <1>6, <1>7, <2>8, <2>9
  <2>10. CASE n # 0
    <3>1. n-1 \in 0..Len(s) /\ n-1 < n  BY <1>1, <2>8, <2>10
    <3>2. n-1 \notin B  BY <2>7, <3>1
    <3>3. F[n-1] = g[n-1]  BY <2>3, <3>1, <3>2
    <3>4. QED  BY <1>6, <1>7, <2>8, <2>10, <3>3
  <2>11. QED  BY <2>9, <2>10
<1>9. F[Len(s)] = g[Len(s)]
  <2>1. \A i \in 0..Len(s) : i \notin B => F[i] = g[i]  OBVIOUS
  <2> HIDE DEF B, F, g
  <2>2. QED  BY <1>1, <1>8, <2>1
<1>10. g[Len(s)] = IF p = Len(s)+1 THEN <<>> ELSE <<s[p]>>  BY <1>1
<1> HIDE DEF F, g
<1>11. QED  BY <1>5, <1>9, <1>10

(* A sequence cut in two.                                                    *)
LEMMA Cut ==
  ASSUME NEW T, NEW s \in Seq(T), NEW n \in 0..Len(s)
  PROVE  /\ SubSeq(s, 1, n) \in Seq(T) /\ SubSeq(s, n+1, Len(s)) \in Seq(T)
         /\ Len(SubSeq(s, 1, n)) = n /\ Len(SubSeq(s, n+1, Len(s))) = Len(s) - n
         /\ SubSeq(s, 1, n) \o SubSeq(s, n+1, Len(s)) = s
<1>1. Len(s) \in Nat /\ n \in Nat /\ n \in 1-1..Len(s) /\ Len(s) \in n..Len(s) /\ 1 \in 1..Len(s)+1
  BY LenProperties
<1>2. \A i \in 1..n : s[i] \in T  BY <1>1, ElementOfSeq
<1>3. \A i \in n+1..Len(s) : s[i] \in T  BY <1>1, ElementOfSeq
<1>4. SubSeq(s, 1, n) \in Seq(T) /\ Len(SubSeq(s, 1, n)) = n
  <2>1. /\ SubSeq(s, 1, n) \in Seq(T)
        /\ Len(SubSeq(s, 1, n)) = IF 1 <= n THEN n - 1 + 1 ELSE 0
    BY <1>1, <1>2, SubSeqProperties
  <2>2. QED  BY <1>1, <2>1
<1>5. SubSeq(s, n+1, Len(s)) \in Seq(T) /\ Len(SubSeq(s, n+1, Len(s))) = Len(s) - n
  <2>1. /\ SubSeq(s, n+1, Len(s)) \in Seq(T)
        /\ Len(SubSeq(s, n+1, Len(s))) = IF n+1 <= Len(s) THEN Len(s) - (n+1) + 1 ELSE 0
    BY <1>1, <1>3, SubSeqProperties
  <2>2. QED  BY <1>1, <2>1
<1>6. SubSeq(s, 1, n) \o SubSeq(s, n+1, Len(s)) = SubSeq(s, 1, Len(s))  BY <1>1, ConcatAdjacentSubSeq
<1>7. SubSeq(s, 1, Len(s)) = s  BY SubSeqFull
<1>8. QED  BY <1>4, <1>5, <1>6, <1>7

-----------------------------------------------------------------------------
(* The connection as one sequence.                                           *)

(* Sequences of lines are joined in any grouping.                            *)
LEMMA Joins ==
  ASSUME NEW s \in Seq(Line), NEW t \in Seq(Line), NEW u \in Seq(Line)
  PROVE  (s \o t) \o u = s \o (t \o u)
<1> DEFINE x == (s \o t) \o u
           y == s \o (t \o u)
<1>1. Len(s) \in Nat /\ Len(t) \in Nat /\ Len(u) \in Nat  BY LenProperties
<1>2. /\ s \o t \in Seq(Line) /\ Len(s \o t) = Len(s) + Len(t)
      /\ \A i \in 1..Len(s) + Len(t) : (s \o t)[i] = IF i <= Len(s) THEN s[i] ELSE t[i - Len(s)]
  BY ConcatProperties
<1>3. /\ t \o u \in Seq(Line) /\ Len(t \o u) = Len(t) + Len(u)
      /\ \A i \in 1..Len(t) + Len(u) : (t \o u)[i] = IF i <= Len(t) THEN t[i] ELSE u[i - Len(t)]
  BY ConcatProperties
<1>4. /\ x \in Seq(Line) /\ Len(x) = Len(s) + Len(t) + Len(u)
      /\ \A i \in 1..Len(s) + Len(t) + Len(u) :
           x[i] = IF i <= Len(s) + Len(t) THEN (s \o t)[i] ELSE u[i - (Len(s) + Len(t))]
  BY <1>1, <1>2, ConcatProperties
<1>5. /\ y \in Seq(Line) /\ Len(y) = Len(s) + (Len(t) + Len(u))
      /\ \A i \in 1..Len(s) + (Len(t) + Len(u)) :
           y[i] = IF i <= Len(s) THEN s[i] ELSE (t \o u)[i - Len(s)]
  BY <1>1, <1>3, ConcatProperties
<1> HIDE DEF x, y
<1>6. ASSUME NEW i \in 1..Len(x) PROVE x[i] = y[i]
  <2>1. CASE i <= Len(s)
    <3>1. i \in 1..Len(s) + Len(t) /\ i <= Len(s) + Len(t)  BY <1>1, <1>4, <2>1
    <3>2. x[i] = (s \o t)[i] /\ (s \o t)[i] = s[i]  BY <1>2, <1>4, <2>1, <3>1
    <3>3. i \in 1..Len(s) + (Len(t) + Len(u))  BY <1>1, <1>4
    <3>4. y[i] = s[i]  BY <1>5, <2>1, <3>3
    <3>5. QED  BY <3>2, <3>4
  <2>2. CASE ~(i <= Len(s)) /\ i <= Len(s) + Len(t)
    <3>1. i \in 1..Len(s) + Len(t) /\ i - Len(s) \in 1..Len(t) + Len(u) /\ i - Len(s) <= Len(t)
      BY <1>1, <1>4, <2>2
    <3>2. x[i] = (s \o t)[i] /\ (s \o t)[i] = t[i - Len(s)]  BY <1>2, <1>4, <2>2, <3>1
    <3>3. y[i] = (t \o u)[i - Len(s)]  BY <1>1, <1>4, <1>5, <2>2
    <3>4. (t \o u)[i - Len(s)] = t[i - Len(s)]  BY <1>3, <3>1
    <3>5. QED  BY <3>2, <3>3, <3>4
  <2>3. CASE ~(i <= Len(s) + Len(t))
    <3>1. i - Len(s) \in 1..Len(t) + Len(u) /\ ~(i - Len(s) <= Len(t)) /\ ~(i <= Len(s))
          /\ i - (Len(s) + Len(t)) = (i - Len(s)) - Len(t)
      BY <1>1, <1>4, <2>3
    <3>2. x[i] = u[i - (Len(s) + Len(t))]  BY <1>4, <2>3
    <3>3. y[i] = (t \o u)[i - Len(s)]  BY <1>1, <1>4, <1>5, <3>1
    <3>4. (t \o u)[i - Len(s)] = u[(i - Len(s)) - Len(t)]  BY <1>3, <3>1
    <3>5. QED  BY <3>1, <3>2, <3>3, <3>4
  <2>4. QED  BY <2>1, <2>2, <2>3
<1>7. Len(x) = Len(y)  BY <1>1, <1>4, <1>5
<1>8. x = y  BY <1>4, <1>5, <1>6, <1>7, SeqEqual
<1>9. QED  BY <1>8 DEF x, y

Lines == chunk \in Seq(Line) /\ wire \in Seq(Line) /\ queue \in Seq(Line)
Bounded == blocked \in BOOLEAN /\ (queue # <<>> => blocked)

(* The lines on their way to the client are lines, and there are none only   *)
(* if there are none anywhere.                                               *)
LEMMA StreamType ==
  ASSUME Lines
  PROVE  /\ Stream \in Seq(Line) /\ Len(Stream) \in Nat /\ Len(Stream) = Len(chunk) + Len(wire) + Len(queue)
         /\ Len(chunk) \in Nat /\ Len(wire) \in Nat /\ Len(queue) \in Nat
         /\ \A i \in 1..Len(Stream) : Stream[i] \in Line
         /\ Stream = <<>> <=> chunk = <<>> /\ wire = <<>> /\ queue = <<>>
<1>1. wire \o queue \in Seq(Line) /\ Len(wire \o queue) = Len(wire) + Len(queue)
      /\ (wire \o queue = <<>> <=> wire = <<>> /\ queue = <<>>)
  BY ConcatProperties, ConcatEqualIffEmpty DEF Lines
<1>2. Stream \in Seq(Line) /\ Len(Stream) = Len(chunk) + Len(wire \o queue)
      /\ (Stream = <<>> <=> chunk = <<>> /\ wire \o queue = <<>>)
  BY <1>1, ConcatProperties, ConcatEqualIffEmpty DEF Lines, Stream
<1>3. Len(chunk) \in Nat /\ Len(wire) \in Nat /\ Len(queue) \in Nat  BY LenProperties DEF Lines
<1>4. \A i \in 1..Len(Stream) : Stream[i] \in Line  BY <1>2, ElementOfSeq
<1>5. QED  BY <1>1, <1>2, <1>3, <1>4

(* A line pushed is at the end of the stream, in the socket or in the queue. *)
LEMMA Pushes ==
  ASSUME Lines, Bounded, NEW l \in Line, PushReply(l), UNCHANGED chunk
  PROVE  Stream' = Append(Stream, l) /\ Lines' /\ Bounded'
<1>1. CASE blocked
  <2>1. queue' = Append(queue, l) /\ UNCHANGED <<wire, blocked>>  BY <1>1 DEF PushReply
  <2>2. queue' \in Seq(Line) /\ queue' = queue \o <<l>> /\ <<l>> \in Seq(Line)
    BY <2>1, AppendProperties, AppendIsConcat DEF Lines
  <2>3. (wire \o queue) \o <<l>> = wire \o queue'  BY <2>2, ConcatAssociative DEF Lines
  <2>4. wire \o queue \in Seq(Line)  BY ConcatProperties DEF Lines
  <2>5. Stream \o <<l>> = chunk \o (wire \o queue')
    <3> DEFINE q == wire \o queue
    <3>1. q \in Seq(Line) /\ q \o <<l>> = wire \o queue'  BY <2>3, <2>4
    <3> HIDE DEF q
    <3>2. (chunk \o q) \o <<l>> = chunk \o (q \o <<l>>)
      <4>1. chunk \in Seq(Line) /\ q \in Seq(Line) /\ <<l>> \in Seq(Line)  BY <2>2, <3>1 DEF Lines
      <4>2. QED  BY ONLY <4>1, Joins, Zenon
    <3>3. Stream = chunk \o q  BY DEF Stream, q
    <3>4. QED  BY <3>1, <3>2, <3>3
  <2>6. Append(Stream, l) = Stream \o <<l>>  BY StreamType, AppendIsConcat
  <2>7. Lines' /\ Bounded'  BY <1>1, <2>1, <2>2 DEF Lines, Bounded
  <2>8. QED  BY <2>1, <2>5, <2>6, <2>7 DEF Stream
<1>2. CASE ~blocked
  <2>1. wire' = Append(wire, l) /\ blocked' \in BOOLEAN /\ UNCHANGED queue /\ queue = <<>>
    BY <1>2 DEF PushReply, Bounded
  <2>2. wire' \in Seq(Line) /\ wire' = wire \o <<l>> /\ <<l>> \in Seq(Line)
    BY <2>1, AppendProperties, AppendIsConcat DEF Lines
  <2>3. wire \o queue = wire /\ wire' \o queue' = wire'  BY <2>1, <2>2, ConcatEmptySeq DEF Lines
  <2>4. chunk \o (wire \o <<l>>) = (chunk \o wire) \o <<l>>  BY <2>2, ConcatAssociative DEF Lines
  <2>5. Stream = chunk \o wire /\ Stream' = chunk \o (wire \o <<l>>)  BY <2>2, <2>3 DEF Stream
  <2>6. Append(Stream, l) = Stream \o <<l>>  BY StreamType, AppendIsConcat
  <2>7. Lines' /\ Bounded'  BY <2>1, <2>2 DEF Lines, Bounded
  <2>8. QED  BY <2>4, <2>5, <2>6, <2>7
<1>3. QED  BY <1>1, <1>2

(* Draining the queue moves lines along the stream and changes none.         *)
LEMMA Drains ==
  ASSUME Lines, Bounded, Drain
  PROVE  Stream' = Stream /\ Lines' /\ Bounded'
<1> DEFINE n == Min2(Len(queue), WireCap - Len(wire))
<1>1. /\ wire' = wire \o SubSeq(queue, 1, n) /\ queue' = SubSeq(queue, n+1, Len(queue))
      /\ blocked' = (Len(wire) + n >= WireCap) /\ chunk' = chunk /\ Len(wire) < WireCap
  BY DEF Drain, linkVars
<1>2. n \in 0..Len(queue) /\ (n = Len(queue) \/ Len(wire) + n >= WireCap)
  BY <1>1, StreamType, NoneIsNone DEF Min2
<1> HIDE DEF n
<1>3. /\ SubSeq(queue, 1, n) \in Seq(Line) /\ queue' \in Seq(Line)
      /\ Len(queue') = Len(queue) - n
      /\ SubSeq(queue, 1, n) \o queue' = queue
  BY <1>1, <1>2, Cut DEF Lines
<1>4. wire' \in Seq(Line) /\ wire' \o queue' = wire \o queue
  <2> DEFINE a == SubSeq(queue, 1, n)
             b == SubSeq(queue, n+1, Len(queue))
  <2>1. a \in Seq(Line) /\ b \in Seq(Line) /\ queue' = b /\ a \o b = queue /\ wire' = wire \o a  BY <1>1, <1>3
  <2> HIDE DEF a, b
  <2>2. wire \in Seq(Line)  BY DEF Lines
  <2>3. wire \o a \in Seq(Line)  BY <2>1, <2>2, ConcatProperties
  <2>4. (wire \o a) \o b = wire \o (a \o b)  BY <2>1, <2>2, Joins, Zenon
  <2>5. QED  BY <2>1, <2>3, <2>4
<1>5. queue' # <<>> => Len(queue') # 0  BY <1>3, EmptySeq
<1>6. queue' # <<>> => Len(wire) + n >= WireCap
  <2>1. Len(queue) \in Nat  BY StreamType
  <2>2. QED  BY <1>2, <1>3, <1>5, <2>1
<1>7. Lines' /\ Bounded'
  <2>1. blocked' = (Len(wire) + n >= WireCap)  BY <1>1
  <2>2. blocked' \in BOOLEAN
    <3>1. (Len(wire) + n >= WireCap) \in BOOLEAN  OBVIOUS
    <3>2. QED  BY <2>1, <3>1
  <2>3. queue' # <<>> => blocked'  BY <1>6, <2>1
  <2>4. QED  BY <1>1, <1>3, <1>4, <2>2, <2>3 DEF Lines, Bounded
<1>8. QED  BY <1>1, <1>4, <1>7 DEF Stream

(* Reading a chunk moves lines along the stream and changes none.            *)
LEMMA Reads ==
  ASSUME Lines, Bounded, ReadChunk
  PROVE  Stream' = Stream /\ Lines' /\ Bounded'
<1>1. PICK n \in 1..Len(wire) : chunk' = SubSeq(wire, 1, n) /\ wire' = SubSeq(wire, n+1, Len(wire))
  BY DEF ReadChunk
<1>2. chunk = <<>> /\ queue' = queue /\ blocked' = blocked  BY DEF ReadChunk, AtRest
<1>3. n \in 0..Len(wire)  BY StreamType
<1>4. chunk' \in Seq(Line) /\ wire' \in Seq(Line) /\ chunk' \o wire' = wire  BY <1>1, <1>3, Cut DEF Lines
<1>5. chunk' \o (wire' \o queue') = wire \o queue
  <2> DEFINE a == SubSeq(wire, 1, n)
             b == SubSeq(wire, n+1, Len(wire))
  <2>1. a \in Seq(Line) /\ b \in Seq(Line) /\ a \o b = wire  BY <1>1, <1>4
  <2>2. chunk' = a /\ wire' = b  BY <1>1
  <2> HIDE DEF a, b
  <2>3. queue \in Seq(Line)  BY DEF Lines
  <2>4. (a \o b) \o queue = a \o (b \o queue)  BY <2>1, <2>3, Joins, Zenon
  <2>5. QED  BY <1>2, <2>1, <2>2, <2>4
<1>6. wire \o queue \in Seq(Line)  BY ConcatProperties DEF Lines
<1>7. Stream = wire \o queue  BY <1>2, <1>6, ConcatEmptySeq DEF Stream
<1>8. Lines' /\ Bounded'  BY <1>2, <1>4 DEF Lines, Bounded
<1>9. QED  BY <1>5, <1>7, <1>8 DEF Stream

(* Dispatching a line takes the first of the stream.                         *)
LEMMA Dispatches ==
  ASSUME Lines, Bounded, NEW k, NextLine(k), UNCHANGED <<wire, queue, blocked>>
  PROVE  /\ Stream # <<>> /\ Stream[1] = Head(chunk) /\ Stream[1].kind = k /\ Stream' = Tail(Stream)
         /\ Lines' /\ Bounded'
<1>1. chunk # <<>> /\ Head(chunk).kind = k /\ chunk' = Tail(chunk)  BY DEF NextLine
<1>2. /\ chunk' \in Seq(Line) /\ Len(chunk') = Len(chunk) - 1 /\ Len(chunk) \in Nat \ {0}
      /\ \A i \in 1..Len(chunk') : chunk'[i] = chunk[i+1]
  BY <1>1, HeadTailProperties, EmptySeq DEF Lines
<1>3. Lines' /\ Bounded'  BY <1>2 DEF Lines, Bounded
<1> DEFINE q == wire \o queue
<1>4. q \in Seq(Line) /\ q' = q /\ Len(q) \in Nat  BY ConcatProperties, LenProperties DEF Lines
<1> HIDE DEF q
<1>5. /\ Stream \in Seq(Line) /\ Len(Stream) = Len(chunk) + Len(q)
      /\ \A i \in 1..Len(chunk) + Len(q) : Stream[i] = IF i <= Len(chunk) THEN chunk[i] ELSE q[i - Len(chunk)]
  BY <1>4, ConcatProperties DEF Lines, Stream, q
<1>6. /\ Stream' \in Seq(Line) /\ Len(Stream') = Len(chunk') + Len(q)
      /\ \A i \in 1..Len(chunk') + Len(q) : Stream'[i] = IF i <= Len(chunk') THEN chunk'[i] ELSE q[i - Len(chunk')]
  BY <1>2, <1>4, ConcatProperties DEF Lines, Stream, q
<1>7. Stream # <<>> /\ Stream[1] = Head(chunk)
  <2>1. Len(Stream) # 0 /\ Stream[1] = chunk[1]  BY <1>2, <1>4, <1>5
  <2>2. Head(chunk) = chunk[1]  BY <1>1, <1>2 DEF Lines
  <2>3. QED  BY <2>1, <2>2
<1>8. /\ Tail(Stream) \in Seq(Line) /\ Len(Tail(Stream)) = Len(Stream) - 1
      /\ \A i \in 1..Len(Tail(Stream)) : Tail(Stream)[i] = Stream[i+1]
  BY <1>5, <1>7, HeadTailProperties
<1>9. ASSUME NEW i \in 1..Len(Stream')
      PROVE  Stream'[i] = Tail(Stream)[i]
  <2>1. i+1 \in 1..Len(chunk) + Len(q) /\ i \in 1..Len(chunk') + Len(q) /\ i \in 1..Len(Tail(Stream))
    BY <1>2, <1>4, <1>5, <1>6, <1>8
  <2>2. Tail(Stream)[i] = IF i+1 <= Len(chunk) THEN chunk[i+1] ELSE q[(i+1) - Len(chunk)]
    BY <1>5, <1>8, <2>1
  <2>3. Stream'[i] = IF i <= Len(chunk') THEN chunk'[i] ELSE q[i - Len(chunk')]  BY <1>6, <2>1
  <2>4. CASE i <= Len(chunk')
    <3>1. i+1 <= Len(chunk) /\ i \in 1..Len(chunk')  BY <1>2, <2>4
    <3>2. QED  BY <1>2, <2>2, <2>3, <2>4, <3>1
  <2>5. CASE ~(i <= Len(chunk'))
    <3>1. ~(i+1 <= Len(chunk)) /\ (i+1) - Len(chunk) = i - Len(chunk')  BY <1>2, <2>5
    <3>2. QED  BY <2>2, <2>3, <2>5, <3>1
  <2>6. QED  BY <2>4, <2>5
<1>10. Stream' = Tail(Stream)
  <2>1. Len(Stream') = Len(Tail(Stream))  BY <1>2, <1>4, <1>5, <1>6, <1>8
  <2>2. QED  BY <1>6, <1>8, <1>9, <2>1, SeqEqual
<1>11. QED  BY <1>1, <1>3, <1>7, <1>10

(* A connection that closes takes the stream with it.                        *)
LEMMA Closed ==
  ASSUME Lines, CloseConnection, chunk' = <<>>
  PROVE  Stream' = <<>> /\ Lines' /\ Bounded'
<1>1. wire' = <<>> /\ queue' = <<>> /\ blocked' = FALSE  BY DEF CloseConnection
<1>2. QED  BY <1>1, EmptySeq, ConcatEmptySeq DEF Stream, Lines, Bounded

-----------------------------------------------------------------------------
(* The connection, step by step.                                             *)

(* The types, in the form the proofs cite.                                   *)
LEMMA Basics ==
  ASSUME TypeOK
  PROVE  /\ Lines /\ Bounded /\ Stream \in Seq(Line) /\ Len(Stream) \in Nat
         /\ \A i \in 1..Len(Stream) : Stream[i] \in Line
         /\ Len(hist) \in 0..MaxSeq /\ Evicted(hist) \in 0..Len(hist) /\ lastSeq \in 0..MaxSeq
         /\ buffer # None => buffer \in Seq(1..MaxSeq) /\ Len(buffer) \in Nat
         /\ Held \in Nat
         /\ answer \in Line \cup {None} /\ resumed \in Line \cup {None} /\ request \in Request \cup {None}
<1>1. Lines /\ Bounded  BY DEF TypeOK, Lines, Bounded
<1>2. Len(hist) \in 0..MaxSeq  BY LenProperties, NoneIsNone DEF TypeOK
<1>3. Evicted(hist) \in 0..Len(hist)  BY <1>2, NoneIsNone DEF Evicted, Max2
<1>4. buffer # None => buffer \in Seq(1..MaxSeq) /\ Len(buffer) \in Nat  BY LenProperties DEF TypeOK
<1>5. lastSeq \in 0..MaxSeq /\ answer \in Line \cup {None} /\ resumed \in Line \cup {None}
      /\ request \in Request \cup {None}
  BY DEF TypeOK
<1>6. QED  BY <1>1, <1>2, <1>3, <1>4, <1>5, StreamType DEF Held

(* There is at most one reply, and none before a request is served.          *)
LEMMA OneReply ==
  ASSUME Turns
  PROVE  /\ request # None \/ ~Waiting => (\A r : ~OnItsWay(r)) /\ ~Refused
         /\ \A r, s : OnItsWay(r) /\ OnItsWay(s) => r = s
         /\ RepliesIn(Stream) = {} \/ \E p \in 1..Len(Stream) : RepliesIn(Stream) = {p}
         /\ RepliesIn(Stream) # {} => Sent
         /\ answer # None => Answered /\ Waiting
         /\ resumed # None => Received /\ Waiting
         /\ request # None => Asked /\ Waiting
BY NoneIsNone DEF Turns, Idle, Asked, Answered, Sent, Received, OnItsWay, Refused

(* A step that leaves the catch-up and the replies on their way as they are  *)
(* leaves whose turn it is.                                                  *)
LEMMA SameReplies ==
  ASSUME Turns, UNCHANGED <<answer, resumed, request, phase>>,
         \A r : (\E p \in RepliesIn(Stream)' : Stream'[p] = r) <=> (\E p \in RepliesIn(Stream) : Stream[p] = r),
         RepliesIn(Stream) = {} => RepliesIn(Stream)' = {},
         \A p \in 1..Len(Stream) : RepliesIn(Stream) = {p} => \E o \in 1..Len(Stream)' : RepliesIn(Stream)' = {o}
  PROVE  /\ Turns' /\ (Waiting' <=> Waiting) /\ (Refused' <=> Refused)
         /\ (Streaming' <=> Streaming) /\ (Before' <=> Before)
         /\ \A r : OnItsWay(r)' <=> OnItsWay(r)
<1>1. Waiting' <=> Waiting  BY DEF Waiting
<1>2. \A r : OnItsWay(r)' <=> OnItsWay(r)  BY DEF OnItsWay
<1>3. Turns'  BY <1>1 DEF Turns, Idle, Asked, Answered, Sent, Received
<1>4. Refused' <=> Refused  BY <1>2 DEF Refused
<1>5. Before' <=> Before  BY DEF Before
<1>6. Streaming' <=> Streaming  BY <1>4 DEF Streaming
<1>7. QED  BY <1>1, <1>2, <1>3, <1>4, <1>5, <1>6

(* What a reply says stays true while the host goes on.                      *)
LEMMA StillSaid ==
  ASSUME TypeOK, Replies, UNCHANGED <<request, phase, lastSeq, snap>>,
         \A r : OnItsWay(r)' => OnItsWay(r),
         Len(hist)' \in Nat, Len(hist)' >= Len(hist)
  PROVE  Replies'
<1>1. Evicted(hist) <= Evicted(hist)' /\ Evicted(hist)' \in Nat
  BY Basics, NoneIsNone DEF Evicted, Max2
<1>2. ASSUME NEW r \in Line, OnItsWay(r)' PROVE Says(r)'
  <2>1. Says(r)  BY <1>2 DEF Replies
  <2>2. r.kind = "reply" => r.from \in Nat /\ r.to \in Nat  BY LineTypes
  <2>3. QED  BY <1>1, <2>1, <2>2, Basics DEF Says
<1>3. QED  BY <1>2 DEF Replies

(* Nothing happens to the connection; the host may go on unheard.            *)
LEMMA Unheard ==
  ASSUME TypeOK, Link, Stream' = Stream, Len(hist)' \in Nat, Len(hist)' >= Len(hist),
         events => Len(hist)' = Len(hist),
         UNCHANGED <<answer, resumed, request, phase, buffer, events, ours, lastSeq, snap>>
  PROVE  Link'
<1>1. /\ Turns' /\ (Waiting' <=> Waiting) /\ (Refused' <=> Refused)
      /\ (Streaming' <=> Streaming) /\ (Before' <=> Before)
      /\ \A r : OnItsWay(r)' <=> OnItsWay(r)
  <2>1. RepliesIn(Stream)' = RepliesIn(Stream) /\ Len(Stream)' = Len(Stream)  BY DEF RepliesIn
  <2>2. QED  BY <2>1, SameReplies DEF Link
<1>2. Replies'  BY <1>1, StillSaid DEF Link
<1>3. Pipe'  BY <1>1 DEF Link, Pipe, ResyncLast
<1>4. Follows'
  <2>1. AtMost(Stream, Len(hist))'
    <3>1. ASSUME NEW i \in 1..Len(Stream), Stream[i].kind = "event" PROVE Stream[i].seq <= Len(hist)'
      <4>1. Stream[i].seq <= Len(hist)  BY <3>1 DEF Link, Follows, AtMost
      <4>2. Stream[i].seq \in 1..MaxSeq  BY <3>1, Basics, LineTypes
      <4>3. QED  BY <4>1, <4>2, Basics, NoneIsNone
    <3>2. QED  BY <3>1 DEF AtMost
  <2>2. ASSUME Waiting', NEW i \in 1..Len(buffer) PROVE buffer[i] <= Len(hist)'
    <3>1. buffer[i] <= Len(hist) /\ buffer # None  BY <1>1, <2>2 DEF Link, Follows, Pipe
    <3>2. buffer[i] \in 1..MaxSeq  BY <3>1, Basics, ElementOfSeq
    <3>3. QED  BY <3>1, <3>2, Basics, NoneIsNone
  <2>3. ASSUME Streaming'
        PROVE  /\ buffer # None => \A i \in 1..Len(buffer) : buffer[i] = lastSeq + i
               /\ Following(Stream, lastSeq + Held)
               /\ events => lastSeq + Held + Len(Stream) - Ahead(Stream, Len(Stream)+1) = Len(hist)
    BY <1>1, <2>3 DEF Link, Follows
  <2>4. Held' = Held  BY DEF Held
  <2>5. Following(Stream, lastSeq + Held)' <=> Following(Stream, lastSeq + Held)  BY <2>4 DEF Following, Ahead, RepliesIn
  <2>6. Ahead(Stream, Len(Stream)+1)' = Ahead(Stream, Len(Stream)+1)  BY DEF Ahead, RepliesIn
  <2>7. QED  BY <2>1, <2>2, <2>3, <2>4, <2>5, <2>6 DEF Follows
<1>5. QED  BY <1>1, <1>2, <1>3, <1>4 DEF Link

(* An event is streamed.                                                     *)
LEMMA Streamed ==
  ASSUME TypeOK, Link, events, Len(hist) < MaxSeq, Len(hist)' = Len(hist) + 1,
         Stream' = Append(Stream, EventLine(Len(hist) + 1)),
         UNCHANGED <<answer, resumed, request, phase, buffer, events, ours, lastSeq, snap>>
  PROVE  Link'
<1> DEFINE l == EventLine(Len(hist) + 1)
           t == Stream'
<1>1. l \in Line /\ l.kind = "event" /\ l.seq = Len(hist) + 1
  <2>1. Len(hist) + 1 \in 1..MaxSeq  BY Basics, NoneIsNone
  <2>2. QED  BY <2>1, LineTypes
<1>2. Stream \in Seq(Line) /\ Len(Stream) \in Nat /\ t = Append(Stream, l)  BY Basics
<1> HIDE DEF l
<1>3. /\ t \in Seq(Line) /\ Len(t) = Len(Stream) + 1 /\ t[Len(Stream)+1] = l
      /\ \A i \in 1..Len(Stream) : t[i] = Stream[i] /\ i \in 1..Len(t)
      /\ RepliesIn(t) = RepliesIn(Stream)
      /\ \A i \in 1..Len(Stream)+1 : Ahead(t, i) = Ahead(Stream, i)
      /\ Ahead(t, Len(t)+1) = Ahead(Stream, Len(Stream)+1)
      /\ ResyncLast(Stream) /\ (\A i \in 1..Len(Stream) : Stream[i].kind # "resync") => ResyncLast(t)
  <2> HIDE DEF t
  <2>1. /\ t \in Seq(Line) /\ Len(t) = Len(Stream) + 1 /\ t[Len(Stream)+1] = l
        /\ \A i \in 1..Len(Stream) : t[i] = Stream[i] /\ i \in 1..Len(t)
    BY <1>1, <1>2, Appended
  <2>2. RepliesIn(t) = RepliesIn(Stream)  BY <1>1, <1>2, AppendedReplies
  <2>3. /\ \A i \in 1..Len(Stream)+1 : Ahead(t, i) = Ahead(Stream, i)
        /\ Ahead(t, Len(t)+1) = Ahead(Stream, Len(Stream)+1)
    BY <1>1, <1>2, AppendedAhead
  <2>4. ResyncLast(Stream) /\ (\A i \in 1..Len(Stream) : Stream[i].kind # "resync") => ResyncLast(t)
    BY <1>2, <1>1, AppendedResync
  <2>5. QED  BY <2>1, <2>2, <2>3, <2>4
<1>4. /\ Turns' /\ (Waiting' <=> Waiting) /\ (Refused' <=> Refused)
      /\ (Streaming' <=> Streaming) /\ (Before' <=> Before)
      /\ \A r : OnItsWay(r)' <=> OnItsWay(r)
  <2>1. \A p \in RepliesIn(Stream) : p \in 1..Len(Stream)  BY DEF RepliesIn
  <2>2. RepliesIn(Stream)' = RepliesIn(Stream)  BY <1>3
  <2>3. \A r : (\E p \in RepliesIn(Stream)' : Stream'[p] = r) <=> (\E p \in RepliesIn(Stream) : Stream[p] = r)
    BY <1>3, <2>1, <2>2
  <2>4. \A p \in 1..Len(Stream) : p \in 1..Len(Stream)'  BY <1>3
  <2>5. QED  BY <2>2, <2>3, <2>4, SameReplies DEF Link
<1>5. Streaming /\ ~Before /\ \A i \in 1..Len(Stream) : Stream[i].kind # "resync"
  <2>1. Streaming /\ \A i \in 1..Len(Stream) : Stream[i].kind # "resync"  BY DEF Link, Pipe
  <2>2. phase = "live" => request = None  BY OneReply DEF Link, Waiting, Method
  <2>3. QED  BY <2>1, <2>2 DEF Streaming, Before
<1>6. Replies'  BY <1>4, StillSaid, Basics DEF Link
<1>7. Pipe'
  <2>1. \A i \in 1..Len(t) : i \in 1..Len(Stream) \/ i = Len(Stream)+1  BY <1>2, <1>3
  <2>2. \A i \in 1..Len(t) : t[i].kind # "resync"  BY <1>1, <1>3, <1>5, <2>1
  <2>3. ~(phase = "subscribe" /\ Refused)  BY <1>5 DEF Streaming
  <2>4. ResyncLast(t)  BY <1>3, <1>5 DEF Link, Pipe
  <2>5. phase # "off"  BY <1>5 DEF Before
  <2>6. QED  BY <1>4, <1>5, <2>2, <2>3, <2>4, <2>5 DEF Link, Pipe
<1>8. Follows'
  <2>1. AtMost(Stream, Len(hist)+1)
    <3>1. ASSUME NEW i \in 1..Len(Stream), Stream[i].kind = "event" PROVE Stream[i].seq <= Len(hist)+1
      <4>1. Stream[i].seq <= Len(hist)  BY <3>1 DEF Link, Follows, AtMost
      <4>2. Stream[i].seq \in 1..MaxSeq  BY <3>1, Basics, LineTypes
      <4>3. QED  BY <4>1, <4>2, Basics, NoneIsNone
    <3>2. QED  BY <3>1 DEF AtMost
  <2>2. AtMost(t, Len(hist)+1)
    <3>1. Len(hist)+1 \in Int /\ l.seq <= Len(hist)+1  BY <1>1, Basics
    <3> HIDE DEF t
    <3>2. QED  BY <1>1, <1>2, <2>1, <3>1, AppendedEvent
  <2>3. ASSUME Waiting', NEW i \in 1..Len(buffer) PROVE buffer[i] <= Len(hist)+1
    <3>1. buffer[i] <= Len(hist) /\ buffer # None  BY <1>4, <2>3 DEF Link, Follows, Pipe
    <3>2. buffer[i] \in 1..MaxSeq  BY <3>1, Basics, ElementOfSeq
    <3>3. Len(hist) \in Nat /\ MaxSeq \in Nat  BY Basics, NoneIsNone
    <3>4. QED  BY ONLY <3>1, <3>2, <3>3
  <2> DEFINE n == lastSeq + Held
  <2>4. /\ buffer # None => \A i \in 1..Len(buffer) : buffer[i] = lastSeq + i
        /\ Following(Stream, n)
        /\ n + Len(Stream) - Ahead(Stream, Len(Stream)+1) = Len(hist)
    BY <1>5 DEF Link, Follows
  <2>5. Held' = Held /\ n \in Nat /\ Ahead(Stream, Len(Stream)+1) \in {0, 1}
    BY Basics, NoneIsNone DEF Held, Ahead
  <2> HIDE DEF n
  <2>6. l.seq = n + (Len(Stream)+1) - Ahead(Stream, Len(Stream)+1)
    BY <1>1, <1>2, <2>4, <2>5, Basics, NoneIsNone
  <2>7. Following(t, n)
    <3>1. n \in Int  BY <2>5
    <3> HIDE DEF t
    <3>2. QED  BY <1>1, <1>2, <2>4, <2>6, <3>1, AppendedEvent
  <2>8. n + Len(t) - Ahead(t, Len(t)+1) = Len(hist) + 1
    <3>1. Ahead(t, Len(t)+1) = Ahead(Stream, Len(Stream)+1) /\ Len(t) = Len(Stream)+1  BY <1>3
    <3> HIDE DEF t
    <3>2. QED  BY <1>2, <2>4, <2>5, <3>1
  <2>9. QED  BY <1>4, <2>2, <2>3, <2>4, <2>5, <2>7, <2>8 DEF Follows, n
<1>9. QED  BY <1>4, <1>6, <1>7, <1>8 DEF Link

(* What is left of a sequence of lines when its end overflows.               *)
NoResync(s) == \A i \in 1..Len(s) : s[i].kind # "resync"
AtMostOneReply(s) == RepliesIn(s) = {} \/ \E p \in 1..Len(s) : RepliesIn(s) = {p}
Trimmed(s, u) ==
  /\ \A i \in 1..Len(u) : u[i].kind = "event" => i \in 1..Len(s) /\ s[i] = u[i] /\ Ahead(u, i) = Ahead(s, i)
  /\ RepliesIn(s) = {} => RepliesIn(u) = {}
  /\ RepliesIn(s) # {} => \E p \in 1..Len(s), o \in 1..Len(u) :
                            RepliesIn(s) = {p} /\ RepliesIn(u) = {o} /\ u[o] = s[p]

(* An overflow leaves the socket's lines and the one reply that may be       *)
(* queued.                                                                   *)
LEMMA Overflowed ==
  ASSUME NEW a \in Seq(Line), NEW q \in Seq(Line), NEW s, s = a \o q, NEW u, u = a \o Undroppable(q),
         NoResync(s), AtMostOneReply(s)
  PROVE  u \in Seq(Line) /\ Undroppable(q) \in Seq(Line) /\ NoResync(u) /\ Trimmed(s, u)
<1>1. /\ s \in Seq(Line) /\ Len(s) = Len(a) + Len(q) /\ Len(a) \in Nat /\ Len(q) \in Nat
      /\ \A i \in 1..Len(a) + Len(q) : s[i] = IF i <= Len(a) THEN a[i] ELSE q[i - Len(a)]
  BY ConcatProperties, LenProperties
<1>2. \A i \in 1..Len(a) : i \in 1..Len(s) /\ s[i] = a[i]  BY <1>1
<1>3. \A i \in 1..Len(q) : Len(a)+i \in 1..Len(s) /\ s[Len(a)+i] = q[i]
  <2>1. TAKE i \in 1..Len(q)
  <2>2. Len(a)+i \in 1..Len(a) + Len(q) /\ ~(Len(a)+i <= Len(a)) /\ (Len(a)+i) - Len(a) = i  BY <1>1
  <2>3. QED  BY <1>1, <2>2
<1>4. \A i \in 1..Len(s) : s[i] \in Line /\ s[i].kind \in {"event", "reply"}
  BY <1>1, ElementOfSeq, LineTypes DEF NoResync
<1>5. \A i \in RepliesIn(s) : i \in 1..Len(s) /\ s[i].kind = "reply"  BY DEF RepliesIn
<1>6. CASE \A i \in RepliesIn(s) : i <= Len(a)
  <2>1. \A i \in 1..Len(q) : Droppable(q[i])
    <3>1. TAKE i \in 1..Len(q)
    <3>2. ~(Len(a)+i <= Len(a)) /\ Len(a)+i \in 1..Len(s) /\ s[Len(a)+i] = q[i]  BY <1>1, <1>3
    <3>3. s[Len(a)+i].kind # "reply"  BY <1>6, <3>2 DEF RepliesIn
    <3>4. QED  BY <1>4, <3>2, <3>3 DEF Droppable
  <2>2. Undroppable(q) = <<>>
    <3>1. Len(q)+1 \in 1..Len(q)+1 /\ \A i \in 1..Len(q) : i # Len(q)+1  BY <1>1
    <3>2. \A i \in 1..Len(q) : Droppable(q[i]) <=> i # Len(q)+1  BY <2>1, <3>1
    <3>3. Undroppable(q) = IF Len(q)+1 = Len(q)+1 THEN <<>> ELSE <<q[Len(q)+1]>>
      BY <3>1, <3>2, UndroppableFacts
    <3>4. QED  BY <3>3
  <2>3. u = a /\ <<>> \in Seq(Line)  BY <2>2, ConcatEmptySeq, EmptySeq
  <2>4. RepliesIn(u) = RepliesIn(s)
    <3>1. \A i \in RepliesIn(s) : i \in 1..Len(a)  BY <1>1, <1>5, <1>6
    <3>2. QED  BY <1>2, <2>3, <3>1 DEF RepliesIn
  <2>5. \A i : Ahead(u, i) = Ahead(s, i)  BY <2>4 DEF Ahead
  <2>6. \A p \in RepliesIn(s) : p \in 1..Len(u) /\ u[p] = s[p]  BY <1>1, <1>2, <1>5, <1>6, <2>3
  <2>7. NoResync(u)  BY <1>2, <2>3 DEF NoResync
  <2>8. Trimmed(s, u)  BY <1>2, <2>3, <2>4, <2>5, <2>6 DEF Trimmed, AtMostOneReply
  <2>9. QED  BY <2>2, <2>3, <2>7, <2>8
<1>7. CASE \E i \in RepliesIn(s) : ~(i <= Len(a))
  <2>1. PICK p \in RepliesIn(s) : ~(p <= Len(a))  BY <1>7
  <2>2. RepliesIn(s) = {p} /\ p \in 1..Len(s)  BY <1>5, <2>1 DEF AtMostOneReply
  <2> DEFINE k == p - Len(a)
  <2>3. k \in 1..Len(q) /\ p = Len(a) + k  BY <1>1, <2>1, <2>2
  <2> HIDE DEF k
  <2>4. \A i \in 1..Len(q) : Droppable(q[i]) <=> i # k
    <3>1. TAKE i \in 1..Len(q)
    <3>2. Len(a)+i \in 1..Len(s) /\ s[Len(a)+i] = q[i] /\ (Len(a)+i = p <=> i = k)
      <4>1. Len(a)+i \in 1..Len(s) /\ s[Len(a)+i] = q[i]  BY <1>3
      <4>2. i \in Int /\ k \in Int /\ Len(a) \in Int /\ p \in Int /\ p = Len(a) + k  BY <1>1, <2>2, <2>3
      <4>3. Len(a)+i = p <=> i = k  BY ONLY <4>2
      <4>4. QED  BY <4>1, <4>3
    <3>3. s[Len(a)+i].kind = "reply" <=> Len(a)+i = p  BY <2>2, <3>2 DEF RepliesIn
    <3>4. QED  BY <1>4, <3>2, <3>3 DEF Droppable
  <2>5. q[k] = s[p] /\ s[p] \in Line /\ s[p].kind = "reply"  BY <1>3, <1>4, <1>5, <2>2, <2>3
  <2>6. Undroppable(q) = <<s[p]>>
    <3>1. k \in 1..Len(q)+1 /\ k # Len(q)+1  BY <1>1, <2>3
    <3>2. Undroppable(q) = IF k = Len(q)+1 THEN <<>> ELSE <<q[k]>>  BY <2>4, <3>1, UndroppableFacts
    <3>3. QED  BY <2>5, <3>1, <3>2
  <2> DEFINE l == s[p]
  <2>7. l \in Line /\ l.kind = "reply" /\ Undroppable(q) = <<l>> /\ l = s[p]  BY <2>5, <2>6
  <2> HIDE DEF l
  <2>8. u = Append(a, l)  BY <2>7, AppendIsConcat
  <2>9. a \in Seq(Line)  OBVIOUS
  <2>10. /\ u \in Seq(Line) /\ Len(u) = Len(a) + 1 /\ u[Len(a)+1] = l
         /\ \A i \in 1..Len(a) : u[i] = a[i]
         /\ \A i \in 1..Len(u) : i \in 1..Len(a) \/ i = Len(a)+1
    BY ONLY <2>7, <2>8, <2>9, Appended
  <2>11. RepliesIn(a) = {}
    <3>1. \A i \in 1..Len(a) : i # p  BY <2>1
    <3>2. QED  BY <1>2, <2>2, <3>1 DEF RepliesIn
  <2>12. RepliesIn(u) = {Len(a)+1} /\ Len(a)+1 \in 1..Len(u)
    <3>1. RepliesIn(u) = RepliesIn(a) \cup {Len(a)+1}  BY ONLY <2>7, <2>8, <2>9, AppendedReplies
    <3>2. QED  BY <1>1, <2>10, <2>11, <3>1
  <2>13. \A i \in 1..Len(a) : Ahead(u, i) = Ahead(s, i)
    <3>1. TAKE i \in 1..Len(a)
    <3>2. ~(Len(a)+1 < i) /\ ~(p < i)  BY <1>1, <2>1, <2>2
    <3>3. QED  BY <2>2, <2>12, <3>2 DEF Ahead
  <2>14. Undroppable(q) \in Seq(Line)
    <3>1. l \in Line  BY <2>7
    <3>2. <<l>> \in Seq(Line)  BY ONLY <3>1
    <3>3. QED  BY <2>7, <3>2, Zenon
  <2>15. \A i \in 1..Len(u) : (i \in 1..Len(a) /\ i \in 1..Len(s) /\ u[i] = s[i]) \/ u[i] = l
    <3>1. TAKE i \in 1..Len(u)
    <3>2. CASE i \in 1..Len(a)  BY <1>2, <2>10, <3>2
    <3>3. CASE i = Len(a)+1  BY <2>10, <3>3
    <3>4. QED  BY <2>10, <3>2, <3>3
  <2>16. l.kind = "reply" /\ l.kind # "resync" /\ l.kind # "event"  BY <2>7
  <2>17. NoResync(u)
    <3>1. \A i \in 1..Len(s) : s[i].kind # "resync"  BY DEF NoResync
    <3>2. \A i \in 1..Len(u) : u[i].kind # "resync"  BY ONLY <2>15, <2>16, <3>1
    <3>3. QED  BY ONLY <3>2 DEF NoResync
  <2>18. \A i \in 1..Len(u) : u[i].kind = "event" =>
           i \in 1..Len(s) /\ s[i] = u[i] /\ Ahead(u, i) = Ahead(s, i)
    BY ONLY <2>13, <2>15, <2>16
  <2>19. Trimmed(s, u)
    <3>1. u[Len(a)+1] = s[p]  BY <2>7, <2>10, Zenon
    <3>2. QED  BY <2>2, <2>12, <2>18, <3>1 DEF Trimmed
  <2>20. QED  BY <2>10, <2>14, <2>17, <2>19
<1>8. QED  BY <1>6, <1>7

(* An event finds the queue full: the queued ones go, and the client is      *)
(* unsubscribed and told.                                                    *)
LEMMA Overflows ==
  ASSUME TypeOK, Link, events, Len(hist)' = Len(hist) + 1, chunk' = chunk, wire' = wire, blocked, blocked' = blocked,
         queue' = Append(Undroppable(queue), ResyncLine), events' = FALSE,
         UNCHANGED <<answer, resumed, request, phase, buffer, ours, lastSeq, snap>>
  PROVE  Link' /\ Lines' /\ Bounded'
<1> DEFINE a == chunk \o wire
           u == a \o Undroppable(queue)
           t == Append(u, ResyncLine)
<1>1. a \in Seq(Line) /\ queue \in Seq(Line) /\ chunk \in Seq(Line) /\ wire \in Seq(Line)
  BY Basics, ConcatProperties DEF Lines
<1>2. Stream = a \o queue  BY <1>1, Joins, Zenon DEF Stream
<1>3. Streaming /\ ~Before /\ \A i \in 1..Len(Stream) : Stream[i].kind # "resync"
  <2>1. Streaming /\ \A i \in 1..Len(Stream) : Stream[i].kind # "resync"  BY DEF Link, Pipe
  <2>2. phase = "live" => request = None  BY OneReply DEF Link, Waiting, Method
  <2>3. QED  BY <2>1, <2>2 DEF Streaming, Before
<1>4. RepliesIn(Stream) = {} \/ \E p \in 1..Len(Stream) : RepliesIn(Stream) = {p}  BY OneReply DEF Link
<1> HIDE DEF a, u
<1>5. /\ u \in Seq(Line) /\ Undroppable(queue) \in Seq(Line)
      /\ \A i \in 1..Len(u) : u[i].kind # "resync"
      /\ \A i \in 1..Len(u) : u[i].kind = "event" =>
           i \in 1..Len(Stream) /\ Stream[i] = u[i] /\ Ahead(u, i) = Ahead(Stream, i)
      /\ RepliesIn(Stream) = {} => RepliesIn(u) = {}
      /\ RepliesIn(Stream) # {} => \E p \in 1..Len(Stream), o \in 1..Len(u) :
                                     RepliesIn(Stream) = {p} /\ RepliesIn(u) = {o} /\ u[o] = Stream[p]
  <2>1. u = a \o Undroppable(queue)  BY DEF u
  <2> DEFINE s == Stream
  <2>2. s = a \o queue /\ NoResync(s) /\ AtMostOneReply(s)
    BY <1>2, <1>3, <1>4 DEF NoResync, AtMostOneReply
  <2> HIDE DEF s
  <2>3. u \in Seq(Line) /\ Undroppable(queue) \in Seq(Line) /\ NoResync(u) /\ Trimmed(s, u)
    BY <1>1, <2>1, <2>2, Overflowed
  <2>4. QED  BY <2>3 DEF s, NoResync, Trimmed
<1>6. queue' \in Seq(Line) /\ queue' # <<>>  BY <1>5, LineTypes, AppendProperties
<1>7. Stream' = t
  <2>1. <<ResyncLine>> \in Seq(Line) /\ queue' = Undroppable(queue) \o <<ResyncLine>>
    BY <1>5, LineTypes, AppendIsConcat
  <2> DEFINE d == Undroppable(queue)
             e == <<ResyncLine>>
  <2>2. (a \o d) \o e = a \o queue'
    <3>1. d \in Seq(Line) /\ e \in Seq(Line) /\ queue' = d \o e  BY <1>5, <2>1
    <3> HIDE DEF d, e
    <3>2. (a \o d) \o e = a \o (d \o e)
      <4>1. a \in Seq(Line)  BY <1>1
      <4>2. QED  BY ONLY <3>1, <4>1, Joins
    <3>3. QED  BY <3>1, <3>2
  <2>3. t = u \o <<ResyncLine>>  BY <1>5, LineTypes, AppendIsConcat
  <2>4. (chunk \o wire) \o queue' = chunk \o (wire \o queue')
    <3> DEFINE f == queue'
    <3>1. chunk \in Seq(Line) /\ wire \in Seq(Line) /\ f \in Seq(Line)  BY <1>1, <1>6
    <3> HIDE DEF f
    <3>2. (chunk \o wire) \o f = chunk \o (wire \o f)  BY ONLY <3>1, Joins
    <3>3. QED  BY <3>2 DEF f
  <2>5. QED  BY <2>2, <2>3, <2>4 DEF a, u, Stream
<1> DEFINE r == ResyncLine
<1>8. r \in Line /\ r.kind = "resync" /\ t = Append(u, r)  BY LineTypes
<1> HIDE DEF r, t
<1>9. /\ t \in Seq(Line) /\ Len(u) \in Nat /\ Len(t) = Len(u) + 1 /\ t[Len(u)+1] = r
      /\ \A i \in 1..Len(u) : t[i] = u[i] /\ i \in 1..Len(t)
      /\ \A i \in 1..Len(t) : i \in 1..Len(u) \/ i = Len(u)+1
  BY <1>5, <1>8, Appended
<1>10. RepliesIn(t) = RepliesIn(u)  BY <1>5, <1>8, AppendedReplies
<1>11. ResyncLast(u)  BY <1>5 DEF ResyncLast
<1>12. ResyncLast(t)  BY <1>5, <1>8, <1>11, AppendedResync
<1>13. \A i \in 1..Len(t) : t[i].kind = "event" =>
         i \in 1..Len(Stream) /\ Stream[i] = t[i] /\ Ahead(t, i) = Ahead(Stream, i)
  <2>1. \A i \in 1..Len(u)+1 : Ahead(t, i) = Ahead(u, i)
    <3>1. u \in Seq(Line) /\ r \in Line /\ t = Append(u, r)  BY <1>5, <1>8
    <3>2. QED  BY ONLY <3>1, AppendedAhead
  <2>2. \A i \in 1..Len(u) : i \in 1..Len(u)+1  BY <1>9
  <2>3. QED  BY <1>5, <1>8, <1>9, <2>1, <2>2
<1>14. RepliesIn(Stream)' = RepliesIn(t) /\ Len(Stream)' = Len(t)  BY <1>7 DEF RepliesIn
<1>15. /\ Turns' /\ (Waiting' <=> Waiting) /\ (Refused' <=> Refused)
       /\ (Streaming' <=> Streaming) /\ (Before' <=> Before)
       /\ \A x : OnItsWay(x)' <=> OnItsWay(x)
  <2>1. CASE RepliesIn(Stream) = {}
    <3>1. RepliesIn(Stream)' = {}  BY <1>5, <1>10, <1>14, <2>1
    <3>2. QED  BY <2>1, <3>1, SameReplies DEF Link
  <2>2. CASE RepliesIn(Stream) # {}
    <3>1. PICK p \in 1..Len(Stream), o \in 1..Len(u) : RepliesIn(Stream) = {p} /\ RepliesIn(u) = {o} /\ u[o] = Stream[p]
      BY <1>5, <2>2
    <3>2. RepliesIn(Stream)' = {o} /\ o \in 1..Len(Stream)' /\ Stream'[o] = Stream[p]
      BY <1>7, <1>9, <1>10, <1>14, <3>1
    <3>3. QED  BY <3>1, <3>2, SameReplies DEF Link
  <2>3. QED  BY <2>1, <2>2
<1>16. Replies'  BY <1>15, StillSaid, Basics DEF Link
<1>17. Pipe'
  <2>1. ~(phase = "subscribe" /\ Refused) /\ phase # "off"  BY <1>3 DEF Streaming, Before
  <2>2. QED  BY <1>3, <1>7, <1>12, <1>15, <2>1 DEF Link, Pipe
<1>18. Follows'
  <2>1. AtMost(t, Len(hist)+1)
    <3>1. ASSUME NEW i \in 1..Len(t), t[i].kind = "event" PROVE t[i].seq <= Len(hist)+1
      <4>1. i \in 1..Len(Stream) /\ Stream[i] = t[i]  BY <1>13, <3>1
      <4>2. t[i].seq <= Len(hist)  BY <3>1, <4>1 DEF Link, Follows, AtMost
      <4>3. t[i].seq \in 1..MaxSeq  BY <3>1, <4>1, Basics, LineTypes
      <4>4. QED  BY <4>2, <4>3, Basics, NoneIsNone
    <3>2. QED  BY <3>1 DEF AtMost
  <2>2. ASSUME Waiting', NEW i \in 1..Len(buffer) PROVE buffer[i] <= Len(hist)+1
    <3>1. buffer[i] <= Len(hist) /\ buffer # None  BY <1>15, <2>2 DEF Link, Follows, Pipe
    <3>2. buffer[i] \in 1..MaxSeq  BY <3>1, Basics, ElementOfSeq
    <3>3. Len(hist) \in Nat /\ MaxSeq \in Nat  BY Basics, NoneIsNone
    <3>4. QED  BY ONLY <3>1, <3>2, <3>3
  <2> DEFINE n == lastSeq + Held
  <2>3. /\ buffer # None => \A i \in 1..Len(buffer) : buffer[i] = lastSeq + i
        /\ Following(Stream, n)
    BY <1>3 DEF Link, Follows
  <2>4. Held' = Held  BY DEF Held
  <2> HIDE DEF n
  <2>5. Following(t, n)  BY <1>13, <2>3 DEF Following
  <2>6. QED  BY <1>7, <1>15, <2>1, <2>2, <2>3, <2>4, <2>5 DEF Follows, n
<1>19. Lines' /\ Bounded'
  <2>1. blocked' \in BOOLEAN  BY Basics DEF Bounded
  <2>2. QED  BY <1>1, <1>6, <2>1 DEF Lines, Bounded
<1>20. QED  BY <1>15, <1>16, <1>17, <1>18, <1>19 DEF Link

(* The connection carries nothing, and a request is under way.               *)
LEMMA Asking ==
  ASSUME Stream' = <<>>, request' # None, answer' = None, resumed' = None, phase' \in Method,
         request'.method = phase', phase' = "subscribe" => request'.from = lastSeq',
         buffer' = <<>>, ~events'
  PROVE  Link'
<1>1. Len(Stream)' = 0 /\ RepliesIn(Stream)' = {} /\ Waiting'
  <2>1. Len(<<>>) = 0 /\ 1..0 = {}  OBVIOUS
  <2>2. QED  BY <2>1 DEF RepliesIn, Waiting
<1>2. buffer' # None  BY NoneIsNone, EmptySeq
<1>3. Turns'  BY <1>1 DEF Turns, Asked
<1>4. \A r \in Line : ~OnItsWay(r)'  BY <1>1, NoneIsNone DEF OnItsWay
<1>5. Replies'  BY <1>4 DEF Replies
<1>6. ~Refused' /\ ~Streaming' /\ phase' # "off" /\ phase' # "live"  BY <1>4 DEF Refused, Streaming, Method
<1>7. \A i \in 1..Len(Stream)' : FALSE  BY <1>1
<1>8. Pipe'  BY <1>2, <1>6, <1>7 DEF Pipe, ResyncLast
<1>9. Follows'
  <2>1. \A i \in 1..Len(buffer') : FALSE  OBVIOUS
  <2>2. QED  BY <1>6, <1>7, <2>1 DEF Follows, AtMost
<1>10. QED  BY <1>3, <1>5, <1>8, <1>9 DEF Link

(* The connection is gone.                                                   *)
LEMMA Gone ==
  ASSUME Stream' = <<>>, request' = None, answer' = None, resumed' = None, phase' = "off", ~events'
  PROVE  Link'
<1>1. Len(Stream)' = 0 /\ RepliesIn(Stream)' = {} /\ ~Waiting'
  <2>1. Len(<<>>) = 0 /\ 1..0 = {}  OBVIOUS
  <2>2. QED  BY <2>1 DEF RepliesIn, Waiting, Method
<1>2. Turns'  BY <1>1 DEF Turns, Idle
<1>3. \A r \in Line : ~OnItsWay(r)'  BY <1>1, NoneIsNone DEF OnItsWay
<1>4. Replies'  BY <1>3 DEF Replies
<1>5. ~Refused' /\ ~Streaming'  BY <1>3 DEF Refused, Streaming
<1>6. \A i \in 1..Len(Stream)' : FALSE  BY <1>1
<1>7. Pipe'  BY <1>1, <1>5, <1>6 DEF Pipe, ResyncLast
<1>8. Follows'  BY <1>1, <1>5, <1>6 DEF Follows, AtMost
<1>9. QED  BY <1>2, <1>4, <1>7, <1>8 DEF Link

(* Before a subscription, a connection with no reply on it carries nothing.  *)
LEMMA Nothing ==
  ASSUME TypeOK, Link, Before, RepliesIn(Stream) = {}
  PROVE  Stream = <<>> /\ chunk = <<>> /\ wire = <<>> /\ queue = <<>>
<1>1. \A i \in 1..Len(Stream) : FALSE  BY DEF Link, Pipe, RepliesIn
<1>2. Len(Stream) = 0  BY <1>1, Basics
<1>3. Stream = <<>>  BY <1>2, Basics, EmptySeq
<1>4. QED  BY <1>3, Basics, StreamType

(* A request is answered, the reply not yet sent.                            *)
LEMMA Answers ==
  ASSUME TypeOK, Turns, request # None, request' = None, answer' \in Line,
         UNCHANGED <<resumed, phase>>, RepliesIn(Stream)' = {}
  PROVE  /\ Turns' /\ Waiting' /\ answer' # None /\ resumed' = None
         /\ \A r : OnItsWay(r)' <=> r = answer'
         /\ Refused' <=> answer'.status = "resync"
<1>1. Asked /\ Waiting  BY OneReply
<1>2. answer' # None  BY NoneIsNone
<1>3. Turns' /\ Waiting'  BY <1>1, <1>2 DEF Turns, Answered, Asked, Waiting
<1>4. resumed' = None  BY <1>1 DEF Asked
<1>5. \A r : OnItsWay(r)' <=> r = answer'  BY <1>2, <1>4, NoneIsNone DEF OnItsWay
<1>6. Refused' <=> answer'.status = "resync"  BY <1>5 DEF Refused
<1>7. QED  BY <1>2, <1>3, <1>4, <1>5, <1>6

(* A request that a catch-up makes before its subscription is answered.      *)
LEMMA AnswersEarly ==
  ASSUME TypeOK, Link, request # None, phase \in {"snapshot", "events"}, request' = None, answer' \in Line,
         UNCHANGED <<chunk, wire, queue, resumed, phase, buffer, events, ours, lastSeq, snap, hist>>,
         \A r \in Line : r = answer' => Says(r)'
  PROVE  Link'
<1>1. Before /\ RepliesIn(Stream) = {}  BY OneReply DEF Link, Before, Asked
<1>2. Stream = <<>> /\ Stream' = <<>>  BY <1>1, Nothing DEF Stream
<1>3. Len(Stream)' = 0 /\ RepliesIn(Stream)' = {}
  <2>1. Len(<<>>) = 0 /\ 1..0 = {}  OBVIOUS
  <2>2. QED  BY <1>2, <2>1 DEF RepliesIn
<1>4. /\ Turns' /\ Waiting' /\ \A r : OnItsWay(r)' <=> r = answer'
  BY <1>3, Answers DEF Link
<1>5. Waiting  BY OneReply DEF Link
<1>6. Replies'  BY <1>4 DEF Replies
<1>7. \A i \in 1..Len(Stream)' : FALSE  BY <1>3
<1>8. buffer = <<>> /\ buffer # None /\ ~events /\ ~Streaming'
  BY <1>1, <1>5 DEF Link, Pipe, Streaming
<1>9. Pipe'  BY <1>7, <1>8 DEF Pipe, ResyncLast
<1>10. Follows'
  <2>1. \A i \in 1..Len(buffer) : FALSE  BY <1>8
  <2>2. QED  BY <1>7, <1>8, <2>1 DEF Follows, AtMost
<1>11. QED  BY <1>4, <1>6, <1>9, <1>10 DEF Link

(* A snapshot is taken of the host as it is now.                             *)
LEMMA ServesSnapshot ==
  ASSUME TypeOK, Link, History, ServeSnapshot
  PROVE  Link' /\ answer' \in Line
<1>1. phase = "snapshot"  BY DEF ServeSnapshot, Link, Replies
<1>2. /\ answer' \in Line /\ answer'.kind = "reply" /\ answer'.method = "snapshot"
      /\ answer'.from = Evicted(hist) /\ answer'.to = Len(hist)
  <2>1. Evicted(hist) \in 0..MaxSeq /\ Len(hist) \in 0..MaxSeq  BY Basics, NoneIsNone
  <2>2. answer' = Reply("snapshot", "ok", Evicted(hist), Len(hist))  BY DEF ServeSnapshot
  <2>3. "snapshot" \in Method  BY DEF Method
  <2>4. QED  BY <2>1, <2>2, <2>3, LineTypes
<1>3. UNCHANGED <<chunk, wire, queue, resumed, phase, buffer, events, ours, lastSeq, snap, hist>>
      /\ request # None /\ request' = None
  BY DEF ServeSnapshot, hostVars, viewVars, linkVars
<1>4. \A r \in Line : r = answer' => Says(r)'
  <2>1. Evicted(hist)' = Evicted(hist) /\ lastSeq <= Len(hist)  BY <1>3 DEF Evicted, History
  <2>2. QED  BY <1>1, <1>2, <1>3, <2>1, Basics DEF Says
<1>5. QED  BY <1>1, <1>2, <1>3, <1>4, AnswersEarly

(* A page ends no later than the newest event, and the last one no earlier   *)
(* than the snapshot.                                                        *)
LEMMA ServesEvents ==
  ASSUME TypeOK, Link, Paging, ServeEvents
  PROVE  Link' /\ answer' \in Line
<1>1. phase = "events"  BY DEF ServeEvents, Link, Replies
<1>2. request # None /\ request \in Request /\ request.from \in 0..MaxSeq
  <2>1. request # None /\ request \in Request  BY Basics DEF ServeEvents
  <2>2. QED  BY <2>1 DEF Request
<1>3. UNCHANGED <<chunk, wire, queue, resumed, phase, buffer, events, ours, lastSeq, snap, hist>>
      /\ request # None /\ request' = None
  BY DEF ServeEvents, hostVars, viewVars, linkVars
<1>4. snap.seq <= Len(hist) /\ Len(hist) \in 0..MaxSeq  BY <1>1, Basics DEF Paging
<1>5. "events" \in Method  BY DEF Method
<1>6. answer' \in Line /\ \A r \in Line : r = answer' => Says(r)'
  <2>1. CASE request.from < Evicted(hist) \/ request.from > Len(hist)
    <3>1. answer' = Reply("events", "resync", request.from, request.from)  BY <2>1 DEF ServeEvents
    <3>2. answer' \in Line /\ answer'.kind = "reply" /\ answer'.method = "events" /\ answer'.status = "resync"
      BY <1>2, <1>5, <3>1, LineTypes
    <3>3. QED  BY <1>1, <1>3, <3>2 DEF Says
  <2>2. CASE ~(request.from < Evicted(hist) \/ request.from > Len(hist))
    <3>1. PICK to \in Min2(request.from + 1, Len(hist))..Len(hist) :
            answer' = Reply("events", IF to = Len(hist) THEN "ok" ELSE "more", request.from, to)
      BY <2>2 DEF ServeEvents
    <3>2. to \in 0..MaxSeq /\ to <= Len(hist)  BY <1>2, <1>4, NoneIsNone DEF Min2
    <3> DEFINE st == IF to = Len(hist) THEN "ok" ELSE "more"
    <3>3. st \in {"ok", "more", "resync"} /\ (st = "ok" => to = Len(hist))  OBVIOUS
    <3>4. answer' = Reply("events", st, request.from, to)  BY <3>1
    <3> HIDE DEF st
    <3>5. /\ answer' \in Line /\ answer'.kind = "reply" /\ answer'.method = "events" /\ answer'.status = st
          /\ answer'.to = to
      BY <1>2, <1>5, <3>2, <3>3, <3>4, LineTypes
    <3>6. QED  BY <1>1, <1>3, <1>4, <3>2, <3>3, <3>5 DEF Says
  <2>3. QED  BY <2>1, <2>2
<1>7. QED  BY <1>1, <1>3, <1>6, AnswersEarly

(* The backlog that a subscription replays.                                  *)
Backlog == [i \in 1..Len(hist) - lastSeq |-> EventLine(lastSeq + i)]

(* The replayed events follow on what the client has.                        *)
LEMMA Backlogs ==
  ASSUME TypeOK, lastSeq <= Len(hist)
  PROVE  /\ Backlog \in Seq(Line) /\ Len(Backlog) = Len(hist) - lastSeq /\ Len(Backlog) \in Nat
         /\ \A i \in 1..Len(Backlog) : /\ Backlog[i].kind = "event" /\ Backlog[i].seq = lastSeq + i
                                       /\ Backlog[i].seq <= Len(hist)
<1>1. Len(hist) - lastSeq \in Nat /\ Len(hist) \in 0..MaxSeq /\ lastSeq \in 0..MaxSeq  BY Basics, NoneIsNone
<1> DEFINE n == Len(hist) - lastSeq
<1>2. \A i \in 1..n : lastSeq + i \in 1..MaxSeq /\ lastSeq + i <= Len(hist)  BY <1>1, NoneIsNone
<1>3. \A i \in 1..n : EventLine(lastSeq + i) \in Line /\ EventLine(lastSeq + i).kind = "event"
                      /\ EventLine(lastSeq + i).seq = lastSeq + i
  BY <1>2, LineTypes
<1>4. n \in Nat  BY <1>1
<1>5. Backlog = [i \in 1..n |-> EventLine(lastSeq + i)]  BY DEF Backlog
<1> HIDE DEF n
<1>6. Backlog \in Seq(Line) /\ Len(Backlog) = n  BY <1>3, <1>4, <1>5
<1>7. \A i \in 1..n : Backlog[i] = EventLine(lastSeq + i)  BY <1>5
<1>8. QED  BY <1>2, <1>3, <1>4, <1>6, <1>7 DEF n

(* A subscription that is refused, with events on their way or none.         *)
LEMMA Refuses ==
  ASSUME TypeOK, Link, request # None, phase = "subscribe", request' = None,
         answer' = Reply("subscribe", "resync", lastSeq, lastSeq),
         events' = FALSE, UNCHANGED <<resumed, phase, buffer, hist>>,
         Stream' \in Seq(Line),
         \A i \in 1..Len(Stream)' : Stream'[i].kind = "event" /\ Stream'[i].seq <= Len(hist)
  PROVE  Link' /\ answer' \in Line
<1>1. answer' \in Line /\ answer'.kind = "reply" /\ answer'.method = "subscribe" /\ answer'.status = "resync"
  <2>1. "subscribe" \in Method /\ lastSeq \in 0..MaxSeq  BY Basics DEF Method
  <2>2. QED  BY <2>1, LineTypes
<1>2. RepliesIn(Stream)' = {}  BY DEF RepliesIn
<1>3. /\ Turns' /\ Waiting' /\ answer' # None /\ resumed' = None
      /\ \A r : OnItsWay(r)' <=> r = answer'
      /\ Refused'
  BY <1>1, <1>2, Answers DEF Link
<1>4. Replies'  BY <1>1, <1>3 DEF Replies, Says
<1>5. buffer = <<>> /\ buffer # None  BY OneReply DEF Link, Pipe, Before
<1>6. ~Streaming' /\ ~Before'  BY <1>3 DEF Streaming, Before
<1>7. \A i \in 1..Len(Stream)' : Stream'[i].kind # "resync" /\ Stream'[i].kind # "reply"
  <2>1. TAKE i \in 1..Len(Stream)'
  <2>2. Stream'[i].kind = "event"  OBVIOUS
  <2>3. QED  BY <2>2
<1>8. Pipe'  BY <1>3, <1>5, <1>6, <1>7 DEF Pipe, ResyncLast
<1>9. Follows'
  <2>1. \A i \in 1..Len(buffer) : FALSE  BY <1>5
  <2>2. QED  BY <1>5, <1>6, <2>1 DEF Follows, AtMost
<1>10. QED  BY <1>1, <1>3, <1>4, <1>8, <1>9 DEF Link

(* A subscription that is accepted: the backlog is on its way.               *)
LEMMA Accepts ==
  ASSUME TypeOK, Link, lastSeq <= Len(hist), request # None, phase = "subscribe", request' = None,
         answer' = Reply("subscribe", "ok", lastSeq, lastSeq),
         UNCHANGED <<resumed, phase, buffer, lastSeq, hist>>,
         Stream' = Backlog
  PROVE  Link' /\ answer' \in Line
<1>1. answer' \in Line /\ answer'.kind = "reply" /\ answer'.method = "subscribe" /\ answer'.status = "ok"
  <2>1. "subscribe" \in Method /\ lastSeq \in 0..MaxSeq  BY Basics DEF Method
  <2>2. QED  BY <2>1, LineTypes
<1>2. /\ \A i \in 1..Len(Stream)' : /\ Stream'[i].kind = "event" /\ Stream'[i].seq = lastSeq + i
                                    /\ Stream'[i].seq <= Len(hist)
      /\ Len(Stream)' = Len(hist) - lastSeq /\ Len(Stream)' \in Nat
  BY Backlogs
<1>3. RepliesIn(Stream)' = {}  BY <1>2 DEF RepliesIn
<1>4. /\ Turns' /\ Waiting' /\ answer' # None /\ resumed' = None
      /\ \A r : OnItsWay(r)' <=> r = answer'
      /\ ~Refused'
  BY <1>1, <1>3, Answers DEF Link
<1>5. Replies'  BY <1>1, <1>4 DEF Replies, Says
<1>6. buffer = <<>> /\ buffer # None  BY OneReply DEF Link, Pipe, Before
<1>7. Streaming' /\ ~Before'  BY <1>4 DEF Streaming, Before
<1>8. \A i \in 1..Len(Stream)' : Stream'[i].kind # "resync"
  <2>1. TAKE i \in 1..Len(Stream)'
  <2>2. Stream'[i].kind = "event"  BY <1>2
  <2>3. QED  BY <2>2
<1>9. Pipe'  BY <1>4, <1>6, <1>7, <1>8 DEF Pipe, ResyncLast
<1>10. Follows'
  <2>1. \A i \in 1..Len(buffer) : FALSE  BY <1>6
  <2>2. Held' = 0  BY <1>6 DEF Held
  <2>3. \A i : Ahead(Stream, i)' = 0  BY <1>3 DEF Ahead
  <2>4. Len(hist) \in Nat /\ lastSeq \in Nat  BY Basics, NoneIsNone
  <2>5. Following(Stream, lastSeq + Held)'
    <3>1. ASSUME NEW i \in 1..Len(Stream)'
          PROVE  Stream'[i].seq = (lastSeq + 0) + i - 0
      <4>1. Stream'[i].seq = lastSeq + i /\ i \in Nat  BY <1>2
      <4>2. lastSeq + i = (lastSeq + 0) + i - 0  BY <2>4, <4>1
      <4>3. QED  BY <4>1, <4>2
    <3>2. QED  BY <2>2, <2>3, <3>1 DEF Following, Ahead, RepliesIn
  <2>6. (lastSeq + Held)' + Len(Stream)' - Ahead(Stream, Len(Stream)+1)' = Len(hist)
    BY <1>2, <2>2, <2>3, <2>4
  <2>7. AtMost(Stream, Len(hist))'  BY <1>2 DEF AtMost
  <2>8. QED  BY <1>6, <2>1, <2>5, <2>6, <2>7 DEF Follows
<1>11. QED  BY <1>1, <1>4, <1>5, <1>9, <1>10 DEF Link

(* From an accepted subscription on, everything after the paged events is on *)
(* its way, in order; behind a refused one there is nothing.                 *)
LEMMA ServesSubscribe ==
  ASSUME TypeOK, Link, History, ServeSubscribe
  PROVE  Link' /\ answer' \in Line /\ Lines' /\ Bounded' /\ events' \in BOOLEAN
<1>1. request # None /\ phase = "subscribe" /\ request.from = lastSeq /\ request' = None
  BY DEF ServeSubscribe, Link, Replies
<1>2. UNCHANGED <<resumed, phase, buffer, lastSeq, hist, chunk>>  BY DEF ServeSubscribe, hostVars, viewVars, linkVars
<1>3. chunk = <<>> /\ wire = <<>> /\ queue = <<>> /\ Stream = <<>>
  <2>1. Before /\ RepliesIn(Stream) = {}  BY <1>1, OneReply DEF Link, Before, Asked
  <2>2. QED  BY <2>1, Nothing
<1>4. /\ Lines /\ Bounded /\ WireCap \in Nat \ {0} /\ QueueCap \in Nat \ {0} /\ lastSeq \in 0..MaxSeq
      /\ Len(hist) \in 0..MaxSeq
  BY Basics, NoneIsNone
<1>5. CASE lastSeq < Evicted(hist) \/ lastSeq > Len(hist)
  <2>1. /\ events' = FALSE /\ answer' = Reply("subscribe", "resync", lastSeq, lastSeq)
        /\ UNCHANGED <<queue, blocked, wire>>
    BY <1>1, <1>5 DEF ServeSubscribe
  <2>2. Lines' /\ Bounded' /\ Stream' = <<>> /\ Stream' \in Seq(Line) /\ \A i \in 1..Len(Stream)' : FALSE
    <3>1. \A i \in 1..Len(<<>>) : FALSE  OBVIOUS
    <3>2. QED  BY <1>2, <1>3, <1>4, <2>1, <3>1, EmptySeq DEF Lines, Bounded, Stream
  <2>3. QED  BY <1>1, <1>2, <2>1, <2>2, Refuses
<1>6. CASE ~(lastSeq < Evicted(hist) \/ lastSeq > Len(hist))
  <2> DEFINE b == Backlog
             n == IF blocked THEN 0 ELSE Min2(Len(b), WireCap - Len(wire))
             rest == Len(b) - n
             from == Len(b) - (rest % (QueueCap + 1)) + 1
  <2>1. /\ wire' = wire \o SubSeq(b, 1, n)
        /\ blocked' = (blocked \/ Len(wire) + n >= WireCap)
        /\ IF rest <= QueueCap
             THEN /\ queue' = queue \o SubSeq(b, n+1, Len(b)) /\ events' = TRUE
                  /\ answer' = Reply("subscribe", "ok", lastSeq, lastSeq)
             ELSE /\ queue' = queue \o SubSeq(b, from, Len(b)) /\ events' = FALSE
                  /\ answer' = Reply("subscribe", "resync", lastSeq, lastSeq)
    BY <1>1, <1>6 DEF ServeSubscribe, Backlog
  <2>2. lastSeq <= Len(hist)  BY <1>4, <1>6
  <2>3. /\ b \in Seq(Line) /\ Len(b) \in Nat
        /\ \A i \in 1..Len(b) : b[i].kind = "event" /\ b[i].seq <= Len(hist)
    BY <2>2, Backlogs
  <2> HIDE DEF b
  <2>4. n \in 0..Len(b) /\ rest \in Nat /\ (rest # 0 => blocked') /\ blocked' \in BOOLEAN
    <3>1. Len(wire) = 0 /\ blocked \in BOOLEAN  BY <1>3, <1>4 DEF Bounded
    <3>2. n \in 0..Len(b) /\ rest \in Nat  BY <1>4, <2>3, <3>1 DEF Min2
    <3>3. rest # 0 => blocked \/ Len(wire) + n >= WireCap  BY <1>4, <2>3, <3>1 DEF Min2
    <3>4. QED  BY <2>1, <3>2, <3>3
  <2>5. \A s \in Seq(Line) : <<>> \o s = s  BY ConcatEmptySeq
  <2> HIDE DEF n, rest
  <2>6. rest = Len(b) - n  BY DEF rest
  <2>7. SubSeq(b, 1, n) \in Seq(Line) /\ Len(SubSeq(b, 1, n)) = n
    BY <2>3, <2>4, Cut
  <2>8. wire' = SubSeq(b, 1, n) /\ wire' \in Seq(Line) /\ chunk' = <<>>  BY <1>2, <1>3, <2>1, <2>5, <2>7
  <2>9. CASE rest <= QueueCap
    <3>1. /\ SubSeq(b, n+1, Len(b)) \in Seq(Line) /\ Len(SubSeq(b, n+1, Len(b))) = Len(b) - n
          /\ SubSeq(b, 1, n) \o SubSeq(b, n+1, Len(b)) = b
      BY <2>3, <2>4, Cut
    <3>2. queue' = SubSeq(b, n+1, Len(b)) /\ queue' \in Seq(Line)  BY <1>3, <2>1, <2>5, <2>9, <3>1
    <3>3. Stream' = b
      <4>1. wire' \o queue' = b  BY <2>8, <3>1, <3>2
      <4>2. QED  BY <2>3, <2>5, <2>8, <4>1 DEF Stream
    <3>4. queue' # <<>> => blocked'  BY <2>4, <2>6, <3>1, <3>2, EmptySeq
    <3>5. Lines' /\ Bounded'  BY <2>4, <2>8, <3>2, <3>4, EmptySeq DEF Lines, Bounded
    <3>6. Stream' = Backlog /\ events' = TRUE  BY <2>1, <2>9, <3>3 DEF b
    <3>7. QED  BY <1>1, <1>2, <2>1, <2>2, <2>9, <3>5, <3>6, Accepts
  <2>10. CASE ~(rest <= QueueCap)
    <3>1. from - 1 \in n..Len(b) /\ from \in Nat /\ from = (from - 1) + 1
      <4> DEFINE m == rest % (QueueCap + 1)
      <4>1. m \in 0..QueueCap /\ QueueCap \in Nat
        <5>1. QueueCap \in Nat  BY <1>4
        <5>2. QueueCap + 1 \in Nat \ {0}  BY <5>1
        <5>3. QED  BY <2>4, <5>1, <5>2
      <4> HIDE DEF m
      <4>2. from = Len(b) - m + 1  BY DEF m
      <4> HIDE DEF from
      <4>3. QED  BY <2>3, <2>4, <2>6, <2>10, <4>1, <4>2
    <3> DEFINE k == from - 1
    <3>2. k \in 0..Len(b) /\ n <= k /\ from = k + 1  BY <2>4, <3>1
    <3> HIDE DEF k, from
    <3>3. /\ SubSeq(b, k+1, Len(b)) \in Seq(Line) /\ Len(SubSeq(b, k+1, Len(b))) = Len(b) - k
      BY <2>3, <3>2, Cut
    <3>4. queue' = SubSeq(b, k+1, Len(b)) /\ queue' \in Seq(Line) /\ Len(queue') = Len(b) - k
      BY <1>3, <2>1, <2>5, <2>10, <3>2, <3>3
    <3>5. queue' # <<>> => blocked'  BY <2>4, <2>6, <2>10, <1>4
    <3>6. Lines' /\ Bounded'  BY <2>4, <2>8, <3>4, <3>5, EmptySeq DEF Lines, Bounded
    <3>7. /\ Stream' = wire' \o queue' /\ Stream' \in Seq(Line)
      <4>1. wire' \o queue' \in Seq(Line)  BY <2>8, <3>4, ConcatProperties
      <4>2. QED  BY <2>5, <2>8, <4>1 DEF Stream
    <3>8. \A i \in 1..Len(Stream)' : \E j \in 1..Len(b) : Stream'[i] = b[j]
      <4>1. /\ Len(Stream') = n + (Len(b) - k)
            /\ \A i \in 1..n + (Len(b) - k) : Stream'[i] = IF i <= n THEN wire'[i] ELSE queue'[i - n]
        <5> DEFINE w == wire'
                   q == queue'
        <5>1. w \in Seq(Line) /\ q \in Seq(Line) /\ Len(w) = n /\ Len(q) = Len(b) - k  BY <2>7, <2>8, <3>4
        <5>2. Stream' = w \o q  BY <3>7
        <5> HIDE DEF w, q
        <5>3. /\ Len(w \o q) = Len(w) + Len(q)
              /\ \A i \in 1..Len(w) + Len(q) : (w \o q)[i] = IF i <= Len(w) THEN w[i] ELSE q[i - Len(w)]
          BY ONLY <5>1, ConcatProperties
        <5>4. QED  BY ONLY <5>1, <5>2, <5>3 DEF w, q
      <4>2. \A i \in 1..n : wire'[i] = b[i]  BY <2>3, <2>4, <2>8, SubSeqProperties
      <4>3. \A i \in 1..Len(b)-k : queue'[i] = b[k+i]
        <5>1. \A i \in k+1..Len(b) : b[i] \in Line  BY <2>3, <3>2, ElementOfSeq
        <5>2. k+1 \in 1..Len(b)+1 /\ Len(b) \in k..Len(b) /\ k = (k+1)-1 /\ k+1 \in Int  BY <2>3, <3>2
        <5>3. \A i \in 1..Len(SubSeq(b, k+1, Len(b))) : SubSeq(b, k+1, Len(b))[i] = b[(k+1)+i-1]
          BY <2>3, <3>2, <5>1, <5>2, SubSeqProperties
        <5>4. \A i \in 1..Len(b)-k : (k+1)+i-1 = k+i  BY <2>3, <3>2
        <5>5. QED  BY <3>3, <3>4, <5>3, <5>4
      <4>4. TAKE i \in 1..Len(Stream)'
      <4>5. CASE i <= n
        <5>1. i \in 1..n /\ i \in 1..Len(b)  BY <2>3, <2>4, <4>1, <4>5
        <5>2. QED  BY <4>1, <4>2, <4>5, <5>1
      <4>6. CASE ~(i <= n)
        <5>1. i - n \in 1..Len(b)-k /\ k + (i - n) \in 1..Len(b)  BY <2>3, <2>4, <3>2, <4>1, <4>6
        <5>2. QED  BY <4>1, <4>3, <4>6, <5>1
      <4>7. QED  BY <4>5, <4>6
    <3>9. \A i \in 1..Len(Stream)' : Stream'[i].kind = "event" /\ Stream'[i].seq <= Len(hist)
      BY <2>3, <3>8
    <3>10. QED  BY <1>1, <1>2, <2>1, <2>10, <3>6, <3>7, <3>9, Refuses
  <2>11. QED  BY <2>9, <2>10
<1>7. QED  BY <1>5, <1>6

(* A reply is sent.                                                          *)
LEMMA Responds ==
  ASSUME TypeOK, Link, Respond
  PROVE  Link' /\ Lines' /\ Bounded'
<1> DEFINE l == answer
           s == Stream
           t == Stream'
<1>1. /\ l # None /\ l \in Line /\ PushReply(l) /\ answer' = None
      /\ UNCHANGED <<hist, events, request, lastSeq, phase, ours, chunk, resumed, buffer, snap>>
  BY Basics DEF Respond, hostVars, viewVars, linkVars
<1>2. /\ Waiting /\ request = None /\ resumed = None /\ RepliesIn(s) = {}
      /\ OnItsWay(l) /\ \A r : OnItsWay(r) <=> r = l
  BY <1>1, OneReply DEF Link, Answered, OnItsWay
<1>3. l.kind = "reply" /\ l.method = phase  BY <1>1, <1>2 DEF Link, Replies, Says
<1>4. t = Append(s, l) /\ Lines' /\ Bounded' /\ s \in Seq(Line)  BY <1>1, Pushes, Basics
<1> HIDE DEF l, s, t
<1>5. /\ Len(s) \in Nat /\ Len(t) = Len(s) + 1 /\ t[Len(s)+1] = l
      /\ \A i \in 1..Len(s) : t[i] = s[i] /\ i \in 1..Len(t)
      /\ \A i \in 1..Len(t) : i \in 1..Len(s) \/ i = Len(s)+1
  BY <1>1, <1>4, Appended
<1>6. RepliesIn(t) = {Len(s)+1} /\ Len(s)+1 \in 1..Len(t)
  <2>1. l.kind = "reply" => RepliesIn(t) = RepliesIn(s) \cup {Len(s)+1}  BY ONLY <1>1, <1>4, AppendedReplies
  <2>2. QED  BY <1>2, <1>3, <1>5, <2>1
<1>7. RepliesIn(Stream)' = {Len(s)+1} /\ Len(Stream)' = Len(t) /\ Stream'[Len(s)+1] = l
  BY <1>5, <1>6 DEF t, RepliesIn
<1>8. Waiting' /\ (Before' <=> Before)  BY <1>1, <1>2 DEF Waiting, Before
<1>9. Turns'
  <2>1. Sent'  BY <1>1, <1>2, <1>5, <1>7 DEF Sent
  <2>2. QED  BY <1>8, <2>1 DEF Turns
<1>10. \A r \in Line : OnItsWay(r)' <=> r = l
  <2>1. \A r \in Line : r # None  BY NoneIsNone
  <2>2. QED  BY <1>1, <1>2, <1>7, <2>1 DEF OnItsWay
<1>11. Replies'
  <2>1. \A r \in Line : Says(r)' <=> Says(r)  BY <1>1 DEF Says, Evicted
  <2>2. QED  BY <1>1, <1>2, <1>10, <2>1 DEF Link, Replies
<1>12. (Refused' <=> Refused) /\ (Streaming' <=> Streaming)
  <2>1. Refused' <=> Refused  BY <1>2, <1>10 DEF Refused
  <2>2. QED  BY <1>1, <2>1 DEF Streaming
<1>13. s = Stream /\ t = Stream'  BY DEF s, t
<1>14. \A i \in RepliesIn(s) : FALSE  BY <1>2
<1>15. Pipe'
  <2>1. ResyncLast(t)
    <3>1. ResyncLast(s)  BY <1>13 DEF Link, Pipe
    <3>2. QED  BY ONLY <1>1, <1>3, <1>4, <3>1, AppendedResync
  <2>2. Before => \A i \in 1..Len(t) : t[i].kind = "reply"
    BY <1>3, <1>5, <1>13 DEF Link, Pipe
  <2>3. phase # "off"  BY <1>2 DEF Waiting, Method
  <2>4. phase = "subscribe" /\ Refused =>
          \A i \in 1..Len(t) : t[i].kind # "resync" /\ (t[i].kind = "reply" => i = Len(t))
    <3>1. SUFFICES ASSUME phase = "subscribe", Refused, NEW i \in 1..Len(t)
                   PROVE  t[i].kind # "resync" /\ (t[i].kind = "reply" => i = Len(t))
      OBVIOUS
    <3>2. CASE i = Len(s)+1  BY <1>3, <1>5, <3>2
    <3>3. CASE i \in 1..Len(s)
      <4>1. s[i].kind # "resync"  BY <1>13, <3>1, <3>3 DEF Link, Pipe
      <4>2. s[i].kind # "reply"  BY <1>14, <3>3 DEF RepliesIn
      <4>3. QED  BY <1>5, <3>3, <4>1, <4>2
    <3>4. QED  BY <1>5, <3>2, <3>3
  <2>5. events => \A i \in 1..Len(t) : t[i].kind # "resync"
    BY <1>3, <1>5, <1>13 DEF Link, Pipe
  <2>6. QED  BY <1>1, <1>2, <1>8, <1>12, <1>13, <2>1, <2>2, <2>3, <2>4, <2>5 DEF Link, Pipe
<1>16. Follows'
  <2> DEFINE n == lastSeq + Held
  <2>1. n \in Int /\ Len(hist) \in Int /\ Held' = Held  BY <1>1, Basics, NoneIsNone DEF Held
  <2>2. AtMost(s, Len(hist)) /\ (Streaming => Following(s, n))  BY <1>13 DEF Link, Follows
  <2> HIDE DEF n
  <2>3. AtMost(t, Len(hist))  BY ONLY <1>1, <1>3, <1>4, <2>1, <2>2, AppendedEvent
  <2>4. Streaming => Following(t, n)  BY ONLY <1>1, <1>3, <1>4, <2>1, <2>2, AppendedEvent
  <2>5. Ahead(s, Len(s)+1) = 0  BY <1>2 DEF Ahead
  <2>6. Ahead(t, Len(t)+1) = 1
    <3>1. Len(s)+1 < Len(t)+1  BY <1>5
    <3>2. QED  BY <1>6, <3>1 DEF Ahead
  <2>7. Streaming /\ events => n + Len(t) - Ahead(t, Len(t)+1) = Len(hist)
    <3>1. Streaming /\ events => n + Len(s) - Ahead(s, Len(s)+1) = Len(hist)  BY <1>13 DEF Link, Follows, n
    <3>2. QED  BY <1>5, <2>1, <2>5, <2>6, <3>1
  <2>8. Len(hist)' = Len(hist) /\ n = lastSeq + Held  BY <1>1 DEF n
  <2>9. AtMost(Stream, Len(hist))'  BY <1>13, <2>3, <2>8 DEF AtMost
  <2>10. Waiting' => \A i \in 1..Len(buffer) : buffer[i] <= Len(hist)  BY <1>2 DEF Link, Follows
  <2>11. Streaming => /\ buffer # None => \A i \in 1..Len(buffer) : buffer[i] = lastSeq + i
    BY DEF Link, Follows
  <2>12. QED  BY <1>1, <1>12, <1>13, <2>1, <2>4, <2>7, <2>8, <2>9, <2>10, <2>11 DEF Follows
<1>17. QED  BY <1>4, <1>9, <1>11, <1>15, <1>16 DEF Link

(* A line is dispatched that is not a reply, and is not held back.           *)
LEMMA DispatchesResync ==
  ASSUME TypeOK, Link, DispatchResync
  PROVE  Link' /\ Lines' /\ Bounded'
<1> DEFINE s == Stream
           t == Stream'
<1>1. NextLine("resync") /\ UNCHANGED <<hist, events, answer, queue, blocked, wire, lastSeq, ours, resumed, snap>>
  BY DEF DispatchResync, hostVars, viewVars
<1>2. /\ s # <<>> /\ s[1].kind = "resync" /\ TailOf(t, s) /\ s \in Seq(Line) /\ Lines' /\ Bounded'
  BY <1>1, Dispatches, Basics DEF TailOf
<1> HIDE DEF s, t
<1>3. /\ t \in Seq(Line) /\ Len(s) \in Nat /\ Len(t) \in Nat /\ Len(s) = Len(t) + 1
      /\ \A i \in 1..Len(t) : t[i] = s[i+1] /\ i+1 \in 1..Len(s)
      /\ 1 \in 1..Len(s)
      /\ \A i : i \in RepliesIn(t) <=> i \in 1..Len(t) /\ i+1 \in RepliesIn(s)
      /\ \A n : AtMost(s, n) => AtMost(t, n)
      /\ \A p : RepliesIn(s) = {p} => RepliesIn(t) = {p-1} /\ p-1 \in 1..Len(t)
      /\ RepliesIn(s) = {} => RepliesIn(t) = {}
  <2>1. s \in Seq(Line) /\ s # <<>> /\ TailOf(t, s) /\ s[1].kind # "reply"  BY <1>2
  <2>2. QED  BY <2>1, Tailed, TailedOther
<1>4. s = Stream /\ t = Stream'  BY DEF s, t
<1>5. ~Before /\ phase # "off" /\ ~events /\ ~(phase = "subscribe" /\ Refused)
  <2>1. s[1].kind # "reply"  BY <1>2
  <2>2. QED  BY <1>2, <1>3, <1>4, <2>1 DEF Link, Pipe, Before
<1>6. \A i \in 1..Len(t) : t[i].kind = "reply"
  <2>1. \A j \in 1+1..Len(s) : s[j].kind = "reply"  BY <1>2, <1>3, <1>4 DEF Link, Pipe, ResyncLast
  <2>2. \A i \in 1..Len(t) : i+1 \in 1+1..Len(s)  BY <1>3
  <2>3. QED  BY <1>3, <2>1, <2>2
<1>7. CASE buffer = None /\ ours
  <2>1. ~Waiting  BY <1>7 DEF Link, Pipe
  <2>2. RepliesIn(s) = {} /\ answer = None /\ resumed = None  BY <1>4, <2>1 DEF Link, Turns, Idle
  <2>3. \A i \in 1..Len(t) : i \in RepliesIn(t)  BY <1>6 DEF RepliesIn
  <2>4. Len(t) = 0  BY <1>3, <2>2, <2>3
  <2>5. Stream' = <<>>  BY <1>3, <1>4, <2>4, EmptySeq
  <2>6. request' = Call("snapshot", 0) /\ phase' = "snapshot" /\ buffer' = <<>>
    BY <1>7 DEF DispatchResync, StartAttempt
  <2>7. request' # None /\ request'.method = phase' /\ phase' \in Method /\ phase' # "subscribe"
    <3>1. Call("snapshot", 0) \in Request /\ Call("snapshot", 0).method = "snapshot" /\ "snapshot" \in Method
      BY NoneIsNone DEF Call, Request, Method
    <3>2. QED  BY <2>6, <3>1, NoneIsNone
  <2>8. Link'  BY <1>1, <1>5, <2>2, <2>5, <2>6, <2>7, Asking
  <2>9. QED  BY <1>2, <2>8
<1>8. CASE ~(buffer = None /\ ours)
  <2>1. UNCHANGED <<buffer, phase, request>>  BY <1>8 DEF DispatchResync
  <2>2. phase # "live"  BY <1>8 DEF Link, Pipe
  <2>3. /\ Turns' /\ (Waiting' <=> Waiting) /\ (Refused' <=> Refused)
        /\ (Streaming' <=> Streaming) /\ (Before' <=> Before)
        /\ \A r : OnItsWay(r)' <=> OnItsWay(r)
    <3>1. RepliesIn(Stream)' = RepliesIn(t) /\ Len(Stream)' = Len(t)  BY <1>4 DEF RepliesIn
    <3>2. CASE RepliesIn(s) = {}
      <4>1. RepliesIn(t) = {}  BY <1>3, <3>2
      <4>2. QED  BY <1>1, <1>4, <2>1, <3>1, <3>2, <4>1, SameReplies DEF Link
    <3>3. CASE RepliesIn(s) # {}
      <4>1. PICK p \in 1..Len(s) : RepliesIn(s) = {p}  BY <1>4, <3>3, OneReply DEF Link
      <4>2. RepliesIn(t) = {p-1} /\ p-1 \in 1..Len(t) /\ t[p-1] = s[p]
        <5>1. RepliesIn(t) = {p-1} /\ p-1 \in 1..Len(t)  BY <1>3, <4>1
        <5>2. (p-1)+1 = p  BY <1>3, <4>1
        <5>3. QED  BY <1>3, <5>1, <5>2
      <4>3. QED  BY <1>1, <1>4, <2>1, <3>1, <4>1, <4>2, SameReplies DEF Link
    <3>4. QED  BY <3>2, <3>3
  <2>4. Replies'
    <3>1. Len(hist)' = Len(hist) /\ Len(hist) \in Nat  BY <1>1, Basics, NoneIsNone
    <3>2. QED  BY <1>1, <2>1, <2>3, <3>1, StillSaid, Basics DEF Link
  <2>5. \A i \in 1..Len(t) : t[i].kind # "resync" /\ t[i].kind # "event"  BY <1>6
  <2>6. Pipe'
    <3>1. ResyncLast(t)  BY <2>5 DEF ResyncLast
    <3>2. ~Before' /\ phase' # "off" /\ phase' # "live" /\ ~events' /\ ~(phase' = "subscribe" /\ Refused')
      BY <1>1, <1>5, <2>1, <2>2, <2>3
    <3>3. Waiting' => buffer' # None  BY <2>1, <2>3 DEF Link, Pipe
    <3>4. QED  BY <1>4, <3>1, <3>2, <3>3 DEF Pipe
  <2>7. Follows'
    <3>1. AtMost(t, Len(hist)) /\ Following(t, lastSeq + Held)  BY <2>5 DEF AtMost, Following
    <3>2. Held' = Held /\ ~events'  BY <1>1, <1>5, <2>1 DEF Held
    <3>3. AtMost(Stream, Len(hist))' /\ Following(Stream, lastSeq + Held)'
      BY <1>4, <2>5 DEF AtMost, Following
    <3>4. QED  BY <1>1, <2>1, <2>3, <3>2, <3>3 DEF Link, Follows
  <2>8. QED  BY <1>2, <2>3, <2>4, <2>6, <2>7 DEF Link
<1>9. QED  BY <1>7, <1>8

(* The reply is dispatched: the catch-up that awaits it goes on after the    *)
(* chunk.                                                                    *)
LEMMA DispatchesReply ==
  ASSUME TypeOK, Link, DispatchReply
  PROVE  Link' /\ Lines' /\ Bounded' /\ resumed' \in Line
<1> DEFINE s == Stream
           t == Stream'
<1>1. /\ NextLine("reply") /\ resumed' = Head(chunk)
      /\ UNCHANGED <<hist, events, answer, queue, blocked, request, wire, phase, lastSeq, ours, buffer, snap>>
  BY DEF DispatchReply, hostVars, connVars, viewVars
<1>2. /\ s # <<>> /\ s[1] = resumed' /\ s[1].kind = "reply" /\ TailOf(t, s) /\ s \in Seq(Line) /\ Lines' /\ Bounded'
  BY <1>1, Dispatches, Basics DEF TailOf
<1> HIDE DEF s, t
<1>3. s = Stream /\ t = Stream'  BY DEF s, t
<1>4. 1 \in 1..Len(s) /\ s[1] \in Line /\ Len(s) \in Nat  BY <1>2, Tailed
<1>5. 1 \in RepliesIn(s)  BY <1>2, <1>4 DEF RepliesIn
<1>6. Sent /\ Waiting /\ request = None /\ answer = None /\ \E p : RepliesIn(s) = {p}
  <2>1. Sent /\ (\E p : RepliesIn(s) = {p})  BY <1>3, <1>5, OneReply DEF Link, Sent
  <2>2. Waiting  BY <1>3, <1>5 DEF Link, Turns, Idle
  <2>3. QED  BY <2>1, <2>2 DEF Sent
<1>7. /\ t \in Seq(Line) /\ Len(t) \in Nat /\ Len(s) = Len(t) + 1
      /\ \A i \in 1..Len(t) : t[i] = s[i+1] /\ i+1 \in 1..Len(s)
      /\ \A n : AtMost(s, n) => AtMost(t, n)
      /\ ResyncLast(s) => ResyncLast(t)
      /\ RepliesIn(s) = {1} /\ RepliesIn(t) = {}
      /\ \A i \in 1..Len(s) : Ahead(t, i) = 0 /\ Ahead(s, i+1) = 1
  <2>1. PICK p : RepliesIn(s) = {p}  BY <1>6
  <2>2. QED  BY <1>2, <2>1, Tailed, TailedReply
<1>8. RepliesIn(Stream)' = {} /\ Len(Stream)' = Len(t)  BY <1>3, <1>7 DEF RepliesIn
<1>9. resumed' \in Line /\ resumed' # None /\ resumed' = s[1]  BY <1>2, <1>4, NoneIsNone
<1>10. Waiting' /\ (Before' <=> Before)  BY <1>1, <1>6 DEF Waiting, Before
<1>11. Turns'  BY <1>1, <1>6, <1>8, <1>9, <1>10 DEF Turns, Received
<1>12. \A r \in Line : OnItsWay(r)' <=> OnItsWay(r)
  <2>1. \A r \in Line : r # None  BY NoneIsNone
  <2>2. \A r \in Line : OnItsWay(r) <=> r = s[1]  BY <1>3, <1>6, <1>7, <2>1 DEF OnItsWay, Sent
  <2>3. \A r \in Line : OnItsWay(r)' <=> r = s[1]  BY <1>1, <1>6, <1>8, <1>9, <2>1 DEF OnItsWay
  <2>4. QED  BY <2>2, <2>3
<1>13. Replies'
  <2>1. \A r \in Line : Says(r)' <=> Says(r)  BY <1>1 DEF Says, Evicted
  <2>2. QED  BY <1>1, <1>12, <2>1 DEF Link, Replies
<1>14. (Refused' <=> Refused) /\ (Streaming' <=> Streaming)
  <2>1. Refused' <=> Refused  BY <1>12 DEF Refused
  <2>2. QED  BY <1>1, <2>1 DEF Streaming
<1>15. Pipe'
  <2>1. Before => \A i \in 1..Len(t) : t[i].kind = "reply"  BY <1>3, <1>7 DEF Link, Pipe
  <2>2. ResyncLast(t)  BY <1>3, <1>7 DEF Link, Pipe
  <2>3. phase # "off" /\ phase # "live"  BY <1>6 DEF Waiting, Method
  <2>4. phase = "subscribe" /\ Refused => t = <<>>
    <3>1. ASSUME phase = "subscribe", Refused PROVE t = <<>>
      <4>1. 1 = Len(s)  BY <1>2, <1>3, <1>4, <3>1 DEF Link, Pipe
      <4>2. Len(t) = 0  BY <1>7, <4>1
      <4>3. QED  BY <1>7, <4>2, EmptySeq
    <3>2. QED  BY <3>1
  <2>5. phase = "subscribe" /\ Refused => \A i \in 1..Len(t) : FALSE
    <3>1. \A i \in 1..Len(<<>>) : FALSE  OBVIOUS
    <3>2. QED  BY <2>4, <3>1
  <2>6. events => Streaming /\ \A i \in 1..Len(t) : t[i].kind # "resync"
    BY <1>3, <1>7 DEF Link, Pipe
  <2>7. (Before /\ Waiting => buffer = <<>>) /\ buffer # None  BY <1>6 DEF Link, Pipe
  <2>8. QED  BY <1>1, <1>3, <1>6, <1>10, <1>14, <2>1, <2>2, <2>3, <2>4, <2>5, <2>6, <2>7 DEF Pipe
<1>16. Follows'
  <2> DEFINE n == lastSeq + Held
  <2>1. n \in Nat /\ Len(hist)' = Len(hist) /\ Held' = Held  BY <1>1, Basics, NoneIsNone DEF Held
  <2>2. AtMost(t, Len(hist))  BY <1>3, <1>7 DEF Link, Follows
  <2>3. Streaming => Following(s, n)  BY <1>3 DEF Link, Follows
  <2>4. Streaming /\ events => n + Len(s) - Ahead(s, Len(s)+1) = Len(hist)  BY <1>3 DEF Link, Follows
  <2>5. n = lastSeq + Held  OBVIOUS
  <2> HIDE DEF n
  <2>6. Streaming => Following(t, n)
    <3>1. SUFFICES ASSUME Streaming, NEW i \in 1..Len(t), t[i].kind = "event"
                   PROVE  t[i].seq = n + i - Ahead(t, i)
      BY DEF Following
    <3>2. i+1 \in 1..Len(s) /\ i \in 1..Len(s) /\ t[i] = s[i+1]  BY <1>7
    <3>3. s[i+1].seq = n + (i+1) - Ahead(s, i+1)  BY <2>3, <3>1, <3>2 DEF Following
    <3>4. Ahead(s, i+1) = 1 /\ Ahead(t, i) = 0  BY <1>7, <3>2
    <3>5. n + (i+1) - 1 = n + i - 0  BY <2>1
    <3>6. QED  BY <3>2, <3>3, <3>4, <3>5
  <2>7. Streaming /\ events => n + Len(t) - Ahead(t, Len(t)+1) = Len(hist)
    <3>1. Len(s) \in 1..Len(s) /\ Len(t)+1 = Len(s)  BY <1>4, <1>7
    <3>2. Ahead(s, Len(s)+1) = 1 /\ Ahead(t, Len(t)+1) = 0  BY <1>7, <3>1
    <3>3. QED  BY <1>7, <2>1, <2>4, <3>2
  <2>8. AtMost(Stream, Len(hist))'  BY <1>3, <2>1, <2>2 DEF AtMost
  <2>9. \A i \in 1..Len(buffer) : buffer[i] <= Len(hist)  BY <1>6 DEF Link, Follows
  <2>10. Streaming => \A i \in 1..Len(buffer) : buffer[i] = lastSeq + i
    <3>1. buffer # None  BY <1>6 DEF Link, Pipe
    <3>2. QED  BY <3>1 DEF Link, Follows
  <2>11. QED  BY <1>1, <1>3, <1>14, <2>1, <2>5, <2>6, <2>7, <2>8, <2>9, <2>10 DEF Follows
<1>17. QED  BY <1>2, <1>9, <1>11, <1>13, <1>15, <1>16 DEF Link

-----------------------------------------------------------------------------
(* What the listeners were told.                                             *)

(* The pending asks are the same whether folded in one go or in two.         *)
LEMMA AsksInTwo ==
  ASSUME NEW h, NEW n \in Nat, NEW m \in Nat, n <= m
  PROVE  AsksAfter(h, HostAsks(h, n), n+1..m) = HostAsks(h, m)
<1> DEFINE L == AsksAfter(h, HostAsks(h, n), n+1..m)
<1>1. \A k \in Nat : \A a : a \in HostAsks(h, k) <=>
        a \in Ask /\ \E i \in 1..k : Raises(h[i], a) /\ \A j \in 1..k : j > i => ~Closes(h[j], a)
  BY DEF HostAsks, AsksAfter
<1>2. \A a : a \in L <=>
        a \in Ask /\ \/ a \in HostAsks(h, n) /\ \A i \in n+1..m : ~Closes(h[i], a)
                     \/ \E i \in n+1..m : Raises(h[i], a) /\ \A j \in n+1..m : j > i => ~Closes(h[j], a)
  BY DEF AsksAfter
<1> HIDE DEF L
<1>3. \A i : i \in 1..m <=> i \in 1..n \/ i \in n+1..m  OBVIOUS
<1>4. \A i \in n+1..m : \A j \in 1..n : i > j /\ ~(j > i)  OBVIOUS
<1>5. ASSUME NEW a, a \in L PROVE a \in HostAsks(h, m)
  <2>1. CASE a \in HostAsks(h, n) /\ \A i \in n+1..m : ~Closes(h[i], a)
    <3>1. PICK i \in 1..n : Raises(h[i], a) /\ \A j \in 1..n : j > i => ~Closes(h[j], a)  BY <1>1, <2>1
    <3>2. i \in 1..m /\ \A j \in 1..m : j > i => ~Closes(h[j], a)  BY <1>3, <2>1, <3>1
    <3>3. QED  BY <1>1, <1>2, <1>5, <3>1, <3>2
  <2>2. CASE \E i \in n+1..m : Raises(h[i], a) /\ \A j \in n+1..m : j > i => ~Closes(h[j], a)
    <3>1. PICK i \in n+1..m : Raises(h[i], a) /\ \A j \in n+1..m : j > i => ~Closes(h[j], a)  BY <2>2
    <3>2. i \in 1..m /\ \A j \in 1..m : j > i => ~Closes(h[j], a)  BY <1>3, <1>4, <3>1
    <3>3. QED  BY <1>1, <1>2, <1>5, <3>1, <3>2
  <2>3. QED  BY <1>2, <1>5, <2>1, <2>2
<1>6. ASSUME NEW a, a \in HostAsks(h, m) PROVE a \in L
  <2>1. PICK i \in 1..m : Raises(h[i], a) /\ \A j \in 1..m : j > i => ~Closes(h[j], a)  BY <1>1, <1>6
  <2>2. CASE i \in 1..n
    <3>1. a \in HostAsks(h, n)  BY <1>1, <1>3, <1>6, <2>1, <2>2
    <3>2. \A j \in n+1..m : ~Closes(h[j], a)  BY <1>3, <1>4, <2>1, <2>2
    <3>3. QED  BY <1>1, <1>2, <1>6, <3>1, <3>2
  <2>3. CASE i \in n+1..m  BY <1>1, <1>2, <1>3, <1>6, <2>1, <2>3
  <2>4. QED  BY <1>3, <2>2, <2>3
<1>7. L = HostAsks(h, m)  BY <1>5, <1>6
<1>8. QED  BY <1>7 DEF L

(* The pending asks and the exit depend on the events alone.                 *)
LEMMA AsksAgree ==
  ASSUME NEW h, NEW g, NEW n \in Nat, \A i \in 1..n : h[i] = g[i]
  PROVE  HostAsks(h, n) = HostAsks(g, n) /\ (ExitIn(h, n) <=> ExitIn(g, n))
<1>1. \A f, a : a \in HostAsks(f, n) <=>
        a \in Ask /\ \E i \in 1..n : Raises(f[i], a) /\ \A j \in 1..n : j > i => ~Closes(f[j], a)
  BY DEF HostAsks, AsksAfter
<1>2. \A a : a \in HostAsks(h, n) <=> a \in HostAsks(g, n)  BY <1>1
<1>3. ExitIn(h, n) <=> ExitIn(g, n)  BY DEF ExitIn
<1>4. QED  BY <1>2, <1>3

(* The exit settles every ask.                                               *)
LEMMA NoAskAfterExit ==
  ASSUME NEW h, NEW m \in Nat, m \in 1..m, h[m].type = "exit"
  PROVE  HostAsks(h, m) = {}
<1>1. \A a : Closes(h[m], a) /\ ~Raises(h[m], a)  BY DEF Closes, Raises
<1>2. \A i \in 1..m : i = m \/ m > i  OBVIOUS
<1>3. \A a : ~ \E i \in 1..m : Raises(h[i], a) /\ \A j \in 1..m : j > i => ~Closes(h[j], a)
  BY <1>1, <1>2
<1>4. QED  BY <1>3 DEF HostAsks, AsksAfter

(* A view that has passed the exit has passed everything.                    *)
LEMMA HeardOfExit ==
  ASSUME TypeOK, History, NEW m \in lastSeq..Len(hist)
  PROVE  /\ m \in Nat /\ lastSeq \in Nat /\ Len(hist) \in Nat
         /\ ExitIn(hist, lastSeq) => ExitIn(hist, m) /\ m = Len(hist)
         /\ ExitIn(hist, m) => m \in 1..m /\ hist[m].type = "exit" /\ HostAsks(hist, m) = {}
         /\ ExitIn(hist, m) <=> ExitIn(hist, lastSeq) \/ \E s \in lastSeq+1..m : hist[s].type = "exit"
<1>1. m \in Nat /\ lastSeq \in Nat /\ Len(hist) \in Nat  BY Basics, NoneIsNone
<1>2. \A i : i \in 1..m <=> i \in 1..lastSeq \/ i \in lastSeq+1..m  BY <1>1
<1>3. ExitIn(hist, m) <=> ExitIn(hist, lastSeq) \/ \E s \in lastSeq+1..m : hist[s].type = "exit"
  BY <1>2 DEF ExitIn
<1>4. \A i \in 1..m : hist[i].type = "exit" => i = Len(hist)
  <2>1. \A i \in 1..m : i \in 1..Len(hist)  BY <1>1
  <2>2. QED  BY <2>1 DEF History
<1>5. ASSUME ExitIn(hist, m) PROVE m \in 1..m /\ hist[m].type = "exit" /\ m = Len(hist)
  <2>1. PICK i \in 1..m : hist[i].type = "exit"  BY <1>5 DEF ExitIn
  <2>2. i = Len(hist) /\ i = m  BY <1>1, <1>4, <2>1
  <2>3. QED  BY <2>1, <2>2
<1>6. QED  BY <1>1, <1>3, <1>5, NoAskAfterExit

(* The listeners are told of everything through m.                           *)
LEMMA Told ==
  ASSUME TypeOK, History, phase # "off", NEW m \in lastSeq..Len(hist),
         lastSeq' = m, knownAsks' = HostAsks(hist, m),
         exitTold' = IF exitTold = None /\ ExitIn(hist, m) THEN "exit" ELSE exitTold,
         UNCHANGED <<hist, hostUp, tombstone>>
  PROVE  History'
<1>1. exitTold # None <=> ExitIn(hist, lastSeq)  BY DEF History
<1>2. exitTold' # None <=> ExitIn(hist, m)  BY <1>1, HeardOfExit, NoneIsNone
<1>3. exitTold' # None => knownAsks' = {}  BY <1>2, HeardOfExit
<1>4. exitTold' = "lost" => exitTold = "lost"  OBVIOUS
<1>5. lastSeq' <= Len(hist)'  BY HeardOfExit
<1>6. HostAsks(hist, lastSeq)' = HostAsks(hist, m) /\ (ExitIn(hist, lastSeq)' <=> ExitIn(hist, m))
  BY DEF HostAsks, AsksAfter, ExitIn
<1>7. QED  BY <1>2, <1>3, <1>4, <1>5, <1>6 DEF History

(* Handing over the next events keeps the view true to the history.          *)
LEMMA Delivers ==
  ASSUME TypeOK, History, phase # "off", NEW m \in lastSeq..Len(hist), NEW S,
         {s \in S : s > lastSeq} = lastSeq+1..m, Deliver(S),
         UNCHANGED <<hist, hostUp, tombstone>>
  PROVE  /\ History' /\ lastSeq' = m /\ heard' = heard \cup (lastSeq+1..m)
         /\ knownAsks' \subseteq Ask
         /\ exitTold' \in {exitTold, "exit"}
<1> DEFINE fresh == {s \in S : s > lastSeq}
<1>1. /\ heard' = heard \cup fresh
      /\ lastSeq' = IF fresh = {} THEN lastSeq ELSE CHOOSE s \in fresh : \A t \in fresh : t <= s
      /\ knownAsks' = AsksAfter(hist, knownAsks, fresh)
      /\ exitTold' = IF exitTold = None /\ \E s \in fresh : hist[s].type = "exit" THEN "exit" ELSE exitTold
  BY DEF Deliver
<1>2. fresh = lastSeq+1..m  OBVIOUS
<1> HIDE DEF fresh
<1>3. m \in Nat /\ lastSeq \in Nat /\ lastSeq <= m /\ Len(hist) \in Nat  BY HeardOfExit
<1>4. lastSeq' = m
  <2>1. CASE m = lastSeq
    <3>1. fresh = {}  BY <1>2, <1>3, <2>1
    <3>2. QED  BY <1>1, <2>1, <3>1
  <2>2. CASE m # lastSeq
    <3>1. m \in fresh /\ \A t \in fresh : t <= m /\ t \in Nat  BY <1>2, <1>3, <2>2
    <3>2. \E s \in fresh : \A t \in fresh : t <= s  BY <3>1
    <3>3. lastSeq' = CHOOSE s \in fresh : \A t \in fresh : t <= s  BY <1>1, <3>1
    <3>4. lastSeq' \in fresh /\ \A t \in fresh : t <= lastSeq'  BY <3>2, <3>3
    <3>5. lastSeq' <= m /\ m <= lastSeq' /\ lastSeq' \in Nat  BY <3>1, <3>4
    <3>6. QED  BY <1>3, <3>5
  <2>3. QED  BY <2>1, <2>2
<1>5. knownAsks = HostAsks(hist, lastSeq)  BY DEF History
<1>6. knownAsks' = HostAsks(hist, m)  BY <1>1, <1>2, <1>3, <1>5, AsksInTwo
<1>7. exitTold = None => ~ExitIn(hist, lastSeq)  BY DEF History
<1>8. exitTold' = IF exitTold = None /\ ExitIn(hist, m) THEN "exit" ELSE exitTold
  BY <1>1, <1>2, <1>7, HeardOfExit
<1>9. History'  BY <1>4, <1>6, <1>8, Told
<1>10. knownAsks' \subseteq Ask  BY <1>6 DEF HostAsks, AsksAfter
<1>11. QED  BY <1>1, <1>2, <1>4, <1>9, <1>10

(* Nothing is told.                                                          *)
LEMMA NothingTold ==
  ASSUME History, UNCHANGED <<hist, hostUp, tombstone, lastSeq, knownAsks, exitTold>>,
         phase' # "off" => phase # "off" \/ hostUp \/ exitTold = None
  PROVE  History'
<1>1. (HostAsks(hist, lastSeq)' = HostAsks(hist, lastSeq)) /\ (ExitIn(hist, lastSeq)' <=> ExitIn(hist, lastSeq))
  BY DEF HostAsks, AsksAfter, ExitIn
<1>2. QED  BY <1>1 DEF History

(* What is paged matters only to a client that is paging.                    *)
LEMMA NotPaging ==
  ASSUME Paging, phase' # "events" \/ UNCHANGED <<phase, lastSeq, snap, paged, hist>>
  PROVE  Paging'
BY DEF Paging, Evicted

-----------------------------------------------------------------------------
(* The types, by what changes together.                                      *)
HostType ==
  /\ hist \in Seq(Body) /\ Len(hist) <= MaxSeq
  /\ hostUp \in BOOLEAN /\ tombstone \in BOOLEAN
ConnType == events \in BOOLEAN /\ answer \in Line \cup {None} /\ request \in Request \cup {None}
ViewType ==
  /\ lastSeq \in 0..MaxSeq /\ knownAsks \subseteq Ask
  /\ exitTold \in {None, "exit", "lost"} /\ heard \subseteq 1..MaxSeq
CatchUpType ==
  /\ phase \in {"off", "snapshot", "events", "subscribe", "live"}
  /\ attempt \in 1..CatchUpAttempts
  /\ resumed \in Line \cup {None}
  /\ buffer \in Seq(1..MaxSeq) \cup {None}
  /\ snap \in [seq : 0..MaxSeq, from : 0..MaxSeq]
  /\ paged \in [from : 0..MaxSeq, to : 0..MaxSeq]
RestType == ours \in BOOLEAN /\ connectedOnce \in BOOLEAN /\ shown \in 0..MaxSeq /\ losses \in 0..MaxLosses

(* The type invariant is its parts.                                          *)
LEMMA TypeParts ==
  /\ TypeOK <=> HostType /\ Lines /\ Bounded /\ ConnType /\ ViewType /\ CatchUpType /\ RestType
  /\ TypeOK' <=> HostType' /\ Lines' /\ Bounded' /\ ConnType' /\ ViewType' /\ CatchUpType' /\ RestType'
BY DEF TypeOK, HostType, Lines, Bounded, ConnType, ViewType, CatchUpType, RestType

(* A part keeps its type while its variables stay.                           *)
LEMMA TypeKept ==
  /\ HostType /\ UNCHANGED hostVars => HostType'
  /\ Lines /\ Bounded /\ UNCHANGED <<chunk, wire, queue, blocked>> => Lines' /\ Bounded'
  /\ ConnType /\ UNCHANGED <<events, answer, request>> => ConnType'
  /\ ViewType /\ UNCHANGED viewVars => ViewType'
  /\ CatchUpType /\ UNCHANGED <<phase, attempt, resumed, buffer, snap, paged>> => CatchUpType'
  /\ RestType /\ UNCHANGED <<ours, connectedOnce, shown, losses>> => RestType'
BY DEF HostType, Lines, Bounded, ConnType, ViewType, CatchUpType, RestType, hostVars, viewVars

(* The request for a method.                                                 *)
LEMMA Calls ==
  ASSUME NEW mth \in Method, NEW n \in 0..MaxSeq
  PROVE  Call(mth, n) \in Request /\ Call(mth, n) # None /\ Call(mth, n).method = mth /\ Call(mth, n).from = n
BY NoneIsNone DEF Call, Request

Invariant == TypeOK /\ IInv

-----------------------------------------------------------------------------
(* The steps of the host.                                                    *)

(* An event is emitted, and streamed if there is a subscriber.               *)
LEMMA EmitStep ==
  ASSUME Invariant, NEW body \in Body, Emit(body)
  PROVE  Invariant'
<1>1. TypeOK /\ Link /\ Paging /\ History  BY DEF Invariant, IInv
<1>2. /\ hostUp /\ ~Exited(hist) /\ Len(hist) < MaxSeq
      /\ hist' = Append(hist, body) /\ tombstone' = (tombstone \/ body.type = "exit")
      /\ UNCHANGED <<hostUp, answer, request, viewVars, linkVars>>
  BY DEF Emit
<1>3. hist \in Seq(Body) /\ hostUp \in BOOLEAN /\ tombstone \in BOOLEAN  BY <1>1 DEF TypeOK
<1>4. /\ hist' \in Seq(Body) /\ Len(hist)' = Len(hist) + 1 /\ Len(hist) \in Nat
      /\ \A i \in 1..Len(hist) : hist'[i] = hist[i]
      /\ hist'[Len(hist)+1] = body
  BY <1>2, <1>3, AppendProperties, LenProperties
<1>5. UNCHANGED <<resumed, phase, buffer, ours, lastSeq, snap, chunk, knownAsks, exitTold, paged>>
  BY <1>2 DEF viewVars, linkVars
<1>6. Link' /\ Lines' /\ Bounded' /\ events' \in BOOLEAN
  <2>1. CASE ~events
    <3>1. UNCHANGED <<events, queue, wire, blocked>>  BY <2>1 DEF Emit
    <3>2. Stream' = Stream /\ Lines' /\ Bounded' /\ events' \in BOOLEAN
      BY <1>1, <1>5, <3>1, Basics DEF Stream, Lines, Bounded, TypeOK
    <3>3. Len(hist)' \in Nat /\ Len(hist)' >= Len(hist)  BY <1>4
    <3>4. QED  BY <1>1, <1>2, <1>5, <2>1, <3>1, <3>2, <3>3, Unheard
  <2>2. CASE events /\ blocked /\ Len(queue) + 1 > QueueCap
    <3>1. events' = FALSE /\ queue' = Append(Undroppable(queue), ResyncLine) /\ UNCHANGED <<wire, blocked>>
      BY <2>2 DEF Emit, PushEvent
    <3>2. QED  BY <1>1, <1>2, <1>4, <1>5, <2>2, <3>1, Overflows
  <2>3. CASE events /\ ~(blocked /\ Len(queue) + 1 > QueueCap)
    <3>1. PushReply(EventLine(Len(hist) + 1)) /\ UNCHANGED events  BY <2>3 DEF Emit, PushEvent
    <3>2. Len(hist) + 1 \in 1..MaxSeq  BY <1>2, <1>4, NoneIsNone
    <3>3. EventLine(Len(hist) + 1) \in Line  BY <3>2, LineTypes
    <3>4. Stream' = Append(Stream, EventLine(Len(hist) + 1)) /\ Lines' /\ Bounded'
      BY <1>1, <1>5, <3>1, <3>3, Basics, Pushes
    <3>5. Link'  BY <1>1, <1>2, <1>4, <1>5, <2>3, <3>1, <3>4, Streamed
    <3>6. QED  BY <1>1, <3>1, <3>4, <3>5 DEF TypeOK
  <2>4. QED  BY <2>1, <2>2, <2>3
<1>7. Paging'
  <2>1. Evicted(hist) <= Evicted(hist)' /\ Evicted(hist)' \in Nat /\ Evicted(hist) \in Nat
    BY <1>4, NoneIsNone DEF Evicted, Max2
  <2>2. paged.from \in Nat /\ snap.seq \in Nat /\ lastSeq \in Nat  BY <1>1, NoneIsNone DEF TypeOK
  <2>3. QED  BY <1>1, <1>4, <1>5, <2>1, <2>2 DEF Paging, Max2
<1>8. History'
  <2>1. ASSUME NEW i \in 1..Len(hist)', hist'[i].type = "exit"
        PROVE  i = Len(hist)' /\ tombstone'
    <3>1. ~(i \in 1..Len(hist))
      <4>1. DOMAIN hist = 1..Len(hist)  BY <1>3, LenProperties
      <4>2. QED  BY <1>2, <1>4, <2>1, <4>1 DEF Exited
    <3>2. i = Len(hist) + 1  BY <1>4, <3>1
    <3>3. body.type = "exit"  BY <1>4, <2>1, <3>2
    <3>4. QED  BY <1>2, <1>4, <3>2, <3>3
  <2>2. lastSeq \in Nat /\ lastSeq <= Len(hist)  BY <1>1, NoneIsNone DEF TypeOK, History
  <2>3. \A i \in 1..lastSeq : hist'[i] = hist[i]  BY <1>4, <2>2
  <2>4. HostAsks(hist, lastSeq)' = HostAsks(hist, lastSeq) /\ (ExitIn(hist, lastSeq)' <=> ExitIn(hist, lastSeq))
    <3> DEFINE g == hist'
    <3>1. \A i \in 1..lastSeq : hist[i] = g[i]  BY <2>3
    <3> HIDE DEF g
    <3>2. HostAsks(hist, lastSeq) = HostAsks(g, lastSeq) /\ (ExitIn(hist, lastSeq) <=> ExitIn(g, lastSeq))
      BY <2>2, <3>1, AsksAgree
    <3>3. QED  BY <1>5, <3>2 DEF g, HostAsks, AsksAfter, ExitIn
  <2>5. lastSeq' <= Len(hist)'  BY <1>4, <1>5, <2>2
  <2>6. exitTold # "lost"  BY <1>1, <1>2 DEF History
  <2>7. QED  BY <1>1, <1>2, <1>5, <2>1, <2>4, <2>5, <2>6 DEF History
<1>9. TypeOK'
  <2>1. HostType'  BY <1>2, <1>3, <1>4, NoneIsNone DEF HostType
  <2>2. ConnType'  BY <1>1, <1>2, <1>6 DEF ConnType, TypeOK
  <2>3. QED  BY <1>1, <1>2, <1>6, <2>1, <2>2, TypeParts, TypeKept DEF linkVars
<1>10. QED  BY <1>6, <1>7, <1>8, <1>9 DEF Invariant, IInv

(* The host leaves, or dies: nothing on the connection changes.              *)
LEMMA HostEnds ==
  ASSUME Invariant, HostLeaves \/ HostDies
  PROVE  Invariant'
<1>1. TypeOK /\ Link /\ Paging /\ History  BY DEF Invariant, IInv
<1>2. /\ hostUp /\ hostUp' = FALSE /\ UNCHANGED <<hist, connVars, viewVars, linkVars>>
      /\ tombstone' \in BOOLEAN /\ (tombstone' = tombstone \/ ~Exited(hist))
  BY <1>1 DEF HostLeaves, HostDies, TypeOK
<1>3. UNCHANGED <<resumed, phase, buffer, ours, lastSeq, snap, chunk, knownAsks, exitTold, paged, events, answer,
                  queue, blocked, request, wire>>
  BY <1>2 DEF connVars, viewVars, linkVars
<1>4. Stream' = Stream  BY <1>3 DEF Stream
<1>5. Link'
  <2>1. Len(hist)' = Len(hist) /\ Len(hist)' \in Nat  BY <1>1, <1>2, Basics, NoneIsNone
  <2>2. QED  BY <1>1, <1>3, <1>4, <2>1, Unheard
<1>6. Paging'  BY <1>1, <1>2, <1>3, NotPaging
<1>7. History'
  <2>1. \A i \in 1..Len(hist) : hist[i].type = "exit" => tombstone'
    <3>1. DOMAIN hist = 1..Len(hist)  BY <1>1, LenProperties DEF TypeOK
    <3>2. CASE ~Exited(hist)  BY <3>1, <3>2 DEF Exited
    <3>3. CASE tombstone' = tombstone
      <4>1. \A i \in 1..Len(hist) : hist[i].type = "exit" => tombstone  BY <1>1 DEF History
      <4>2. QED  BY <3>3, <4>1
    <3>4. QED  BY <1>2, <3>2, <3>3
  <2>2. exitTold # "lost"  BY <1>1, <1>2 DEF History
  <2>3. HostAsks(hist, lastSeq)' = HostAsks(hist, lastSeq) /\ (ExitIn(hist, lastSeq)' <=> ExitIn(hist, lastSeq))
    BY <1>2, <1>3 DEF HostAsks, AsksAfter, ExitIn
  <2>4. QED  BY <1>1, <1>2, <1>3, <2>1, <2>2, <2>3 DEF History
<1>8. TypeOK'
  <2>1. HostType'  BY <1>1, <1>2 DEF HostType, TypeOK
  <2>2. QED  BY <1>1, <1>2, <1>3, <2>1, TypeParts, TypeKept DEF linkVars
<1>9. QED  BY <1>5, <1>6, <1>7, <1>8 DEF Invariant, IInv

(* A request is answered.                                                    *)
LEMMA ServeStep ==
  ASSUME Invariant, Serve
  PROVE  Invariant'
<1>1. TypeOK /\ Link /\ Paging /\ History  BY DEF Invariant, IInv
<1>2. request' = None /\ UNCHANGED <<hostVars, viewVars, linkVars>>
  BY DEF Serve, ServeSnapshot, ServeEvents, ServeSubscribe
<1>3. Link' /\ Lines' /\ Bounded' /\ answer' \in Line /\ events' \in BOOLEAN
  <2>1. CASE ServeSnapshot \/ ServeEvents
    <3>1. Link' /\ answer' \in Line  BY <1>1, <2>1, ServesSnapshot, ServesEvents
    <3>2. UNCHANGED <<chunk, wire, queue, blocked, events>>  BY <1>2, <2>1 DEF ServeSnapshot, ServeEvents, linkVars
    <3>3. QED  BY <1>1, <3>1, <3>2, TypeParts, TypeKept DEF TypeOK
  <2>2. CASE ServeSubscribe  BY <1>1, <2>2, ServesSubscribe
  <2>3. QED  BY <2>1, <2>2 DEF Serve
<1>4. UNCHANGED <<hist, hostUp, tombstone, lastSeq, knownAsks, exitTold, phase, snap, paged>>
  BY <1>2 DEF hostVars, viewVars, linkVars
<1>5. Paging' /\ History'  BY <1>1, <1>4, NotPaging, NothingTold
<1>6. ConnType'  BY <1>2, <1>3 DEF ConnType
<1>7. TypeOK'  BY <1>1, <1>2, <1>3, <1>6, TypeParts, TypeKept DEF linkVars
<1>8. QED  BY <1>3, <1>5, <1>7 DEF Invariant, IInv

(* What the queue and the socket do with the lines.                          *)
LEMMA CarryStep ==
  ASSUME Invariant, Respond \/ Drain \/ ReadChunk
  PROVE  Invariant'
<1>1. TypeOK /\ Link /\ Paging /\ History  BY DEF Invariant, IInv
<1>2. /\ UNCHANGED <<hostVars, viewVars, events, request, phase, ours, connectedOnce, attempt, resumed, buffer, snap,
                     paged, shown, losses>>
      /\ answer' = answer \/ answer' = None
  BY DEF Respond, Drain, ReadChunk, linkVars
<1>3. UNCHANGED <<hist, hostUp, tombstone, lastSeq, knownAsks, exitTold>>  BY <1>2 DEF hostVars, viewVars
<1>4. Link' /\ Lines' /\ Bounded'
  <2>1. CASE Respond  BY <1>1, <2>1, Responds
  <2>2. CASE Drain \/ ReadChunk
    <3>1. Stream' = Stream /\ Lines' /\ Bounded' /\ answer' = answer
      BY <1>1, <2>2, Basics, Drains, Reads DEF Drain, ReadChunk
    <3>2. Len(hist)' = Len(hist) /\ Len(hist)' \in Nat  BY <1>1, <1>3, Basics, NoneIsNone
    <3>3. QED  BY <1>1, <1>2, <1>3, <3>1, <3>2, Unheard
  <2>3. QED  BY <2>1, <2>2
<1>5. Paging' /\ History'  BY <1>1, <1>2, <1>3, NotPaging, NothingTold
<1>6. ConnType'  BY <1>1, <1>2 DEF ConnType, TypeOK
<1>7. TypeOK'  BY <1>1, <1>2, <1>4, <1>6, TypeParts, TypeKept
<1>8. QED  BY <1>4, <1>5, <1>7 DEF Invariant, IInv

-----------------------------------------------------------------------------
(* The steps of the client.                                                  *)

(* The client connects and its catch-up begins.                              *)
LEMMA ConnectStep ==
  ASSUME Invariant, Connect
  PROVE  Invariant'
<1>1. TypeOK /\ Link /\ Paging /\ History  BY DEF Invariant, IInv
<1>2. /\ phase = "off" /\ hostUp /\ exitTold = None
      /\ attempt' = 1 /\ buffer' = <<>> /\ phase' = "snapshot" /\ request' = Call("snapshot", 0)
      /\ UNCHANGED <<hostVars, events, answer, queue, blocked, wire, viewVars,
                     ours, connectedOnce, chunk, resumed, snap, paged, losses>>
  BY DEF Connect, StartAttempt, Connected
<1>3. shown' \in 0..MaxSeq
  <2>1. CASE Adopting /\ lastSeq = 0
    <3>1. shown' \in {0} \cup {s \in DOMAIN hist : hist[s].type = "message"}  BY <2>1 DEF Connect
    <3>2. DOMAIN hist = 1..Len(hist) /\ Len(hist) \in 0..MaxSeq  BY <1>1, Basics, LenProperties DEF TypeOK
    <3>3. QED  BY <3>1, <3>2, NoneIsNone
  <2>2. CASE ~(Adopting /\ lastSeq = 0)  BY <1>1, <2>2 DEF Connect, TypeOK
  <2>3. QED  BY <2>1, <2>2
<1>4. UNCHANGED <<hist, hostUp, tombstone, lastSeq, knownAsks, exitTold>>  BY <1>2 DEF hostVars, viewVars
<1>5. request' \in Request /\ request' # None /\ request'.method = "snapshot" /\ "snapshot" \in Method
  <2>1. "snapshot" \in Method /\ 0 \in 0..MaxSeq  BY NoneIsNone DEF Method
  <2>2. QED  BY <1>2, <2>1, Calls
<1>6. Link'
  <2>1. Stream' = <<>>  BY <1>1, <1>2 DEF Link, Pipe, Stream
  <2>2. answer = None /\ resumed = None /\ ~events
    BY <1>1, <1>2 DEF Link, Turns, Waiting, Method, Idle, Pipe, Streaming
  <2>3. QED  BY <1>2, <1>5, <2>1, <2>2, Asking
<1>7. Paging' /\ History'  BY <1>1, <1>2, <1>4, NotPaging, NothingTold
<1>8. ConnType'  BY <1>1, <1>2, <1>5 DEF ConnType, TypeOK
<1>9. CatchUpType'
  <2>1. <<>> \in Seq(1..MaxSeq) /\ 1 \in 1..CatchUpAttempts  BY DEF CatchUpAttempts
  <2>2. QED  BY <1>1, <1>2, <2>1 DEF CatchUpType, TypeOK
<1>10. RestType'  BY <1>1, <1>2, <1>3 DEF RestType, TypeOK
<1>11. TypeOK'  BY <1>1, <1>2, <1>8, <1>9, <1>10, TypeParts, TypeKept
<1>12. QED  BY <1>6, <1>7, <1>11 DEF Invariant, IInv

(* The client finds that its host is gone.                                   *)
LEMMA HostGoneStep ==
  ASSUME Invariant, HostGone
  PROVE  Invariant'
<1>1. TypeOK /\ Link /\ Paging /\ History  BY DEF Invariant, IInv
<1>2. /\ phase = "off" /\ ~hostUp /\ exitTold = None /\ knownAsks' = {}
      /\ exitTold' = IF tombstone THEN "exit" ELSE "lost"
      /\ UNCHANGED <<hostVars, connVars, lastSeq, heard, linkVars>>
  BY DEF HostGone, Connected
<1>3. UNCHANGED <<hist, hostUp, tombstone, lastSeq, heard, resumed, phase, buffer, ours, snap, chunk, paged, events,
                  answer, queue, blocked, request, wire>>
  BY <1>2 DEF hostVars, connVars, linkVars
<1>4. Link'
  <2>1. Stream' = Stream  BY <1>3 DEF Stream
  <2>2. Len(hist)' = Len(hist) /\ Len(hist)' \in Nat  BY <1>1, <1>3, Basics, NoneIsNone
  <2>3. QED  BY <1>1, <1>3, <2>1, <2>2, Unheard
<1>5. Paging'  BY <1>1, <1>3, NotPaging
<1>6. exitTold' \in {"exit", "lost"} /\ exitTold' # None  BY <1>2, NoneIsNone
<1>7. History'
  <2>1. exitTold' = "lost" => ~tombstone  BY <1>2
  <2>2. QED  BY <1>1, <1>2, <1>3, <1>6, <2>1 DEF History
<1>8. ViewType'  BY <1>1, <1>2, <1>3, <1>6 DEF ViewType, TypeOK
<1>9. TypeOK'  BY <1>1, <1>2, <1>3, <1>8, TypeParts, TypeKept DEF linkVars
<1>10. QED  BY <1>4, <1>5, <1>7, <1>9 DEF Invariant, IInv

(* The connection is lost.                                                   *)
LEMMA LoseStep ==
  ASSUME Invariant, LoseConnection
  PROVE  Invariant'
<1>1. TypeOK /\ Link /\ Paging /\ History  BY DEF Invariant, IInv
<1>2. /\ phase # "off" /\ chunk = <<>> /\ resumed = None
      /\ hostUp => losses < MaxLosses
      /\ losses' = IF hostUp THEN losses + 1 ELSE losses
      /\ CloseConnection
      /\ buffer' = IF ours THEN None ELSE buffer
      /\ UNCHANGED <<hostVars, viewVars, connectedOnce, attempt, chunk, resumed, snap, paged, shown>>
  BY DEF LoseConnection, Connected, AtRest
<1>3. UNCHANGED <<hist, hostUp, tombstone, lastSeq, knownAsks, exitTold>>  BY <1>2 DEF hostVars, viewVars
<1>4. Stream' = <<>> /\ Lines' /\ Bounded'  BY <1>1, <1>2, Closed, Basics
<1>5. /\ phase' = "off" /\ ours' = FALSE /\ events' = FALSE /\ answer' = None /\ request' = None
  BY <1>2 DEF CloseConnection
<1>6. Link'  BY <1>2, <1>4, <1>5, Gone
<1>7. Paging' /\ History'  BY <1>1, <1>2, <1>3, <1>5, NotPaging, NothingTold
<1>8. ConnType'  BY <1>5 DEF ConnType
<1>9. CatchUpType'  BY <1>1, <1>2, <1>5 DEF CatchUpType, TypeOK
<1>10. RestType'
  <2>1. losses' \in 0..MaxLosses
    <3>1. losses \in 0..MaxLosses  BY <1>1 DEF TypeOK
    <3>2. QED  BY <1>2, <3>1, NoneIsNone
  <2>2. QED  BY <1>1, <1>2, <1>5, <2>1 DEF RestType, TypeOK
<1>11. TypeOK'  BY <1>1, <1>2, <1>4, <1>8, <1>9, <1>10, TypeParts, TypeKept
<1>12. QED  BY <1>6, <1>7, <1>11 DEF Invariant, IInv

(* An event is held back while the client catches up.                        *)
LEMMA HoldsBack ==
  ASSUME TypeOK, Link, DispatchEvent, buffer # None
  PROVE  Link' /\ Lines' /\ Bounded' /\ buffer' \in Seq(1..MaxSeq)
<1> DEFINE s == Stream
           t == Stream'
           b == buffer'
<1>1. /\ NextLine("event") /\ b = Append(buffer, Head(chunk).seq)
      /\ UNCHANGED <<hist, events, answer, queue, blocked, request, wire, phase, lastSeq, ours, resumed, snap>>
  BY DEF DispatchEvent, hostVars, connVars, viewVars
<1>2. /\ s # <<>> /\ s[1] = Head(chunk) /\ s[1].kind = "event" /\ TailOf(t, s) /\ s \in Seq(Line) /\ Lines' /\ Bounded'
  BY <1>1, Dispatches, Basics DEF TailOf
<1> HIDE DEF s, t, b
<1>3. s = Stream /\ t = Stream' /\ b = buffer'  BY DEF s, t, b
<1>4. /\ t \in Seq(Line) /\ Len(s) \in Nat /\ Len(t) \in Nat /\ Len(s) = Len(t) + 1
      /\ \A i \in 1..Len(t) : t[i] = s[i+1] /\ i+1 \in 1..Len(s)
      /\ 1 \in 1..Len(s) /\ s[1] \in Line
      /\ \A n : AtMost(s, n) => AtMost(t, n)
      /\ ResyncLast(s) => ResyncLast(t)
  BY <1>2, Tailed
<1>5. /\ \A i \in 1..Len(s) : Ahead(t, i) = Ahead(s, i+1)
      /\ \A p : RepliesIn(s) = {p} => RepliesIn(t) = {p-1} /\ p-1 \in 1..Len(t)
      /\ RepliesIn(s) = {} => RepliesIn(t) = {}
  <2>1. s[1].kind # "reply"  BY <1>2
  <2>2. QED  BY <1>2, <2>1, TailedOther
<1>6. ~Before /\ phase = "subscribe" /\ Waiting
  <2>1. ~Before /\ phase # "live"  BY <1>2, <1>3, <1>4 DEF Link, Pipe
  <2>2. QED  BY <2>1 DEF Before, TypeOK, Waiting, Method
<1> DEFINE q == s[1].seq
<1>7. q \in 1..MaxSeq /\ q <= Len(hist)
  <2>1. q \in 1..MaxSeq  BY <1>2, <1>4, LineTypes
  <2>2. q <= Len(hist)  BY <1>2, <1>3, <1>4 DEF Link, Follows, AtMost
  <2>3. QED  BY <2>1, <2>2
<1>8. b = Append(buffer, q)  BY <1>1, <1>2
<1> HIDE DEF q
<1>9. /\ buffer \in Seq(1..MaxSeq) /\ b \in Seq(1..MaxSeq) /\ Len(buffer) \in Nat /\ Len(b) = Len(buffer) + 1
      /\ \A i \in 1..Len(buffer) : b[i] = buffer[i]
      /\ b[Len(buffer)+1] = q
      /\ b # None
  <2>1. buffer \in Seq(1..MaxSeq) /\ Len(buffer) \in Nat /\ q \in 1..MaxSeq  BY <1>7, Basics
  <2>2. /\ b \in Seq(1..MaxSeq) /\ Len(b) = Len(buffer) + 1
        /\ \A i \in 1..Len(buffer) : b[i] = buffer[i]
        /\ b[Len(buffer)+1] = q
    BY ONLY <1>8, <2>1, AppendProperties
  <2>3. b # None
    <3>1. None \notin Seq(1..MaxSeq)  BY NoneIsNone
    <3>2. QED  BY <2>2, <3>1
  <2>4. QED  BY <2>1, <2>2, <2>3
<1>10. /\ Turns' /\ (Waiting' <=> Waiting) /\ (Refused' <=> Refused)
       /\ (Streaming' <=> Streaming) /\ (Before' <=> Before)
       /\ \A r : OnItsWay(r)' <=> OnItsWay(r)
  <2>1. RepliesIn(Stream)' = RepliesIn(t) /\ Len(Stream)' = Len(t)  BY <1>3 DEF RepliesIn
  <2>2. CASE RepliesIn(s) = {}
    <3>1. RepliesIn(t) = {}  BY <1>5, <2>2
    <3>2. QED  BY <1>1, <1>3, <2>1, <2>2, <3>1, SameReplies DEF Link
  <2>3. CASE RepliesIn(s) # {}
    <3>1. PICK p \in 1..Len(s) : RepliesIn(s) = {p}  BY <1>3, <2>3, OneReply DEF Link
    <3>2. RepliesIn(t) = {p-1} /\ p-1 \in 1..Len(t) /\ t[p-1] = s[p]
      <4>1. RepliesIn(t) = {p-1} /\ p-1 \in 1..Len(t)  BY <1>5, <3>1
      <4>2. (p-1)+1 = p  BY <1>4, <3>1
      <4>3. QED  BY <1>4, <4>1, <4>2
    <3>3. QED  BY <1>1, <1>3, <2>1, <3>1, <3>2, SameReplies DEF Link
  <2>4. QED  BY <2>2, <2>3
<1>11. Replies'
  <2>1. Len(hist)' = Len(hist) /\ Len(hist) \in Nat  BY <1>1, Basics, NoneIsNone
  <2>2. QED  BY <1>1, <1>10, <2>1, StillSaid, Basics DEF Link
<1>12. Pipe'
  <2>1. ResyncLast(t)  BY <1>3, <1>4 DEF Link, Pipe
  <2>2. Refused => \A i \in 1..Len(t) : t[i].kind # "resync" /\ (t[i].kind = "reply" => i = Len(t))
    <3>1. SUFFICES ASSUME Refused, NEW i \in 1..Len(t)
                   PROVE  t[i].kind # "resync" /\ (t[i].kind = "reply" => i = Len(t))
      OBVIOUS
    <3>2. t[i] = s[i+1] /\ i+1 \in 1..Len(s)  BY <1>4
    <3>3. s[i+1].kind # "resync" /\ (s[i+1].kind = "reply" => i+1 = Len(s))
      BY <1>3, <1>6, <3>1, <3>2 DEF Link, Pipe
    <3>4. QED  BY <1>4, <3>2, <3>3
  <2>3. Refused => resumed = None
    <3>1. s # <<>>  BY <1>2
    <3>2. QED  BY <1>3, <1>6, <3>1 DEF Link, Pipe
  <2>4. events => Streaming /\ \A i \in 1..Len(t) : t[i].kind # "resync"
    BY <1>3, <1>4 DEF Link, Pipe
  <2>5. ResyncLast(Stream)'  BY <1>3, <2>1 DEF ResyncLast
  <2>6. Refused => \A i \in 1..Len(Stream)' : Stream'[i].kind # "resync" /\ (Stream'[i].kind = "reply" => i = Len(Stream)')
    BY <1>3, <2>2
  <2>7. events => \A i \in 1..Len(Stream)' : Stream'[i].kind # "resync"  BY <1>3, <2>4
  <2>8. buffer' # None  BY <1>3, <1>9
  <2>9. QED  BY <1>1, <1>6, <1>10, <2>3, <2>4, <2>5, <2>6, <2>7, <2>8 DEF Pipe
<1>13. Follows'
  <2> DEFINE n == lastSeq + Len(buffer)
  <2>1. n \in Nat /\ Held = Len(buffer) /\ Held' = Len(buffer) + 1 /\ (lastSeq + Held)' = n + 1 /\ lastSeq \in Nat
    <3>1. lastSeq \in Nat  BY Basics, NoneIsNone
    <3>2. Held = Len(buffer) /\ Held' = Len(buffer) + 1  BY <1>3, <1>9 DEF Held
    <3>3. QED  BY <1>1, <1>9, <3>1, <3>2
  <2>2. AtMost(t, Len(hist))  BY <1>3, <1>4 DEF Link, Follows
  <2>3. AtMost(Stream, Len(hist))'  BY <1>1, <1>3, <2>2 DEF AtMost
  <2>4. \A i \in 1..Len(b) : i \in 1..Len(buffer) \/ i = Len(buffer)+1  BY <1>9
  <2>5. \A i \in 1..Len(b) : b[i] <= Len(hist)
    BY <1>6, <1>7, <1>9, <2>4 DEF Link, Follows
  <2>6. ASSUME Streaming
        PROVE  /\ \A i \in 1..Len(b) : b[i] = lastSeq + i
               /\ Following(t, n+1)
               /\ events => (n+1) + Len(t) - Ahead(t, Len(t)+1) = Len(hist)
    <3>1. /\ \A i \in 1..Len(buffer) : buffer[i] = lastSeq + i
          /\ Following(s, n)
          /\ events => n + Len(s) - Ahead(s, Len(s)+1) = Len(hist)
      BY <1>3, <2>1, <2>6 DEF Link, Follows
    <3> HIDE DEF n
    <3>2. q = n + 1
      <4>1. RepliesIn(s) \subseteq 1..Len(s)  BY DEF RepliesIn
      <4>2. Ahead(s, 1) = 0  BY <1>4, <4>1 DEF Ahead
      <4>3. q = n + 1 - Ahead(s, 1)  BY <1>2, <1>4, <3>1 DEF Following, q
      <4>4. QED  BY <2>1, <4>2, <4>3
    <3>3. \A i \in 1..Len(b) : b[i] = lastSeq + i
      <4>1. b[Len(buffer)+1] = lastSeq + (Len(buffer)+1)  BY <1>9, <2>1, <3>2 DEF n
      <4>2. QED  BY <1>9, <2>4, <3>1, <4>1
    <3>4. Following(t, n+1)
      <4>1. SUFFICES ASSUME NEW i \in 1..Len(t), t[i].kind = "event"
                     PROVE  t[i].seq = (n+1) + i - Ahead(t, i)
        BY DEF Following
      <4>2. i+1 \in 1..Len(s) /\ i \in 1..Len(s) /\ t[i] = s[i+1]  BY <1>4
      <4>3. s[i+1].seq = n + (i+1) - Ahead(s, i+1)  BY <3>1, <4>1, <4>2 DEF Following
      <4>4. Ahead(s, i+1) = Ahead(t, i) /\ Ahead(t, i) \in {0, 1}  BY <1>5, <4>2 DEF Ahead
      <4>5. n + (i+1) - Ahead(t, i) = (n+1) + i - Ahead(t, i)  BY <2>1, <4>4
      <4>6. QED  BY <4>2, <4>3, <4>4, <4>5
    <3>5. events => (n+1) + Len(t) - Ahead(t, Len(t)+1) = Len(hist)
      <4>1. Len(s) \in 1..Len(s) /\ Len(t)+1 = Len(s)  BY <1>4
      <4>2. Ahead(t, Len(t)+1) = Ahead(s, Len(s)+1) /\ Ahead(t, Len(t)+1) \in {0, 1}  BY <1>5, <4>1 DEF Ahead
      <4>3. Len(t) \in Nat /\ Len(s) = Len(t) + 1 /\ n \in Nat  BY <1>4, <2>1
      <4>4. events => n + Len(s) - Ahead(s, Len(s)+1) = Len(hist)  BY <3>1
      <4>5. QED  BY ONLY <4>2, <4>3, <4>4
    <3>6. QED  BY <3>3, <3>4, <3>5
  <2> HIDE DEF n
  <2>7. Following(t, n+1) => Following(Stream, lastSeq + Held)'
    <3>1. \A i : Ahead(Stream, i)' = Ahead(t, i)  BY <1>3 DEF Ahead, RepliesIn
    <3>2. QED  BY <1>3, <2>1, <3>1 DEF Following, Ahead, RepliesIn
  <2>8. Ahead(Stream, Len(Stream)+1)' = Ahead(t, Len(t)+1)  BY <1>3 DEF Ahead, RepliesIn
  <2>9. QED  BY <1>1, <1>3, <1>10, <2>1, <2>3, <2>5, <2>6, <2>7, <2>8 DEF Follows
<1>14. QED  BY <1>2, <1>3, <1>9, <1>10, <1>11, <1>12, <1>13 DEF Link

(* An event is handed to the listeners as it comes.                          *)
LEMMA HandsOn ==
  ASSUME TypeOK, Link, History, DispatchEvent, buffer = None
  PROVE  /\ Link' /\ Lines' /\ Bounded' /\ History' /\ phase = "live"
         /\ lastSeq' = lastSeq + 1 /\ lastSeq' <= Len(hist) /\ heard' = heard \cup {lastSeq'}
         /\ knownAsks' \subseteq Ask /\ exitTold' \in {exitTold, "exit"}
<1> DEFINE s == Stream
           t == Stream'
           q == s[1].seq
<1>1. /\ NextLine("event") /\ Deliver({Head(chunk).seq})
      /\ UNCHANGED <<hist, hostUp, tombstone, events, answer, queue, blocked, request, wire, phase, ours, resumed,
                     buffer, snap>>
  BY DEF DispatchEvent, hostVars, connVars
<1>2. /\ s # <<>> /\ s[1] = Head(chunk) /\ s[1].kind = "event" /\ TailOf(t, s) /\ s \in Seq(Line) /\ Lines' /\ Bounded'
  BY <1>1, Dispatches, Basics DEF TailOf
<1>3. Deliver({q})  BY <1>1, <1>2
<1> HIDE DEF s, t, q
<1>4. s = Stream /\ t = Stream' /\ q = s[1].seq  BY DEF s, t, q
<1>5. /\ t \in Seq(Line) /\ Len(s) \in Nat /\ Len(t) \in Nat /\ Len(s) = Len(t) + 1
      /\ \A i \in 1..Len(t) : t[i] = s[i+1] /\ i+1 \in 1..Len(s)
      /\ 1 \in 1..Len(s) /\ s[1] \in Line
      /\ \A n : AtMost(s, n) => AtMost(t, n)
      /\ ResyncLast(s) => ResyncLast(t)
  BY <1>2, Tailed
<1>6. /\ \A i \in 1..Len(s) : Ahead(t, i) = Ahead(s, i+1)
      /\ RepliesIn(s) = {} => RepliesIn(t) = {}
  <2>1. s[1].kind # "reply"  BY <1>2
  <2>2. QED  BY <1>2, <2>1, TailedOther
<1>7. phase = "live" /\ ~Waiting /\ Streaming /\ ~Before
  <2>1. ~Before /\ ~Waiting  BY <1>2, <1>4, <1>5 DEF Link, Pipe
  <2>2. phase = "live"  BY <2>1 DEF Before, TypeOK, Waiting, Method
  <2>3. QED  BY <2>1, <2>2 DEF Streaming
<1>8. /\ Idle /\ request = None /\ answer = None /\ resumed = None /\ RepliesIn(s) = {}
  BY <1>4, <1>7 DEF Link, Turns, Idle
<1>9. lastSeq \in Nat /\ Len(hist) \in Nat /\ Held = 0 /\ Held' = 0  BY <1>1, Basics, NoneIsNone DEF Held
<1>10. q = lastSeq + 1 /\ q <= Len(hist) /\ q \in Nat
  <2>1. Following(s, lastSeq + 0) /\ AtMost(s, Len(hist))  BY <1>4, <1>7, <1>9 DEF Link, Follows
  <2>2. Ahead(s, 1) = 0  BY <1>8 DEF Ahead
  <2>3. q = (lastSeq + 0) + 1 - Ahead(s, 1)  BY <1>2, <1>4, <1>5, <2>1 DEF Following
  <2>4. q = lastSeq + 1  BY <1>9, <2>2, <2>3
  <2>5. q <= Len(hist)  BY <1>2, <1>4, <1>5, <2>1 DEF AtMost
  <2>6. QED  BY <1>9, <2>4, <2>5
<1>11. History' /\ lastSeq' = q /\ heard' = heard \cup {q} /\ knownAsks' \subseteq Ask /\ exitTold' \in {exitTold, "exit"}
  <2>1. q \in lastSeq..Len(hist)  BY <1>9, <1>10
  <2>2. lastSeq+1..q = {q}  BY <1>9, <1>10
  <2>3. {x \in {q} : x > lastSeq} = lastSeq+1..q  BY <1>9, <1>10
  <2>4. phase # "off"  BY <1>7
  <2>5. UNCHANGED <<hist, hostUp, tombstone>>  BY <1>1
  <2> DEFINE S == {q}
  <2>6. {x \in S : x > lastSeq} = lastSeq+1..q /\ Deliver(S)  BY <1>3, <2>3
  <2> HIDE DEF S
  <2>7. /\ History' /\ lastSeq' = q /\ heard' = heard \cup (lastSeq+1..q)
        /\ knownAsks' \subseteq Ask /\ exitTold' \in {exitTold, "exit"}
    BY <2>1, <2>4, <2>5, <2>6, Delivers
  <2>8. QED  BY <2>2, <2>7
<1>12. RepliesIn(Stream)' = {} /\ ~Waiting' /\ phase' = "live"
  BY <1>1, <1>4, <1>6, <1>7, <1>8 DEF RepliesIn, Waiting
<1>13. Turns'  BY <1>1, <1>8, <1>12 DEF Turns, Idle
<1>14. \A r \in Line : ~OnItsWay(r)'
  <2>1. \A r \in Line : r # None  BY NoneIsNone
  <2>2. QED  BY <1>1, <1>8, <1>12, <2>1 DEF OnItsWay
<1>15. Replies'  BY <1>1, <1>8, <1>14 DEF Replies
<1>16. Pipe'
  <2>1. ResyncLast(t)  BY <1>4, <1>5 DEF Link, Pipe
  <2>2. events => \A i \in 1..Len(t) : t[i].kind # "resync"  BY <1>4, <1>5 DEF Link, Pipe
  <2>3. ResyncLast(Stream)' /\ (events => \A i \in 1..Len(Stream)' : Stream'[i].kind # "resync")
    BY <1>4, <2>1, <2>2 DEF ResyncLast
  <2>4. ~Before' /\ ~Waiting' /\ Streaming' /\ ours'
    BY <1>1, <1>7, <1>8, <1>12 DEF Before, Streaming, Link, Pipe
  <2>5. QED  BY <1>1, <1>12, <2>3, <2>4 DEF Pipe
<1>17. Follows'
  <2> DEFINE n == lastSeq
             m == Len(hist)
  <2>1. n \in Nat /\ m \in Nat /\ (lastSeq + Held)' = n + 1 /\ Len(hist)' = m  BY <1>1, <1>9, <1>10, <1>11
  <2>2. AtMost(t, m) /\ Following(s, n) /\ (events => n + Len(s) - Ahead(s, Len(s)+1) = m)
    <3>1. AtMost(s, Len(hist)) /\ Following(s, lastSeq + Held)
          /\ (events => lastSeq + Held + Len(s) - Ahead(s, Len(s)+1) = Len(hist))
      BY <1>4, <1>7 DEF Link, Follows
    <3>2. lastSeq + Held = n  BY <1>9
    <3>3. QED  BY <1>5, <3>1, <3>2
  <2> HIDE DEF n, m
  <2>3. Following(t, n+1)
    <3>1. SUFFICES ASSUME NEW i \in 1..Len(t), t[i].kind = "event"
                   PROVE  t[i].seq = (n+1) + i - Ahead(t, i)
      BY DEF Following
    <3>2. i+1 \in 1..Len(s) /\ i \in 1..Len(s) /\ t[i] = s[i+1]  BY <1>5
    <3>3. s[i+1].seq = n + (i+1) - Ahead(s, i+1)  BY <2>2, <3>1, <3>2 DEF Following
    <3>4. Ahead(s, i+1) = Ahead(t, i) /\ Ahead(t, i) \in {0, 1}  BY <1>6, <3>2 DEF Ahead
    <3>5. n + (i+1) - Ahead(t, i) = (n+1) + i - Ahead(t, i)  BY <2>1, <3>4
    <3>6. QED  BY <3>2, <3>3, <3>4, <3>5
  <2>4. events => (n+1) + Len(t) - Ahead(t, Len(t)+1) = m
    <3>1. Len(s) \in 1..Len(s) /\ Len(t)+1 = Len(s)  BY <1>5
    <3>2. Ahead(t, Len(t)+1) = Ahead(s, Len(s)+1) /\ Ahead(t, Len(t)+1) \in {0, 1}  BY <1>6, <3>1 DEF Ahead
    <3>3. events => n + Len(s) - Ahead(s, Len(s)+1) = m  BY <2>2
    <3>4. Len(s) = Len(t) + 1 /\ Len(t) \in Nat  BY <1>5
    <3>5. QED  BY ONLY <2>1, <3>2, <3>3, <3>4
  <2>5. AtMost(Stream, Len(hist))'  BY <1>4, <2>1, <2>2 DEF AtMost
  <2>6. \A i : Ahead(Stream, i)' = Ahead(t, i)  BY <1>4 DEF Ahead, RepliesIn
  <2>7. Following(Stream, lastSeq + Held)'  BY <1>4, <2>1, <2>3, <2>6 DEF Following, Ahead, RepliesIn
  <2>8. Ahead(Stream, Len(Stream)+1)' = Ahead(t, Len(t)+1)  BY <1>4 DEF Ahead, RepliesIn
  <2>9. QED  BY <1>1, <1>4, <1>12, <2>1, <2>4, <2>5, <2>7, <2>8 DEF Follows
<1>18. QED  BY <1>2, <1>7, <1>10, <1>11, <1>13, <1>15, <1>16, <1>17 DEF Link

(* A line of the chunk is dispatched.                                        *)
LEMMA DispatchStep ==
  ASSUME Invariant, Dispatch
  PROVE  Invariant'
<1>1. TypeOK /\ Link /\ Paging /\ History  BY DEF Invariant, IInv
<1>2. CASE DispatchEvent /\ buffer # None
  <2>1. Link' /\ Lines' /\ Bounded' /\ buffer' \in Seq(1..MaxSeq)  BY <1>1, <1>2, HoldsBack
  <2>2. UNCHANGED <<hostVars, connVars, viewVars, phase, ours, connectedOnce, attempt, resumed, snap, paged, shown, losses>>
    BY <1>2 DEF DispatchEvent
  <2>3. Paging' /\ History'  BY <1>1, <2>2, NotPaging, NothingTold DEF hostVars, viewVars
  <2>4. CatchUpType'  BY <1>1, <2>1, <2>2 DEF CatchUpType, TypeOK
  <2>5. TypeOK'  BY <1>1, <2>1, <2>2, <2>4, TypeParts, TypeKept DEF connVars
  <2>6. QED  BY <2>1, <2>3, <2>5 DEF Invariant, IInv
<1>3. CASE DispatchEvent /\ buffer = None
  <2>1. /\ Link' /\ Lines' /\ Bounded' /\ History' /\ phase = "live"
        /\ lastSeq' = lastSeq + 1 /\ lastSeq' <= Len(hist) /\ heard' = heard \cup {lastSeq'}
        /\ knownAsks' \subseteq Ask /\ exitTold' \in {exitTold, "exit"}
    BY <1>1, <1>3, HandsOn
  <2>2. UNCHANGED <<hostVars, connVars, buffer, phase, ours, connectedOnce, attempt, resumed, snap, paged, shown, losses>>
    BY <1>3 DEF DispatchEvent
  <2>3. Paging'  BY <1>1, <2>1, <2>2, NotPaging
  <2>4. ViewType'
    <3>1. lastSeq' \in 1..MaxSeq  BY <1>1, <2>1, Basics, NoneIsNone
    <3>2. QED  BY <1>1, <2>1, <3>1, NoneIsNone DEF ViewType, TypeOK
  <2>5. TypeOK'  BY <1>1, <2>1, <2>2, <2>4, TypeParts, TypeKept DEF connVars
  <2>6. QED  BY <2>1, <2>3, <2>5 DEF Invariant, IInv
<1>4. CASE DispatchReply
  <2>1. Link' /\ Lines' /\ Bounded' /\ resumed' \in Line  BY <1>1, <1>4, DispatchesReply
  <2>2. UNCHANGED <<hostVars, connVars, viewVars, phase, ours, connectedOnce, attempt, buffer, snap, paged, shown, losses>>
    BY <1>4 DEF DispatchReply
  <2>3. Paging' /\ History'  BY <1>1, <2>2, NotPaging, NothingTold DEF hostVars, viewVars
  <2>4. CatchUpType'  BY <1>1, <2>1, <2>2 DEF CatchUpType, TypeOK
  <2>5. TypeOK'  BY <1>1, <2>1, <2>2, <2>4, TypeParts, TypeKept DEF connVars
  <2>6. QED  BY <2>1, <2>3, <2>5 DEF Invariant, IInv
<1>5. CASE DispatchResync
  <2>1. Link' /\ Lines' /\ Bounded'  BY <1>1, <1>5, DispatchesResync
  <2>2. UNCHANGED <<hostVars, events, answer, viewVars, ours, connectedOnce, resumed, snap, paged, shown, losses>>
    BY <1>5 DEF DispatchResync
  <2>3. \/ UNCHANGED <<attempt, buffer, phase, request>>
        \/ ours /\ phase' = "snapshot" /\ buffer' = <<>> /\ attempt' = 1 /\ request' = Call("snapshot", 0)
    BY <1>5 DEF DispatchResync, StartAttempt
  <2>4. phase' # "off" => phase # "off"
    <3>1. phase = "off" => Stream = <<>>  BY <1>1 DEF Link, Pipe
    <3>2. NextLine("resync")  BY <1>5 DEF DispatchResync
    <3>3. Stream # <<>>  BY <1>1, <3>2, Basics, StreamType DEF NextLine
    <3>4. QED  BY <3>1, <3>3
  <2>5. Paging'  BY <1>1, <2>2, <2>3, NotPaging DEF hostVars, viewVars
  <2>6. History'  BY <1>1, <2>2, <2>4, NothingTold DEF hostVars, viewVars
  <2>7. ConnType'
    <3>1. Call("snapshot", 0) \in Request
      <4>1. "snapshot" \in Method /\ 0 \in 0..MaxSeq  BY NoneIsNone DEF Method
      <4>2. QED  BY <4>1, Calls
    <3>2. QED  BY <1>1, <2>2, <2>3, <3>1 DEF ConnType, TypeOK
  <2>8. CatchUpType'
    <3>1. <<>> \in Seq(1..MaxSeq) /\ 1 \in 1..CatchUpAttempts  BY DEF CatchUpAttempts
    <3>2. QED  BY <1>1, <2>2, <2>3, <3>1 DEF CatchUpType, TypeOK
  <2>9. TypeOK'  BY <1>1, <2>1, <2>2, <2>7, <2>8, TypeParts, TypeKept
  <2>10. QED  BY <2>1, <2>5, <2>6, <2>9 DEF Invariant, IInv
<1>6. QED  BY <1>2, <1>3, <1>4, <1>5 DEF Dispatch

-----------------------------------------------------------------------------
(* The catch-up goes on from the reply it awaited.                           *)

(* The reply a catch-up is resumed by is the one it awaits, and nothing else *)
(* is under way.                                                             *)
LEMMA Resumes ==
  ASSUME TypeOK, Link, NEW mth, Resume(mth)
  PROVE  /\ phase = mth /\ Waiting /\ chunk = <<>> /\ resumed \in Line /\ resumed # None /\ resumed' = None
         /\ request = None /\ answer = None /\ RepliesIn(Stream) = {}
         /\ Says(resumed) /\ (Refused <=> resumed.status = "resync")
         /\ resumed.from \in 0..MaxSeq /\ resumed.to \in 0..MaxSeq /\ resumed.status \in {"ok", "more", "resync"}
<1>1. chunk = <<>> /\ resumed # None /\ resumed.method = mth /\ resumed' = None  BY DEF Resume
<1>2. resumed \in Line  BY <1>1, Basics
<1>3. Received /\ Waiting  BY <1>1, OneReply DEF Link
<1>4. OnItsWay(resumed) /\ \A r \in Line : OnItsWay(r) => r = resumed
  <2>1. OnItsWay(resumed)  BY <1>2 DEF OnItsWay
  <2>2. QED  BY <2>1, OneReply DEF Link
<1>5. Says(resumed)  BY <1>2, <1>4 DEF Link, Replies
<1>6. Refused <=> resumed.status = "resync"  BY <1>2, <1>4 DEF Refused
<1>7. resumed.kind = "reply" /\ phase = mth  BY <1>1, <1>5 DEF Says
<1>8. resumed.from \in 0..MaxSeq /\ resumed.to \in 0..MaxSeq /\ resumed.status \in {"ok", "more", "resync"}
  BY <1>2, <1>7, LineTypes
<1>9. QED  BY <1>1, <1>2, <1>3, <1>5, <1>6, <1>7, <1>8 DEF Received

(* Up to the subscription, and after a refused one, the connection is empty  *)
(* when the catch-up goes on.                                                *)
LEMMA EmptyHanded ==
  ASSUME TypeOK, Link, NEW mth, Resume(mth), mth # "subscribe" \/ resumed.status = "resync"
  PROVE  Stream = <<>> /\ ~events
<1>1. /\ phase = mth /\ RepliesIn(Stream) = {} /\ resumed # None /\ (Refused <=> resumed.status = "resync")
      /\ Waiting
  BY Resumes
<1>2. CASE mth # "subscribe"
  <2>1. Before  BY <1>1, <1>2 DEF Before, Waiting, Method
  <2>2. Stream = <<>>  BY <1>1, <2>1, Nothing
  <2>3. ~Streaming  BY <1>1, <1>2 DEF Waiting, Method, Streaming
  <2>4. QED  BY <2>2, <2>3 DEF Link, Pipe
<1>3. CASE mth = "subscribe" /\ resumed.status = "resync"
  <2>1. Refused /\ phase = "subscribe"  BY <1>1, <1>3
  <2>2. Stream = <<>>  BY <1>1, <2>1 DEF Link, Pipe
  <2>3. QED  BY <2>1, <2>2 DEF Link, Pipe, Streaming
<1>4. QED  BY <1>2, <1>3

(* The snapshot has come: the events are asked for.                          *)
LEMMA GotSnapshotStep ==
  ASSUME Invariant, GotSnapshot
  PROVE  Invariant'
<1>1. TypeOK /\ Link /\ Paging /\ History  BY DEF Invariant, IInv
<1> DEFINE from == IF Adopting THEN resumed.from ELSE Max2(lastSeq, resumed.from)
<1>2. /\ Resume("snapshot")
      /\ snap' = [seq |-> resumed.to, from |-> resumed.from]
      /\ paged' = [from |-> from, to |-> from]
      /\ phase' = "events" /\ request' = Call("events", from)
      /\ UNCHANGED <<hostVars, events, answer, queue, blocked, wire, viewVars, ours,
                     connectedOnce, attempt, chunk, buffer, shown, losses>>
  BY DEF GotSnapshot
<1>3. /\ phase = "snapshot" /\ Waiting /\ resumed' = None /\ request = None /\ answer = None
      /\ Says(resumed) /\ resumed.from \in 0..MaxSeq /\ resumed.to \in 0..MaxSeq
      /\ Stream = <<>> /\ ~events
  <2>1. "snapshot" # "subscribe"  OBVIOUS
  <2>2. QED  BY <1>1, <1>2, <2>1, Resumes, EmptyHanded
<1>4. /\ lastSeq \in 0..MaxSeq /\ Len(hist) \in 0..MaxSeq /\ Evicted(hist) \in 0..MaxSeq /\ MaxSeq \in Nat
  BY <1>1, Basics, NoneIsNone
<1>5. /\ resumed.from <= Evicted(hist) /\ resumed.from <= resumed.to
      /\ lastSeq <= resumed.to /\ resumed.to <= Len(hist)
  BY <1>3 DEF Says
<1>6. from \in 0..MaxSeq /\ from <= resumed.to /\ from <= Max2(lastSeq, Evicted(hist))
  BY <1>3, <1>4, <1>5 DEF Max2
<1> HIDE DEF from
<1>7. UNCHANGED <<hist, hostUp, tombstone, lastSeq, knownAsks, exitTold>>  BY <1>2 DEF hostVars, viewVars
<1>8. request' \in Request /\ request' # None /\ request'.method = "events" /\ "events" \in Method
  <2>1. "events" \in Method  BY DEF Method
  <2>2. QED  BY <1>2, <1>6, <2>1, Calls
<1>9. Link'
  <2>1. Stream' = <<>>  BY <1>2, <1>3 DEF Stream
  <2>2. buffer = <<>>  BY <1>1, <1>3 DEF Link, Pipe, Before
  <2>3. QED  BY <1>2, <1>3, <1>8, <2>1, <2>2, Asking
<1>10. Paging'
  <2>1. snap'.seq = resumed.to /\ paged'.from = from /\ Evicted(hist)' = Evicted(hist) /\ lastSeq' = lastSeq
        /\ Len(hist)' = Len(hist)
    BY <1>2, <1>7 DEF Evicted
  <2>2. QED  BY <1>5, <1>6, <2>1 DEF Paging, Max2
<1>11. History'
  <2>1. phase # "off"  BY <1>3
  <2>2. QED  BY <1>1, <1>7, <2>1, NothingTold
<1>12. ConnType'  BY <1>1, <1>2, <1>8 DEF ConnType, TypeOK
<1>13. CatchUpType'  BY <1>1, <1>2, <1>3, <1>6 DEF CatchUpType, TypeOK
<1>14. TypeOK'  BY <1>1, <1>2, <1>12, <1>13, TypeParts, TypeKept
<1>15. QED  BY <1>9, <1>10, <1>11, <1>14 DEF Invariant, IInv

(* A page has come that is not the last.                                     *)
LEMMA GotPageStep ==
  ASSUME Invariant, GotPage
  PROVE  Invariant'
<1>1. TypeOK /\ Link /\ Paging /\ History  BY DEF Invariant, IInv
<1>2. /\ Resume("events")
      /\ paged' = [paged EXCEPT !.to = resumed.to]
      /\ request' = Call("events", resumed.to)
      /\ UNCHANGED <<hostVars, events, answer, queue, blocked, wire, viewVars, phase, ours,
                     connectedOnce, attempt, chunk, buffer, snap, shown, losses>>
  BY DEF GotPage
<1>3. /\ phase = "events" /\ Waiting /\ resumed' = None /\ request = None /\ answer = None
      /\ resumed.to \in 0..MaxSeq /\ Stream = <<>> /\ ~events
  <2>1. "events" # "subscribe"  OBVIOUS
  <2>2. QED  BY <1>1, <1>2, <2>1, Resumes, EmptyHanded
<1>4. UNCHANGED <<hist, hostUp, tombstone, lastSeq, knownAsks, exitTold>>  BY <1>2 DEF hostVars, viewVars
<1>5. request' \in Request /\ request' # None /\ request'.method = "events" /\ "events" \in Method
  <2>1. "events" \in Method  BY DEF Method
  <2>2. QED  BY <1>2, <1>3, <2>1, Calls
<1>6. Link'
  <2>1. Stream' = <<>>  BY <1>2, <1>3 DEF Stream
  <2>2. buffer = <<>>  BY <1>1, <1>3 DEF Link, Pipe, Before
  <2>3. QED  BY <1>2, <1>3, <1>5, <2>1, <2>2, Asking
<1>7. paged' \in [from : 0..MaxSeq, to : 0..MaxSeq] /\ paged'.from = paged.from
  <2>1. paged \in [from : 0..MaxSeq, to : 0..MaxSeq]  BY <1>1 DEF TypeOK
  <2>2. QED  BY <1>2, <1>3, <2>1
<1>8. Paging'  BY <1>1, <1>2, <1>4, <1>7 DEF Paging, Evicted
<1>9. History'  BY <1>1, <1>2, <1>4, NothingTold
<1>10. ConnType'  BY <1>1, <1>2, <1>5 DEF ConnType, TypeOK
<1>11. CatchUpType'  BY <1>1, <1>2, <1>3, <1>7 DEF CatchUpType, TypeOK
<1>12. TypeOK'  BY <1>1, <1>2, <1>10, <1>11, TypeParts, TypeKept
<1>13. QED  BY <1>6, <1>8, <1>9, <1>12 DEF Invariant, IInv

(* What the last page says of the view.                                      *)
LEMMA LastPage ==
  ASSUME Invariant, GotLastPage
  PROVE  /\ resumed.to \in lastSeq..Len(hist) /\ lastSeq \in Nat /\ Len(hist) \in 0..MaxSeq
         /\ phase = "events" /\ paged.from <= Max2(lastSeq, Evicted(hist)) /\ paged.from \in Nat
         /\ lastSeq' = resumed.to
         /\ request' = Call("subscribe", lastSeq')
         /\ knownAsks' = HostAsks(hist, resumed.to)
         /\ exitTold' = IF exitTold = None /\ ExitIn(hist, resumed.to) THEN "exit" ELSE exitTold
         /\ heard' = heard \cup HandedOver({s \in paged.from+1..resumed.to : s > lastSeq})
<1> DEFINE to == resumed.to
           p == paged.from
           n == snap.seq
           after == {s \in p+1..to : s > n}
           over == \E s \in 1..n \cup after : hist[s].type = "exit"
<1>1. TypeOK /\ Link /\ Paging /\ History  BY DEF Invariant, IInv
<1>2. /\ Resume("events") /\ resumed.status = "ok"
      /\ heard' = heard \cup HandedOver({s \in p+1..to : s > lastSeq})
      /\ lastSeq' = Max2(lastSeq, to)
      /\ request' = Call("subscribe", Max2(lastSeq, to))
      /\ knownAsks' = AsksAfter(hist, HostAsks(hist, n), after)
      /\ exitTold' = IF exitTold = None /\ over THEN "exit" ELSE exitTold
  BY DEF GotLastPage, Reconcile
<1>3. phase = "events" /\ Says(resumed) /\ to \in 0..MaxSeq  BY <1>1, <1>2, Resumes
<1>4. /\ to <= Len(hist) /\ n <= to /\ lastSeq <= n /\ p <= n
      /\ p <= Max2(lastSeq, Evicted(hist))
  BY <1>1, <1>2, <1>3 DEF Says, Paging
<1>5. lastSeq \in Nat /\ n \in Nat /\ p \in Nat /\ to \in Nat /\ Len(hist) \in 0..MaxSeq
  BY <1>1, <1>3, Basics, NoneIsNone DEF TypeOK
<1> HIDE DEF to, p, n
<1>6. lastSeq <= to /\ Max2(lastSeq, to) = to /\ to \in lastSeq..Len(hist)  BY <1>4, <1>5 DEF Max2
<1>7. after = n+1..to /\ \A s : s \in 1..n \cup after <=> s \in 1..to  BY <1>4, <1>5
<1> HIDE DEF after
<1>8. knownAsks' = HostAsks(hist, to)  BY <1>2, <1>4, <1>5, <1>7, AsksInTwo
<1>9. over <=> ExitIn(hist, to)  BY <1>7 DEF ExitIn
<1> HIDE DEF over
<1>10. exitTold' = IF exitTold = None /\ ExitIn(hist, to) THEN "exit" ELSE exitTold  BY <1>2, <1>9
<1>11. lastSeq' = to /\ request' = Call("subscribe", lastSeq')  BY <1>2, <1>6
<1>12. QED  BY <1>2, <1>3, <1>4, <1>5, <1>6, <1>8, <1>10, <1>11 DEF to, p

(* The last page has come: it is handed over and the client subscribes.      *)
LEMMA GotLastPageStep ==
  ASSUME Invariant, GotLastPage
  PROVE  Invariant'
<1>1. TypeOK /\ Link /\ Paging /\ History  BY DEF Invariant, IInv
<1>2. /\ Resume("events") /\ phase' = "subscribe"
      /\ paged' = [paged EXCEPT !.to = resumed.to]
      /\ UNCHANGED <<hostVars, events, answer, queue, blocked, wire, ours, connectedOnce,
                     attempt, chunk, buffer, snap, shown, losses>>
  BY DEF GotLastPage
<1>3. /\ phase = "events" /\ Waiting /\ resumed' = None /\ request = None /\ answer = None
      /\ resumed.to \in 0..MaxSeq /\ Stream = <<>> /\ ~events
  <2>1. "events" # "subscribe"  OBVIOUS
  <2>2. QED  BY <1>1, <1>2, <2>1, Resumes, EmptyHanded
<1> DEFINE m == resumed.to
<1>4. /\ m \in lastSeq..Len(hist) /\ lastSeq' = m /\ request' = Call("subscribe", lastSeq')
      /\ knownAsks' = HostAsks(hist, m)
      /\ exitTold' = IF exitTold = None /\ ExitIn(hist, m) THEN "exit" ELSE exitTold
      /\ heard' = heard \cup HandedOver({s \in paged.from+1..m : s > lastSeq})
      /\ Len(hist) \in 0..MaxSeq /\ lastSeq \in Nat /\ paged.from \in Nat
  BY LastPage
<1>5. m \in 0..MaxSeq  BY <1>3
<1> HIDE DEF m
<1>6. UNCHANGED <<hist, hostUp, tombstone>>  BY <1>2 DEF hostVars
<1>7. History'
  <2>1. phase # "off"  BY <1>3
  <2>2. QED  BY <1>1, <1>4, <1>6, <2>1, Told
<1>8. request' \in Request /\ request' # None /\ request'.method = "subscribe" /\ "subscribe" \in Method
      /\ request'.from = lastSeq'
  <2>1. "subscribe" \in Method  BY DEF Method
  <2>2. QED  BY <1>4, <1>5, <2>1, Calls
<1>9. Link'
  <2>1. Stream' = <<>>  BY <1>2, <1>3 DEF Stream
  <2>2. buffer = <<>>  BY <1>1, <1>3 DEF Link, Pipe, Before
  <2>3. QED  BY <1>2, <1>3, <1>8, <2>1, <2>2, Asking
<1>10. Paging'  BY <1>2 DEF Paging
<1>11. paged' \in [from : 0..MaxSeq, to : 0..MaxSeq]
  <2>1. paged \in [from : 0..MaxSeq, to : 0..MaxSeq]  BY <1>1 DEF TypeOK
  <2>2. QED  BY <1>2, <1>3, <2>1
<1>12. ConnType'  BY <1>1, <1>2, <1>8 DEF ConnType, TypeOK
<1>13. CatchUpType'  BY <1>1, <1>2, <1>3, <1>11 DEF CatchUpType, TypeOK
<1>14. ViewType'
  <2>1. HandedOver({s \in paged.from+1..m : s > lastSeq}) \subseteq 1..MaxSeq
    <3>1. \A s \in paged.from+1..m : s \in 1..MaxSeq  BY <1>4, <1>5, NoneIsNone
    <3>2. QED  BY <3>1 DEF HandedOver
  <2>2. knownAsks' \subseteq Ask  BY <1>4 DEF HostAsks, AsksAfter
  <2>3. QED  BY <1>1, <1>4, <1>5, <2>1, <2>2, NoneIsNone DEF ViewType, TypeOK
<1>15. TypeOK'  BY <1>1, <1>2, <1>12, <1>13, <1>14, TypeParts, TypeKept
<1>16. QED  BY <1>7, <1>9, <1>10, <1>15 DEF Invariant, IInv

(* The ring moved on under the attempt.                                      *)
LEMMA TryAgainStep ==
  ASSUME Invariant, EventsGone \/ SubscribeRefused
  PROVE  Invariant'
<1>1. TypeOK /\ Link /\ Paging /\ History  BY DEF Invariant, IInv
<1>2. PICK mth \in {"events", "subscribe"} : Resume(mth) /\ resumed.status = "resync" /\ TryAgain
  BY DEF EventsGone, SubscribeRefused
<1>3. /\ phase = mth /\ Waiting /\ chunk = <<>> /\ resumed' = None /\ request = None /\ answer = None
      /\ Stream = <<>> /\ ~events
  BY <1>1, <1>2, Resumes, EmptyHanded
<1>4. UNCHANGED <<hostVars, viewVars, connectedOnce, chunk, snap, paged, shown, losses>>  BY <1>2 DEF TryAgain
<1>5. UNCHANGED <<hist, hostUp, tombstone, lastSeq, knownAsks, exitTold>>  BY <1>4 DEF hostVars, viewVars
<1>6. phase # "off"  BY <1>3 DEF Waiting, Method
<1>7. History'  BY <1>1, <1>5, <1>6, NothingTold
<1>8. CASE attempt < CatchUpAttempts
  <2>1. /\ attempt' = attempt + 1 /\ buffer' = <<>> /\ phase' = "snapshot" /\ request' = Call("snapshot", 0)
        /\ UNCHANGED <<events, answer, queue, blocked, wire, ours>>
    BY <1>2, <1>8 DEF TryAgain, StartAttempt
  <2>2. request' \in Request /\ request' # None /\ request'.method = "snapshot" /\ "snapshot" \in Method
    <3>1. "snapshot" \in Method /\ 0 \in 0..MaxSeq  BY NoneIsNone DEF Method
    <3>2. QED  BY <2>1, <3>1, Calls
  <2>3. Link'
    <3>1. Stream' = <<>>  BY <1>3, <1>4, <2>1 DEF Stream
    <3>2. QED  BY <1>3, <2>1, <2>2, <3>1, Asking
  <2>4. Paging'  BY <2>1 DEF Paging
  <2>5. ConnType'  BY <1>1, <2>1, <2>2 DEF ConnType, TypeOK
  <2>6. CatchUpType'
    <3>1. <<>> \in Seq(1..MaxSeq) /\ attempt' \in 1..CatchUpAttempts
      BY <1>1, <1>8, <2>1 DEF CatchUpAttempts, TypeOK
    <3>2. QED  BY <1>1, <1>3, <1>4, <2>1, <3>1 DEF CatchUpType, TypeOK
  <2>7. TypeOK'  BY <1>1, <1>4, <2>1, <2>5, <2>6, TypeParts, TypeKept
  <2>8. QED  BY <1>7, <2>3, <2>4, <2>7 DEF Invariant, IInv
<1>9. CASE ~(attempt < CatchUpAttempts)
  <2>1. CloseConnection /\ buffer' = None /\ UNCHANGED attempt  BY <1>2, <1>9 DEF TryAgain
  <2>2. /\ phase' = "off" /\ ours' = FALSE /\ events' = FALSE /\ answer' = None /\ request' = None
    BY <2>1 DEF CloseConnection
  <2>3. chunk' = <<>>  BY <1>3, <1>4
  <2>4. Stream' = <<>> /\ Lines' /\ Bounded'  BY <1>1, <2>1, <2>3, Closed, Basics
  <2>5. Link'  BY <1>3, <2>2, <2>4, Gone
  <2>6. Paging'  BY <2>2 DEF Paging
  <2>7. ConnType'  BY <2>2 DEF ConnType
  <2>8. CatchUpType'  BY <1>1, <1>3, <1>4, <2>1, <2>2 DEF CatchUpType, TypeOK
  <2>9. RestType'  BY <1>1, <1>4, <2>2 DEF RestType, TypeOK
  <2>10. TypeOK'  BY <1>1, <1>4, <2>4, <2>7, <2>8, <2>9, TypeParts, TypeKept
  <2>11. QED  BY <1>7, <2>5, <2>6, <2>10 DEF Invariant, IInv
<1>10. QED  BY <1>8, <1>9

(* The held-back events are handed to the listeners, and the link is live.   *)
LEMMA HandsOver ==
  ASSUME Invariant, Subscribed
  PROVE  /\ Link' /\ History' /\ lastSeq \in Nat /\ lastSeq' \in lastSeq..Len(hist) /\ Len(hist) \in 0..MaxSeq
         /\ heard' = heard \cup (lastSeq+1..lastSeq')
         /\ knownAsks' \subseteq Ask /\ exitTold' \in {exitTold, "exit"} /\ resumed' = None /\ phase = "subscribe"
<1>1. TypeOK /\ Link /\ Paging /\ History  BY DEF Invariant, IInv
<1>2. /\ Resume("subscribe") /\ resumed.status = "ok"
      /\ Deliver({buffer[i] : i \in DOMAIN buffer})
      /\ buffer' = None /\ phase' = "live" /\ ours' = TRUE
      /\ UNCHANGED <<hostVars, connVars, attempt, chunk, snap, paged, shown, losses>>
  BY DEF Subscribed
<1>3. /\ phase = "subscribe" /\ Waiting /\ resumed' = None /\ request = None /\ answer = None
      /\ RepliesIn(Stream) = {} /\ ~Refused
  BY <1>1, <1>2, Resumes
<1>4. UNCHANGED <<hist, hostUp, tombstone, events, answer, queue, request, wire, chunk, snap>>
  BY <1>2 DEF hostVars, connVars
<1>5. Stream' = Stream  BY <1>4 DEF Stream
<1>6. Streaming /\ ~Before  BY <1>3 DEF Streaming, Before
<1>7. buffer # None /\ buffer \in Seq(1..MaxSeq) /\ Len(buffer) \in Nat /\ DOMAIN buffer = 1..Len(buffer)
  <2>1. buffer # None  BY <1>1, <1>3 DEF Link, Pipe
  <2>2. buffer \in Seq(1..MaxSeq) /\ Len(buffer) \in Nat  BY <1>1, <2>1, Basics
  <2>3. QED  BY <2>1, <2>2, LenProperties
<1>8. /\ \A i \in 1..Len(buffer) : buffer[i] = lastSeq + i /\ buffer[i] <= Len(hist)
      /\ Held = Len(buffer)
  BY <1>1, <1>3, <1>6, <1>7 DEF Link, Follows, Held
<1> DEFINE m == lastSeq + Len(buffer)
           S == {buffer[i] : i \in DOMAIN buffer}
<1>9. lastSeq \in Nat /\ Len(hist) \in 0..MaxSeq /\ lastSeq <= Len(hist) /\ MaxSeq \in Nat
  BY <1>1, Basics, NoneIsNone DEF History
<1>10. m \in lastSeq..Len(hist)
  <2>1. CASE Len(buffer) = 0  BY <1>9, <2>1
  <2>2. CASE Len(buffer) # 0
    <3>1. Len(buffer) \in 1..Len(buffer)  BY <1>7, <2>2
    <3>2. buffer[Len(buffer)] = lastSeq + Len(buffer) /\ buffer[Len(buffer)] <= Len(hist)  BY <1>8, <3>1
    <3>3. QED  BY <1>7, <1>9, <3>2
  <2>3. QED  BY <2>1, <2>2
<1>11. {s \in S : s > lastSeq} = lastSeq+1..m
  <2>1. \A s \in S : s \in lastSeq+1..m /\ s > lastSeq
    <3>1. TAKE s \in S
    <3>2. PICK i \in 1..Len(buffer) : s = buffer[i]  BY <1>7
    <3>3. s = lastSeq + i  BY <1>8, <3>2
    <3>4. QED  BY <1>7, <1>9, <3>3
  <2>2. \A s \in lastSeq+1..m : s \in S
    <3>1. TAKE s \in lastSeq+1..m
    <3>2. s - lastSeq \in 1..Len(buffer) /\ lastSeq + (s - lastSeq) = s  BY <1>7, <1>9
    <3>3. buffer[s - lastSeq] = s  BY <1>8, <3>2
    <3>4. QED  BY <1>7, <3>2, <3>3
  <2>3. QED  BY <2>1, <2>2
<1>12. Deliver(S)  BY <1>2
<1> HIDE DEF m, S
<1>13. /\ History' /\ lastSeq' = m /\ heard' = heard \cup (lastSeq+1..m)
       /\ knownAsks' \subseteq Ask /\ exitTold' \in {exitTold, "exit"}
  <2>1. phase # "off"  BY <1>3
  <2>2. QED  BY <1>1, <1>4, <1>10, <1>11, <1>12, <2>1, Delivers
<1>14. ~Waiting'  BY <1>2 DEF Waiting, Method
<1>15. RepliesIn(Stream)' = {}  BY <1>3, <1>5 DEF RepliesIn
<1>16. Turns'  BY <1>3, <1>4, <1>14, <1>15 DEF Turns, Idle
<1>17. Replies'
  <2>1. \A r \in Line : r # None  BY NoneIsNone
  <2>2. \A r \in Line : ~OnItsWay(r)'  BY <1>3, <1>4, <1>15, <2>1 DEF OnItsWay
  <2>3. QED  BY <1>3, <1>4, <2>2 DEF Replies
<1>18. Streaming' /\ ~Before'  BY <1>2, <1>3, <1>4 DEF Streaming, Before
<1>19. Pipe'
  <2>1. ResyncLast(Stream)'  BY <1>1, <1>5 DEF Link, Pipe, ResyncLast
  <2>2. events' => \A i \in 1..Len(Stream)' : Stream'[i].kind # "resync"  BY <1>1, <1>4, <1>5 DEF Link, Pipe
  <2>3. QED  BY <1>2, <1>14, <1>18, <2>1, <2>2 DEF Pipe
<1>20. Follows'
  <2>1. (lastSeq + Held)' = lastSeq + Held
    <3>1. lastSeq + Held = m /\ m \in Nat  BY <1>8, <1>9, <1>10 DEF m
    <3>2. Held' = 0  BY <1>2 DEF Held
    <3>3. QED  BY <1>13, <3>1, <3>2
  <2>2. \A i : Ahead(Stream, i)' = Ahead(Stream, i)  BY <1>5 DEF Ahead, RepliesIn
  <2>3. AtMost(Stream, Len(hist))'  BY <1>1, <1>4, <1>5 DEF Link, Follows, AtMost
  <2>4. Following(Stream, lastSeq + Held)  BY <1>1, <1>6 DEF Link, Follows
  <2>5. Following(Stream, lastSeq + Held)'  BY <1>5, <2>1, <2>2, <2>4 DEF Following, Ahead, RepliesIn
  <2>6. events => lastSeq + Held + Len(Stream) - Ahead(Stream, Len(Stream)+1) = Len(hist)
    BY <1>1, <1>6 DEF Link, Follows
  <2>7. Ahead(Stream, Len(Stream)+1)' = Ahead(Stream, Len(Stream)+1)  BY <1>5, <2>2 DEF Ahead, RepliesIn
  <2>8. events' => (lastSeq + Held)' + Len(Stream)' - Ahead(Stream, Len(Stream)+1)' = Len(hist)'
    BY <1>4, <1>5, <2>1, <2>6, <2>7
  <2>9. QED  BY <1>2, <1>14, <2>3, <2>5, <2>8 DEF Follows
<1>21. QED  BY <1>3, <1>9, <1>10, <1>13, <1>16, <1>17, <1>19, <1>20 DEF Link

(* The client is subscribed, and what was held back is handed over.          *)
LEMMA SubscribedStep ==
  ASSUME Invariant, Subscribed
  PROVE  Invariant'
<1>1. TypeOK /\ Link /\ Paging /\ History  BY DEF Invariant, IInv
<1>2. /\ buffer' = None /\ phase' = "live" /\ ours' = TRUE /\ connectedOnce' = TRUE
      /\ UNCHANGED <<hostVars, connVars, attempt, chunk, snap, paged, shown, losses>>
  BY DEF Subscribed
<1>3. /\ Link' /\ History' /\ lastSeq \in Nat /\ lastSeq' \in lastSeq..Len(hist) /\ Len(hist) \in 0..MaxSeq
      /\ heard' = heard \cup (lastSeq+1..lastSeq')
      /\ knownAsks' \subseteq Ask /\ exitTold' \in {exitTold, "exit"} /\ resumed' = None
  BY HandsOver
<1>4. Paging'  BY <1>2 DEF Paging
<1>5. ViewType'
  <2>1. lastSeq' \in 0..MaxSeq /\ lastSeq+1..lastSeq' \subseteq 1..MaxSeq  BY <1>3, NoneIsNone
  <2>2. QED  BY <1>1, <1>3, <2>1 DEF ViewType, TypeOK
<1>6. CatchUpType'  BY <1>1, <1>2, <1>3 DEF CatchUpType, TypeOK
<1>7. RestType'  BY <1>1, <1>2 DEF RestType, TypeOK
<1>8. TypeOK'  BY <1>1, <1>2, <1>5, <1>6, <1>7, TypeParts, TypeKept DEF connVars
<1>9. QED  BY <1>3, <1>4, <1>8 DEF Invariant, IInv

-----------------------------------------------------------------------------
(* The invariant of every run.                                               *)

(* The invariant, from the initial state on.                                 *)
LEMMA InvariantInit == Init => Invariant
<1> SUFFICES ASSUME Init PROVE Invariant  OBVIOUS
<1>1. TypeOK
  <2>1. <<>> \in Seq(Body) /\ <<>> \in Seq(Line) /\ Len(<<>>) = 0  BY EmptySeq
  <2>2. 0 \in 0..MaxSeq /\ 0 \in 0..MaxLosses /\ 1 \in 1..CatchUpAttempts  BY NoneIsNone DEF CatchUpAttempts
  <2>3. HostType
    <3>1. hist = <<>> /\ hostUp = TRUE /\ tombstone = FALSE  BY DEF Init
    <3>2. Len(hist) = 0 /\ 0 <= MaxSeq  BY <2>1, <3>1, NoneIsNone
    <3>3. QED  BY <2>1, <3>1, <3>2 DEF HostType
  <2>4. ConnType /\ ViewType  BY <2>2 DEF Init, ConnType, ViewType
  <2>5. CatchUpType /\ RestType  BY <2>2 DEF Init, CatchUpType, RestType
  <2>6. Lines
    <3>1. queue = <<>> /\ wire = <<>> /\ chunk = <<>>  BY DEF Init
    <3>2. QED  BY <2>1, <3>1 DEF Lines
  <2>7. Bounded  BY NoneIsNone DEF Init, Bounded
  <2>8. QED  BY <2>3, <2>4, <2>5, <2>6, <2>7, TypeParts
<1>2. Stream = <<>> /\ Len(Stream) = 0 /\ RepliesIn(Stream) = {}
  <2>1. <<>> \o <<>> = <<>> /\ Len(<<>>) = 0 /\ 1..0 = {}  BY ConcatEmptySeq, EmptySeq
  <2>2. Stream = <<>>  BY <2>1 DEF Init, Stream
  <2>3. QED  BY <2>1, <2>2 DEF RepliesIn
<1>3. \A i \in 1..Len(Stream) : FALSE  BY <1>2
<1>4. ~Waiting /\ \A r \in Line : ~OnItsWay(r)
  BY <1>2, NoneIsNone DEF Init, Waiting, Method, OnItsWay
<1>5. Turns /\ Replies  BY <1>2, <1>4 DEF Init, Turns, Idle, Replies
<1>6. ~Streaming  BY DEF Init, Streaming
<1>7. Pipe  BY <1>2, <1>3, <1>4, <1>6 DEF Init, Pipe, ResyncLast
<1>8. Follows  BY <1>3, <1>4, <1>6 DEF Follows, AtMost
<1>9. Paging  BY DEF Init, Paging
<1>10. History
  <2>1. Len(hist) = 0 /\ lastSeq = 0 /\ \A i \in 1..0 : FALSE  BY EmptySeq DEF Init
  <2>2. HostAsks(hist, lastSeq) = {} /\ ~ExitIn(hist, lastSeq)  BY <2>1 DEF HostAsks, AsksAfter, ExitIn
  <2>3. QED  BY <2>1, <2>2, NoneIsNone DEF Init, History
<1>11. QED  BY <1>1, <1>5, <1>7, <1>8, <1>9, <1>10 DEF Invariant, IInv, Link

(* It is about the variables alone.                                          *)
LEMMA Stutter ==
  ASSUME Invariant, UNCHANGED vars
  PROVE  Invariant'
<1>1. TypeOK /\ Link /\ Paging /\ History  BY DEF Invariant, IInv
<1>2. UNCHANGED <<hist, hostUp, tombstone, lastSeq, knownAsks, exitTold, phase, snap, paged, answer, resumed, request,
                  buffer, events, ours, chunk, wire, queue>>
  BY DEF vars, hostVars, connVars, viewVars, linkVars
<1>3. Link'
  <2>1. Stream' = Stream  BY <1>2 DEF Stream
  <2>2. Len(hist)' = Len(hist) /\ Len(hist)' \in Nat  BY <1>1, <1>2, Basics, NoneIsNone
  <2>3. QED  BY <1>1, <1>2, <2>1, <2>2, Unheard
<1>4. Paging' /\ History'  BY <1>1, <1>2, NotPaging, NothingTold
<1>5. TypeOK'  BY <1>1, TypeParts, TypeKept DEF vars, connVars, linkVars
<1>6. QED  BY <1>3, <1>4, <1>5 DEF Invariant, IInv

(* Every step keeps it, one case for each action.                            *)
LEMMA InvariantStep == Invariant /\ [Next]_vars => Invariant'
<1> SUFFICES ASSUME Invariant, [Next]_vars PROVE Invariant'  OBVIOUS
<1>1. CASE \E body \in Body : Emit(body)  BY <1>1, EmitStep
<1>2. CASE HostLeaves \/ HostDies  BY <1>2, HostEnds
<1>3. CASE Serve  BY <1>3, ServeStep
<1>4. CASE Respond \/ Drain \/ ReadChunk  BY <1>4, CarryStep
<1>5. CASE Connect  BY <1>5, ConnectStep
<1>6. CASE HostGone  BY <1>6, HostGoneStep
<1>7. CASE LoseConnection  BY <1>7, LoseStep
<1>8. CASE Dispatch  BY <1>8, DispatchStep
<1>9. CASE Continue
  <2>1. CASE GotSnapshot  BY <2>1, GotSnapshotStep
  <2>2. CASE GotPage  BY <2>2, GotPageStep
  <2>3. CASE GotLastPage  BY <2>3, GotLastPageStep
  <2>4. CASE EventsGone \/ SubscribeRefused  BY <2>4, TryAgainStep
  <2>5. CASE Subscribed  BY <2>5, SubscribedStep
  <2>6. QED  BY <1>9, <2>1, <2>2, <2>3, <2>4, <2>5 DEF Continue
<1>10. CASE Finished \/ UNCHANGED vars  BY <1>10, Stutter DEF Finished
<1>11. QED  BY <1>1, <1>2, <1>3, <1>4, <1>5, <1>6, <1>7, <1>8, <1>9, <1>10 DEF Next

(* So it holds for ever.                                                     *)
LEMMA InvariantHolds == Spec => []Invariant
BY InvariantInit, InvariantStep, PTL DEF Spec

(* Every variable of both ends, the socket and the catch-up keeps its type,  *)
(* and a line waits in the queue only behind a socket that asked to wait     *)
(* (outQueue.ts, hostClient.ts:94-140).                                      *)
THEOREM TypeCorrect == Spec => []TypeOK
<1>1. Invariant => TypeOK  BY DEF Invariant
<1>2. QED  BY <1>1, InvariantHolds, PTL

(* Whatever was dropped, evicted, replayed or lost, a subscribed client with *)
(* nothing left to read agrees with its host: the newest event, every        *)
(* pending ask, and whether it is over (hostClient.ts:9-19, 508-529).        *)
THEOREM AgreesWhenQuietHolds == Spec => []AgreesWhenQuiet
<1>1. Invariant => AgreesWhenQuiet
  <2>1. SUFFICES ASSUME Invariant, Quiet, events
                 PROVE  /\ lastSeq = Len(hist) /\ knownAsks = HostAsks(hist, Len(hist))
                        /\ exitTold = None <=> ~Exited(hist)
    BY DEF AgreesWhenQuiet
  <2>2. TypeOK /\ Link /\ History  BY <2>1 DEF Invariant, IInv
  <2>3. phase = "live" /\ Stream = <<>>  BY <2>1, <2>2, Basics, StreamType DEF Quiet, AtRest
  <2>4. Len(Stream) = 0 /\ RepliesIn(Stream) = {}
    <3>1. Len(<<>>) = 0 /\ 1..0 = {}  BY EmptySeq
    <3>2. QED  BY <2>3, <3>1 DEF RepliesIn
  <2>5. Streaming /\ Held = 0  BY <2>2, <2>3 DEF Streaming, Held, Link, Pipe
  <2>6. lastSeq + Held + Len(Stream) - Ahead(Stream, Len(Stream)+1) = Len(hist)
    BY <2>1, <2>2, <2>5 DEF Link, Follows
  <2>7. Ahead(Stream, Len(Stream)+1) = 0  BY <2>4 DEF Ahead
  <2>8. lastSeq \in Nat  BY <2>2, Basics, NoneIsNone
  <2>9. lastSeq = Len(hist)  BY <2>4, <2>5, <2>6, <2>7, <2>8
  <2>10. knownAsks = HostAsks(hist, lastSeq) /\ (exitTold # None <=> ExitIn(hist, lastSeq))
    BY <2>2, <2>3 DEF History
  <2>11. Exited(hist) <=> ExitIn(hist, Len(hist))
    <3>1. DOMAIN hist = 1..Len(hist)  BY <2>2, LenProperties DEF TypeOK
    <3>2. QED  BY <3>1 DEF Exited, ExitIn
  <2>12. QED  BY <2>9, <2>10, <2>11
<1>2. QED  BY <1>1, InvariantHolds, PTL

(* A view told its host was lost was told the truth, and one told of an exit *)
(* holds no ask that could still be answered (hostClient.ts:355-364,         *)
(* 615-624).                                                                 *)
THEOREM ExitIsFinalHolds == Spec => []ExitIsFinal
<1>1. Invariant => ExitIsFinal  BY DEF Invariant, IInv, History, ExitIsFinal
<1>2. QED  BY <1>1, InvariantHolds, PTL

-----------------------------------------------------------------------------
(* What the view is promised (ViewFeed).                                     *)

Over == Exited(hist) \/ ~hostUp
WasTold == exitTold # None

(* An exit among the first events is one of them all.                        *)
LEMMA ExitWithin ==
  ASSUME NEW h \in Seq(Body), NEW n \in Nat, n <= Len(h), ExitIn(h, n)
  PROVE  Exited(h)
<1>1. DOMAIN h = 1..Len(h) /\ Len(h) \in Nat  BY LenProperties
<1>2. QED  BY <1>1 DEF ExitIn, Exited

(* A step that neither ends the host nor tells the view anything.            *)
LEMMA NothingHeard ==
  ASSUME UNCHANGED <<hist, hostUp, shown, lastSeq, heard, exitTold>>
  PROVE  UNCHANGED Feed!vars
<1>1. Evicted(hist)' = Evicted(hist) /\ (Exited(hist)' <=> Exited(hist)) /\ Len(hist)' = Len(hist)
  BY DEF Evicted, Exited
<1>2. QED  BY <1>1 DEF Feed!vars

(* A step that tells the view of some events, or of the end.                 *)
LEMMA Heard ==
  ASSUME Invariant, Invariant', UNCHANGED <<hist, hostUp, shown>>,
         NEW to \in lastSeq..Len(hist), NEW given \in SUBSET (lastSeq+1..to),
         \A s \in lastSeq+1..to : s \in given \/ s <= Evicted(hist) \/ s <= shown,
         lastSeq' = to, heard' = heard \cup given, WasTold => WasTold'
  PROVE  Feed!Hear
<1>1. Evicted(hist)' = Evicted(hist) /\ (Exited(hist)' <=> Exited(hist)) /\ Len(hist)' = Len(hist)
  BY DEF Evicted, Exited
<1>2. lastSeq \in Nat /\ Len(hist) \in Nat  BY Basics, NoneIsNone DEF Invariant
<1>3. given \in SUBSET (lastSeq+1..Len(hist)) /\ given \subseteq lastSeq+1..to  BY <1>2
<1>4. ASSUME WasTold' PROVE Over
  <2>1. CASE ~hostUp  BY <2>1 DEF Over
  <2>2. CASE hostUp
    <3>1. History' /\ hist \in Seq(Body)  BY DEF Invariant, IInv, TypeOK
    <3>2. hostUp'  BY <2>2
    <3>3. ExitIn(hist, lastSeq)' /\ lastSeq' <= Len(hist)'  BY <1>4, <3>1, <3>2 DEF History, WasTold
    <3>4. ExitIn(hist, to) /\ to <= Len(hist) /\ to \in Nat  BY <1>1, <1>2, <3>3 DEF ExitIn
    <3>5. QED  BY <3>1, <3>4, ExitWithin DEF Over
  <2>3. QED  BY <2>1, <2>2
<1>5. QED  BY <1>1, <1>3, <1>4 DEF Feed!Hear, WasTold, Over

(* The host emits, and what falls off its ring can no longer be had.         *)
LEMMA EmitsForTheFeed ==
  ASSUME Invariant, NEW body \in Body, Emit(body)
  PROVE  Feed!Emit
<1>1. TypeOK /\ hist \in Seq(Body)  BY DEF Invariant, TypeOK
<1>2. hostUp /\ ~Exited(hist) /\ Len(hist) < MaxSeq /\ hist' = Append(hist, body)  BY DEF Emit
<1>3. UNCHANGED <<shown, lastSeq, heard, exitTold>>  BY DEF Emit, viewVars, linkVars
<1>4. Len(hist) \in Nat /\ Len(hist)' = Len(hist) + 1  BY <1>1, <1>2, AppendProperties, LenProperties
<1>5. Evicted(hist)' \in Evicted(hist)..Len(hist)  BY <1>4, NoneIsNone DEF Evicted, Max2
<1>6. QED  BY <1>2, <1>3, <1>4, <1>5 DEF Feed!Emit

(* An adopting client reads the transcript as it connects.                   *)
LEMMA ConnectsForTheFeed ==
  ASSUME Invariant, Connect
  PROVE  Feed!ReadTranscript \/ UNCHANGED Feed!vars
<1>1. TypeOK /\ hist \in Seq(Body)  BY DEF Invariant, TypeOK
<1>2. UNCHANGED <<hist, hostUp, lastSeq, heard, exitTold>>  BY DEF Connect, hostVars, viewVars
<1>3. CASE Adopting /\ lastSeq = 0
  <2>1. DOMAIN hist = 1..Len(hist) /\ Len(hist) \in Nat  BY <1>1, LenProperties
  <2>2. shown' \in {0} \cup {s \in DOMAIN hist : hist[s].type = "message"}  BY <1>3 DEF Connect
  <2>3. shown' \in 0..Len(hist)  BY <2>1, <2>2
  <2>4. Evicted(hist)' = Evicted(hist) /\ (Exited(hist)' <=> Exited(hist)) /\ Len(hist)' = Len(hist)
    BY <1>2 DEF Evicted, Exited
  <2>5. QED  BY <1>2, <1>3, <2>3, <2>4 DEF Feed!ReadTranscript
<1>4. CASE ~(Adopting /\ lastSeq = 0)
  <2>1. UNCHANGED shown  BY <1>4 DEF Connect
  <2>2. QED  BY <1>2, <2>1, NothingHeard
<1>5. QED  BY <1>3, <1>4

(* The last page passes over no event that the host still has and the        *)
(* transcript does not show.                                                 *)
LEMMA LastPageForTheFeed ==
  ASSUME Invariant, Invariant', GotLastPage
  PROVE  Feed!Hear
<1> DEFINE to == resumed.to
           p == paged.from
           fresh == {s \in p+1..to : s > lastSeq}
           given == HandedOver(fresh)
<1>1. /\ to \in lastSeq..Len(hist) /\ lastSeq \in Nat /\ Len(hist) \in 0..MaxSeq
      /\ p <= Max2(lastSeq, Evicted(hist)) /\ p \in Nat /\ lastSeq' = to
      /\ exitTold' = IF exitTold = None /\ ExitIn(hist, to) THEN "exit" ELSE exitTold
      /\ heard' = heard \cup given
  BY LastPage
<1>2. UNCHANGED <<hist, hostUp, shown>>  BY DEF GotLastPage, hostVars
<1>3. Evicted(hist) \in Nat  BY Basics DEF Invariant
<1>4. shown \in Nat /\ MaxSeq \in Nat  BY NoneIsNone DEF Invariant, TypeOK
<1> HIDE DEF to, p
<1>5. to \in Nat  BY <1>1
<1>6. fresh \subseteq lastSeq+1..to  BY <1>1, <1>5
<1>7. ASSUME NEW s \in lastSeq+1..to, ~(s <= Evicted(hist)) PROVE s \in fresh
  BY <1>1, <1>3, <1>5, <1>7 DEF Max2
<1> HIDE DEF fresh
<1>8. given \in SUBSET (lastSeq+1..to)  BY <1>6 DEF HandedOver
<1>9. \A s \in lastSeq+1..to : s \in given \/ s <= Evicted(hist) \/ s <= shown
  <2>1. \A s \in lastSeq+1..to : s \in fresh => s \in given \/ s <= shown  BY <1>1, <1>4, <1>5 DEF HandedOver
  <2>2. QED  BY <1>7, <2>1
<1>10. WasTold => WasTold'  BY <1>1, NoneIsNone DEF WasTold
<1> HIDE DEF given
<1>11. QED  BY <1>1, <1>2, <1>8, <1>9, <1>10, Heard

(* Every step of the link is one the promise allows, or none at all.         *)
LEMMA FeedStep == Invariant /\ Invariant' /\ [Next]_vars => [Feed!Next]_(Feed!vars)
<1> SUFFICES ASSUME Invariant, Invariant', [Next]_vars
             PROVE  Feed!Next \/ UNCHANGED Feed!vars
  OBVIOUS
<1>1. TypeOK /\ Link /\ History  BY DEF Invariant, IInv
<1>2. lastSeq \in Nat /\ Len(hist) \in Nat  BY <1>1, Basics, NoneIsNone
<1>3. CASE \E body \in Body : Emit(body)  BY <1>3, EmitsForTheFeed DEF Feed!Next
<1>4. CASE HostDies
  <2>1. hostUp /\ ~Exited(hist) /\ hostUp' = FALSE /\ UNCHANGED <<hist, shown, lastSeq, heard, exitTold>>
    BY <1>4 DEF HostDies, viewVars, linkVars
  <2>2. Evicted(hist)' = Evicted(hist) /\ Len(hist)' = Len(hist)  BY <2>1 DEF Evicted
  <2>3. Feed!HostDies  BY <2>1, <2>2 DEF Feed!HostDies
  <2>4. QED  BY <2>3 DEF Feed!Next
<1>5. CASE HostLeaves
  <2>1. Exited(hist) /\ UNCHANGED <<hist, shown, lastSeq, heard, exitTold>>
    BY <1>5 DEF HostLeaves, viewVars, linkVars
  <2>2. Evicted(hist)' = Evicted(hist) /\ Len(hist)' = Len(hist) /\ Exited(hist)' /\ Exited(hist)
    BY <2>1 DEF Evicted, Exited
  <2>3. QED  BY <2>1, <2>2 DEF Feed!vars
<1>6. CASE Serve \/ Respond \/ Drain \/ LoseConnection \/ ReadChunk
  BY <1>6, NothingHeard DEF Serve, ServeSnapshot, ServeEvents, ServeSubscribe, Respond, Drain, LoseConnection,
                            ReadChunk, hostVars, viewVars, linkVars
<1>7. CASE Connect  BY <1>7, ConnectsForTheFeed DEF Feed!Next
<1>8. CASE HostGone
  <2>1. UNCHANGED <<hist, hostUp, shown, lastSeq, heard>> /\ exitTold' \in {"exit", "lost"}
    BY <1>8 DEF HostGone, hostVars, linkVars
  <2>2. WasTold'  BY <2>1, NoneIsNone DEF WasTold
  <2>3. lastSeq \in lastSeq..Len(hist) /\ lastSeq+1..lastSeq = {} /\ {} \in SUBSET (lastSeq+1..lastSeq)
    BY <1>1, <1>2 DEF History
  <2>4. lastSeq' = lastSeq /\ heard' = heard \cup {}  BY <2>1
  <2>5. Feed!Hear  BY <2>1, <2>2, <2>3, <2>4, Heard
  <2>6. QED  BY <2>5 DEF Feed!Next
<1>9. CASE DispatchEvent /\ buffer = None
  <2>1. /\ lastSeq' = lastSeq + 1 /\ lastSeq' <= Len(hist) /\ heard' = heard \cup {lastSeq'}
        /\ exitTold' \in {exitTold, "exit"}
    BY <1>1, <1>9, HandsOn
  <2>2. UNCHANGED <<hist, hostUp, shown>>  BY <1>9 DEF DispatchEvent, hostVars
  <2>3. WasTold => WasTold'  BY <2>1, NoneIsNone DEF WasTold
  <2>4. lastSeq+1 \in lastSeq..Len(hist) /\ {lastSeq+1} \in SUBSET (lastSeq+1..lastSeq+1)
        /\ \A s \in lastSeq+1..lastSeq+1 : s \in {lastSeq+1}
    BY <1>2, <2>1
  <2>5. heard' = heard \cup {lastSeq+1}  BY <2>1
  <2>6. Feed!Hear  BY <2>1, <2>2, <2>3, <2>4, <2>5, Heard
  <2>7. QED  BY <2>6 DEF Feed!Next
<1>10. CASE (DispatchEvent /\ buffer # None) \/ DispatchReply \/ DispatchResync
  BY <1>10, NothingHeard DEF DispatchEvent, DispatchReply, DispatchResync, hostVars, viewVars
<1>11. CASE GotSnapshot \/ GotPage \/ EventsGone \/ SubscribeRefused
  BY <1>11, NothingHeard DEF GotSnapshot, GotPage, EventsGone, SubscribeRefused, TryAgain, hostVars, viewVars
<1>12. CASE GotLastPage  BY <1>12, LastPageForTheFeed DEF Feed!Next
<1>13. CASE Subscribed
  <2>1. /\ lastSeq' \in lastSeq..Len(hist) /\ heard' = heard \cup (lastSeq+1..lastSeq')
        /\ exitTold' \in {exitTold, "exit"}
    BY <1>13, HandsOver
  <2>2. UNCHANGED <<hist, hostUp, shown>>  BY <1>13 DEF Subscribed, hostVars
  <2>3. WasTold => WasTold'  BY <2>1, NoneIsNone DEF WasTold
  <2>4. lastSeq+1..lastSeq' \in SUBSET (lastSeq+1..lastSeq')  OBVIOUS
  <2>5. Feed!Hear  BY <2>1, <2>2, <2>3, <2>4, Heard
  <2>6. QED  BY <2>5 DEF Feed!Next
<1>14. CASE Finished \/ UNCHANGED vars
  BY <1>14, NothingHeard DEF Finished, vars, hostVars, viewVars, linkVars
<1>15. QED  BY <1>3, <1>4, <1>5, <1>6, <1>7, <1>8, <1>9, <1>10, <1>11, <1>12, <1>13, <1>14 DEF Next, Dispatch, Continue

(* The link implements what the view is promised: every event once and in    *)
(* order, one passed over only if it was evicted or the transcript shows it, *)
(* and no end told that has not happened (hostClient.ts:1-26,                *)
(* sessionProtocol.ts:249-294).                                              *)
THEOREM ImplementsFeed == Spec => FeedSpec
<1>1. Init => Feed!Init
  <2>1. SUFFICES ASSUME Init PROVE Feed!Init  OBVIOUS
  <2>2. Len(<<>>) = 0 /\ DOMAIN <<>> = {}  BY EmptySeq
  <2>3. hist = <<>> /\ hostUp = TRUE /\ shown = 0 /\ lastSeq = 0 /\ heard = {} /\ exitTold = None
    BY <2>1 DEF Init
  <2>4. Evicted(hist) = 0 /\ Len(hist) = 0 /\ ~Exited(hist)
    BY <2>2, <2>3, NoneIsNone DEF Evicted, Max2, Exited
  <2>5. QED  BY <2>3, <2>4 DEF Feed!Init
<1>2. QED  BY <1>1, FeedStep, InvariantHolds, PTL DEF Spec, FeedSpec, Feed!Spec
=====
