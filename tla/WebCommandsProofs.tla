-------------------------- MODULE WebCommandsProofs --------------------------
(* Proofs about WebCommands, for any number of commands, sockets and        *)
(* envelopes kept, and a cache of any size.                                 *)
EXTENDS WebCommands, SequenceTheorems, WellFoundedInduction, TLAPS

(* A command that needs no more sending: given up, acted on, or let through *)
(* where nobody acts on it.                                                 *)
Acted(c) == \E i \in 1..Len(admitted) : admitted[i] = [of |-> c, acted |-> TRUE]
Done(c) == c \in dropped \/ Swallowed(c) \/ Acted(c)

(* A socket is untouched until its hello, and its hello comes once.         *)
Sockets ==
  /\ \A k \in Conns : k > conns => up[k] = <<>> /\ acks[k] = <<>> /\ ~open[k] /\ ~late[k]
  /\ \A k \in Conns : late[k] => ~open[k]
  /\ live => conn # 0 /\ met
  /\ conn # 0 /\ ~live => up[conn] = <<>>
  /\ \A k \in Conns : \A i \in 1..Len(down[k]) :
       down[k][i].type = "hello" => k = conn /\ ~live /\ i = 1

(* Until the first hello nothing was sent, and the `ready` is first in line. *)
Unmet ==
  ~met => /\ \A k \in Conns : /\ up[k] = <<>> /\ acks[k] = <<>>
                              /\ \A i \in 1..Len(down[k]) : down[k][i].type = "hello"
          /\ running = {}
          /\ Ready \in dropped \/ ( /\ Len(unacked) >= 1 /\ unacked[1] = Ready
                                    /\ \A i \in 2..Len(unacked) : unacked[i] # Ready )

(* The order of the commands in a list, and what is in it.                  *)
Rising(s) == \A i, j \in 1..Len(s) : i < j /\ s[i] # Ready /\ s[j] # Ready => s[i] < s[j]
Within(s, n) == \A i \in 1..Len(s) : s[i] <= n
Has(s, x) == \E i \in 1..Len(s) : s[i] = x

(* What is kept and what is sent goes up; nothing is passed over.           *)
Order ==
  /\ Rising(unacked) /\ Within(unacked, posted)
  /\ \A k \in Conns : Rising(up[k]) /\ Within(up[k], posted)
  /\ \A c \in 1..posted : Done(c) \/ Has(unacked, c)

Gapless ==
  /\ \A k \in Conns : open[k] \/ late[k] =>
       \A i \in 1..Len(up[k]) : up[k][i] # Ready =>
         \A c \in 1..up[k][i]-1 : Done(c) \/ \E j \in 1..i-1 : up[k][j] = c
  /\ live /\ (open[conn] \/ late[conn]) => \A c \in 1..posted : Done(c) \/ Has(up[conn], c)

(* What is acknowledged, remembered or running is done.                     *)
Acknowledged ==
  /\ \A c \in Commands, k \in Conns : Has(acks[k], c) => Done(c)
  /\ \A c \in Commands, k \in Conns : \A i \in 1..Len(down[k]) :
       down[k][i].type = "ack" /\ c \in down[k][i].ids => Done(c)
  /\ \A c \in Commands, k \in Conns : Has(cache, <<c, k>>) => Done(c)
  /\ \A c \in Commands, k \in Conns : <<c, k>> \in running => Acted(c)

(* The cache is the newest of what was let through, but for what is old;    *)
(* and a socket does not carry what was let through on it.                  *)
Remembered ==
  \A i \in 1..Len(admitted) :
     \/ \E e \in old : e[1] = admitted[i].of
     \/ Len(admitted) - i >= CacheMax
     \/ \E p \in 1..Len(cache) : cache[p][1] = admitted[i].of /\ Len(cache) - p <= Len(admitted) - i

Entry(e) == e \in old \/ Has(cache, e)
Carried ==
  \A c \in Commands, k \in Conns : Entry(<<c, k>>) =>
    /\ c <= posted /\ k <= conns /\ (k = conn => live)
    /\ \A i \in 1..Len(up[k]) : up[k][i] # Ready => c < up[k][i]

(* A pane's `ready` is ahead of every command its socket carries.           *)
ReadyFirst ==
  Ready \in dropped \/
    /\ \A c \in Commands, k \in Conns : <<c, k>> \in running => bound[k]
    /\ \A k \in Conns : open[k] =>
         \A i \in 1..Len(up[k]) : up[k][i] # Ready => bound[k] \/ \E j \in 1..i-1 : up[k][j] = Ready
    /\ live /\ open[conn] => bound[conn] \/ Has(up[conn], Ready)

-----------------------------------------------------------------------------
(* Filtering a list. The recursive function is reasoned about by the least  *)
(* index at which a claim fails: no theorem with an operator for a          *)
(* parameter is needed for that.                                            *)

LEMMA Least ==
  ASSUME NEW T, T \subseteq Nat, T # {}
  PROVE  \E n \in T : \A m \in T : n <= m
<1>1. IsWellFoundedOn(OpToRel(<, Nat), Nat)  BY NatLessThanWellFounded
<1>2. PICK n \in T : \A m \in T : ~(<<m, n>> \in OpToRel(<, Nat))  BY <1>1, WFMin
<1>3. \A m, k \in Nat : m < k => <<m, k>> \in OpToRel(<, Nat)  BY Zenon DEF OpToRel
<1>4. \A m \in T : ~(m < n)  BY <1>2, <1>3, Zenon
<1>5. \A m \in T : n <= m  BY <1>4
<1>6. QED  BY <1>5

(* The function is the one its equation describes.                          *)
LEMMA LeftEquation ==
  ASSUME NEW s, NEW ids, Len(s) \in Nat
  PROVE  Left(s, ids) = [i \in 0..Len(s) |->
           IF i = 0 THEN <<>>
           ELSE IF s[i] \in ids THEN Left(s, ids)[i-1] ELSE Append(Left(s, ids)[i-1], s[i])]
<1> DEFINE Def(f, n) == f = [i \in 0..n |-> IF i = 0 THEN <<>>
                                           ELSE IF s[i] \in ids THEN f[i-1] ELSE Append(f[i-1], s[i])]
           T == {n \in Nat : ~\E f : Def(f, n)}
<1>1. Left(s, ids) = CHOOSE f : Def(f, Len(s))  BY DEF Left
<1>2. T = {}
  <2>1. SUFFICES ASSUME T # {} PROVE FALSE  OBVIOUS
  <2>2. T \subseteq Nat  OBVIOUS
  <2>3. PICK n \in T : \A m \in T : n <= m
    <3> HIDE DEF T
    <3>1. QED  BY <2>1, <2>2, Least
  <2>4. n # 0
    <3>1. Def([i \in 0..0 |-> <<>>], 0)  OBVIOUS
    <3>2. QED  BY <3>1
  <2>5. n \in Nat \ {0} /\ n-1 \in Nat /\ n-1 \notin T
    <3> HIDE DEF T
    <3>1. QED  BY <2>2, <2>3, <2>4
  <2>6. PICK f : Def(f, n-1)  BY <2>5
  <2> DEFINE g == [i \in 0..n |-> IF i < n THEN f[i] ELSE IF s[i] \in ids THEN f[i-1] ELSE Append(f[i-1], s[i])]
             h == [i \in 0..n |-> IF i = 0 THEN <<>>
                                  ELSE IF s[i] \in ids THEN g[i-1] ELSE Append(g[i-1], s[i])]
  <2>7. ASSUME NEW i \in 0..n
        PROVE  g[i] = h[i]
    <3>1. CASE i < n
      <4>1. i \in 0..n-1 /\ g[i] = f[i] /\ (i # 0 => g[i-1] = f[i-1])  BY <2>5, <3>1
      <4>2. f[i] = IF i = 0 THEN <<>> ELSE IF s[i] \in ids THEN f[i-1] ELSE Append(f[i-1], s[i])
        BY <2>6, <4>1
      <4>3. QED  BY <4>1, <4>2
    <3>2. CASE i = n
      <4>1. g[i-1] = f[i-1]  BY <2>5, <3>2
      <4>2. g[i] = IF s[i] \in ids THEN f[i-1] ELSE Append(f[i-1], s[i])  BY <2>5, <3>2
      <4>3. QED  BY <2>5, <3>2, <4>1, <4>2
    <3>3. QED  BY <2>5, <3>1, <3>2
  <2>8. g = [i \in 0..n |-> g[i]] /\ h = [i \in 0..n |-> h[i]]  OBVIOUS
  <2>9. g = h
    <3> HIDE DEF g, h
    <3>1. QED  BY <2>7, <2>8
  <2>10. Def(g, n)
    <3> HIDE DEF g
    <3>1. QED  BY <2>9
  <2>11. QED  BY <2>3, <2>10
<1>3. \E f : Def(f, Len(s))  BY <1>2
<1>4. Def(Left(s, ids), Len(s))  BY <1>1, <1>3
<1>5. QED  BY <1>4

(* What is left of the first n: only what was there, all that is to stay    *)
(* and no further from the end, in the order it had.                        *)
OnlyStaying(w, s, ids, n) == \A q \in 1..Len(w) : \E p \in 1..n : w[q] = s[p] /\ s[p] \notin ids
AllStaying(w, s, ids, n) ==
  \A p \in 1..n : s[p] \notin ids => \E q \in 1..Len(w) : w[q] = s[p] /\ Len(w) - q <= n - p
SameOrder(w, s, n) ==
  \A q, r \in 1..Len(w) : q < r => \E p, o \in 1..n : p < o /\ w[q] = s[p] /\ w[r] = s[o]
Filters(w, s, ids, n) ==
  /\ Len(w) <= n
  /\ OnlyStaying(w, s, ids, n)
  /\ AllStaying(w, s, ids, n)
  /\ SameOrder(w, s, n)

LEMMA FiltersStep ==
  ASSUME NEW T, NEW s \in Seq(T), NEW ids, NEW w \in Seq(T), NEW n \in Nat, n < Len(s),
         Filters(w, s, ids, n)
  PROVE  /\ s[n+1] \in ids => Filters(w, s, ids, n+1)
         /\ s[n+1] \notin ids => Append(w, s[n+1]) \in Seq(T) /\ Filters(Append(w, s[n+1]), s, ids, n+1)
<1>1. Len(w) \in Nat /\ Len(s) \in Nat /\ s[n+1] \in T /\ \A p \in 1..n : p \in 1..n+1
  BY LenProperties, ElementOfSeq
<1>2. ASSUME s[n+1] \in ids
      PROVE  Filters(w, s, ids, n+1)
  <2>1. Len(w) <= n+1  BY <1>1 DEF Filters
  <2>2. ASSUME NEW q \in 1..Len(w)
        PROVE  \E p \in 1..n+1 : w[q] = s[p] /\ s[p] \notin ids
    <3>1. PICK p \in 1..n : w[q] = s[p] /\ s[p] \notin ids  BY DEF Filters, OnlyStaying
    <3>2. QED  BY <1>1, <3>1
  <2>3. ASSUME NEW p \in 1..n+1, s[p] \notin ids
        PROVE  \E q \in 1..Len(w) : w[q] = s[p] /\ Len(w) - q <= n+1 - p
    <3>1. p \in 1..n  BY <1>2, <2>3
    <3>2. PICK q \in 1..Len(w) : w[q] = s[p] /\ Len(w) - q <= n - p
      BY <2>3, <3>1 DEF Filters, AllStaying
    <3>3. Len(w) - q <= n+1 - p  BY <1>1, <3>1, <3>2
    <3>4. QED  BY <3>2, <3>3
  <2>4. ASSUME NEW q \in 1..Len(w), NEW r \in 1..Len(w), q < r
        PROVE  \E p, o \in 1..n+1 : p < o /\ w[q] = s[p] /\ w[r] = s[o]
    <3>1. PICK p \in 1..n, o \in 1..n : p < o /\ w[q] = s[p] /\ w[r] = s[o]
      BY <2>4 DEF Filters, SameOrder
    <3>2. p \in 1..n+1 /\ o \in 1..n+1  BY <1>1
    <3>3. QED  BY <3>1, <3>2
  <2>5. OnlyStaying(w, s, ids, n+1)  BY <2>2 DEF OnlyStaying
  <2>6. AllStaying(w, s, ids, n+1)  BY <2>3 DEF AllStaying
  <2>7. SameOrder(w, s, n+1)  BY <2>4 DEF SameOrder
  <2>8. QED  BY <2>1, <2>5, <2>6, <2>7 DEF Filters
<1>3. ASSUME s[n+1] \notin ids
      PROVE  Append(w, s[n+1]) \in Seq(T) /\ Filters(Append(w, s[n+1]), s, ids, n+1)
  <2> DEFINE v == Append(w, s[n+1])
  <2>1. /\ v \in Seq(T) /\ Len(v) = Len(w) + 1
        /\ \A q \in 1..Len(w) : v[q] = w[q]
        /\ v[Len(w)+1] = s[n+1]
    BY <1>1, AppendProperties
  <2> HIDE DEF v
  <2>2. Len(v) <= n+1  BY <1>1, <2>1 DEF Filters
  <2>3. ASSUME NEW q \in 1..Len(v)
        PROVE  \E p \in 1..n+1 : v[q] = s[p] /\ s[p] \notin ids
    <3>1. CASE q \in 1..Len(w)
      <4>1. PICK p \in 1..n : w[q] = s[p] /\ s[p] \notin ids  BY <3>1 DEF Filters, OnlyStaying
      <4>2. QED  BY <1>1, <2>1, <3>1, <4>1
    <3>2. CASE q = Len(w) + 1  BY <1>3, <2>1, <3>2
    <3>3. QED  BY <1>1, <2>1, <3>1, <3>2
  <2>4. ASSUME NEW p \in 1..n+1, s[p] \notin ids
        PROVE  \E q \in 1..Len(v) : v[q] = s[p] /\ Len(v) - q <= n+1 - p
    <3>1. CASE p \in 1..n
      <4>1. PICK q \in 1..Len(w) : w[q] = s[p] /\ Len(w) - q <= n - p
        BY <2>4, <3>1 DEF Filters, AllStaying
      <4>2. q \in 1..Len(v) /\ Len(v) - q <= n+1 - p  BY <1>1, <2>1, <4>1
      <4>3. QED  BY <2>1, <4>1, <4>2
    <3>2. CASE p = n+1
      <4>1. Len(w)+1 \in 1..Len(v) /\ Len(v) - (Len(w)+1) <= n+1 - p  BY <1>1, <2>1, <3>2
      <4>2. QED  BY <2>1, <3>2, <4>1
    <3>3. QED  BY <3>1, <3>2
  <2>5. ASSUME NEW q \in 1..Len(v), NEW r \in 1..Len(v), q < r
        PROVE  \E p, o \in 1..n+1 : p < o /\ v[q] = s[p] /\ v[r] = s[o]
    <3>1. q \in 1..Len(w)  BY <1>1, <2>1, <2>5
    <3>2. CASE r \in 1..Len(w)
      <4>1. PICK p \in 1..n, o \in 1..n : p < o /\ w[q] = s[p] /\ w[r] = s[o]
        BY <2>5, <3>1, <3>2 DEF Filters, SameOrder
      <4>2. QED  BY <1>1, <2>1, <3>1, <3>2, <4>1
    <3>3. CASE r = Len(w) + 1
      <4>1. PICK p \in 1..n : w[q] = s[p]  BY <3>1 DEF Filters, OnlyStaying
      <4>2. p < n+1 /\ n+1 \in 1..n+1 /\ p \in 1..n+1  BY <1>1
      <4>3. v[q] = s[p] /\ v[r] = s[n+1]  BY <2>1, <3>1, <3>3, <4>1
      <4>4. QED  BY <4>2, <4>3
    <3>4. QED  BY <1>1, <2>1, <3>2, <3>3
  <2>6. OnlyStaying(v, s, ids, n+1)  BY <2>3 DEF OnlyStaying
  <2>7. AllStaying(v, s, ids, n+1)  BY <2>4 DEF AllStaying
  <2>8. SameOrder(v, s, n+1)  BY <2>5 DEF SameOrder
  <2>9. Filters(v, s, ids, n+1)  BY <2>2, <2>6, <2>7, <2>8 DEF Filters
  <2>10. QED  BY <2>1, <2>9 DEF v
<1>4. QED  BY <1>2, <1>3

LEMMA WithoutFacts ==
  ASSUME NEW T, NEW s \in Seq(T), NEW ids
  PROVE  Without(s, ids) \in Seq(T) /\ Filters(Without(s, ids), s, ids, Len(s))
<1> DEFINE L(i) == Left(s, ids)[i]
           Good(i) == L(i) \in Seq(T) /\ Filters(L(i), s, ids, i)
           B == {i \in 0..Len(s) : ~Good(i)}
<1>1. Len(s) \in Nat  BY LenProperties
<1>2. /\ L(0) = <<>>
      /\ \A i \in 1..Len(s) : L(i) = IF s[i] \in ids THEN L(i-1) ELSE Append(L(i-1), s[i])
  <2>1. \A i \in 0..Len(s) : L(i) = IF i = 0 THEN <<>>
                                    ELSE IF s[i] \in ids THEN L(i-1) ELSE Append(L(i-1), s[i])
    <3>1. ASSUME NEW f, NEW i \in 0..Len(s),
                 f = [j \in 0..Len(s) |-> IF j = 0 THEN <<>>
                                          ELSE IF s[j] \in ids THEN f[j-1] ELSE Append(f[j-1], s[j])]
          PROVE  f[i] = IF i = 0 THEN <<>> ELSE IF s[i] \in ids THEN f[i-1] ELSE Append(f[i-1], s[i])
      BY <3>1
    <3>2. QED  BY <1>1, <3>1, LeftEquation
  <2> HIDE DEF L
  <2>2. QED  BY <1>1, <2>1
<1> HIDE DEF L
<1>3. Good(0)
  <2>1. <<>> \in Seq(T) /\ Len(<<>>) = 0  BY EmptySeq
  <2>2. Filters(<<>>, s, ids, 0)  BY <2>1 DEF Filters, OnlyStaying, AllStaying, SameOrder
  <2>3. QED  BY <1>2, <2>1, <2>2
<1>4. B = {}
  <2>1. SUFFICES ASSUME B # {} PROVE FALSE  OBVIOUS
  <2>2. B \subseteq Nat /\ \A i \in B : i \in 0..Len(s) /\ ~Good(i)  BY <1>1
  <2>3. \A i \in 0..Len(s) : i \notin B => Good(i)  OBVIOUS
  <2> HIDE DEF B, Good
  <2>4. PICK n \in B : \A m \in B : n <= m  BY <2>1, <2>2, Least
  <2>5. n \in 1..Len(s)  BY <1>1, <1>3, <2>2
  <2>6. n-1 \in 0..Len(s) /\ n-1 \notin B  BY <1>1, <2>2, <2>4, <2>5
  <2>7. Good(n-1)  BY <2>3, <2>6
  <2>8. n-1 \in Nat /\ n-1 < Len(s) /\ (n-1)+1 = n  BY <1>1, <2>5
  <2>9. /\ s[n] \in ids => Filters(L(n-1), s, ids, n)
        /\ s[n] \notin ids => Append(L(n-1), s[n]) \in Seq(T) /\ Filters(Append(L(n-1), s[n]), s, ids, n)
    <3>1. L(n-1) \in Seq(T) /\ Filters(L(n-1), s, ids, n-1)  BY <2>7 DEF Good
    <3>2. /\ s[(n-1)+1] \in ids => Filters(L(n-1), s, ids, (n-1)+1)
          /\ s[(n-1)+1] \notin ids => /\ Append(L(n-1), s[(n-1)+1]) \in Seq(T)
                                      /\ Filters(Append(L(n-1), s[(n-1)+1]), s, ids, (n-1)+1)
      BY <2>8, <3>1, FiltersStep
    <3>3. QED  BY <2>8, <3>2
  <2>10. L(n) \in Seq(T) /\ Filters(L(n), s, ids, n)
    <3>1. CASE s[n] \in ids
      <4>1. L(n) = L(n-1)  BY <1>2, <2>5, <3>1
      <4>2. QED  BY <2>7, <2>9, <3>1, <4>1 DEF Good
    <3>2. CASE s[n] \notin ids
      <4>1. L(n) = Append(L(n-1), s[n])  BY <1>2, <2>5, <3>2
      <4>2. QED  BY <2>9, <3>2, <4>1
    <3>3. QED  BY <3>1, <3>2
  <2>11. QED  BY <2>2, <2>10 DEF Good
<1>5. Len(s) \in 0..Len(s)  BY <1>1
<1>6. Good(Len(s))  BY <1>4, <1>5
<1>7. QED  BY <1>6 DEF L, Without

(* The newest of a list: its end, and what was before it is pushed out.     *)
LEMMA KeptFacts ==
  ASSUME NEW T, NEW s \in Seq(T)
  PROVE  /\ Kept(s) \in Seq(T) /\ Len(Kept(s)) <= MaxUnacked
         /\ \E d \in Nat : /\ Len(s) = Len(Kept(s)) + d
                           /\ \A i \in 1..Len(Kept(s)) : Kept(s)[i] = s[i+d]
         /\ \A i \in 1..Len(s) : s[i] \in PushedOut(s) \/ \E j \in 1..Len(Kept(s)) : Kept(s)[j] = s[i]
         /\ s # <<>> => Kept(s) # <<>> /\ Kept(s)[Len(Kept(s))] = s[Len(s)]
<1> DEFINE v == Kept(s)
<1>1. Len(s) \in Nat /\ MaxUnacked \in Nat \ {0} /\ \A i \in 1..Len(s) : s[i] \in T
  BY LenProperties, ElementOfSeq, BoundsAssumption
<1>2. v \in Seq(T) /\ Len(v) <= MaxUnacked
      /\ \E d \in Nat : Len(s) = Len(v) + d /\ (\A i \in 1..Len(v) : v[i] = s[i+d]) /\ (d > 0 => Len(v) = MaxUnacked)
  <2>1. CASE Len(s) > MaxUnacked
    <3> DEFINE m == Len(s) - MaxUnacked + 1
    <3>1. v = SubSeq(s, m, Len(s))  BY <2>1 DEF Kept
    <3>2. m \in Int /\ Len(s) \in Int /\ 1 <= m /\ m <= Len(s) /\ Len(s) - m + 1 = MaxUnacked
          /\ Len(s) - MaxUnacked \in Nat /\ \A i \in m..Len(s) : s[i] \in T
      BY <1>1, <2>1
    <3>3. /\ SubSeq(s, m, Len(s)) \in Seq(T)
          /\ Len(SubSeq(s, m, Len(s))) = IF m <= Len(s) THEN Len(s)-m+1 ELSE 0
          /\ \A i \in 1..Len(s)-m+1 : SubSeq(s, m, Len(s))[i] = s[m+i-1]
      BY <3>2, SubSeqProperties
    <3>4. v \in Seq(T) /\ Len(v) = MaxUnacked  BY <3>1, <3>2, <3>3
    <3>5. \A i \in 1..Len(v) : v[i] = s[i + (Len(s) - MaxUnacked)]
      <4>1. \A i \in 1..Len(v) : v[i] = s[m+i-1]  BY <3>1, <3>2, <3>3, <3>4
      <4>2. \A i \in 1..Len(v) : m+i-1 = i + (Len(s) - MaxUnacked)  BY <1>1, <3>4
      <4>3. QED  BY <4>1, <4>2
    <3>6. Len(s) = Len(v) + (Len(s) - MaxUnacked)  BY <1>1, <3>4
    <3>7. Len(v) <= MaxUnacked  BY <1>1, <3>4
    <3> HIDE DEF v
    <3>8. QED  BY <3>2, <3>4, <3>5, <3>6, <3>7
  <2>2. CASE ~(Len(s) > MaxUnacked)
    <3>1. v = s  BY <2>2 DEF Kept
    <3>2. 0 \in Nat /\ Len(s) = Len(s) + 0 /\ \A i \in 1..Len(s) : s[i] = s[i+0]  BY <1>1
    <3>3. Len(s) <= MaxUnacked  BY <1>1, <2>2
    <3> HIDE DEF v
    <3>4. ~(0 > 0)  OBVIOUS
    <3>5. QED  BY <3>1, <3>2, <3>3, <3>4
  <2>3. QED  BY <2>1, <2>2
<1>3. Len(v) \in Nat /\ DOMAIN v = 1..Len(v) /\ DOMAIN s = 1..Len(s)  BY <1>2, LenProperties
<1>4. PushedOut(s) = ToSet(s) \ ToSet(v)  BY DEF PushedOut
<1> HIDE DEF v
<1>5. \A i \in 1..Len(s) : s[i] \in PushedOut(s) \/ \E j \in 1..Len(v) : v[j] = s[i]
  BY <1>3, <1>4 DEF ToSet
<1>6. PICK d \in Nat : Len(s) = Len(v) + d /\ (\A i \in 1..Len(v) : v[i] = s[i+d]) /\ (d > 0 => Len(v) = MaxUnacked)
  BY <1>2
<1>7. s # <<>> => v # <<>> /\ v[Len(v)] = s[Len(s)]
  <2>1. SUFFICES ASSUME s # <<>> PROVE v # <<>> /\ v[Len(v)] = s[Len(s)]  OBVIOUS
  <2>2. Len(s) >= 1  BY <2>1
  <2>3. Len(v) \in 1..Len(v)
    <3>1. Len(s) = Len(v) + d /\ (d > 0 => Len(v) = MaxUnacked)  BY <1>6
    <3>2. Len(v) \in Nat /\ MaxUnacked >= 1  BY <1>1, <1>3
    <3>3. Len(v) >= 1  BY <2>2, <3>1, <3>2
    <3>4. QED  BY <3>2, <3>3
  <2>4. v # <<>>  BY <1>2, <2>3, EmptySeq
  <2>5. v[Len(v)] = s[Len(v) + d]  BY <1>6, <2>3
  <2>6. QED  BY <1>6, <2>4, <2>5
<1>8. QED  BY <1>2, <1>5, <1>6, <1>7 DEF v

(* What is trimmed from the front of the cache: what is old, or has as many *)
(* after it as the cache holds. The newest entry stays.                     *)
LEMMA TrimFacts ==
  ASSUME NEW T, NEW s \in Seq(T), s # <<>>, s[Len(s)] \notin old
  PROVE  /\ Trim(s) \in Seq(T) /\ Len(Trim(s)) <= CacheMax
         /\ \E d \in Nat : /\ Len(s) = Len(Trim(s)) + d /\ d < Len(s)
                           /\ \A i \in 1..Len(Trim(s)) : Trim(s)[i] = s[i+d]
                           /\ \A j \in 1..d : s[j] \in old \/ Len(s) - j >= CacheMax
<1> DEFINE Stay(i) == Len(s) - i + 1 <= CacheMax /\ s[i] \notin old
           First(i) == Stay(i) /\ \A j \in 1..(i - 1) : ~Stay(j)
           Stays == {i \in 1..Len(s) : Stay(i)}
           first == CHOOSE i \in 1..Len(s) : First(i)
<1>1. Len(s) \in Nat /\ Len(s) >= 1 /\ CacheMax \in Nat \ {0} /\ \A i \in 1..Len(s) : s[i] \in T
  BY LenProperties, ElementOfSeq, CacheAssumption
<1>2. Trim(s) = SubSeq(s, first, Len(s))  BY DEF Trim
<1>3. \E i \in 1..Len(s) : First(i)
  <2>1. Len(s) \in Stays
    <3>1. Len(s) \in 1..Len(s) /\ Len(s) - Len(s) + 1 <= CacheMax  BY <1>1
    <3>2. QED  BY <3>1
  <2>2. Stays \subseteq Nat /\ \A i \in 1..Len(s) : Stay(i) => i \in Stays  BY <1>1
  <2>3. \A i \in Stays : i \in 1..Len(s) /\ Stay(i)  OBVIOUS
  <2> HIDE DEF Stays, Stay
  <2>4. PICK i \in Stays : \A j \in Stays : i <= j  BY <2>1, <2>2, Least
  <2>5. \A j \in 1..(i - 1) : ~Stay(j)
    <3>1. SUFFICES ASSUME NEW j \in 1..(i - 1), Stay(j) PROVE FALSE  OBVIOUS
    <3>2. j \in 1..Len(s) /\ j < i  BY <1>1, <2>3
    <3>3. QED  BY <2>2, <2>4, <3>1, <3>2
  <2>6. QED  BY <2>3, <2>5
<1> HIDE DEF First
<1>4. first \in 1..Len(s) /\ First(first)  BY <1>3
<1> HIDE DEF first
<1>5. /\ Len(s) - first + 1 <= CacheMax
      /\ \A j \in 1..(first - 1) : s[j] \in old \/ Len(s) - j >= CacheMax
  <2>1. Len(s) - first + 1 <= CacheMax  BY <1>4 DEF First
  <2>2. \A j \in 1..(first - 1) : s[j] \in old \/ ~(Len(s) - j + 1 <= CacheMax)  BY <1>4 DEF First
  <2>3. \A j \in 1..(first - 1) : ~(Len(s) - j + 1 <= CacheMax) => Len(s) - j >= CacheMax  BY <1>1, <1>4
  <2>4. QED  BY <2>1, <2>2, <2>3
<1>6. /\ SubSeq(s, first, Len(s)) \in Seq(T)
      /\ Len(SubSeq(s, first, Len(s))) = Len(s)-first+1
      /\ \A i \in 1..Len(s)-first+1 : SubSeq(s, first, Len(s))[i] = s[first+i-1]
  <2>1. first \in Int /\ Len(s) \in Int /\ first <= Len(s) /\ \A i \in first..Len(s) : s[i] \in T  BY <1>1, <1>4
  <2>2. QED  BY <2>1, SubSeqProperties
<1>7. first - 1 \in Nat /\ first - 1 < Len(s)  BY <1>1, <1>4
<1>8. Len(s) = Len(Trim(s)) + (first - 1)  BY <1>1, <1>2, <1>4, <1>6
<1>9. \A i \in 1..Len(Trim(s)) : Trim(s)[i] = s[i + (first - 1)]
  <2>1. \A i \in 1..Len(Trim(s)) : Trim(s)[i] = s[first+i-1]  BY <1>2, <1>6
  <2>2. \A i \in 1..Len(Trim(s)) : first+i-1 = i + (first - 1)  BY <1>1, <1>4, <1>8
  <2>3. QED  BY <2>1, <2>2
<1>10. Trim(s) \in Seq(T) /\ Len(Trim(s)) <= CacheMax  BY <1>2, <1>5, <1>6
<1>11. QED  BY <1>5, <1>7, <1>8, <1>9, <1>10

(* A command let through is the newest in the cache; the rest of the cache  *)
(* is what it was, but for what was trimmed.                                *)
Pushed(c, k) == Trim(Append(Without(cache, {c} \X Conns), <<c, k>>))

LEMMA PushedFacts ==
  ASSUME cache \in Seq(Entries), NEW c \in Commands, NEW k \in Conns, <<c, k>> \notin old
  PROVE  /\ Pushed(c, k) \in Seq(Entries) /\ Len(Pushed(c, k)) <= CacheMax /\ Len(Pushed(c, k)) \in Nat \ {0}
         /\ Pushed(c, k)[Len(Pushed(c, k))] = <<c, k>>
         /\ \A q \in 1..Len(Pushed(c, k)) :
              Pushed(c, k)[q] = <<c, k>> \/ \E p \in 1..Len(cache) : Pushed(c, k)[q] = cache[p]
         /\ \A p \in 1..Len(cache) :
              \/ cache[p][1] = c
              \/ cache[p] \in old
              \/ Len(cache) - p + 1 >= CacheMax
              \/ \E q \in 1..Len(Pushed(c, k)) :
                   Pushed(c, k)[q] = cache[p] /\ Len(Pushed(c, k)) - q <= Len(cache) - p + 1
<1> DEFINE w == Without(cache, {c} \X Conns)
           s == Append(w, <<c, k>>)
           v == Trim(s)
<1>1. w \in Seq(Entries) /\ Filters(w, cache, {c} \X Conns, Len(cache))  BY WithoutFacts
<1>2. v = Pushed(c, k)  BY DEF Pushed
<1>3. <<c, k>> \in Entries  BY DEF Entries
<1> HIDE DEF w
<1>4. /\ s \in Seq(Entries) /\ s # <<>> /\ Len(s) = Len(w) + 1
      /\ \A i \in 1..Len(w) : s[i] = w[i]
      /\ s[Len(w)+1] = <<c, k>>
  BY <1>1, <1>3, AppendProperties
<1>5. Len(w) \in Nat /\ Len(cache) \in Nat /\ CacheMax \in Nat \ {0} /\ \A p \in 1..Len(cache) : cache[p] \in Entries
  BY <1>1, LenProperties, ElementOfSeq, CacheAssumption
<1> HIDE DEF s
<1>6. s[Len(s)] \notin old  BY <1>4
<1>7. v \in Seq(Entries) /\ Len(v) <= CacheMax
      /\ \E d \in Nat : /\ Len(s) = Len(v) + d /\ d < Len(s)
                        /\ \A i \in 1..Len(v) : v[i] = s[i+d]
                        /\ \A j \in 1..d : s[j] \in old \/ Len(s) - j >= CacheMax
  BY <1>4, <1>6, TrimFacts
<1> HIDE DEF v
<1>8. PICK d \in Nat : /\ Len(s) = Len(v) + d /\ d < Len(s)
                       /\ \A i \in 1..Len(v) : v[i] = s[i+d]
                       /\ \A j \in 1..d : s[j] \in old \/ Len(s) - j >= CacheMax
  BY <1>7
<1>9. Len(v) \in Nat \ {0} /\ Len(v) \in 1..Len(v) /\ Len(v) + d = Len(w) + 1
  <2>1. Len(v) \in Nat  BY <1>7, LenProperties
  <2>2. Len(s) = Len(v) + d /\ d < Len(s) /\ Len(s) = Len(w) + 1  BY <1>4, <1>8
  <2>3. Len(w) \in Nat  BY <1>5
  <2>4. Len(v) \in Nat \ {0}  BY <2>1, <2>2, <2>3
  <2>5. QED  BY <2>2, <2>4
<1>10. v[Len(v)] = <<c, k>>
  <2>1. v[Len(v)] = s[Len(v) + d]  BY <1>8, <1>9
  <2>2. QED  BY <1>4, <1>9, <2>1
<1>11. ASSUME NEW q \in 1..Len(v)
       PROVE  v[q] = <<c, k>> \/ \E p \in 1..Len(cache) : v[q] = cache[p]
  <2>1. v[q] = s[q+d] /\ q+d \in 1..Len(w)+1  BY <1>8, <1>9
  <2>2. CASE q+d = Len(w)+1  BY <1>4, <2>1, <2>2
  <2>3. CASE q+d # Len(w)+1
    <3>1. q+d \in 1..Len(w)  BY <1>5, <2>1, <2>3
    <3>2. v[q] = w[q+d]  BY <1>4, <2>1, <3>1
    <3>3. \E p \in 1..Len(cache) : w[q+d] = cache[p]  BY <1>1, <3>1 DEF Filters, OnlyStaying
    <3>4. QED  BY <3>2, <3>3
  <2>4. QED  BY <2>2, <2>3
<1>12. ASSUME NEW p \in 1..Len(cache), cache[p][1] # c, cache[p] \notin old, ~(Len(cache) - p + 1 >= CacheMax)
       PROVE  \E q \in 1..Len(v) : v[q] = cache[p] /\ Len(v) - q <= Len(cache) - p + 1
  <2>1. cache[p] \notin {c} \X Conns  BY <1>5, <1>12 DEF Entries
  <2>2. PICK r \in 1..Len(w) : w[r] = cache[p] /\ Len(w) - r <= Len(cache) - p
    BY <1>1, <2>1 DEF Filters, AllStaying
  <2>3. s[r] = cache[p] /\ Len(s) - r <= Len(cache) - p + 1  BY <1>4, <1>5, <2>2
  <2>4. ~(r \in 1..d)
    <3>1. SUFFICES ASSUME r \in 1..d PROVE FALSE  OBVIOUS
    <3>2. Len(s) - r >= CacheMax  BY <1>8, <1>12, <2>3, <3>1
    <3>3. QED  BY <1>4, <1>5, <1>12, <2>3, <3>2
  <2>5. r - d \in 1..Len(v) /\ (r - d) + d = r  BY <1>5, <1>9, <2>4
  <2>6. v[r-d] = s[r]  BY <1>8, <2>5
  <2>7. Len(v) - (r-d) = Len(s) - r  BY <1>4, <1>5, <1>9
  <2>8. QED  BY <2>3, <2>5, <2>6, <2>7
<1>13. \A p \in 1..Len(cache) :
         \/ cache[p][1] = c
         \/ cache[p] \in old
         \/ Len(cache) - p + 1 >= CacheMax
         \/ \E q \in 1..Len(v) : v[q] = cache[p] /\ Len(v) - q <= Len(cache) - p + 1
  BY <1>12
<1>14. QED  BY <1>2, <1>7, <1>9, <1>10, <1>11, <1>13

-----------------------------------------------------------------------------
(* The steps, as the invariant tells them apart.                            *)

(* The tab reads the first frame of its socket.                             *)
Reads == /\ conn # 0 /\ down[conn] # <<>>
         /\ down' = [down EXCEPT ![conn] = Tail(@)]
         /\ UNCHANGED <<posted, conn, conns, open, late, acks, awaiting, bound, running>>
         /\ UNCHANGED <<results, admitted>>

ReadsHello == Reads /\ down[conn][1].type = "hello" /\ OnHello
ReadsAck == Reads /\ down[conn][1].type = "ack" /\ OnAck(down[conn][1].ids)
ReadsResult == Reads /\ \E c \in Commands : OnResult(c)

(* The server reads the first frame of a socket, open or closed with a code. *)
Takes(c, k) ==
  /\ open[k] \/ late[k]
  /\ up[k] # <<>> /\ c = up[k][1]
  /\ up' = [up EXCEPT ![k] = Tail(@)]
  /\ acks' = IF open[k] THEN [acks EXCEPT ![k] = Append(@, c)] ELSE acks
  /\ UNCHANGED <<tab, open, late, old, ages, answered>>

TakesReady(k) ==
  /\ Takes(Ready, k)
  /\ bound' = IF open[k] THEN [bound EXCEPT ![k] = TRUE] ELSE bound
  /\ UNCHANGED <<down, awaiting, cache, waiters, running, admitted>>

TakesFirst(c, k) ==
  /\ Takes(c, k) /\ Known(c) = {}
  /\ cache' = Pushed(c, k)
  /\ awaiting' = [awaiting EXCEPT ![k] = @ \union {c}]
  /\ running' = IF open[k] THEN running \union {<<c, k>>} ELSE running
  /\ admitted' = Append(admitted, [of |-> c, acted |-> open[k]])
  /\ UNCHANGED <<down, waiters, bound>>

TakesAgain(c, k) ==
  /\ Takes(c, k) /\ Known(c) # {}
  /\ down' = down \/ down' = [down EXCEPT ![k] = Append(@, Result(c))]
  /\ \E e \in Known(c) : waiters' = waiters \/ waiters' = waiters \union {<<e, k>>}
  /\ UNCHANGED <<cache, awaiting, running, admitted, bound>>

TakesAny(c, k) == \/ c = Ready /\ TakesReady(k)
                  \/ c \in Commands /\ (TakesFirst(c, k) \/ TakesAgain(c, k))

Move == \/ Post \/ Connect \/ TabLoses \/ Age \/ ReadsHello \/ ReadsAck \/ ReadsResult
        \/ \E k \in Conns : SendAcks(k) \/ ServerCloses(k) \/ TakesReady(k)
        \/ \E c \in Commands, k \in Conns : Finish(c, k) \/ TakesFirst(c, k) \/ TakesAgain(c, k)

LEMMA HeadOf ==
  ASSUME NEW T, NEW s \in Seq(T), s # <<>>
  PROVE  /\ Head(s) = s[1] /\ s[1] \in T /\ Len(s) \in Nat \ {0}
         /\ Tail(s) \in Seq(T) /\ Len(s) = Len(Tail(s)) + 1 /\ Len(Tail(s)) \in Nat
         /\ \A i \in 1..Len(Tail(s)) : Tail(s)[i] = s[i+1]
<1>1. Len(s) \in Nat \ {0}  BY EmptySeq
<1>2. /\ Tail(s) \in Seq(T) /\ Len(Tail(s)) = Len(s)-1
      /\ \A i \in 1..Len(Tail(s)) : Tail(s)[i] = s[i+1]
  BY HeadTailProperties
<1>3. Head(s) = s[1]  OBVIOUS
<1>4. s[1] \in T  BY <1>1, ElementOfSeq
<1>5. QED  BY <1>1, <1>2, <1>3, <1>4

LEMMA Moves ==
  ASSUME TypeOK, Sockets, Next
  PROVE  Move
<1>1. ASSUME Receive
      PROVE  ReadsHello \/ ReadsAck \/ ReadsResult
  <2>1. conn \in Conns  BY <1>1, BoundsAssumption DEF TypeOK, Receive, Conns
  <2>2. down[conn] \in Seq(Frames) /\ down[conn] # <<>>  BY <1>1, <2>1 DEF TypeOK, Receive
  <2>3. Head(down[conn]) = down[conn][1] /\ down[conn][1] \in Frames  BY <2>2, HeadOf
  <2>4. Reads  BY <1>1 DEF Receive, Reads
  <2>5. down[conn][1].type = "result" => down[conn][1].of \in Commands
    BY <2>3 DEF Frames, Hello, Ack, Result
  <2>6. \/ down[conn][1].type = "hello" /\ OnHello
        \/ down[conn][1].type = "ack" /\ OnAck(down[conn][1].ids)
        \/ down[conn][1].type = "result" /\ OnResult(down[conn][1].of)
    BY <1>1, <2>3 DEF Receive
  <2>7. QED  BY <2>4, <2>5, <2>6 DEF ReadsHello, ReadsAck, ReadsResult
<1>2. ASSUME NEW k \in Conns, Arrive(k) \/ ArriveLate(k)
      PROVE  TakesReady(k) \/ \E c \in Commands : TakesFirst(c, k) \/ TakesAgain(c, k)
  <2>1. up[k] \in Seq(Commands \union {Ready}) /\ up[k] # <<>>
    BY <1>2 DEF TypeOK, Arrive, ArriveLate
  <2> DEFINE c == up[k][1]
  <2>2. Head(up[k]) = c /\ c \in Commands \union {Ready}  BY <2>1, HeadOf
  <2> HIDE DEF c
  <2>3. open[k] \in BOOLEAN /\ (late[k] => ~open[k])  BY DEF TypeOK, Sockets
  <2>4. Takes(c, k) /\ (open[k] <=> Arrive(k))
    <3>1. CASE Arrive(k)  BY <2>1, <2>2, <3>1 DEF Arrive, Takes, c
    <3>2. CASE ArriveLate(k)  BY <2>1, <2>2, <2>3, <3>2 DEF ArriveLate, Arrive, Takes, c
    <3>3. QED  BY <1>2, <3>1, <3>2
  <2>5. CASE c = Ready
    <3>1. CASE Arrive(k)  BY <2>2, <2>4, <2>5, <3>1 DEF Arrive, TakesReady
    <3>2. CASE ArriveLate(k) /\ ~Arrive(k)  BY <2>2, <2>4, <2>5, <3>2 DEF ArriveLate, TakesReady
    <3>3. QED  BY <1>2, <3>1, <3>2
  <2>6. CASE c # Ready
    <3>1. c \in Commands  BY <2>2, <2>6
    <3>2. Admit(c, k) /\ Admitted(c, open[k]) /\ UNCHANGED bound
          /\ running' = IF open[k] /\ Known(c) = {} THEN running \union {<<c, k>>} ELSE running
      <4>1. CASE Arrive(k)
        <5>1. open[k] = TRUE  BY <2>3, <2>4, <4>1
        <5>2. QED  BY <2>2, <2>6, <4>1, <5>1 DEF Arrive
      <4>2. CASE ArriveLate(k) /\ ~Arrive(k)
        <5>1. open[k] = FALSE  BY <2>3, <2>4, <4>2
        <5>2. QED  BY <2>2, <2>6, <4>2, <5>1 DEF ArriveLate
      <4>3. QED  BY <1>2, <4>1, <4>2
    <3>3. CASE Known(c) = {}
      <4>1. LetThrough(c, k) /\ admitted' = Append(admitted, [of |-> c, acted |-> open[k]])
        BY <3>2, <3>3 DEF Admit, Admitted
      <4>2. TakesFirst(c, k)  BY <2>4, <3>2, <3>3, <4>1 DEF LetThrough, TakesFirst, Pushed
      <4>3. QED  BY <3>1, <4>2
    <3>4. CASE Known(c) # {}
      <4>1. Resent(c, k) /\ admitted' = admitted /\ running' = running
        BY <3>2, <3>4 DEF Admit, Admitted
      <4>2. TakesAgain(c, k)  BY <2>4, <3>2, <3>4, <4>1 DEF Resent, TakesAgain
      <4>3. QED  BY <3>1, <4>2
    <3>5. QED  BY <3>3, <3>4
  <2>7. QED  BY <2>5, <2>6
<1>3. QED  BY <1>1, <1>2 DEF Next, Move

-----------------------------------------------------------------------------
(* Types.                                                                   *)

Posts == Commands \union {Ready}

(* What a hello makes of the tab's lists.                                   *)
Resend == IF met THEN Without(unacked, {Ready}) ELSE unacked
Keep == IF met THEN Append(Resend, Ready) ELSE unacked
Sent == (IF met THEN <<Ready>> ELSE <<>>) \o Without(Resend, PushedOut(Keep))

LEMMA ReadyIsNoCommand == Ready \notin Commands /\ Commands \subseteq Nat /\ Ready \in Posts /\ Posts \subseteq Nat
BY BoundsAssumption DEF Ready, Commands, Posts

LEMMA HelloTypes ==
  ASSUME TypeOK
  PROVE  Resend \in Seq(Posts) /\ Keep \in Seq(Posts) /\ Sent \in Seq(Posts)
<1>1. unacked \in Seq(Posts)  BY DEF TypeOK, Posts
<1>2. Resend \in Seq(Posts)
  <2>1. Without(unacked, {Ready}) \in Seq(Posts)  BY <1>1, WithoutFacts
  <2>2. QED  BY <1>1, <2>1 DEF Resend
<1>3. Keep \in Seq(Posts)
  <2>1. Append(Resend, Ready) \in Seq(Posts)  BY <1>2, ReadyIsNoCommand, AppendProperties
  <2>2. QED  BY <1>1, <2>1 DEF Keep
<1>4. Sent \in Seq(Posts)
  <2>1. Without(Resend, PushedOut(Keep)) \in Seq(Posts)  BY <1>2, WithoutFacts
  <2>2. (IF met THEN <<Ready>> ELSE <<>>) \in Seq(Posts)  BY ReadyIsNoCommand
  <2> HIDE DEF Posts, Ready
  <2>3. QED  BY <2>1, <2>2, ConcatProperties DEF Sent
<1>5. QED  BY <1>2, <1>3, <1>4

(* A socket does not carry what is remembered from it.                      *)
LEMMA TakenIsNew ==
  ASSUME TypeOK, Carried, NEW c \in Commands, NEW k \in Conns, Takes(c, k)
  PROVE  ~Entry(<<c, k>>) /\ <<c, k>> \notin old /\ <<c, k>> \in Entries
<1>1. <<c, k>> \in Entries  BY DEF Entries
<1>2. up[k] \in Seq(Posts) /\ up[k] # <<>> /\ up[k][1] = c  BY DEF TypeOK, Takes, Posts
<1>3. Len(up[k]) \in Nat \ {0}  BY <1>2, HeadOf
<1>4. 1 \in 1..Len(up[k]) /\ c # Ready /\ ~(c < c)  BY <1>3, ReadyIsNoCommand
<1>5. ~Entry(<<c, k>>)
  <2>1. SUFFICES ASSUME Entry(<<c, k>>) PROVE FALSE  OBVIOUS
  <2>2. \A i \in 1..Len(up[k]) : up[k][i] # Ready => c < up[k][i]  BY <1>1, <2>1 DEF Carried
  <2>3. QED  BY <1>2, <1>4, <2>2
<1>6. QED  BY <1>1, <1>5 DEF Entry

LEMMA TakenTypes ==
  ASSUME TypeOK, Carried, NEW c \in Posts, NEW k \in Conns, Takes(c, k)
  PROVE  /\ up' \in [Conns -> Seq(Posts)] /\ acks' \in [Conns -> Seq(Posts)]
         /\ up'[k] \in Seq(Posts) /\ Len(up[k]) \in Nat \ {0}
         /\ Len(up[k]) = Len(up'[k]) + 1 /\ Len(up'[k]) \in Nat
         /\ \A i \in 1..Len(up'[k]) : up'[k][i] = up[k][i+1]
         /\ \A j \in Conns : j # k => up'[j] = up[j] /\ acks'[j] = acks[j]
         /\ acks'[k] = IF open[k] THEN Append(acks[k], c) ELSE acks[k]
<1>1. up[k] \in Seq(Posts) /\ up[k] # <<>> /\ up \in [Conns -> Seq(Posts)] /\ acks \in [Conns -> Seq(Posts)]
  BY DEF TypeOK, Takes, Posts
<1>2. up' = [up EXCEPT ![k] = Tail(@)] /\ acks' = IF open[k] THEN [acks EXCEPT ![k] = Append(@, c)] ELSE acks
  BY DEF Takes
<1>3. up'[k] = Tail(up[k])  BY <1>1, <1>2
<1>4. /\ Tail(up[k]) \in Seq(Posts) /\ Len(up[k]) \in Nat \ {0}
      /\ Len(up[k]) = Len(Tail(up[k])) + 1 /\ Len(Tail(up[k])) \in Nat
      /\ \A i \in 1..Len(Tail(up[k])) : Tail(up[k])[i] = up[k][i+1]
  BY <1>1, HeadOf
<1>5. Append(acks[k], c) \in Seq(Posts)  BY <1>1, AppendProperties
<1>6. up' \in [Conns -> Seq(Posts)] /\ acks' \in [Conns -> Seq(Posts)]  BY <1>1, <1>2, <1>4, <1>5
<1>7. \A j \in Conns : j # k => up'[j] = up[j] /\ acks'[j] = acks[j]  BY <1>1, <1>2
<1>8. acks'[k] = IF open[k] THEN Append(acks[k], c) ELSE acks[k]  BY <1>1, <1>2
<1>9. QED  BY <1>3, <1>4, <1>6, <1>7, <1>8

(* What goes down is a frame.                                               *)
LEMMA FrameTypes ==
  /\ Hello \in Frames
  /\ \A ids \in SUBSET Posts : Ack(ids) \in Frames
  /\ \A c \in Commands : Result(c) \in Frames
BY DEF Frames, Posts

LEMMA TypeStep ==
  ASSUME TypeOK, Sockets, Carried, Move
  PROVE  TypeOK'
<1> USE DEF Posts
<1>1. CASE Post
  <2>1. posted' \in 0..MaxCommands /\ posted' \in Commands
    BY <1>1, BoundsAssumption DEF Post, TypeOK, Commands
  <2>2. Append(unacked, posted') \in Seq(Posts)  BY <2>1, AppendProperties DEF TypeOK
  <2>3. unacked' \in Seq(Posts) /\ Len(unacked') <= MaxUnacked  BY <1>1, <2>2, KeptFacts DEF Post
  <2>4. PushedOut(Append(unacked, posted')) \subseteq Posts
    <3> DEFINE s == Append(unacked, posted')
    <3>1. ToSet(s) \subseteq Posts
      <4> HIDE DEF s, Posts
      <4>1. s \in Seq(Posts)  BY <2>2 DEF s
      <4>2. QED  BY <4>1, LenProperties, ElementOfSeq DEF ToSet
    <3>2. QED  BY <3>1 DEF PushedOut
  <2>5. up' \in [Conns -> Seq(Posts)]
    <3>1. \A j \in Conns : Append(up[j], posted') \in Seq(Posts)  BY <2>1 DEF TypeOK
    <3>2. up' = IF live THEN [up EXCEPT ![conn] = Append(@, posted')] ELSE up  BY <1>1 DEF Post
    <3>3. QED  BY <3>1, <3>2 DEF TypeOK
  <2>6. QED  BY <1>1, <2>1, <2>3, <2>4, <2>5 DEF Post, TypeOK, results
<1>2. CASE Connect
  <2>1. conns' \in 0..MaxConns /\ conn' = conns' /\ conns' \in Conns
    BY <1>2, BoundsAssumption DEF Connect, TypeOK, Conns
  <2>2. conn' \in 0..conns'  BY <2>1, BoundsAssumption
  <2>3. down' \in [Conns -> Seq(Frames)]
    <3>1. <<Hello>> \in Seq(Frames)  BY FrameTypes
    <3>2. QED  BY <1>2, <3>1 DEF Connect, TypeOK
  <2>4. open' \in [Conns -> BOOLEAN]  BY <1>2 DEF Connect, TypeOK
  <2>5. QED  BY <1>2, <2>1, <2>2, <2>3, <2>4 DEF Connect, TypeOK, results
<1>3. CASE TabLoses
  <2>1. conn' \in 0..conns'  BY <1>3, BoundsAssumption DEF TabLoses, TypeOK
  <2>2. down' \in [Conns -> Seq(Frames)]
    <3>1. <<>> \in Seq(Frames)  BY EmptySeq
    <3>2. QED  BY <1>3, <3>1 DEF TabLoses, TypeOK
  <2>3. QED  BY <1>3, <2>1, <2>2 DEF TabLoses, TypeOK, results
<1>4. CASE Age
  <2>1. ages' \in 0..MaxAges  BY <1>4, BoundsAssumption DEF Age, TypeOK
  <2>2. ToSet(cache) \subseteq Entries  BY LenProperties, ElementOfSeq DEF TypeOK, ToSet
  <2>3. QED  BY <1>4, <2>1, <2>2 DEF Age, TypeOK, tab, sockets
<1>5. ASSUME Reads
      PROVE  /\ down' \in [Conns -> Seq(Frames)] /\ conn \in Conns
             /\ down[conn] \in Seq(Frames) /\ down[conn][1] \in Frames
             /\ UNCHANGED <<posted, conn, conns, open, late, acks, awaiting, bound, running, results, admitted>>
  <2>1. conn \in Conns  BY <1>5, BoundsAssumption DEF TypeOK, Reads, Conns
  <2>2. down[conn] \in Seq(Frames) /\ down[conn] # <<>>  BY <1>5, <2>1 DEF TypeOK, Reads
  <2>3. Tail(down[conn]) \in Seq(Frames) /\ down[conn][1] \in Frames  BY <2>2, HeadOf
  <2>4. down' \in [Conns -> Seq(Frames)]  BY <1>5, <2>3 DEF Reads, TypeOK
  <2>5. QED  BY <1>5, <2>1, <2>2, <2>3, <2>4 DEF Reads
<1>6. CASE ReadsHello
  <2>1. /\ unacked' = Kept(Keep) /\ dropped' = dropped \union PushedOut(Keep)
        /\ up' = [up EXCEPT ![conn] = Sent]
        /\ live' = TRUE /\ met' = TRUE /\ waiting' = waiting
    BY <1>6, Zenon DEF ReadsHello, OnHello, Resend, Keep, Sent
  <2>2. Keep \in Seq(Posts) /\ Sent \in Seq(Posts)  BY HelloTypes
  <2>3. unacked' \in Seq(Posts) /\ Len(unacked') <= MaxUnacked  BY <2>1, <2>2, KeptFacts
  <2>4. PushedOut(Keep) \subseteq Posts
    <3> HIDE DEF Posts
    <3>1. ToSet(Keep) \subseteq Posts  BY <2>2, LenProperties, ElementOfSeq DEF ToSet
    <3>2. QED  BY <3>1 DEF PushedOut
  <2>5. up' \in [Conns -> Seq(Posts)]  BY <2>1, <2>2 DEF TypeOK
  <2>6. QED  BY <1>5, <1>6, <2>1, <2>3, <2>4, <2>5 DEF ReadsHello, TypeOK, results
<1>7. CASE ReadsAck
  <2>1. unacked' = Without(unacked, down[conn][1].ids)  BY <1>7 DEF ReadsAck, OnAck
  <2>2. unacked \in Seq(Posts) /\ Len(unacked) <= MaxUnacked  BY DEF TypeOK
  <2>3. unacked' \in Seq(Posts) /\ Len(unacked') <= Len(unacked)  BY <2>1, <2>2, WithoutFacts DEF Filters
  <2>4. Len(unacked') <= MaxUnacked  BY <2>2, <2>3, LenProperties, BoundsAssumption
  <2>5. QED  BY <1>5, <1>7, <2>3, <2>4 DEF ReadsAck, OnAck, TypeOK, results
<1>8. CASE ReadsResult
  BY <1>5, <1>8 DEF ReadsResult, OnResult, TypeOK, results
<1>9. ASSUME NEW k \in Conns, SendAcks(k)
      PROVE  TypeOK'
  <2>1. ToSet(acks[k]) \subseteq Posts
    <3>1. acks[k] \in Seq(Posts)  BY DEF TypeOK
    <3> HIDE DEF Posts
    <3>2. QED  BY <3>1, LenProperties, ElementOfSeq DEF ToSet
  <2>2. Ack(ToSet(acks[k])) \in Frames  BY <2>1, FrameTypes
  <2>3. down' \in [Conns -> Seq(Frames)]  BY <1>9, <2>2 DEF SendAcks, TypeOK
  <2>4. acks' \in [Conns -> Seq(Posts)]
    <3>1. <<>> \in Seq(Posts)  BY EmptySeq
    <3>2. QED  BY <1>9, <3>1 DEF SendAcks, TypeOK
  <2>5. QED  BY <1>9, <2>3, <2>4 DEF SendAcks, TypeOK, results, tab
<1>10. ASSUME NEW k \in Conns, ServerCloses(k)
       PROVE  TypeOK'
  <2>1. <<>> \in Seq(Posts)  BY EmptySeq
  <2>2. acks' \in [Conns -> Seq(Posts)] /\ open' \in [Conns -> BOOLEAN]
    BY <1>10, <2>1 DEF ServerCloses, TypeOK
  <2>3. late' \in [Conns -> BOOLEAN] /\ up' \in [Conns -> Seq(Posts)]
    BY <1>10, <2>1 DEF ServerCloses, TypeOK
  <2>4. QED  BY <1>10, <2>2, <2>3 DEF ServerCloses, TypeOK, results, tab
<1>11. ASSUME NEW c \in Commands, NEW k \in Conns, Finish(c, k)
       PROVE  TypeOK'
  <2>1. Result(c) \in Frames  BY FrameTypes
  <2>2. down' \in [Conns -> Seq(Frames)]
    <3> DEFINE told == {k} \union (IF c \in awaiting[k] THEN {w[2] : w \in {x \in waiters : x[1] = <<c, k>>}} ELSE {})
    <3>1. down' = [j \in Conns |-> IF j \in told /\ open[j] THEN Append(down[j], Result(c)) ELSE down[j]]
      BY <1>11 DEF Finish
    <3> HIDE DEF told
    <3>2. QED  BY <2>1, <3>1 DEF TypeOK
  <2>3. <<c, k>> \in Entries  BY DEF Entries
  <2>4. answered' \subseteq Entries /\ waiters' \subseteq Entries \X Conns
    BY <1>11, <2>3 DEF Finish, TypeOK
  <2>5. awaiting' \in [Conns -> SUBSET Commands] /\ running' \subseteq Entries
    BY <1>11 DEF Finish, TypeOK
  <2>6. QED  BY <1>11, <2>2, <2>4, <2>5 DEF Finish, TypeOK, tab
<1>12. ASSUME NEW k \in Conns, TakesReady(k)
       PROVE  TypeOK'
  <2>1. up' \in [Conns -> Seq(Posts)] /\ acks' \in [Conns -> Seq(Posts)]
    BY <1>12, TakenTypes, ReadyIsNoCommand DEF TakesReady
  <2>2. bound' \in [Conns -> BOOLEAN]  BY <1>12 DEF TakesReady, TypeOK
  <2>3. QED  BY <1>12, <2>1, <2>2 DEF TakesReady, Takes, TypeOK, tab
<1>13. ASSUME NEW c \in Commands, NEW k \in Conns, TakesFirst(c, k)
       PROVE  TypeOK'
  <2>1. up' \in [Conns -> Seq(Posts)] /\ acks' \in [Conns -> Seq(Posts)]
    BY <1>13, TakenTypes DEF TakesFirst
  <2>2. <<c, k>> \notin old /\ <<c, k>> \in Entries  BY <1>13, TakenIsNew DEF TakesFirst
  <2>3. cache' \in Seq(Entries) /\ Len(cache') <= CacheMax
    BY <1>13, <2>2, PushedFacts DEF TakesFirst, TypeOK
  <2>4. awaiting' \in [Conns -> SUBSET Commands]  BY <1>13 DEF TakesFirst, TypeOK
  <2>5. admitted' \in Seq([of : Commands, acted : BOOLEAN])
    <3>1. [of |-> c, acted |-> open[k]] \in [of : Commands, acted : BOOLEAN]  BY DEF TypeOK
    <3>2. QED  BY <1>13, <3>1, AppendProperties DEF TakesFirst, TypeOK
  <2>6. running' \subseteq Entries  BY <1>13, <2>2 DEF TakesFirst, TypeOK
  <2>7. QED  BY <1>13, <2>1, <2>3, <2>4, <2>5, <2>6 DEF TakesFirst, Takes, TypeOK, tab
<1>14. ASSUME NEW c \in Commands, NEW k \in Conns, TakesAgain(c, k)
       PROVE  TypeOK'
  <2>1. up' \in [Conns -> Seq(Posts)] /\ acks' \in [Conns -> Seq(Posts)]
    BY <1>14, TakenTypes DEF TakesAgain
  <2>2. Result(c) \in Frames  BY FrameTypes
  <2>3. down' \in [Conns -> Seq(Frames)]
    <3>1. Append(down[k], Result(c)) \in Seq(Frames)  BY <2>2, AppendProperties DEF TypeOK
    <3>2. QED  BY <1>14, <3>1 DEF TakesAgain, TypeOK
  <2>4. Known(c) \subseteq Entries  BY LenProperties, ElementOfSeq DEF Known, ToSet, TypeOK
  <2>5. waiters' \subseteq Entries \X Conns  BY <1>14, <2>4 DEF TakesAgain, TypeOK
  <2>6. QED  BY <1>14, <2>1, <2>3, <2>5 DEF TakesAgain, Takes, TypeOK, tab
<1>15. QED  BY <1>1, <1>2, <1>3, <1>4, <1>6, <1>7, <1>8, <1>9, <1>10, <1>11, <1>12, <1>13, <1>14 DEF Move

-----------------------------------------------------------------------------
(* What a step puts on the line to a tab.                                   *)

LEMMA AppendFrame ==
  ASSUME TypeOK, NEW m \in Frames, NEW k \in Conns
  PROVE  /\ Len(down[k]) \in Nat /\ Len(Append(down[k], m)) = Len(down[k]) + 1
         /\ \A i \in 1..Len(Append(down[k], m)) :
              \/ i \in 1..Len(down[k]) /\ Append(down[k], m)[i] = down[k][i]
              \/ Append(down[k], m)[i] = m
<1>1. down[k] \in Seq(Frames) /\ Len(down[k]) \in Nat  BY LenProperties DEF TypeOK
<1>2. /\ Len(Append(down[k], m)) = Len(down[k]) + 1
      /\ \A i \in 1..Len(down[k]) : Append(down[k], m)[i] = down[k][i]
      /\ Append(down[k], m)[Len(down[k])+1] = m
  BY <1>1, AppendProperties
<1>3. \A i \in 1..Len(Append(down[k], m)) : i \in 1..Len(down[k]) \/ i = Len(down[k])+1  BY <1>1, <1>2
<1>4. QED  BY <1>1, <1>2, <1>3

Answers(c, k) == Finish(c, k) \/ TakesFirst(c, k) \/ TakesAgain(c, k)

LEMMA DownStep ==
  ASSUME TypeOK, Move, NEW k \in Conns, NEW i \in 1..Len(down'[k])
  PROVE  \/ /\ i \in 1..Len(down[k]) /\ down'[k][i] = down[k][i]
            /\ k = conn => UNCHANGED <<conn, live>>
         \/ k = conn /\ i+1 \in 1..Len(down[k]) /\ down'[k][i] = down[k][i+1]
         \/ Connect /\ k = conn' /\ i = 1 /\ down'[k][i] = Hello
         \/ SendAcks(k) /\ down'[k][i] = Ack(ToSet(acks[k]))
         \/ \E c \in Commands, h \in Conns : Answers(c, h) /\ down'[k][i] = Result(c)
<1> DEFINE Goal == \/ /\ i \in 1..Len(down[k]) /\ down'[k][i] = down[k][i]
                      /\ k = conn => UNCHANGED <<conn, live>>
                   \/ k = conn /\ i+1 \in 1..Len(down[k]) /\ down'[k][i] = down[k][i+1]
                   \/ Connect /\ k = conn' /\ i = 1 /\ down'[k][i] = Hello
                   \/ SendAcks(k) /\ down'[k][i] = Ack(ToSet(acks[k]))
                   \/ \E c \in Commands, h \in Conns : Answers(c, h) /\ down'[k][i] = Result(c)
<1>1. ASSUME down'[k] = down[k], k = conn => UNCHANGED <<conn, live>>
      PROVE  Goal
  BY <1>1
<1>2. CASE Post \/ Age
  <2>1. down' = down /\ UNCHANGED <<conn, live>>  BY <1>2 DEF Post, Age, tab, sockets
  <2>2. QED  BY <1>1, <2>1
<1>3. CASE Connect
  <2>1. CASE k = conn'
    <3>1. down'[k] = <<Hello>>  BY <1>3, <2>1 DEF Connect, TypeOK
    <3>2. i = 1 /\ down'[k][i] = Hello  BY <3>1
    <3>3. QED  BY <1>3, <2>1, <3>2
  <2>2. CASE k # conn'
    <3>1. down'[k] = down[k] /\ k # conn  BY <1>3, <2>2, BoundsAssumption DEF Connect, TypeOK, Conns
    <3>2. QED  BY <1>1, <3>1
  <2>3. QED  BY <2>1, <2>2
<1>4. CASE TabLoses
  <2>1. k # conn
    <3>1. SUFFICES ASSUME k = conn PROVE FALSE  OBVIOUS
    <3>2. down'[k] = <<>>  BY <1>4, <3>1 DEF TabLoses, TypeOK
    <3>3. Len(down'[k]) = 0  BY <3>2
    <3>4. QED  BY <3>3
  <2>2. down'[k] = down[k]  BY <1>4, <2>1 DEF TabLoses, TypeOK
  <2>3. QED  BY <1>1, <2>1, <2>2
<1>5. CASE Reads
  <2>1. CASE k = conn
    <3>1. down[k] \in Seq(Frames) /\ down[k] # <<>> /\ down'[k] = Tail(down[k])
      BY <1>5, <2>1 DEF Reads, TypeOK
    <3>2. /\ Len(down[k]) = Len(Tail(down[k])) + 1 /\ Len(Tail(down[k])) \in Nat
          /\ \A j \in 1..Len(Tail(down[k])) : Tail(down[k])[j] = down[k][j+1]
      BY <3>1, HeadOf
    <3>3. i+1 \in 1..Len(down[k]) /\ down'[k][i] = down[k][i+1]  BY <3>1, <3>2
    <3>4. QED  BY <2>1, <3>3
  <2>2. CASE k # conn
    <3>1. down'[k] = down[k]  BY <1>5, <2>2 DEF Reads, TypeOK
    <3>2. QED  BY <1>1, <2>2, <3>1
  <2>3. QED  BY <2>1, <2>2
<1>6. ASSUME NEW m \in Frames, UNCHANGED <<conn, live>>,
             down'[k] = down[k] \/ down'[k] = Append(down[k], m)
      PROVE  Goal \/ down'[k][i] = m
  <2>1. CASE down'[k] = down[k]  BY <1>1, <1>6, <2>1
  <2>2. CASE down'[k] = Append(down[k], m)
    <3>1. (i \in 1..Len(down[k]) /\ down'[k][i] = down[k][i]) \/ down'[k][i] = m  BY <2>2, AppendFrame
    <3>2. QED  BY <1>6, <3>1
  <2>3. QED  BY <1>6, <2>1, <2>2
<1>7. ASSUME NEW h \in Conns, SendAcks(h)
      PROVE  Goal
  <2>1. UNCHANGED <<conn, live>>  BY <1>7 DEF SendAcks, tab
  <2>2. CASE h = k
    <3>1. ToSet(acks[k]) \subseteq Posts
      <4>1. acks[k] \in Seq(Posts)  BY DEF TypeOK, Posts
      <4>2. QED  BY <4>1, LenProperties, ElementOfSeq DEF ToSet
    <3>2. Ack(ToSet(acks[k])) \in Frames  BY <3>1, FrameTypes
    <3>3. down'[k] = Append(down[k], Ack(ToSet(acks[k])))  BY <1>7, <2>2 DEF SendAcks, TypeOK
    <3> HIDE DEF Goal
    <3>4. Goal \/ down'[k][i] = Ack(ToSet(acks[k]))  BY <1>6, <2>1, <3>2, <3>3
    <3>5. QED  BY <1>7, <2>2, <3>4 DEF Goal
  <2>3. CASE h # k
    <3>1. down'[k] = down[k]  BY <1>7, <2>3 DEF SendAcks, TypeOK
    <3>2. QED  BY <1>1, <2>1, <3>1
  <2>4. QED  BY <2>2, <2>3
<1>8. ASSUME NEW c \in Commands, NEW h \in Conns, Finish(c, h) \/ TakesFirst(c, h) \/ TakesAgain(c, h)
      PROVE  Goal
  <2>1. UNCHANGED <<conn, live>>  BY <1>8 DEF Finish, TakesFirst, TakesAgain, Takes, tab
  <2>2. down'[k] = down[k] \/ down'[k] = Append(down[k], Result(c))
    <3>1. CASE Finish(c, h)
      <4> DEFINE told == {h} \union (IF c \in awaiting[h] THEN {w[2] : w \in {x \in waiters : x[1] = <<c, h>>}} ELSE {})
      <4>1. down' = [j \in Conns |-> IF j \in told /\ open[j] THEN Append(down[j], Result(c)) ELSE down[j]]
        BY <3>1 DEF Finish
      <4> HIDE DEF told
      <4>2. QED  BY <4>1
    <3>2. CASE TakesFirst(c, h)  BY <3>2 DEF TakesFirst
    <3>3. CASE TakesAgain(c, h)  BY <3>3 DEF TakesAgain, TypeOK
    <3>4. QED  BY <1>8, <3>1, <3>2, <3>3
  <2>3. Result(c) \in Frames  BY FrameTypes
  <2> HIDE DEF Goal
  <2>4. Goal \/ down'[k][i] = Result(c)  BY <1>6, <2>1, <2>2, <2>3
  <2>5. QED  BY <1>8, <2>4 DEF Goal, Answers
<1>9. ASSUME NEW h \in Conns, ServerCloses(h) \/ TakesReady(h)
      PROVE  Goal
  <2>1. down' = down /\ UNCHANGED <<conn, live>>  BY <1>9 DEF ServerCloses, TakesReady, Takes, tab
  <2>2. QED  BY <1>1, <2>1
<1> HIDE DEF Goal
<1>10. CASE ReadsHello \/ ReadsAck \/ ReadsResult  BY <1>5, <1>10 DEF ReadsHello, ReadsAck, ReadsResult, Goal
<1>11. Goal  BY <1>2, <1>3, <1>4, <1>7, <1>8, <1>9, <1>10, Zenon DEF Move, Goal
<1>12. QED  BY <1>11 DEF Goal

-----------------------------------------------------------------------------
(* The sockets.                                                             *)

LEMMA SocketsStep ==
  ASSUME TypeOK, Sockets, Move
  PROVE  Sockets'
<1>1. ASSUME NEW k \in Conns, NEW i \in 1..Len(down'[k]), down'[k][i].type = "hello"
      PROVE  k = conn' /\ ~live' /\ i = 1
  <2>1. Hello.type = "hello" /\ Ack(ToSet(acks[k])).type = "ack" /\ \A c \in Commands : Result(c).type = "result"
    BY DEF Hello, Ack, Result
  <2>2. CASE i \in 1..Len(down[k]) /\ down'[k][i] = down[k][i] /\ (k = conn => UNCHANGED <<conn, live>>)
    BY <1>1, <2>2 DEF Sockets
  <2>3. CASE k = conn /\ i+1 \in 1..Len(down[k]) /\ down'[k][i] = down[k][i+1]
    <3>1. i+1 = 1  BY <1>1, <2>3 DEF Sockets
    <3>2. QED  BY <3>1
  <2>4. CASE Connect /\ k = conn' /\ i = 1 /\ down'[k][i] = Hello
    BY <2>4 DEF Sockets, Connect
  <2>5. QED  BY <1>1, <2>1, <2>2, <2>3, <2>4, DownStep
<1> DEFINE Fresh == \A k \in Conns : k > conns => up[k] = <<>> /\ acks[k] = <<>> /\ ~open[k] /\ ~late[k]
           Closed == \A k \in Conns : late[k] => ~open[k]
           Greeted == /\ live => conn # 0 /\ met
                      /\ conn # 0 /\ ~live => up[conn] = <<>>
<1>2. Fresh /\ Closed /\ Greeted  BY DEF Sockets
<1>3. SUFFICES Fresh' /\ Closed' /\ Greeted'  BY <1>1 DEF Sockets
<1>4. CASE Post
  <2>1. Closed'  BY <1>2, <1>4 DEF Post
  <2>2. Fresh'
    <3>1. \A k \in Conns : k > conns => up'[k] = up[k]
      BY <1>2, <1>4, BoundsAssumption DEF Post, TypeOK, Conns
    <3>2. QED  BY <1>2, <1>4, <3>1 DEF Post
  <2>3. Greeted'  BY <1>2, <1>4 DEF Post
  <2>4. QED  BY <2>1, <2>2, <2>3
<1>5. CASE Connect
  <2>1. conns' \in Conns /\ conns' = conns + 1 /\ conn' = conns' /\ conns \in Nat
    BY <1>5, BoundsAssumption DEF Connect, TypeOK, Conns
  <2>2. up[conns'] = <<>> /\ ~late[conns']  BY <1>2, <2>1
  <2>3. Closed'  BY <1>2, <1>5, <2>1, <2>2 DEF Connect, TypeOK
  <2>4. Fresh'
    <3>1. \A k \in Conns : k > conns' => k > conns /\ k # conns'  BY <2>1 DEF Conns
    <3>2. QED  BY <1>2, <1>5, <3>1 DEF Connect, TypeOK
  <2>5. Greeted'  BY <1>2, <1>5, <2>1, <2>2 DEF Connect
  <2>6. QED  BY <2>3, <2>4, <2>5
<1>6. CASE TabLoses \/ Age
  BY <1>2, <1>6 DEF TabLoses, Age, tab, sockets
<1>7. CASE ReadsHello
  <2>1. up' = [up EXCEPT ![conn] = Sent] /\ live' = TRUE /\ met' = TRUE
    BY <1>7, Zenon DEF ReadsHello, OnHello, Resend, Keep, Sent
  <2>2. UNCHANGED <<conn, conns, open, late, acks>> /\ conn # 0  BY <1>7 DEF ReadsHello, Reads
  <2>3. Closed'  BY <1>2, <2>2
  <2>4. Fresh'
    <3>1. \A k \in Conns : k > conns => up'[k] = up[k]
      BY <2>1, BoundsAssumption DEF TypeOK, Conns
    <3>2. QED  BY <1>2, <2>2, <3>1
  <2>5. Greeted'  BY <2>1, <2>2
  <2>6. QED  BY <2>3, <2>4, <2>5
<1>8. CASE ReadsAck \/ ReadsResult
  BY <1>2, <1>8 DEF ReadsAck, ReadsResult, Reads, OnAck, OnResult
<1>9. ASSUME NEW k \in Conns, SendAcks(k)
      PROVE  Fresh' /\ Closed' /\ Greeted'
  <2>1. \A j \in Conns : acks[j] = <<>> => acks'[j] = <<>>  BY <1>9 DEF SendAcks, TypeOK
  <2>2. QED  BY <1>2, <1>9, <2>1 DEF SendAcks, tab
<1>10. ASSUME NEW k \in Conns, ServerCloses(k)
       PROVE  Fresh' /\ Closed' /\ Greeted'
  <2>1. /\ \A j \in Conns : /\ acks[j] = <<>> => acks'[j] = <<>>
                            /\ up[j] = <<>> => up'[j] = <<>>
                            /\ j = k => ~open'[j]
                            /\ j # k => open'[j] = open[j] /\ late'[j] = late[j]
        /\ UNCHANGED <<conn, conns, live, met>>
        /\ open[k]
    BY <1>10 DEF ServerCloses, TypeOK, tab
  <2>2. ~(k > conns)  BY <1>2, <2>1
  <2>3. Fresh' /\ Closed'  BY <1>2, <2>1, <2>2
  <2>4. Greeted'  BY <1>2, <2>1, BoundsAssumption DEF TypeOK, Conns
  <2>5. QED  BY <2>3, <2>4
<1>11. ASSUME NEW c \in Commands, NEW k \in Conns, Finish(c, k)
       PROVE  Fresh' /\ Closed' /\ Greeted'
  BY <1>2, <1>11 DEF Finish, tab
<1>12. ASSUME NEW c \in Posts, NEW k \in Conns, Takes(c, k)
       PROVE  Fresh' /\ Closed' /\ Greeted'
  <2>1. /\ \A j \in Conns : j # k => up'[j] = up[j] /\ acks'[j] = acks[j]
        /\ UNCHANGED <<conn, conns, live, met, open, late>>
        /\ up[k] # <<>>
    BY <1>12 DEF Takes, TypeOK, tab
  <2>2. ~(k > conns) /\ (k = conn => live)
    BY <1>2, <2>1, BoundsAssumption DEF TypeOK, Conns
  <2>3. Fresh' /\ Closed'  BY <1>2, <2>1, <2>2
  <2>4. conn # 0 => conn \in Conns  BY BoundsAssumption DEF TypeOK, Conns
  <2>5. Greeted'
    <3>1. live' => conn' # 0 /\ met'  BY <1>2, <2>1
    <3>2. conn' # 0 /\ ~live' => up'[conn'] = <<>>  BY <1>2, <2>1, <2>2, <2>4
    <3>3. QED  BY <3>1, <3>2
  <2>6. QED  BY <2>3, <2>5
<1> HIDE DEF Fresh, Closed, Greeted
<1>13. QED  BY <1>4, <1>5, <1>6, <1>7, <1>8, <1>9, <1>10, <1>11, <1>12, ReadyIsNoCommand
          DEF Move, TakesReady, TakesFirst, TakesAgain, Posts

-----------------------------------------------------------------------------
(* What is done stays done.                                                 *)

(* The commands let through are only added to.                              *)
LEMMA AdmittedStep ==
  ASSUME TypeOK, Move
  PROVE  /\ Len(admitted) \in Nat /\ Len(admitted') \in Nat
         /\ Len(admitted) <= Len(admitted')
         /\ \A i \in 1..Len(admitted) : i \in 1..Len(admitted') /\ admitted'[i] = admitted[i]
<1>1. admitted \in Seq([of : Commands, acted : BOOLEAN]) /\ Len(admitted) \in Nat
  BY LenProperties DEF TypeOK
<1>2. CASE admitted' = admitted  BY <1>1, <1>2
<1>3. ASSUME NEW c \in Commands, NEW k \in Conns, TakesFirst(c, k)
      PROVE  /\ Len(admitted') = Len(admitted) + 1
             /\ \A i \in 1..Len(admitted) : i \in 1..Len(admitted') /\ admitted'[i] = admitted[i]
  <2>1. [of |-> c, acted |-> open[k]] \in [of : Commands, acted : BOOLEAN]  BY DEF TypeOK
  <2>2. QED  BY <1>1, <1>3, <2>1, AppendProperties DEF TakesFirst
<1>4. admitted' = admitted \/ \E c \in Commands, k \in Conns : TakesFirst(c, k)
  BY DEF Move, Post, Connect, TabLoses, Age, ReadsHello, ReadsAck, ReadsResult, Reads, SendAcks,
         ServerCloses, TakesReady, Finish, TakesAgain
<1>5. QED  BY <1>1, <1>2, <1>3, <1>4

LEMMA Stays ==
  ASSUME TypeOK, Sockets, Move, NEW c
  PROVE  /\ c \in dropped => c \in dropped'
         /\ Swallowed(c) => Swallowed(c)'
         /\ Acted(c) => Acted(c)'
         /\ Done(c) => Done(c)'
<1>1. dropped \subseteq dropped'
  BY DEF Move, Post, Connect, TabLoses, Age, ReadsHello, ReadsAck, ReadsResult, SendAcks, OnHello, OnAck, OnResult,
         ServerCloses, TakesReady, Finish, TakesAgain, TakesFirst, Takes, tab
<1>2. Acted(c) => Acted(c)'  BY AdmittedStep DEF Acted
<1>3. ASSUME NEW k \in Conns, late[k], c \in awaiting[k], <<c, k>> \notin running
      PROVE  late'[k] /\ c \in awaiting'[k] /\ <<c, k>> \notin running'
  <2>1. ~open[k]  BY <1>3 DEF Sockets
  <2>2. CASE UNCHANGED <<late, awaiting, running>>  BY <1>3, <2>2
  <2>3. ASSUME NEW h \in Conns, ServerCloses(h)
        PROVE  late'[k] /\ c \in awaiting'[k] /\ <<c, k>> \notin running'
    BY <1>3, <2>1, <2>3 DEF ServerCloses, TypeOK
  <2>4. ASSUME NEW b \in Commands, NEW h \in Conns, Finish(b, h)
        PROVE  late'[k] /\ c \in awaiting'[k] /\ <<c, k>> \notin running'
    BY <1>3, <2>4 DEF Finish, TypeOK
  <2>5. ASSUME NEW b \in Commands, NEW h \in Conns, TakesFirst(b, h)
        PROVE  late'[k] /\ c \in awaiting'[k] /\ <<c, k>> \notin running'
    BY <1>3, <2>1, <2>5 DEF TakesFirst, Takes, TypeOK
  <2>6. \/ UNCHANGED <<late, awaiting, running>>
        \/ \E h \in Conns : ServerCloses(h)
        \/ \E b \in Commands, h \in Conns : Finish(b, h) \/ TakesFirst(b, h)
    BY DEF Move, Post, Connect, TabLoses, Age, ReadsHello, ReadsAck, ReadsResult, Reads, SendAcks,
           TakesReady, TakesAgain, Takes, sockets
  <2>7. QED  BY <2>2, <2>3, <2>4, <2>5, <2>6
<1>4. Swallowed(c) => Swallowed(c)'  BY <1>3 DEF Swallowed
<1>5. QED  BY <1>1, <1>2, <1>4 DEF Done

(* A command the server read is done, let through now or before.            *)
LEMMA TakenIsDone ==
  ASSUME TypeOK, Sockets, Acknowledged, Move, NEW c \in Commands, NEW k \in Conns,
         TakesFirst(c, k) \/ TakesAgain(c, k)
  PROVE  Done(c)' /\ (TakesFirst(c, k) /\ open[k] => Acted(c)')
<1>1. CASE TakesFirst(c, k)
  <2> DEFINE a == [of |-> c, acted |-> open[k]]
  <2>1. a \in [of : Commands, acted : BOOLEAN]  BY DEF TypeOK
  <2>2. admitted' = Append(admitted, a) /\ admitted \in Seq([of : Commands, acted : BOOLEAN])
    BY <1>1 DEF TakesFirst, TypeOK
  <2> HIDE DEF a
  <2>3. Len(admitted) + 1 \in 1..Len(admitted') /\ admitted'[Len(admitted)+1] = a
    BY <2>1, <2>2, AppendProperties, LenProperties
  <2>4. ASSUME open[k] PROVE Acted(c)'
    <3>1. a = [of |-> c, acted |-> TRUE]  BY <2>4 DEF a, TypeOK
    <3>2. QED  BY <2>3, <3>1 DEF Acted
  <2>5. ASSUME ~open[k] PROVE Done(c)'
    <3>1. late'[k] /\ c \in awaiting'[k] /\ running' = running
      BY <1>1, <2>5 DEF TakesFirst, Takes, TypeOK
    <3>2. CASE <<c, k>> \in running
      <4>1. Acted(c)  BY <3>2 DEF Acknowledged
      <4>2. QED  BY <4>1, Stays DEF Done
    <3>3. CASE <<c, k>> \notin running
      <4>1. Swallowed(c)'  BY <3>1, <3>3 DEF Swallowed
      <4>2. QED  BY <4>1 DEF Done
    <3>4. QED  BY <3>2, <3>3
  <2>6. QED  BY <2>4, <2>5 DEF Done
<1>2. CASE TakesAgain(c, k) /\ ~TakesFirst(c, k)
  <2>1. PICK e \in ToSet(cache) : e[1] = c  BY <1>2 DEF TakesAgain, Known
  <2>2. PICK p \in 1..Len(cache) : cache[p] = e  BY <2>1, LenProperties DEF ToSet, TypeOK
  <2>3. e \in Entries  BY <2>2, ElementOfSeq DEF TypeOK
  <2>4. PICK h \in Conns : e = <<c, h>>  BY <2>1, <2>3 DEF Entries
  <2>5. Done(c)  BY <2>2, <2>4 DEF Acknowledged, Has
  <2>6. QED  BY <1>2, <2>5, Stays
<1>3. QED  BY <1>1, <1>2

-----------------------------------------------------------------------------
(* The order of what is kept and sent.                                      *)

LEMMA RisingKept ==
  ASSUME NEW s \in Seq(Posts), Rising(s), NEW n, Within(s, n)
  PROVE  Rising(Kept(s)) /\ Within(Kept(s), n)
<1>1. Kept(s) \in Seq(Posts)  BY KeptFacts
<1>2. PICK d \in Nat : /\ Len(s) = Len(Kept(s)) + d
                       /\ \A i \in 1..Len(Kept(s)) : Kept(s)[i] = s[i+d]
  BY KeptFacts
<1>3. Len(Kept(s)) \in Nat /\ Len(s) \in Nat  BY <1>1, LenProperties
<1>4. \A i \in 1..Len(Kept(s)) : i+d \in 1..Len(s)  BY <1>2, <1>3
<1>5. Within(Kept(s), n)  BY <1>2, <1>4 DEF Within
<1>6. ASSUME NEW i \in 1..Len(Kept(s)), NEW j \in 1..Len(Kept(s)),
             i < j, Kept(s)[i] # Ready, Kept(s)[j] # Ready
      PROVE  Kept(s)[i] < Kept(s)[j]
  <2>1. i+d \in 1..Len(s) /\ j+d \in 1..Len(s) /\ i+d < j+d  BY <1>3, <1>4, <1>6
  <2>2. Kept(s)[i] = s[i+d] /\ Kept(s)[j] = s[j+d]  BY <1>2
  <2>3. QED  BY <1>6, <2>1, <2>2 DEF Rising
<1>7. QED  BY <1>5, <1>6 DEF Rising

LEMMA RisingWithout ==
  ASSUME NEW s \in Seq(Posts), Rising(s), NEW n, Within(s, n), NEW ids
  PROVE  /\ Rising(Without(s, ids)) /\ Within(Without(s, ids), n)
         /\ \A x : Has(s, x) /\ x \notin ids => Has(Without(s, ids), x)
<1> DEFINE w == Without(s, ids)
<1>1. w \in Seq(Posts) /\ Filters(w, s, ids, Len(s))  BY WithoutFacts
<1> HIDE DEF w
<1>2. Within(w, n)  BY <1>1 DEF Filters, OnlyStaying, Within
<1>3. ASSUME NEW x, Has(s, x), x \notin ids
      PROVE  Has(w, x)
  BY <1>1, <1>3 DEF Filters, AllStaying, Has
<1>4. ASSUME NEW q \in 1..Len(w), NEW r \in 1..Len(w), q < r, w[q] # Ready, w[r] # Ready
      PROVE  w[q] < w[r]
  <2>1. PICK p \in 1..Len(s), o \in 1..Len(s) : p < o /\ w[q] = s[p] /\ w[r] = s[o]
    BY <1>1, <1>4 DEF Filters, SameOrder
  <2>2. QED  BY <1>4, <2>1 DEF Rising
<1>5. Rising(w)  BY <1>4 DEF Rising
<1>6. QED  BY <1>2, <1>3, <1>5 DEF w

LEMMA RisingAppend ==
  ASSUME NEW s \in Seq(Posts), Rising(s), NEW n \in Nat, Within(s, n), NEW x \in Posts, x = Ready \/ x = n+1
  PROVE  /\ Append(s, x) \in Seq(Posts) /\ Rising(Append(s, x)) /\ Within(Append(s, x), n+1)
         /\ x = Ready => Within(Append(s, x), n)
         /\ Has(Append(s, x), x) /\ \A y : Has(s, y) => Has(Append(s, x), y)
         /\ Append(s, x) # <<>> /\ Len(Append(s, x)) = Len(s) + 1 /\ Append(s, x)[Len(s)+1] = x
         /\ Len(s) \in Nat /\ \A i \in 1..Len(s) : Append(s, x)[i] = s[i]
<1> DEFINE v == Append(s, x)
<1>1. /\ v \in Seq(Posts) /\ v # <<>> /\ Len(v) = Len(s) + 1
      /\ \A i \in 1..Len(s) : v[i] = s[i]
      /\ v[Len(s)+1] = x
  BY AppendProperties
<1>2. Len(s) \in Nat /\ \A i \in 1..Len(s) : s[i] \in Posts  BY LenProperties, ElementOfSeq
<1> HIDE DEF v
<1>3. \A i \in 1..Len(v) : i \in 1..Len(s) \/ i = Len(s)+1  BY <1>1, <1>2
<1>4. \A i \in 1..Len(s) : s[i] \in Nat /\ s[i] <= n  BY <1>2, ReadyIsNoCommand DEF Within
<1>5. Within(v, n+1) /\ (x = Ready => Within(v, n))  BY <1>1, <1>3, <1>4 DEF Within, Ready
<1>6. Rising(v)
  <2>1. SUFFICES ASSUME NEW i \in 1..Len(v), NEW j \in 1..Len(v), i < j, v[i] # Ready, v[j] # Ready
                 PROVE  v[i] < v[j]
    BY DEF Rising
  <2>2. i \in 1..Len(s)  BY <1>1, <1>2, <2>1
  <2>3. CASE j \in 1..Len(s)  BY <1>1, <2>1, <2>2, <2>3 DEF Rising
  <2>4. CASE j = Len(s)+1
    <3>1. v[j] = n+1  BY <1>1, <2>1, <2>4
    <3>2. QED  BY <1>1, <1>4, <2>2, <3>1
  <2>5. QED  BY <1>3, <2>3, <2>4
<1>7. Has(v, x) /\ \A y : Has(s, y) => Has(v, y)
  <2>1. Len(s)+1 \in 1..Len(v) /\ \A i \in 1..Len(s) : i \in 1..Len(v)  BY <1>1, <1>2
  <2>2. QED  BY <1>1, <2>1 DEF Has
<1>8. QED  BY <1>1, <1>2, <1>5, <1>6, <1>7 DEF v

(* On a hello: what is kept and what is sent again are in order, and a      *)
(* command that was kept is given up or sent again.                         *)
LEMMA HelloFacts ==
  ASSUME TypeOK, Order
  PROVE  /\ Rising(Kept(Keep)) /\ Within(Kept(Keep), posted)
         /\ Rising(Sent) /\ Within(Sent, posted) /\ Sent \in Seq(Posts)
         /\ \A c \in Commands : Has(unacked, c) =>
              c \in PushedOut(Keep) \/ (Has(Kept(Keep), c) /\ Has(Sent, c))
         /\ met => Len(Sent) >= 1 /\ Sent[1] = Ready
<1>1. unacked \in Seq(Posts) /\ Rising(unacked) /\ Within(unacked, posted) /\ posted \in Nat
  BY BoundsAssumption DEF TypeOK, Posts, Order, Within
<1>2. Rising(Resend) /\ Within(Resend, posted) /\ Resend \in Seq(Posts)
      /\ \A c \in Commands : Has(unacked, c) => Has(Resend, c)
  <2>1. /\ Rising(Without(unacked, {Ready})) /\ Within(Without(unacked, {Ready}), posted)
        /\ \A x : Has(unacked, x) /\ x \notin {Ready} => Has(Without(unacked, {Ready}), x)
    BY <1>1, RisingWithout
  <2>2. QED  BY <1>1, <2>1, HelloTypes, ReadyIsNoCommand DEF Resend
<1>3. Rising(Keep) /\ Within(Keep, posted) /\ Keep \in Seq(Posts)
      /\ \A c \in Commands : Has(unacked, c) => Has(Keep, c)
  <2>1. /\ Rising(Append(Resend, Ready)) /\ Within(Append(Resend, Ready), posted)
        /\ \A x : Has(Resend, x) => Has(Append(Resend, Ready), x)
    BY <1>1, <1>2, RisingAppend, ReadyIsNoCommand
  <2>2. QED  BY <1>1, <1>2, <2>1, HelloTypes DEF Keep
<1>4. Rising(Kept(Keep)) /\ Within(Kept(Keep), posted)
      /\ \A x : Has(Keep, x) => x \in PushedOut(Keep) \/ Has(Kept(Keep), x)
  <2>1. Rising(Kept(Keep)) /\ Within(Kept(Keep), posted)  BY <1>3, RisingKept
  <2>2. \A i \in 1..Len(Keep) : Keep[i] \in PushedOut(Keep) \/ \E j \in 1..Len(Kept(Keep)) : Kept(Keep)[j] = Keep[i]
    BY <1>3, KeptFacts
  <2>3. QED  BY <2>1, <2>2 DEF Has
<1> DEFINE w == Without(Resend, PushedOut(Keep))
<1>5. Rising(w) /\ Within(w, posted) /\ w \in Seq(Posts)
      /\ \A x : Has(Resend, x) /\ x \notin PushedOut(Keep) => Has(w, x)
  BY <1>2, RisingWithout, WithoutFacts
<1>6. Sent = (IF met THEN <<Ready>> ELSE <<>>) \o w  BY DEF Sent
<1> HIDE DEF w
<1>7. CASE met
  <2>1. Sent = <<Ready>> \o w  BY <1>6, <1>7
  <2>2. <<Ready>> \in Seq(Posts) /\ Len(<<Ready>>) = 1 /\ <<Ready>>[1] = Ready  BY ReadyIsNoCommand
  <2> DEFINE r == <<Ready>>
  <2>3. r \in Seq(Posts) /\ Len(r) = 1 /\ r[1] = Ready /\ Sent = r \o w  BY <2>1, <2>2
  <2> HIDE DEF r
  <2>4. /\ Sent \in Seq(Posts) /\ Len(Sent) = 1 + Len(w)
        /\ \A i \in 1..1 + Len(w) : Sent[i] = IF i <= 1 THEN r[i] ELSE w[i - 1]
    BY <1>5, <2>3, ConcatProperties
  <2>5. Len(w) \in Nat /\ \A i \in 1..Len(w) : w[i] \in Nat  BY <1>5, LenProperties, ElementOfSeq, ReadyIsNoCommand
  <2>6. Sent[1] = Ready /\ Len(Sent) >= 1  BY <2>3, <2>4, <2>5
  <2>7. \A i \in 1..Len(Sent) : i = 1 \/ (i-1 \in 1..Len(w) /\ Sent[i] = w[i-1])  BY <2>4, <2>5
  <2>8. Within(Sent, posted)  BY <1>1, <1>5, <2>6, <2>7 DEF Within, Ready
  <2>9. Rising(Sent)
    <3>1. SUFFICES ASSUME NEW i \in 1..Len(Sent), NEW j \in 1..Len(Sent), i < j, Sent[i] # Ready, Sent[j] # Ready
                   PROVE  Sent[i] < Sent[j]
      BY DEF Rising
    <3>2. i # 1 /\ j # 1  BY <2>6, <3>1
    <3>3. i-1 \in 1..Len(w) /\ j-1 \in 1..Len(w) /\ i-1 < j-1 /\ Sent[i] = w[i-1] /\ Sent[j] = w[j-1]
      BY <2>4, <2>5, <2>7, <3>1, <3>2
    <3>4. QED  BY <1>5, <3>1, <3>3 DEF Rising
  <2>10. \A x : Has(w, x) => Has(Sent, x)
    <3>1. ASSUME NEW i \in 1..Len(w) PROVE i+1 \in 1..Len(Sent) /\ Sent[i+1] = w[i]
      <4>1. i+1 \in 1..1 + Len(w) /\ ~(i+1 <= 1) /\ (i+1)-1 = i  BY <2>5
      <4>2. QED  BY <2>4, <4>1
    <3>2. QED  BY <3>1 DEF Has
  <2>11. QED  BY <1>2, <1>3, <1>4, <1>5, <2>4, <2>6, <2>8, <2>9, <2>10
<1>8. CASE ~met
  <2>1. Sent = w
    <3>1. Sent = <<>> \o w  BY <1>6, <1>8
    <3>2. QED  BY <1>5, <3>1, ConcatEmptySeq
  <2>2. QED  BY <1>2, <1>3, <1>4, <1>5, <1>8, <2>1
<1>9. QED  BY <1>7, <1>8

(* A post goes to the end of what is kept, and of what is sent if live.     *)
LEMMA PostFacts ==
  ASSUME TypeOK, Sockets, Order, Post
  PROVE  /\ posted \in Nat /\ posted' = posted + 1 /\ posted' \in Commands
         /\ Rising(unacked') /\ Within(unacked', posted') /\ Has(unacked', posted')
         /\ \A x : Has(unacked, x) => x \in dropped' \/ Has(unacked', x)
         /\ \A k \in Conns : IF live /\ k = conn THEN up'[k] = Append(up[k], posted') ELSE up'[k] = up[k]
         /\ \A k \in Conns : Rising(up'[k]) /\ Within(up'[k], posted')
         /\ UNCHANGED <<conn, live, met, conns, down, open, late, acks, awaiting, bound, running, cache, old, admitted>>
<1> DEFINE s == Append(unacked, posted')
<1>1. posted \in Nat /\ posted' = posted + 1 /\ posted' \in Commands /\ posted' \in Posts
  BY BoundsAssumption DEF Post, TypeOK, Commands, Posts
<1>2. unacked \in Seq(Posts) /\ Rising(unacked) /\ Within(unacked, posted)  BY DEF TypeOK, Posts, Order
<1>3. /\ s \in Seq(Posts) /\ Rising(s) /\ Within(s, posted') /\ s # <<>>
      /\ Has(s, posted') /\ \A y : Has(unacked, y) => Has(s, y)
      /\ Len(s) = Len(unacked) + 1 /\ s[Len(s)] = posted'
  BY <1>1, <1>2, RisingAppend
<1>4. unacked' = Kept(s) /\ dropped' = dropped \union PushedOut(s)  BY DEF Post
<1> HIDE DEF s
<1>5. Rising(unacked') /\ Within(unacked', posted')  BY <1>3, <1>4, RisingKept
<1>6. Has(unacked', posted')
  <2>1. Kept(s) \in Seq(Posts) /\ Kept(s) # <<>> /\ Kept(s)[Len(Kept(s))] = posted'  BY <1>3, KeptFacts
  <2>2. Len(Kept(s)) \in 1..Len(Kept(s))  BY <2>1, EmptySeq
  <2>3. QED  BY <1>4, <2>1, <2>2 DEF Has
<1>7. \A x : Has(unacked, x) => x \in dropped' \/ Has(unacked', x)
  <2>1. \A i \in 1..Len(s) : s[i] \in PushedOut(s) \/ \E j \in 1..Len(Kept(s)) : Kept(s)[j] = s[i]
    BY <1>3, KeptFacts
  <2>2. \A x : Has(s, x) => x \in PushedOut(s) \/ Has(Kept(s), x)  BY <2>1 DEF Has
  <2>3. QED  BY <1>3, <1>4, <2>2
<1>8. \A k \in Conns : IF live /\ k = conn THEN up'[k] = Append(up[k], posted') ELSE up'[k] = up[k]
  BY DEF Post, TypeOK
<1>9. ASSUME NEW k \in Conns
      PROVE  Rising(up'[k]) /\ Within(up'[k], posted')
  <2>1. up[k] \in Seq(Posts) /\ Rising(up[k]) /\ Within(up[k], posted)  BY DEF TypeOK, Posts, Order
  <2>2. Rising(Append(up[k], posted')) /\ Within(Append(up[k], posted'), posted')
    BY <1>1, <2>1, RisingAppend
  <2>3. Within(up[k], posted')
    <3>1. \A i \in 1..Len(up[k]) : up[k][i] \in Nat  BY <2>1, ElementOfSeq, ReadyIsNoCommand
    <3>2. QED  BY <1>1, <2>1, <3>1 DEF Within
  <2>4. QED  BY <1>8, <2>1, <2>2, <2>3
<1>10. UNCHANGED <<conn, live, met, conns, down, open, late, acks, awaiting, bound, running, cache, old, admitted>>
  BY DEF Post, results
<1>11. QED  BY <1>1, <1>4, <1>5, <1>6, <1>7, <1>8, <1>9, <1>10

(* On a hello the tab's lists are Keep and Sent.                            *)
LEMMA HelloEffect ==
  ASSUME TypeOK, Sockets, ReadsHello
  PROVE  /\ unacked' = Kept(Keep) /\ dropped' = dropped \union PushedOut(Keep)
         /\ conn \in Conns /\ ~live /\ live' = TRUE /\ met' = TRUE
         /\ \A k \in Conns : up'[k] = IF k = conn THEN Sent ELSE up[k]
         /\ up[conn] = <<>>
         /\ UNCHANGED <<posted, conn, conns, open, late, acks, awaiting, bound, running, cache, old, admitted>>
<1>1. /\ unacked' = Kept(Keep) /\ dropped' = dropped \union PushedOut(Keep)
      /\ up' = [up EXCEPT ![conn] = Sent]
      /\ live' = TRUE /\ met' = TRUE
  BY Zenon DEF ReadsHello, OnHello, Resend, Keep, Sent
<1>2. conn \in Conns /\ conn # 0 /\ down[conn] # <<>> /\ down[conn][1].type = "hello"
  BY BoundsAssumption DEF ReadsHello, Reads, TypeOK, Conns
<1>3. 1 \in 1..Len(down[conn])
  <2>1. down[conn] \in Seq(Frames)  BY <1>2 DEF TypeOK
  <2>2. QED  BY <1>2, <2>1, HeadOf
<1>4. ~live  BY <1>2, <1>3 DEF Sockets
<1>5. \A k \in Conns : up'[k] = IF k = conn THEN Sent ELSE up[k]  BY <1>1 DEF TypeOK
<1>6. up[conn] = <<>>  BY <1>2, <1>4 DEF Sockets
<1>7. UNCHANGED <<posted, conn, conns, open, late, acks, awaiting, bound, running, cache, old, admitted>>
  BY DEF ReadsHello, Reads, results
<1>8. QED  BY <1>1, <1>2, <1>4, <1>5, <1>6, <1>7

(* What the other steps change of the lists: a frame read, a socket closed. *)
LEMMA OtherSteps ==
  ASSUME TypeOK, Move, ~Post, ~ReadsHello
  PROVE  /\ UNCHANGED posted
         /\ unacked' = unacked \/ ReadsAck
         /\ \A k \in Conns : \/ up'[k] = up[k]
                             \/ up'[k] = <<>> /\ ~open'[k] /\ ~late'[k]
                             \/ \E c \in Posts : TakesAny(c, k)
<1>1. UNCHANGED posted /\ (unacked' = unacked \/ ReadsAck)
  BY DEF Move, Connect, TabLoses, Age, ReadsAck, ReadsResult, Reads, SendAcks, OnAck, OnResult,
         ServerCloses, TakesReady, Finish, TakesAgain, TakesFirst, Takes, tab
<1>2. ASSUME NEW h \in Conns, ServerCloses(h), NEW k \in Conns
      PROVE  up'[k] = up[k] \/ (up'[k] = <<>> /\ ~open'[k] /\ ~late'[k])
  BY <1>2 DEF ServerCloses, TypeOK
<1>3. ASSUME NEW h \in Conns, NEW c \in Posts, TakesAny(c, h), NEW k \in Conns
      PROVE  up'[k] = up[k] \/ \E b \in Posts : TakesAny(b, k)
  <2>1. Takes(c, h)  BY <1>3 DEF TakesAny, TakesReady, TakesFirst, TakesAgain
  <2>2. k # h => up'[k] = up[k]  BY <2>1 DEF Takes, TypeOK
  <2>3. QED  BY <1>3, <2>2
<1>4. up' = up \/ (\E h \in Conns : ServerCloses(h)) \/ (\E h \in Conns, c \in Posts : TakesAny(c, h))
  BY ReadyIsNoCommand
     DEF Move, Connect, TabLoses, Age, ReadsAck, ReadsResult, Reads, SendAcks, OnAck, OnResult,
         Finish, TakesAny, sockets, Posts
<1>5. QED  BY <1>1, <1>2, <1>3, <1>4

LEMMA TakenUp ==
  ASSUME TypeOK, NEW c \in Posts, NEW k \in Conns, Takes(c, k)
  PROVE  /\ up[k] \in Seq(Posts) /\ up'[k] \in Seq(Posts) /\ Len(up'[k]) \in Nat /\ up[k][1] = c
         /\ Len(up[k]) = Len(up'[k]) + 1
         /\ 1 \in 1..Len(up[k])
         /\ \A i \in 1..Len(up'[k]) : up'[k][i] = up[k][i+1] /\ i+1 \in 1..Len(up[k])
<1>1. up[k] \in Seq(Posts) /\ up[k] # <<>> /\ up'[k] = Tail(up[k]) /\ up[k][1] = c
  BY DEF TypeOK, Takes, Posts
<1>2. /\ Tail(up[k]) \in Seq(Posts) /\ Len(up[k]) \in Nat \ {0}
      /\ Len(up[k]) = Len(Tail(up[k])) + 1 /\ Len(Tail(up[k])) \in Nat
      /\ \A i \in 1..Len(Tail(up[k])) : Tail(up[k])[i] = up[k][i+1]
  BY <1>1, HeadOf
<1>3. 1 \in 1..Len(up[k]) /\ \A i \in 1..Len(Tail(up[k])) : i+1 \in 1..Len(up[k])  BY <1>2
<1>4. QED  BY <1>1, <1>2, <1>3

LEMMA OrderStep ==
  ASSUME TypeOK, Sockets, Order, Acknowledged, Move
  PROVE  Order'
<1>1. \A c : Done(c) => Done(c)'  BY Stays
<1>2. CASE Post
  <2>1. \A c \in 1..posted' : Done(c)' \/ Has(unacked', c)
    <3>1. \A c \in 1..posted' : c \in 1..posted \/ c = posted'  BY <1>2, PostFacts
    <3>2. \A c \in dropped' : Done(c)'  BY DEF Done
    <3>3. QED  BY <1>1, <1>2, <3>1, <3>2, PostFacts DEF Order
  <2>2. QED  BY <1>2, <2>1, PostFacts DEF Order
<1>3. CASE ReadsHello
  <2>1. \A c \in 1..posted' : Done(c)' \/ Has(unacked', c)
    <3>1. ASSUME NEW c \in 1..posted' PROVE Done(c)' \/ Has(unacked', c)
      <4>1. c \in 1..posted /\ c \in Commands
        <5>1. posted' = posted  BY <1>3, HelloEffect
        <5>2. posted \in 0..MaxCommands  BY DEF TypeOK
        <5>3. QED  BY <5>1, <5>2, BoundsAssumption DEF Commands
      <4>2. CASE Done(c)  BY <1>1, <4>2
      <4>3. CASE Has(unacked, c)
        <5>1. c \in PushedOut(Keep) \/ Has(Kept(Keep), c)  BY <4>1, <4>3, HelloFacts
        <5>2. QED  BY <1>3, <5>1, HelloEffect DEF Done
      <4>4. QED  BY <4>1, <4>2, <4>3 DEF Order
    <3>2. QED  BY <3>1
  <2>2. Rising(unacked') /\ Within(unacked', posted')  BY <1>3, HelloEffect, HelloFacts
  <2>3. \A k \in Conns : Rising(up'[k]) /\ Within(up'[k], posted')
    BY <1>3, HelloEffect, HelloFacts DEF Order
  <2>4. QED  BY <2>1, <2>2, <2>3 DEF Order
<1>4. CASE ~Post /\ ~ReadsHello
  <2>1. UNCHANGED posted /\ posted \in Nat  BY <1>4, OtherSteps, BoundsAssumption DEF TypeOK
  <2>2. unacked \in Seq(Posts) /\ Rising(unacked) /\ Within(unacked, posted)  BY DEF TypeOK, Posts, Order
  <2>3. Rising(unacked') /\ Within(unacked', posted) /\ \A c \in 1..posted : Done(c)' \/ Has(unacked', c)
    <3>1. CASE unacked' = unacked  BY <1>1, <2>2, <3>1 DEF Order
    <3>2. CASE ReadsAck
      <4> DEFINE ids == down[conn][1].ids
      <4>1. unacked' = Without(unacked, ids)  BY <3>2 DEF ReadsAck, OnAck
      <4>2. \A c \in ids \cap Commands : Done(c)
        <5>1. conn \in Conns /\ down[conn] # <<>>  BY <3>2, BoundsAssumption DEF ReadsAck, Reads, TypeOK, Conns
        <5>2. down[conn] \in Seq(Frames)  BY <5>1 DEF TypeOK
        <5>3. 1 \in 1..Len(down[conn])  BY <5>1, <5>2, HeadOf
        <5>4. QED  BY <3>2, <5>1, <5>3 DEF ReadsAck, Acknowledged
      <4> HIDE DEF ids
      <4>3. /\ Rising(unacked') /\ Within(unacked', posted)
            /\ \A c : Has(unacked, c) /\ c \notin ids => Has(unacked', c)
        BY <2>2, <4>1, RisingWithout
      <4>4. \A c \in 1..posted : c \in Commands  BY BoundsAssumption DEF TypeOK, Commands
      <4>5. \A c \in 1..posted : Done(c)' \/ Has(unacked', c)  BY <1>1, <4>2, <4>3, <4>4 DEF Order
      <4>6. QED  BY <4>3, <4>5
    <3>3. QED  BY <1>4, <3>1, <3>2, OtherSteps
  <2>4. ASSUME NEW k \in Conns
        PROVE  Rising(up'[k]) /\ Within(up'[k], posted)
    <3>1. Rising(up[k]) /\ Within(up[k], posted)  BY DEF Order
    <3>2. CASE up'[k] = up[k]  BY <3>1, <3>2
    <3>3. CASE up'[k] = <<>>
      <4>1. Len(up'[k]) = 0  BY <3>3
      <4>2. QED  BY <4>1 DEF Rising, Within
    <3>4. ASSUME NEW c \in Posts, TakesAny(c, k)
          PROVE  Rising(up'[k]) /\ Within(up'[k], posted)
      <4>1. Len(up'[k]) \in Nat /\ \A i \in 1..Len(up'[k]) : up'[k][i] = up[k][i+1] /\ i+1 \in 1..Len(up[k])
        BY <3>4, TakenUp DEF TakesAny, TakesReady, TakesFirst, TakesAgain
      <4>2. \A i, j \in 1..Len(up'[k]) : i < j => i+1 < j+1  BY <4>1
      <4>3. Within(up'[k], posted)  BY <3>1, <4>1 DEF Within
      <4>4. Rising(up'[k])  BY <3>1, <4>1, <4>2 DEF Rising
      <4>5. QED  BY <4>3, <4>4
    <3>5. QED  BY <1>4, <3>2, <3>3, <3>4, OtherSteps
  <2>5. QED  BY <2>1, <2>3, <2>4 DEF Order
<1>5. QED  BY <1>2, <1>3, <1>4

-----------------------------------------------------------------------------
(* Nothing is passed over on a socket.                                      *)

(* A socket opens untouched; the tab's is live from its hello on.           *)
LEMMA OpenStep ==
  ASSUME TypeOK, Sockets, Move
  PROVE  /\ \A k \in Conns : open'[k] \/ late'[k] => open[k] \/ late[k] \/ (up[k] = <<>> /\ up'[k] = <<>>)
         /\ live' /\ ~ReadsHello => live /\ conn' = conn /\ (open'[conn] \/ late'[conn] => open[conn] \/ late[conn])
                                /\ (open'[conn] => open[conn])
         /\ \A k \in Conns : open'[k] => open[k] \/ up'[k] = <<>>
<1>1. CASE Connect
  <2>1. conns' \in Conns /\ conns' > conns /\ conn' = conns' /\ ~live
    BY <1>1, BoundsAssumption DEF Connect, TypeOK, Conns, Sockets
  <2>2. up[conns'] = <<>> /\ up' = up  BY <1>1, <2>1 DEF Sockets, Connect
  <2>3. \A k \in Conns : k # conns' => open'[k] = open[k]  BY <1>1 DEF Connect, TypeOK
  <2>4. late' = late /\ live' = live  BY <1>1 DEF Connect
  <2>5. QED  BY <2>1, <2>2, <2>3, <2>4
<1>2. ASSUME NEW h \in Conns, ServerCloses(h), NEW k \in Conns
      PROVE  (open'[k] \/ late'[k] => open[k] \/ late[k]) /\ (open'[k] => open[k])
  BY <1>2 DEF ServerCloses, TypeOK
<1>3. CASE \E h \in Conns : ServerCloses(h)
  <2>1. UNCHANGED <<live, conn>>  BY <1>3 DEF ServerCloses, tab
  <2>2. live => conn \in Conns  BY BoundsAssumption DEF TypeOK, Sockets, Conns
  <2>3. QED  BY <1>2, <1>3, <2>1, <2>2
<1>4. CASE TabLoses
  BY <1>4 DEF TabLoses
<1>5. \/ UNCHANGED <<open, late>> /\ (ReadsHello \/ UNCHANGED <<live, conn>>)
      \/ Connect \/ TabLoses \/ \E h \in Conns : ServerCloses(h)
  <2>1. CASE Post \/ Age  BY <2>1 DEF Post, Age, tab, sockets
  <2>2. CASE ReadsHello  BY <2>2 DEF ReadsHello, Reads
  <2>3. CASE ReadsAck \/ ReadsResult  BY <2>3 DEF ReadsAck, ReadsResult, Reads, OnAck, OnResult
  <2>4. ASSUME NEW k \in Conns, SendAcks(k) \/ TakesReady(k)
        PROVE  UNCHANGED <<open, late, live, conn>>
    BY <2>4 DEF SendAcks, TakesReady, Takes, tab
  <2>5. ASSUME NEW c \in Commands, NEW k \in Conns, Finish(c, k) \/ TakesFirst(c, k) \/ TakesAgain(c, k)
        PROVE  UNCHANGED <<open, late, live, conn>>
    BY <2>5 DEF Finish, TakesFirst, TakesAgain, Takes, tab
  <2>6. QED  BY <2>1, <2>2, <2>3, <2>4, <2>5 DEF Move
<1>6. QED  BY <1>1, <1>3, <1>4, <1>5

LEMMA GaplessStep ==
  ASSUME TypeOK, Sockets, Order, Gapless, Acknowledged, Move
  PROVE  Gapless'
<1> DEFINE Early(k, i) == \A c \in 1..up[k][i]-1 : Done(c) \/ \E j \in 1..i-1 : up[k][j] = c
           All(k) == \A c \in 1..posted : Done(c) \/ Has(up[k], c)
<1>1. /\ \A c : Done(c) => Done(c)'
      /\ \A k \in Conns : open[k] \/ late[k] => \A i \in 1..Len(up[k]) : up[k][i] # Ready => Early(k, i)
      /\ live /\ (open[conn] \/ late[conn]) => All(conn)
  BY Stays DEF Gapless
<1>2. SUFFICES /\ \A k \in Conns : open'[k] \/ late'[k] =>
                    \A i \in 1..Len(up'[k]) : up'[k][i] # Ready => Early(k, i)'
               /\ live' /\ (open'[conn'] \/ late'[conn']) => All(conn)'
  BY DEF Gapless
<1>3. ASSUME NEW k \in Conns, up'[k] = up[k], NEW i \in 1..Len(up[k]), Early(k, i)
      PROVE  Early(k, i)'
  BY <1>1, <1>3
<1>4. \A k \in Conns : up[k] \in Seq(Posts) /\ Len(up[k]) \in Nat  BY LenProperties DEF TypeOK, Posts
<1>5. live => conn \in Conns  BY BoundsAssumption DEF TypeOK, Sockets, Conns
<1>6. CASE Post
  <2>1. UNCHANGED <<open, late, live, conn>> /\ posted \in Nat /\ posted' = posted + 1 /\ posted' \in Commands
    BY <1>6, PostFacts
  <2>2. \A k \in Conns : ~(live /\ k = conn) => up'[k] = up[k]  BY <1>6, PostFacts
  <2>3. ASSUME live, NEW k \in Conns, k = conn, open[k] \/ late[k]
        PROVE  /\ \A i \in 1..Len(up'[k]) : up'[k][i] # Ready => Early(k, i)'
               /\ All(k)'
    <3> DEFINE s == up[k]
               v == up'[k]
    <3>1. k \in Conns  OBVIOUS
    <3>2. s \in Seq(Posts) /\ Rising(s) /\ Within(s, posted) /\ Len(s) \in Nat  BY <1>4, <3>1 DEF Order
    <3>3. v = Append(s, posted')  BY <1>6, <2>3, <3>1, PostFacts
    <3>4. posted' \in Posts  BY <2>1 DEF Posts
    <3>5. All(k)  BY <1>1, <2>3
    <3>6. All(k) => \A c \in 1..posted : Done(c) \/ Has(s, c)  OBVIOUS
    <3>7. \A i \in 1..Len(s) : s[i] # Ready => \A c \in 1..s[i]-1 : Done(c) \/ \E j \in 1..i-1 : s[j] = c
      BY <1>1, <2>3, <3>1
    <3> HIDE DEF s
    <3>8. /\ Len(v) = Len(s) + 1 /\ v[Len(s)+1] = posted' /\ Has(v, posted')
          /\ \A i \in 1..Len(s) : v[i] = s[i]
          /\ \A y : Has(s, y) => Has(v, y)
      BY <2>1, <3>2, <3>3, <3>4, RisingAppend
    <3>9. (\A c \in 1..posted' : Done(c)' \/ Has(v, c)) => All(k)'  BY <2>1
    <3>10. (\A i \in 1..Len(v) : v[i] # Ready => \A c \in 1..v[i]-1 : Done(c)' \/ \E j \in 1..i-1 : v[j] = c)
             => \A i \in 1..Len(up'[k]) : up'[k][i] # Ready => Early(k, i)'
      BY <2>1
    <3> HIDE DEF v, All, Early
    <3>11. \A c \in 1..posted' : Done(c)' \/ Has(v, c)
      <4>1. \A c \in 1..posted' : c \in 1..posted \/ c = posted'  BY <2>1
      <4>2. QED  BY <1>1, <3>5, <3>6, <3>8, <4>1
    <3>12. ASSUME NEW i \in 1..Len(v), v[i] # Ready, NEW c \in 1..v[i]-1
           PROVE  Done(c)' \/ \E j \in 1..i-1 : v[j] = c
      <4>1. CASE i \in 1..Len(s)
        <5>1. Done(c) \/ \E j \in 1..i-1 : s[j] = c  BY <3>7, <3>8, <3>12, <4>1
        <5>2. \A j \in 1..i-1 : v[j] = s[j]  BY <3>2, <3>8, <4>1
        <5>3. QED  BY <1>1, <5>1, <5>2
      <4>2. CASE i = Len(s) + 1
        <5>1. c \in 1..posted  BY <2>1, <3>8, <3>12, <4>2
        <5>2. Done(c) \/ Has(s, c)  BY <3>5, <3>6, <5>1
        <5>3. Has(s, c) => \E j \in 1..i-1 : v[j] = c  BY <3>2, <3>8, <4>2 DEF Has
        <5>4. QED  BY <1>1, <5>2, <5>3
      <4>3. QED  BY <3>2, <3>8, <4>1, <4>2
    <3>13. QED  BY <3>9, <3>10, <3>11, <3>12
  <2>4. ASSUME NEW k \in Conns, open'[k] \/ late'[k], NEW i \in 1..Len(up'[k]), up'[k][i] # Ready
        PROVE  Early(k, i)'
    <3>1. CASE live /\ k = conn
      <4> HIDE DEF Early
      <4>1. \A j \in 1..Len(up'[k]) : up'[k][j] # Ready => Early(k, j)'  BY <2>1, <2>3, <2>4, <3>1
      <4>2. QED  BY <2>4, <4>1
    <3>2. CASE ~(live /\ k = conn)
      <4>1. up'[k] = up[k]  BY <2>2, <3>2
      <4>2. Early(k, i)  BY <1>1, <2>1, <2>4, <4>1
      <4>3. QED  BY <1>3, <2>4, <4>1, <4>2
    <3>3. QED  BY <3>1, <3>2
  <2>5. live' /\ (open'[conn'] \/ late'[conn']) => All(conn)'
    <3>1. SUFFICES ASSUME live', open'[conn'] \/ late'[conn'] PROVE All(conn)'  OBVIOUS
    <3>2. \A k \in Conns : k = conn => All(k)'
      <4> HIDE DEF All
      <4>1. QED  BY <2>1, <2>3, <3>1
    <3>3. QED  BY <1>5, <2>1, <3>1, <3>2
  <2> HIDE DEF Early, All
  <2>6. QED  BY <2>4, <2>5
<1>7. CASE ReadsHello
  <2>1. UNCHANGED <<open, late, conn, posted>> /\ conn \in Conns  BY <1>7, HelloEffect
  <2>2. up'[conn] = Sent /\ \A k \in Conns : k # conn => up'[k] = up[k]  BY <1>7, HelloEffect
  <2>3. posted \in Nat /\ \A c \in 1..posted : c \in Commands  BY BoundsAssumption DEF TypeOK, Commands
  <2>4. Rising(Sent) /\ Within(Sent, posted) /\ Sent \in Seq(Posts) /\ Len(Sent) \in Nat
    BY HelloFacts, LenProperties
  <2>5. \A c \in 1..posted : Done(c)' \/ Has(Sent, c)
    <3>1. ASSUME NEW c \in 1..posted PROVE Done(c)' \/ Has(Sent, c)
      <4>1. CASE Done(c)  BY <1>1, <4>1
      <4>2. CASE Has(unacked, c)
        <5>1. c \in PushedOut(Keep) \/ Has(Sent, c)  BY <2>3, <4>2, HelloFacts
        <5>2. QED  BY <1>7, <5>1, HelloEffect DEF Done
      <4>3. QED  BY <4>1, <4>2 DEF Order
    <3>2. QED  BY <3>1
  <2>6. All(conn)'  BY <2>1, <2>2, <2>5
  <2>7. ASSUME NEW i \in 1..Len(Sent), Sent[i] # Ready, NEW c \in 1..Sent[i]-1
        PROVE  Done(c)' \/ \E j \in 1..i-1 : Sent[j] = c
    <3>1. Sent[i] \in Nat /\ Sent[i] <= posted
      BY <2>4, ElementOfSeq, ReadyIsNoCommand DEF Within
    <3>2. c \in 1..posted /\ c < Sent[i] /\ c # Ready  BY <2>3, <3>1 DEF Ready
    <3>3. Has(Sent, c) => \E j \in 1..i-1 : Sent[j] = c
      <4>1. SUFFICES ASSUME NEW j \in 1..Len(Sent), Sent[j] = c PROVE j \in 1..i-1  BY DEF Has
      <4>2. j # i /\ ~(i < j)  BY <2>4, <2>7, <3>1, <3>2, <4>1 DEF Rising
      <4>3. QED  BY <2>4, <4>2
    <3>4. QED  BY <2>5, <3>2, <3>3
  <2>8. ASSUME NEW k \in Conns, open'[k] \/ late'[k], NEW i \in 1..Len(up'[k]), up'[k][i] # Ready
        PROVE  Early(k, i)'
    <3>1. CASE k = conn  BY <2>2, <2>7, <2>8, <3>1
    <3>2. CASE k # conn
      <4>1. up'[k] = up[k]  BY <2>2, <3>2
      <4>2. Early(k, i)  BY <1>1, <2>1, <2>8, <4>1
      <4>3. QED  BY <1>3, <2>8, <4>1, <4>2
    <3>3. QED  BY <3>1, <3>2
  <2> HIDE DEF Early, All
  <2>9. QED  BY <2>6, <2>8
<1>8. CASE ~Post /\ ~ReadsHello
  <2>1. UNCHANGED posted  BY <1>8, OtherSteps
  <2>2. /\ live' => live /\ conn' = conn /\ (open'[conn] \/ late'[conn] => open[conn] \/ late[conn])
        /\ \A k \in Conns : open'[k] \/ late'[k] => open[k] \/ late[k] \/ up[k] = <<>>
    BY <1>5, <1>8, OpenStep
  <2>3. ASSUME NEW k \in Conns, up'[k] = up[k], open'[k] \/ late'[k],
               NEW i \in 1..Len(up'[k]), up'[k][i] # Ready
        PROVE  Early(k, i)'
    <3>1. up[k] # <<>>  BY <1>4, <2>3
    <3>2. Early(k, i)  BY <1>1, <2>2, <2>3, <3>1
    <3>3. QED  BY <1>3, <2>3, <3>2
  <2>4. ASSUME NEW k \in Conns, NEW b \in Posts, TakesAny(b, k)
        PROVE  /\ b = Ready \/ Done(b)'
               /\ \A i \in 1..Len(up'[k]) : up'[k][i] # Ready => Early(k, i)'
               /\ \A c \in 1..posted : Has(up[k], c) => Done(c)' \/ Has(up'[k], c)
    <3>1. Takes(b, k)  BY <2>4 DEF TakesAny, TakesReady, TakesFirst, TakesAgain
    <3>2. b = Ready \/ Done(b)'  BY <2>4, TakenIsDone DEF TakesAny
    <3>3. /\ Len(up'[k]) \in Nat /\ up[k][1] = b /\ Len(up[k]) = Len(up'[k]) + 1
          /\ \A i \in 1..Len(up'[k]) : up'[k][i] = up[k][i+1] /\ i+1 \in 1..Len(up[k])
      BY <3>1, TakenUp
    <3>4. open[k] \/ late[k]  BY <3>1 DEF Takes
    <3>5. ASSUME NEW i \in 1..Len(up'[k]), up'[k][i] # Ready, NEW c \in 1..up'[k][i]-1
          PROVE  Done(c)' \/ \E j \in 1..i-1 : up'[k][j] = c
      <4>1. c # Ready  BY DEF Ready
      <4>2. Done(c) \/ \E j \in 1..(i+1)-1 : up[k][j] = c  BY <1>1, <3>3, <3>4, <3>5
      <4>3. ASSUME NEW j \in 1..(i+1)-1, up[k][j] = c
            PROVE  Done(c)' \/ \E h \in 1..i-1 : up'[k][h] = c
        <5>1. CASE j = 1  BY <3>2, <3>3, <4>1, <4>3, <5>1
        <5>2. CASE j # 1
          <6>1. j-1 \in 1..i-1 /\ j-1 \in 1..Len(up'[k]) /\ (j-1)+1 = j  BY <3>3, <5>2
          <6>2. up'[k][j-1] = c  BY <3>3, <4>3, <6>1
          <6>3. QED  BY <6>1, <6>2
        <5>3. QED  BY <5>1, <5>2
      <4>4. QED  BY <1>1, <4>2, <4>3
    <3>6. ASSUME NEW c \in 1..posted, NEW j \in 1..Len(up[k]), up[k][j] = c
          PROVE  Done(c)' \/ Has(up'[k], c)
      <4>1. c # Ready  BY DEF Ready
      <4>2. CASE j = 1  BY <3>2, <3>3, <3>6, <4>1, <4>2
      <4>3. CASE j # 1
        <5>1. j-1 \in 1..Len(up'[k]) /\ (j-1)+1 = j  BY <3>3, <4>3
        <5>2. up'[k][j-1] = c  BY <3>3, <3>6, <5>1
        <5>3. QED  BY <5>1, <5>2 DEF Has
      <4>4. QED  BY <4>2, <4>3
    <3>7. \A c \in 1..posted : Has(up[k], c) => Done(c)' \/ Has(up'[k], c)
      <4>1. SUFFICES ASSUME NEW c \in 1..posted, Has(up[k], c) PROVE Done(c)' \/ Has(up'[k], c)  OBVIOUS
      <4>2. PICK j \in 1..Len(up[k]) : up[k][j] = c  BY <4>1 DEF Has
      <4>3. QED  BY <3>6, <4>2
    <3>8. QED  BY <3>2, <3>5, <3>7
  <2>5. \A k \in Conns : \/ up'[k] = up[k]
                         \/ up'[k] = <<>> /\ ~open'[k] /\ ~late'[k]
                         \/ \E c \in Posts : TakesAny(c, k)
    BY <1>8, OtherSteps
  <2>6. live' /\ (open'[conn'] \/ late'[conn']) => All(conn)'
    <3>1. SUFFICES ASSUME live', open'[conn'] \/ late'[conn'] PROVE All(conn)'  OBVIOUS
    <3>2. live /\ conn \in Conns /\ conn' = conn /\ All(conn)  BY <1>1, <1>5, <2>2, <3>1
    <3>3. \A c \in 1..posted : Done(c)' \/ Has(up[conn], c)  BY <1>1, <3>2
    <3>4. CASE up'[conn] = up[conn]  BY <2>1, <3>2, <3>3, <3>4
    <3>5. CASE \E c \in Posts : TakesAny(c, conn)
      <4>1. \A c \in 1..posted : Has(up[conn], c) => Done(c)' \/ Has(up'[conn], c)  BY <2>4, <3>2, <3>5
      <4>2. QED  BY <2>1, <3>2, <3>3, <4>1
    <3>6. QED  BY <2>5, <3>1, <3>2, <3>4, <3>5
  <2> HIDE DEF Early, All
  <2>7. QED  BY <2>3, <2>4, <2>5, <2>6
<1>9. QED  BY <1>6, <1>7, <1>8

-----------------------------------------------------------------------------
(* What is acknowledged is done.                                            *)

(* How the cache changes, and what is old.                                  *)
LEMMA CacheStep ==
  ASSUME TypeOK, Move
  PROVE  \/ UNCHANGED <<cache, old, admitted>>
         \/ Age /\ UNCHANGED <<cache, admitted>> /\ old' = old \union ToSet(cache)
         \/ \E c \in Commands, k \in Conns : TakesFirst(c, k) /\ UNCHANGED old
<1>1. CASE Post \/ Connect \/ TabLoses  BY <1>1 DEF Post, Connect, TabLoses, results
<1>2. CASE Age  BY <1>2 DEF Age
<1>3. CASE ReadsHello \/ ReadsAck \/ ReadsResult  BY <1>3 DEF ReadsHello, ReadsAck, ReadsResult, Reads, results
<1>4. ASSUME NEW k \in Conns, SendAcks(k) \/ ServerCloses(k) \/ TakesReady(k)
      PROVE  UNCHANGED <<cache, old, admitted>>
  BY <1>4 DEF SendAcks, ServerCloses, TakesReady, Takes, results
<1>5. ASSUME NEW c \in Commands, NEW k \in Conns, Finish(c, k) \/ TakesAgain(c, k)
      PROVE  UNCHANGED <<cache, old, admitted>>
  BY <1>5 DEF Finish, TakesAgain, Takes
<1>6. ASSUME NEW c \in Commands, NEW k \in Conns, TakesFirst(c, k)
      PROVE  UNCHANGED old
  BY <1>6 DEF TakesFirst, Takes
<1>7. QED  BY <1>1, <1>2, <1>3, <1>4, <1>5, <1>6 DEF Move

LEMMA RunningStep ==
  ASSUME TypeOK, Move, NEW c, NEW k, <<c, k>> \in running', <<c, k>> \notin running
  PROVE  TakesFirst(c, k) /\ open[k] /\ k \in Conns /\ c \in Commands
<1>1. CASE Post \/ Connect \/ TabLoses \/ Age  BY <1>1 DEF Post, Connect, TabLoses, Age, sockets
<1>2. CASE ReadsHello \/ ReadsAck \/ ReadsResult  BY <1>2 DEF ReadsHello, ReadsAck, ReadsResult, Reads
<1>3. ASSUME NEW h \in Conns, SendAcks(h) \/ ServerCloses(h) \/ TakesReady(h)
      PROVE  FALSE
  BY <1>3 DEF SendAcks, ServerCloses, TakesReady
<1>4. ASSUME NEW b \in Commands, NEW h \in Conns, Finish(b, h) \/ TakesAgain(b, h)
      PROVE  FALSE
  BY <1>4 DEF Finish, TakesAgain
<1>5. ASSUME NEW b \in Commands, NEW h \in Conns, TakesFirst(b, h)
      PROVE  b = c /\ h = k /\ open[k]
  BY <1>5 DEF TakesFirst
<1>6. QED  BY <1>1, <1>2, <1>3, <1>4, <1>5 DEF Move

LEMMA AcksStep ==
  ASSUME TypeOK, Move, NEW k \in Conns, NEW i \in 1..Len(acks'[k])
  PROVE  \/ i \in 1..Len(acks[k]) /\ acks'[k][i] = acks[k][i]
         \/ \E c \in Posts : TakesAny(c, k) /\ acks'[k][i] = c
<1>1. acks[k] \in Seq(Posts) /\ Len(acks[k]) \in Nat  BY LenProperties DEF TypeOK, Posts
<1>2. ASSUME NEW h \in Conns, SendAcks(h) \/ ServerCloses(h)
      PROVE  acks'[k] = acks[k] \/ acks'[k] = <<>>
  BY <1>2 DEF SendAcks, ServerCloses, TypeOK
<1>3. ASSUME NEW h \in Conns, NEW c \in Posts, TakesAny(c, h)
      PROVE  acks'[k] = acks[k] \/ (h = k /\ acks'[k] = Append(acks[k], c))
  <2>1. Takes(c, h)  BY <1>3 DEF TakesAny, TakesReady, TakesFirst, TakesAgain
  <2>2. acks' = acks \/ acks' = [acks EXCEPT ![h] = Append(@, c)]  BY <2>1 DEF Takes
  <2>3. QED  BY <2>2 DEF TypeOK
<1>4. ASSUME NEW c \in Posts, acks'[k] = Append(acks[k], c)
      PROVE  (i \in 1..Len(acks[k]) /\ acks'[k][i] = acks[k][i]) \/ acks'[k][i] = c
  <2>1. /\ Len(acks'[k]) = Len(acks[k]) + 1
        /\ \A j \in 1..Len(acks[k]) : acks'[k][j] = acks[k][j]
        /\ acks'[k][Len(acks[k])+1] = c
    BY <1>1, <1>4, AppendProperties
  <2>2. i \in 1..Len(acks[k]) \/ i = Len(acks[k])+1  BY <1>1, <2>1
  <2>3. QED  BY <2>1, <2>2
<1>5. acks'[k] # <<>>
  <2>1. SUFFICES ASSUME acks'[k] = <<>> PROVE FALSE  OBVIOUS
  <2>2. Len(acks'[k]) = 0  BY <2>1
  <2>3. QED  BY <2>2
<1>6. \/ acks' = acks
      \/ \E h \in Conns : SendAcks(h) \/ ServerCloses(h)
      \/ \E h \in Conns, c \in Posts : TakesAny(c, h)
  <2>1. CASE Post \/ Connect \/ TabLoses \/ Age  BY <2>1 DEF Post, Connect, TabLoses, Age, sockets
  <2>2. CASE ReadsHello \/ ReadsAck \/ ReadsResult  BY <2>2 DEF ReadsHello, ReadsAck, ReadsResult, Reads
  <2>3. ASSUME NEW c \in Commands, NEW h \in Conns, Finish(c, h)
        PROVE  acks' = acks
    BY <2>3 DEF Finish
  <2>4. QED  BY <2>1, <2>2, <2>3 DEF Move, TakesAny, Posts
<1>7. QED  BY <1>2, <1>3, <1>4, <1>5, <1>6

LEMMA AcknowledgedStep ==
  ASSUME TypeOK, Sockets, Carried, Acknowledged, Move
  PROVE  Acknowledged'
<1>1. \A c : (Done(c) => Done(c)') /\ (Acted(c) => Acted(c)')  BY Stays
<1>2. ASSUME NEW c \in Commands, NEW k \in Conns, TakesAny(c, k)
      PROVE  Done(c)'
  <2>1. TakesFirst(c, k) \/ TakesAgain(c, k)  BY <1>2, ReadyIsNoCommand DEF TakesAny
  <2>2. QED  BY <2>1, TakenIsDone
<1>3. ASSUME NEW c \in Commands, NEW k \in Conns, Has(acks'[k], c)
      PROVE  Done(c)'
  <2>1. PICK i \in 1..Len(acks'[k]) : acks'[k][i] = c  BY <1>3 DEF Has
  <2>2. CASE i \in 1..Len(acks[k]) /\ acks'[k][i] = acks[k][i]
    <3>1. Has(acks[k], c)  BY <2>1, <2>2 DEF Has
    <3>2. QED  BY <1>1, <3>1 DEF Acknowledged
  <2>3. CASE \E b \in Posts : TakesAny(b, k) /\ acks'[k][i] = b  BY <1>2, <2>1, <2>3
  <2>4. QED  BY <2>2, <2>3, AcksStep
<1>4. ASSUME NEW c \in Commands, NEW k \in Conns, NEW i \in 1..Len(down'[k]),
             down'[k][i].type = "ack", c \in down'[k][i].ids
      PROVE  Done(c)'
  <2>1. CASE i \in 1..Len(down[k]) /\ down'[k][i] = down[k][i]
    <3>1. Done(c)  BY <1>4, <2>1 DEF Acknowledged
    <3>2. QED  BY <1>1, <3>1
  <2>2. CASE i+1 \in 1..Len(down[k]) /\ down'[k][i] = down[k][i+1]
    <3>1. Done(c)  BY <1>4, <2>2 DEF Acknowledged
    <3>2. QED  BY <1>1, <3>1
  <2>3. CASE down'[k][i] = Hello \/ \E b \in Commands : down'[k][i] = Result(b)
    <3>1. Hello.type # "ack" /\ \A b \in Commands : Result(b).type # "ack"  BY DEF Hello, Result
    <3>2. QED  BY <1>4, <2>3, <3>1
  <2>4. CASE SendAcks(k) /\ down'[k][i] = Ack(ToSet(acks[k]))
    <3>1. c \in ToSet(acks[k])  BY <1>4, <2>4 DEF Ack
    <3>2. Has(acks[k], c)  BY <3>1, LenProperties DEF ToSet, Has, TypeOK
    <3>3. QED  BY <1>1, <3>2 DEF Acknowledged
  <2>5. QED  BY <2>1, <2>2, <2>3, <2>4, DownStep
<1>5. ASSUME NEW c \in Commands, NEW k \in Conns, Has(cache', <<c, k>>)
      PROVE  Done(c)'
  <2>1. CASE cache' = cache  BY <1>1, <1>5, <2>1 DEF Acknowledged
  <2>2. ASSUME NEW b \in Commands, NEW h \in Conns, TakesFirst(b, h)
        PROVE  Done(c)'
    <3>1. <<b, h>> \notin old /\ cache' = Pushed(b, h)  BY <2>2, TakenIsNew DEF TakesFirst
    <3>2. PICK q \in 1..Len(cache') : cache'[q] = <<c, k>>  BY <1>5 DEF Has
    <3>3. cache'[q] = <<b, h>> \/ \E p \in 1..Len(cache) : cache'[q] = cache[p]
      <4>1. cache \in Seq(Entries)  BY DEF TypeOK
      <4>2. \A r \in 1..Len(Pushed(b, h)) :
              Pushed(b, h)[r] = <<b, h>> \/ \E p \in 1..Len(cache) : Pushed(b, h)[r] = cache[p]
        BY <3>1, <4>1, PushedFacts
      <4>3. QED  BY <3>1, <3>2, <4>2
    <3>4. c = b \/ Has(cache, <<c, k>>)  BY <3>2, <3>3 DEF Has
    <3>5. QED  BY <1>1, <2>2, <3>4, TakenIsDone DEF Acknowledged
  <2>3. QED  BY <2>1, <2>2, CacheStep
<1>6. ASSUME NEW c \in Commands, NEW k \in Conns, <<c, k>> \in running'
      PROVE  Acted(c)'
  <2>1. CASE <<c, k>> \in running  BY <1>1, <2>1 DEF Acknowledged
  <2>2. CASE TakesFirst(c, k) /\ open[k]  BY <2>2, TakenIsDone
  <2>3. <<c, k>> \in running \/ (TakesFirst(c, k) /\ open[k])  BY <1>6, RunningStep
  <2>4. QED  BY <2>1, <2>2, <2>3
<1>7. QED  BY <1>3, <1>4, <1>5, <1>6 DEF Acknowledged

-----------------------------------------------------------------------------
(* What is remembered was let through once.                                 *)

LEMMA CarriedStep ==
  ASSUME TypeOK, Sockets, Order, Carried, Move
  PROVE  Carried'
<1>1. SUFFICES ASSUME NEW c \in Commands, NEW k \in Conns, Entry(<<c, k>>)'
               PROVE  /\ c <= posted' /\ k <= conns' /\ (k = conn' => live')
                      /\ \A i \in 1..Len(up'[k]) : up'[k][i] # Ready => c < up'[k][i]
  BY DEF Carried
<1>2. c \in Nat /\ k \in Nat \ {0} /\ posted \in Nat /\ conns \in Nat
  BY BoundsAssumption DEF TypeOK, Commands, Conns
<1>3. \A b \in Posts : TakesAny(b, k) => Takes(b, k)  BY DEF TakesAny, TakesReady, TakesFirst, TakesAgain
<1>4. CASE TakesFirst(c, k)
  <2>1. Takes(c, k) /\ c \in Posts  BY <1>4 DEF TakesFirst, Posts
  <2>2. UNCHANGED <<posted, conns, conn, live>>  BY <2>1 DEF Takes, tab
  <2>3. /\ 1 \in 1..Len(up[k]) /\ up[k][1] = c /\ Len(up'[k]) \in Nat
        /\ \A i \in 1..Len(up'[k]) : up'[k][i] = up[k][i+1] /\ i+1 \in 1..Len(up[k])
    BY <2>1, TakenUp
  <2>4. c <= posted /\ Rising(up[k])  BY <2>3 DEF Order, Within
  <2>5. up[k] # <<>>  BY <2>1 DEF Takes
  <2>6. k <= conns /\ (k = conn => live)  BY <1>2, <2>5 DEF Sockets
  <2>7. c # Ready  BY ReadyIsNoCommand
  <2>8. ASSUME NEW i \in 1..Len(up'[k]), up'[k][i] # Ready
        PROVE  c < up'[k][i]
    <3>1. 1 < i+1  BY <2>3
    <3>2. QED  BY <2>3, <2>4, <2>7, <2>8, <3>1 DEF Rising
  <2>9. QED  BY <2>2, <2>4, <2>6, <2>8
<1>5. CASE Entry(<<c, k>>)
  <2>1. /\ c <= posted /\ k <= conns /\ (k = conn => live)
        /\ \A i \in 1..Len(up[k]) : up[k][i] # Ready => c < up[k][i]
    BY <1>5 DEF Carried
  <2>2. up[k] \in Seq(Posts) /\ Len(up[k]) \in Nat  BY LenProperties DEF TypeOK, Posts
  <2>3. CASE Post
    <3>1. /\ posted' = posted + 1 /\ UNCHANGED <<conns, conn, live>> /\ posted' \in Posts
          /\ up'[k] = up[k] \/ up'[k] = Append(up[k], posted')
      BY <2>3, PostFacts DEF Posts
    <3>2. CASE up'[k] = up[k]  BY <1>2, <2>1, <3>1, <3>2
    <3>3. CASE up'[k] = Append(up[k], posted')
      <4>1. /\ Len(up'[k]) = Len(up[k]) + 1
            /\ \A i \in 1..Len(up[k]) : up'[k][i] = up[k][i]
            /\ up'[k][Len(up[k])+1] = posted'
        BY <2>2, <3>1, <3>3, AppendProperties
      <4>2. \A i \in 1..Len(up'[k]) : i \in 1..Len(up[k]) \/ i = Len(up[k])+1  BY <2>2, <4>1
      <4>3. c < posted'  BY <1>2, <2>1, <3>1
      <4>4. QED  BY <1>2, <2>1, <3>1, <4>1, <4>2, <4>3
    <3>4. QED  BY <3>1, <3>2, <3>3
  <2>4. CASE ReadsHello
    <3>1. UNCHANGED <<posted, conns, conn>> /\ live' /\ ~live /\ up'[k] = IF k = conn THEN Sent ELSE up[k]
      BY <2>4, HelloEffect
    <3>2. QED  BY <2>1, <3>1
  <2>5. CASE ~Post /\ ~ReadsHello
    <3>1. posted' = posted  BY <2>5, OtherSteps
    <3>2. conns' \in Nat /\ conns' >= conns /\ (k = conn' => live')
      <4>1. CASE Connect  BY <1>2, <2>1, <4>1 DEF Connect
      <4>2. CASE TabLoses  BY <1>2, <4>2 DEF TabLoses
      <4>3. CASE Age \/ ReadsAck \/ ReadsResult
        BY <1>2, <2>1, <4>3 DEF Age, ReadsAck, ReadsResult, Reads, OnAck, OnResult, tab
      <4>4. ASSUME NEW h \in Conns, SendAcks(h) \/ ServerCloses(h) \/ TakesReady(h)
            PROVE  UNCHANGED <<conns, conn, live>>
        BY <4>4 DEF SendAcks, ServerCloses, TakesReady, Takes, tab
      <4>5. ASSUME NEW b \in Commands, NEW h \in Conns, Finish(b, h) \/ TakesFirst(b, h) \/ TakesAgain(b, h)
            PROVE  UNCHANGED <<conns, conn, live>>
        BY <4>5 DEF Finish, TakesFirst, TakesAgain, Takes, tab
      <4>6. CASE UNCHANGED <<conns, conn, live>>  BY <1>2, <2>1, <4>6
      <4>7. QED  BY <2>5, <4>1, <4>2, <4>3, <4>4, <4>5, <4>6 DEF Move
    <3>3. \A i \in 1..Len(up'[k]) : up'[k][i] # Ready => c < up'[k][i]
      <4>1. CASE up'[k] = up[k]  BY <2>1, <4>1
      <4>2. CASE up'[k] = <<>>
        <5>1. Len(up'[k]) = 0  BY <4>2
        <5>2. QED  BY <5>1
      <4>3. ASSUME NEW b \in Posts, Takes(b, k)
            PROVE  \A i \in 1..Len(up'[k]) : up'[k][i] # Ready => c < up'[k][i]
        <5>1. \A i \in 1..Len(up'[k]) : up'[k][i] = up[k][i+1] /\ i+1 \in 1..Len(up[k])  BY <4>3, TakenUp
        <5>2. QED  BY <2>1, <5>1
      <4>4. QED  BY <1>3, <2>5, <4>1, <4>2, <4>3, OtherSteps
    <3>4. k <= conns'  BY <1>2, <2>1, <3>2
    <3>5. QED  BY <2>1, <3>1, <3>2, <3>3, <3>4
  <2>6. QED  BY <2>3, <2>4, <2>5
<1>6. TakesFirst(c, k) \/ Entry(<<c, k>>)
  <2>1. CASE UNCHANGED <<cache, old>>  BY <1>1, <2>1 DEF Entry
  <2>2. CASE cache' = cache /\ old' = old \union ToSet(cache)
    <3>1. <<c, k>> \in ToSet(cache) => Has(cache, <<c, k>>)  BY LenProperties DEF ToSet, Has, TypeOK
    <3>2. QED  BY <1>1, <2>2, <3>1 DEF Entry
  <2>3. ASSUME NEW b \in Commands, NEW h \in Conns, TakesFirst(b, h), old' = old
        PROVE  TakesFirst(c, k) \/ Entry(<<c, k>>)
    <3>1. <<b, h>> \notin old /\ cache' = Pushed(b, h) /\ cache \in Seq(Entries)
      BY <2>3, TakenIsNew DEF TakesFirst, TypeOK
    <3>2. CASE Has(cache', <<c, k>>)
      <4>1. PICK q \in 1..Len(cache') : cache'[q] = <<c, k>>  BY <3>2 DEF Has
      <4>2. \A r \in 1..Len(Pushed(b, h)) :
              Pushed(b, h)[r] = <<b, h>> \/ \E p \in 1..Len(cache) : Pushed(b, h)[r] = cache[p]
        BY <3>1, PushedFacts
      <4>3. <<c, k>> = <<b, h>> \/ Has(cache, <<c, k>>)  BY <3>1, <4>1, <4>2 DEF Has
      <4>4. QED  BY <2>3, <4>3 DEF Entry
    <3>3. QED  BY <1>1, <2>3, <3>2 DEF Entry
  <2>4. QED  BY <2>1, <2>2, <2>3, CacheStep
<1>7. QED  BY <1>4, <1>5, <1>6

LEMMA RememberedStep ==
  ASSUME TypeOK, Sockets, Carried, Remembered, ActedOnce, Move
  PROVE  Remembered' /\ ActedOnce'
<1>1. CASE UNCHANGED <<cache, old, admitted>>  BY <1>1 DEF Remembered, ActedOnce
<1>2. CASE UNCHANGED <<cache, admitted>> /\ old' = old \union ToSet(cache)
  BY <1>2 DEF Remembered, ActedOnce
<1>3. ASSUME NEW c \in Commands, NEW k \in Conns, TakesFirst(c, k), old' = old
      PROVE  Remembered' /\ ActedOnce'
  <2> DEFINE n == Len(admitted)
             v == Pushed(c, k)
             x == [of |-> c, acted |-> open[k]]
  <2>1. <<c, k>> \notin old /\ cache \in Seq(Entries) /\ cache' = v /\ Known(c) = {} /\ admitted' = Append(admitted, x)
    BY <1>3, TakenIsNew DEF TakesFirst, TypeOK
  <2>2. admitted \in Seq([of : Commands, acted : BOOLEAN]) /\ n \in Nat /\ x \in [of : Commands, acted : BOOLEAN]
        /\ Len(cache) \in Nat /\ CacheMax \in Nat \ {0}
    BY LenProperties, CacheAssumption DEF TypeOK
  <2>3. /\ Len(admitted') = n + 1 /\ admitted'[n+1] = x
        /\ \A i \in 1..n : admitted'[i] = admitted[i]
    BY <2>1, <2>2, AppendProperties
  <2>4. x.of = c  OBVIOUS
  <2> HIDE DEF v, x, n
  <2>5. \A i \in 1..Len(admitted') : i \in 1..n \/ i = n+1  BY <2>2, <2>3
  <2>6. /\ Len(v) \in Nat \ {0} /\ v[Len(v)] = <<c, k>>
        /\ \A p \in 1..Len(cache) :
             \/ cache[p][1] = c
             \/ cache[p] \in old
             \/ Len(cache) - p + 1 >= CacheMax
             \/ \E q \in 1..Len(v) : v[q] = cache[p] /\ Len(v) - q <= Len(cache) - p + 1
    BY <2>1, PushedFacts DEF v
  <2>7. \A i \in 1..n :
          \/ \E e \in old : e[1] = admitted[i].of
          \/ n - i >= CacheMax
          \/ \E p \in 1..Len(cache) : cache[p][1] = admitted[i].of /\ Len(cache) - p <= n - i
    BY DEF Remembered, n
  <2>8. ASSUME NEW i \in 1..Len(admitted')
        PROVE  \/ \E e \in old : e[1] = admitted'[i].of
               \/ Len(admitted') - i >= CacheMax
               \/ \E p \in 1..Len(v) : v[p][1] = admitted'[i].of /\ Len(v) - p <= Len(admitted') - i
    <3>1. CASE admitted'[i].of = c
      <4>1. Len(v) \in 1..Len(v) /\ v[Len(v)][1] = c /\ Len(v) - Len(v) <= Len(admitted') - i  BY <2>2, <2>3, <2>6
      <4>2. QED  BY <3>1, <4>1
    <3>2. CASE admitted'[i].of # c
      <4>1. i \in 1..n /\ admitted'[i] = admitted[i]  BY <2>2, <2>3, <2>4, <3>2
      <4>2. CASE \E e \in old : e[1] = admitted[i].of  BY <4>1, <4>2
      <4>3. CASE n - i >= CacheMax
        <5>1. Len(admitted') - i >= CacheMax  BY <2>2, <2>3, <4>1, <4>3
        <5>2. QED  BY <5>1
      <4>4. ASSUME NEW p \in 1..Len(cache), cache[p][1] = admitted[i].of, Len(cache) - p <= n - i
            PROVE  \/ \E e \in old : e[1] = admitted'[i].of
                   \/ Len(admitted') - i >= CacheMax
                   \/ \E q \in 1..Len(v) : v[q][1] = admitted'[i].of /\ Len(v) - q <= Len(admitted') - i
        <5>1. cache[p][1] # c  BY <3>2, <4>1, <4>4
        <5>2. Len(cache) - p + 1 <= Len(admitted') - i  BY <2>2, <2>3, <4>1, <4>4
        <5>3. CASE cache[p] \in old  BY <4>1, <4>4, <5>3
        <5>4. CASE Len(cache) - p + 1 >= CacheMax
          <6>1. Len(admitted') - i >= CacheMax  BY <2>2, <2>3, <4>1, <5>2, <5>4
          <6>2. QED  BY <6>1
        <5>5. ASSUME NEW q \in 1..Len(v), v[q] = cache[p], Len(v) - q <= Len(cache) - p + 1
              PROVE  v[q][1] = admitted'[i].of /\ Len(v) - q <= Len(admitted') - i
          <6>1. Len(v) - q <= Len(admitted') - i  BY <2>2, <2>3, <2>6, <4>1, <5>2, <5>5
          <6>2. QED  BY <4>1, <4>4, <5>5, <6>1
        <5>6. QED  BY <2>6, <5>1, <5>3, <5>4, <5>5
      <4>5. QED  BY <2>7, <4>1, <4>2, <4>3, <4>4
    <3>3. QED  BY <3>1, <3>2
  <2>9. Remembered'  BY <1>3, <2>1, <2>3, <2>8 DEF Remembered
  <2>10. ASSUME NEW i \in 1..Len(admitted'), NEW j \in 1..Len(admitted'),
                i < j, admitted'[i].of = admitted'[j].of
         PROVE  (\E e \in old : e[1] = admitted'[i].of) \/ j - i > CacheMax
    <3>1. i \in 1..n /\ admitted'[i] = admitted[i]  BY <2>2, <2>3, <2>5, <2>10
    <3>2. CASE j \in 1..n
      <4>1. admitted'[j] = admitted[j]  BY <2>3, <3>2
      <4>2. QED  BY <2>10, <3>1, <3>2, <4>1 DEF ActedOnce, n
    <3>3. CASE j = n+1
      <4>1. admitted[i].of = c  BY <2>3, <2>4, <2>10, <3>1, <3>3
      <4>2. CASE n - i >= CacheMax
        <5>1. j - i > CacheMax  BY <2>2, <3>1, <3>3, <4>2
        <5>2. QED  BY <5>1
      <4>3. ASSUME NEW p \in 1..Len(cache), cache[p][1] = c
            PROVE  cache[p] \in old
        <5>1. cache[p] \in ToSet(cache)  BY <2>1, LenProperties DEF ToSet
        <5>2. QED  BY <2>1, <4>3, <5>1 DEF Known
      <4>4. QED  BY <2>7, <3>1, <4>1, <4>2, <4>3
    <3>4. QED  BY <2>5, <3>2, <3>3
  <2>11. ActedOnce'  BY <1>3, <2>10 DEF ActedOnce
  <2>12. QED  BY <2>9, <2>11
<1>4. QED  BY <1>1, <1>2, <1>3, CacheStep

-----------------------------------------------------------------------------
(* Commands are acted on in order.                                          *)

LEMMA InOrderStep ==
  ASSUME TypeOK, Sockets, Gapless, ActedInOrder, Move
  PROVE  ActedInOrder'
<1>1. /\ Len(admitted) \in Nat /\ Len(admitted') \in Nat
      /\ \A i \in 1..Len(admitted) : i \in 1..Len(admitted') /\ admitted'[i] = admitted[i]
  BY AdmittedStep
<1>2. SUFFICES ASSUME NEW j \in 1..Len(admitted'), NEW c \in 1..admitted'[j].of, admitted'[j].acted
               PROVE  \/ c \in dropped' \/ Swallowed(c)'
                      \/ \E i \in 1..j : admitted'[i] = [of |-> c, acted |-> TRUE]
  BY DEF ActedInOrder
<1>3. CASE j \in 1..Len(admitted)
  <2>1. admitted'[j] = admitted[j] /\ \A i \in 1..j : admitted'[i] = admitted[i]  BY <1>1, <1>3
  <2>2. \/ c \in dropped \/ Swallowed(c)
        \/ \E i \in 1..j : admitted[i] = [of |-> c, acted |-> TRUE]
    BY <1>2, <1>3, <2>1 DEF ActedInOrder
  <2>3. QED  BY <2>1, <2>2, Stays
<1>4. CASE j \notin 1..Len(admitted)
  <2>1. PICK b \in Commands, k \in Conns : TakesFirst(b, k)
    <3>1. admitted' # admitted  BY <1>4
    <3>2. QED  BY <3>1, CacheStep
  <2> DEFINE x == [of |-> b, acted |-> open[k]]
  <2>2. /\ x \in [of : Commands, acted : BOOLEAN] /\ admitted \in Seq([of : Commands, acted : BOOLEAN])
        /\ admitted' = Append(admitted, x) /\ x.of = b /\ x.acted = open[k]
    BY <2>1 DEF TakesFirst, TypeOK
  <2>3. x = [of |-> b, acted |-> open[k]]  OBVIOUS
  <2> HIDE DEF x
  <2>4. j = Len(admitted) + 1 /\ Len(admitted') = Len(admitted) + 1 /\ admitted'[j] = x
    BY <1>1, <1>4, <2>2, AppendProperties
  <2>5. open[k] = TRUE /\ x.of = b
    <3>1. open[k] \in BOOLEAN  BY DEF TypeOK
    <3>2. QED  BY <1>2, <2>2, <2>4, <3>1
  <2>6. CASE c = b
    <3>1. j \in 1..j /\ admitted'[j] = [of |-> c, acted |-> TRUE]  BY <1>1, <2>3, <2>4, <2>5, <2>6
    <3>2. QED  BY <3>1
  <2>7. CASE c # b
    <3>1. Takes(b, k) /\ b \in Posts /\ b # Ready  BY <2>1, ReadyIsNoCommand DEF TakesFirst, Posts
    <3>2. 1 \in 1..Len(up[k]) /\ up[k][1] = b  BY <3>1, TakenUp
    <3>3. c \in 1..up[k][1]-1
      <4>1. c \in 1..b /\ b \in Nat  BY <1>2, <2>4, <2>5, ReadyIsNoCommand
      <4>2. QED  BY <2>7, <3>2, <4>1
    <3>4. Done(c) \/ \E i \in 1..1-1 : up[k][i] = c  BY <2>5, <3>1, <3>2, <3>3 DEF Gapless
    <3>5. Done(c)'  BY <3>4, Stays
    <3>6. Acted(c)' => \E i \in 1..j : admitted'[i] = [of |-> c, acted |-> TRUE]  BY <2>4 DEF Acted
    <3>7. QED  BY <3>5, <3>6 DEF Done
  <2>8. QED  BY <2>6, <2>7
<1>5. QED  BY <1>3, <1>4

-----------------------------------------------------------------------------
(* The `ready` comes first.                                                 *)

LEMMA UnmetStep ==
  ASSUME TypeOK, Sockets, Unmet, Move
  PROVE  Unmet'
<1>1. SUFFICES ASSUME ~met'
               PROVE  /\ \A k \in Conns : /\ up'[k] = <<>> /\ acks'[k] = <<>>
                                          /\ \A i \in 1..Len(down'[k]) : down'[k][i].type = "hello"
                      /\ running' = {}
                      /\ Ready \in dropped' \/ ( /\ Len(unacked') >= 1 /\ unacked'[1] = Ready
                                                 /\ \A i \in 2..Len(unacked') : unacked'[i] # Ready )
  BY DEF Unmet
<1>2. ~met /\ ~ReadsHello
  <2>1. ~ReadsHello  BY <1>1 DEF ReadsHello, OnHello
  <2>2. met' = met
    <3>1. CASE Post \/ Connect \/ TabLoses \/ Age  BY <3>1 DEF Post, Connect, TabLoses, Age, tab
    <3>2. CASE ReadsAck \/ ReadsResult  BY <3>2 DEF ReadsAck, ReadsResult, OnAck, OnResult
    <3>3. ASSUME NEW k \in Conns, SendAcks(k) \/ ServerCloses(k) \/ TakesReady(k)
          PROVE  met' = met
      BY <3>3 DEF SendAcks, ServerCloses, TakesReady, Takes, tab
    <3>4. ASSUME NEW c \in Commands, NEW k \in Conns, Finish(c, k) \/ TakesFirst(c, k) \/ TakesAgain(c, k)
          PROVE  met' = met
      BY <3>4 DEF Finish, TakesFirst, TakesAgain, Takes, tab
    <3>5. QED  BY <2>1, <3>1, <3>2, <3>3, <3>4 DEF Move
  <2>3. QED  BY <1>1, <2>1, <2>2
<1>3. /\ \A k \in Conns : /\ up[k] = <<>> /\ acks[k] = <<>>
                          /\ \A i \in 1..Len(down[k]) : down[k][i].type = "hello"
      /\ running = {}
      /\ Ready \in dropped \/ ( /\ Len(unacked) >= 1 /\ unacked[1] = Ready
                                /\ \A i \in 2..Len(unacked) : unacked[i] # Ready )
  BY <1>2 DEF Unmet
<1>4. \A c, k : k \in Conns => ~Takes(c, k)  BY <1>3 DEF Takes
<1>5. \A c \in Commands, k \in Conns : ~Answers(c, k) /\ ~TakesReady(k) /\ ~SendAcks(k)
  BY <1>3, <1>4 DEF Answers, Finish, TakesFirst, TakesAgain, TakesReady, SendAcks
<1>6. ~live  BY <1>2 DEF Sockets
<1>7. ASSUME NEW k \in Conns
      PROVE  up'[k] = <<>>
  <2>1. CASE Post
    <3>1. up' = up  BY <1>6, <2>1 DEF Post
    <3>2. QED  BY <1>3, <3>1
  <2>2. CASE ~Post
    <3>1. \A c \in Posts : ~TakesAny(c, k)  BY <1>4 DEF TakesAny, TakesReady, TakesFirst, TakesAgain
    <3>2. QED  BY <1>2, <1>3, <2>2, <3>1, OtherSteps
  <2>3. QED  BY <2>1, <2>2
<1>8. ASSUME NEW k \in Conns
      PROVE  acks'[k] = <<>>
  <2>1. \A h \in Conns : ~SendAcks(h) /\ ~TakesReady(h)
    BY <1>3, <1>4 DEF TakesReady, SendAcks
  <2>2. acks' = acks \/ \E h \in Conns : ServerCloses(h)
    BY <1>2, <1>5, <2>1 DEF Move, Answers, Post, Connect, TabLoses, Age, sockets, ReadsAck, ReadsResult, Reads
  <2>3. \A h \in Conns : ServerCloses(h) => acks'[k] = <<>>  BY <1>3 DEF ServerCloses, TypeOK
  <2>4. QED  BY <1>3, <2>2, <2>3
<1>9. ASSUME NEW k \in Conns, NEW i \in 1..Len(down'[k])
      PROVE  down'[k][i].type = "hello"
  <2>1. Hello.type = "hello"  BY DEF Hello
  <2>2. ~SendAcks(k)  BY <1>3 DEF SendAcks
  <2>3. \A c \in Commands, h \in Conns : ~Answers(c, h)  BY <1>5
  <2>4. QED  BY <1>3, <2>1, <2>2, <2>3, DownStep
<1>10. running' = {}
  <2>1. CASE Post \/ Connect \/ TabLoses \/ Age  BY <1>3, <2>1 DEF Post, Connect, TabLoses, Age, sockets
  <2>2. CASE ReadsAck \/ ReadsResult  BY <1>3, <2>2 DEF ReadsAck, ReadsResult, Reads
  <2>3. ASSUME NEW h \in Conns, ServerCloses(h)
        PROVE  running' = {}
    BY <1>3, <2>3 DEF ServerCloses
  <2>4. \A h \in Conns : ~SendAcks(h) /\ ~TakesReady(h)
    BY <1>3, <1>4 DEF TakesReady, SendAcks
  <2>5. QED  BY <1>2, <1>5, <2>1, <2>2, <2>3, <2>4 DEF Move, Answers
<1>11. Ready \in dropped' \/ ( /\ Len(unacked') >= 1 /\ unacked'[1] = Ready
                               /\ \A i \in 2..Len(unacked') : unacked'[i] # Ready )
  <2>1. CASE Ready \in dropped  BY <2>1, Stays
  <2>2. CASE Ready \notin dropped /\ Post
    <3> DEFINE s == Append(unacked, posted')
    <3>1. posted' \in Commands /\ posted' \in Posts /\ posted' # Ready
      BY <2>2, BoundsAssumption DEF Post, TypeOK, Commands, Posts, Ready
    <3>2. unacked \in Seq(Posts) /\ Len(unacked) \in Nat  BY LenProperties DEF TypeOK, Posts
    <3>3. /\ s \in Seq(Posts) /\ Len(s) = Len(unacked) + 1 /\ s[Len(unacked)+1] = posted'
          /\ \A i \in 1..Len(unacked) : s[i] = unacked[i]
      BY <3>1, <3>2, AppendProperties
    <3>4. unacked' = Kept(s) /\ dropped' = dropped \union PushedOut(s)  BY <2>2 DEF Post
    <3> HIDE DEF s
    <3>5. \A i \in 1..Len(s) : i \in 1..Len(unacked) \/ i = Len(unacked)+1  BY <3>2, <3>3
    <3>6. 1 \in 1..Len(s) /\ s[1] = Ready /\ \A i \in 2..Len(s) : s[i] # Ready
      <4>1. 1 \in 1..Len(unacked) /\ 1 \in 1..Len(s) /\ unacked[1] = Ready  BY <1>3, <2>2, <3>2, <3>3
      <4>2. \A i \in 2..Len(s) : (i \in 2..Len(unacked) /\ s[i] = unacked[i]) \/ s[i] = posted'
        BY <3>2, <3>3, <3>5
      <4>3. QED  BY <1>3, <2>2, <3>1, <3>3, <4>1, <4>2
    <3>7. Kept(s) \in Seq(Posts)  BY <3>3, KeptFacts
    <3>8. PICK d \in Nat : /\ Len(s) = Len(Kept(s)) + d
                           /\ \A i \in 1..Len(Kept(s)) : Kept(s)[i] = s[i+d]
      BY <3>3, KeptFacts
    <3>9. Len(Kept(s)) \in Nat  BY <3>7, LenProperties
    <3>10. CASE Ready \in PushedOut(s)  BY <3>4, <3>10
    <3>11. CASE Ready \notin PushedOut(s)
      <4>1. PICK j \in 1..Len(Kept(s)) : Kept(s)[j] = Ready
        <5>1. s[1] \in PushedOut(s) \/ \E j \in 1..Len(Kept(s)) : Kept(s)[j] = s[1]  BY <3>3, <3>6, KeptFacts
        <5>2. QED  BY <3>6, <3>11, <5>1
      <4>2. s[j+d] = Ready /\ j+d \in 1..Len(s)  BY <3>8, <3>9, <4>1
      <4>3. j+d = 1  BY <3>6, <4>2
      <4>4. d = 0 /\ Len(Kept(s)) = Len(s)  BY <3>8, <3>9, <4>3
      <4>5. \A i \in 1..Len(s) : Kept(s)[i] = s[i]  BY <3>8, <4>4
      <4>6. Len(s) >= 1 /\ \A i \in 2..Len(s) : i \in 1..Len(s)  BY <3>6
      <4>7. QED  BY <3>4, <3>6, <4>4, <4>5, <4>6
    <3>12. QED  BY <3>10, <3>11
  <2>3. CASE ~Post
    <3>1. ~ReadsAck
      <4>1. SUFFICES ASSUME ReadsAck PROVE FALSE  OBVIOUS
      <4>2. conn \in Conns /\ down[conn] # <<>> /\ down[conn][1].type = "ack"
        BY <4>1, BoundsAssumption DEF ReadsAck, Reads, TypeOK, Conns
      <4>3. down[conn] \in Seq(Frames)  BY <4>2 DEF TypeOK
      <4>4. 1 \in 1..Len(down[conn])  BY <4>2, <4>3, HeadOf
      <4>5. QED  BY <1>3, <4>2, <4>4
    <3>2. unacked' = unacked  BY <1>2, <2>3, <3>1, OtherSteps
    <3>3. QED  BY <1>3, <3>2, Stays
  <2>4. QED  BY <2>1, <2>2, <2>3
<1>12. QED  BY <1>7, <1>8, <1>9, <1>10, <1>11

(* The first hello sends what was posted before it, the `ready` first; any  *)
(* later one posts a new `ready` and sends that first.                      *)
LEMMA SentReadyFirst ==
  ASSUME TypeOK, Unmet, Ready \notin dropped
  PROVE  /\ Has(Sent, Ready)
         /\ \A i \in 1..Len(Sent) : Sent[i] # Ready => \E j \in 1..i-1 : Sent[j] = Ready
<1>1. Sent \in Seq(Posts) /\ Len(Sent) \in Nat  BY HelloTypes, LenProperties
<1>2. CASE met
  <2> DEFINE w == Without(Resend, PushedOut(Keep))
             r == <<Ready>>
  <2>1. Sent = r \o w  BY <1>2 DEF Sent
  <2>2. w \in Seq(Posts) /\ r \in Seq(Posts) /\ Len(r) = 1 /\ r[1] = Ready
    BY HelloTypes, WithoutFacts, ReadyIsNoCommand
  <2> HIDE DEF w, r
  <2>3. /\ Len(Sent) = 1 + Len(w)
        /\ \A i \in 1..1 + Len(w) : Sent[i] = IF i <= 1 THEN r[i] ELSE w[i - 1]
    <3>1. /\ Len(r \o w) = Len(r) + Len(w)
          /\ \A i \in 1..Len(r) + Len(w) : (r \o w)[i] = IF i <= Len(r) THEN r[i] ELSE w[i - Len(r)]
      BY <2>2, ConcatProperties
    <3>2. QED  BY <2>1, <2>2, <3>1
  <2>4. 1 \in 1..Len(Sent) /\ Sent[1] = Ready
    <3>1. Len(w) \in Nat  BY <2>2, LenProperties
    <3>2. QED  BY <2>2, <2>3, <3>1
  <2>5. \A i \in 1..Len(Sent) : Sent[i] # Ready => 1 \in 1..i-1  BY <1>1, <2>4
  <2>6. QED  BY <2>4, <2>5 DEF Has
<1>3. CASE ~met
  <2>1. /\ Len(unacked) >= 1 /\ unacked[1] = Ready
        /\ \A i \in 2..Len(unacked) : unacked[i] # Ready
    BY <1>3 DEF Unmet
  <2>2. unacked \in Seq(Posts) /\ Len(unacked) \in Nat /\ Len(unacked) <= MaxUnacked
    BY LenProperties DEF TypeOK, Posts
  <2>3. PushedOut(unacked) = {}
    <3>1. Kept(unacked) = unacked  BY <2>2, BoundsAssumption DEF Kept
    <3>2. QED  BY <3>1 DEF PushedOut
  <2> DEFINE w == Without(unacked, {})
  <2>4. Sent = w
    <3>1. Sent = <<>> \o w  BY <1>3, <2>3 DEF Sent, Resend, Keep
    <3>2. w \in Seq(Posts)  BY <2>2, WithoutFacts
    <3> HIDE DEF w
    <3>3. QED  BY <3>1, <3>2, ConcatEmptySeq
  <2>5. Filters(w, unacked, {}, Len(unacked))  BY <2>2, WithoutFacts
  <2> HIDE DEF w
  <2>6. PICK r \in 1..Len(w) : w[r] = Ready
    <3>1. 1 \in 1..Len(unacked) /\ unacked[1] \notin {}  BY <2>1, <2>2
    <3>2. \E q \in 1..Len(w) : w[q] = unacked[1]  BY <2>5, <3>1 DEF Filters, AllStaying
    <3>3. QED  BY <2>1, <3>2
  <2>7. ASSUME NEW i \in 1..Len(w), w[i] # Ready
        PROVE  r \in 1..i-1
    <3>1. i # r /\ Len(w) \in Nat  BY <1>1, <2>4, <2>6, <2>7
    <3>2. ~(i < r)
      <4>1. SUFFICES ASSUME i < r PROVE FALSE  OBVIOUS
      <4>2. PICK p \in 1..Len(unacked), o \in 1..Len(unacked) : p < o /\ w[i] = unacked[p] /\ w[r] = unacked[o]
        BY <2>5, <4>1 DEF Filters, SameOrder
      <4>3. o \in 2..Len(unacked)  BY <2>2, <4>2
      <4>4. QED  BY <2>1, <2>6, <4>2, <4>3
    <3>3. QED  BY <3>1, <3>2
  <2>8. QED  BY <2>4, <2>6, <2>7 DEF Has
<1>4. QED  BY <1>2, <1>3

LEMMA ReadyFirstStep ==
  ASSUME TypeOK, Sockets, Unmet, ReadyFirst, Move
  PROVE  ReadyFirst'
<1>1. CASE Ready \in dropped  BY <1>1, Stays DEF ReadyFirst
<1>2. CASE Ready \notin dropped
  <2>1. /\ \A c \in Commands, k \in Conns : <<c, k>> \in running => bound[k]
        /\ \A k \in Conns : open[k] =>
             \A i \in 1..Len(up[k]) : up[k][i] # Ready => bound[k] \/ \E j \in 1..i-1 : up[k][j] = Ready
        /\ live /\ open[conn] => bound[conn] \/ Has(up[conn], Ready)
    BY <1>2 DEF ReadyFirst
  <2>2. ASSUME NEW k \in Conns, bound[k]
        PROVE  bound'[k]
    <3>1. bound' = bound \/ \E h \in Conns : bound' = [bound EXCEPT ![h] = TRUE]
      <4>1. CASE Post \/ Connect \/ TabLoses \/ Age  BY <4>1 DEF Post, Connect, TabLoses, Age, sockets
      <4>2. CASE ReadsHello \/ ReadsAck \/ ReadsResult  BY <4>2 DEF ReadsHello, ReadsAck, ReadsResult, Reads
      <4>3. ASSUME NEW h \in Conns, SendAcks(h) \/ ServerCloses(h) \/ TakesReady(h)
            PROVE  bound' = bound \/ bound' = [bound EXCEPT ![h] = TRUE]
        BY <4>3 DEF SendAcks, ServerCloses, TakesReady
      <4>4. ASSUME NEW c \in Commands, NEW h \in Conns, Finish(c, h) \/ TakesFirst(c, h) \/ TakesAgain(c, h)
            PROVE  bound' = bound
        BY <4>4 DEF Finish, TakesFirst, TakesAgain
      <4>5. QED  BY <4>1, <4>2, <4>3, <4>4 DEF Move
    <3>2. QED  BY <2>2, <3>1 DEF TypeOK
  <2>3. ASSUME NEW c \in Commands, NEW k \in Conns, <<c, k>> \in running'
        PROVE  bound'[k]
    <3>1. CASE <<c, k>> \in running  BY <2>1, <2>2, <3>1
    <3>2. CASE <<c, k>> \notin running
      <4>1. TakesFirst(c, k) /\ open[k]  BY <2>3, <3>2, RunningStep
      <4>2. Takes(c, k) /\ c \in Posts /\ c # Ready  BY <4>1, ReadyIsNoCommand DEF TakesFirst, Posts
      <4>3. 1 \in 1..Len(up[k]) /\ up[k][1] = c  BY <4>2, TakenUp
      <4>4. bound[k] \/ \E j \in 1..1-1 : up[k][j] = Ready  BY <2>1, <4>1, <4>2, <4>3
      <4>5. QED  BY <2>2, <4>4
    <3>3. QED  BY <3>1, <3>2
  (* A socket's list: the same, gone, one read, one posted, or sent anew.   *)
  <2>4. ASSUME NEW k \in Conns, NEW b \in Posts, TakesAny(b, k), open[k]
        PROVE  /\ \A i \in 1..Len(up'[k]) : up'[k][i] # Ready => bound'[k] \/ \E j \in 1..i-1 : up'[k][j] = Ready
               /\ Has(up[k], Ready) => bound'[k] \/ Has(up'[k], Ready)
    <3>1. Takes(b, k)  BY <2>4 DEF TakesAny, TakesReady, TakesFirst, TakesAgain
    <3>2. /\ Len(up'[k]) \in Nat /\ up[k][1] = b /\ Len(up[k]) = Len(up'[k]) + 1
          /\ \A i \in 1..Len(up'[k]) : up'[k][i] = up[k][i+1] /\ i+1 \in 1..Len(up[k])
      BY <3>1, TakenUp
    <3>3. b = Ready => bound'[k]
      <4>1. SUFFICES ASSUME b = Ready PROVE bound'[k]  OBVIOUS
      <4>2. TakesReady(k)  BY <2>4, <4>1, ReadyIsNoCommand DEF TakesAny
      <4>3. QED  BY <2>4, <4>2 DEF TakesReady, TypeOK
    <3>4. ASSUME NEW i \in 1..Len(up'[k]), up'[k][i] # Ready, ~bound'[k]
          PROVE  \E j \in 1..i-1 : up'[k][j] = Ready
      <4>1. i+1 \in 1..Len(up[k]) /\ up[k][i+1] # Ready /\ ~bound[k]  BY <2>2, <3>2, <3>4
      <4>2. PICK j \in 1..(i+1)-1 : up[k][j] = Ready  BY <2>1, <2>4, <4>1
      <4>3. j # 1  BY <3>2, <3>3, <3>4, <4>2
      <4>4. j-1 \in 1..i-1 /\ j-1 \in 1..Len(up'[k]) /\ (j-1)+1 = j  BY <3>2, <4>2, <4>3
      <4>5. QED  BY <3>2, <4>2, <4>4
    <3>5. ASSUME NEW j \in 1..Len(up[k]), up[k][j] = Ready, ~bound'[k]
          PROVE  Has(up'[k], Ready)
      <4>1. j # 1  BY <3>2, <3>3, <3>5
      <4>2. j-1 \in 1..Len(up'[k]) /\ (j-1)+1 = j  BY <3>2, <4>1
      <4>3. up'[k][j-1] = Ready  BY <3>2, <3>5, <4>2
      <4>4. QED  BY <4>2, <4>3 DEF Has
    <3>6. Has(up[k], Ready) => bound'[k] \/ Has(up'[k], Ready)  BY <3>5 DEF Has
    <3>7. QED  BY <3>4, <3>6
  <2>5. CASE Post
    <3>1. UNCHANGED <<open, live, conn>> /\ posted' \in Posts /\ posted' # Ready
      BY <2>5, BoundsAssumption DEF Post, TypeOK, Posts, Commands, Ready
    <3>2. ASSUME NEW k \in Conns, open'[k], NEW i \in 1..Len(up'[k]), up'[k][i] # Ready
          PROVE  bound'[k] \/ \E j \in 1..i-1 : up'[k][j] = Ready
      <4>1. CASE up'[k] = up[k]  BY <2>1, <2>2, <3>1, <3>2, <4>1
      <4>2. CASE up'[k] # up[k]
        <5>1. live /\ k = conn /\ up'[k] = Append(up[k], posted')  BY <2>5, <4>2 DEF Post, TypeOK
        <5>2. up[k] \in Seq(Posts) /\ Len(up[k]) \in Nat  BY LenProperties DEF TypeOK, Posts
        <5>3. /\ Len(up'[k]) = Len(up[k]) + 1
              /\ \A j \in 1..Len(up[k]) : up'[k][j] = up[k][j]
          BY <3>1, <5>1, <5>2, AppendProperties
        <5>4. CASE i \in 1..Len(up[k])
          <6>1. bound[k] \/ \E j \in 1..i-1 : up[k][j] = Ready  BY <2>1, <3>1, <3>2, <5>3, <5>4
          <6>2. \A j \in 1..i-1 : j \in 1..Len(up[k])  BY <5>2, <5>4
          <6>3. QED  BY <2>2, <5>3, <6>1, <6>2
        <5>5. CASE i = Len(up[k]) + 1
          <6>1. bound[k] \/ Has(up[k], Ready)  BY <2>1, <3>1, <3>2, <5>1
          <6>2. \A j \in 1..Len(up[k]) : j \in 1..i-1  BY <5>2, <5>5
          <6>3. QED  BY <2>2, <5>3, <6>1, <6>2 DEF Has
        <5>6. QED  BY <5>2, <5>3, <5>4, <5>5
      <4>3. QED  BY <4>1, <4>2
    <3>3. live' /\ open'[conn'] => bound'[conn'] \/ Has(up'[conn'], Ready)
      <4>1. SUFFICES ASSUME live, open[conn] PROVE bound'[conn] \/ Has(up'[conn], Ready)  BY <3>1
      <4>2. conn \in Conns  BY <4>1, BoundsAssumption DEF TypeOK, Sockets, Conns
      <4>3. up'[conn] = Append(up[conn], posted')  BY <2>5, <4>1, <4>2 DEF Post, TypeOK
      <4>4. up[conn] \in Seq(Posts) /\ Len(up[conn]) \in Nat  BY <4>2, LenProperties DEF TypeOK, Posts
      <4>5. Has(up[conn], Ready) => Has(up'[conn], Ready)
        <5>1. Len(up'[conn]) = Len(up[conn]) + 1 /\ \A j \in 1..Len(up[conn]) : up'[conn][j] = up[conn][j]
          BY <3>1, <4>3, <4>4, AppendProperties
        <5>2. \A j \in 1..Len(up[conn]) : j \in 1..Len(up'[conn])  BY <4>4, <5>1
        <5>3. QED  BY <5>1, <5>2 DEF Has
      <4>6. QED  BY <2>1, <2>2, <4>1, <4>2, <4>5
    <3>4. QED  BY <2>3, <3>2, <3>3 DEF ReadyFirst
  <2>6. CASE ReadsHello
    <3>1. /\ UNCHANGED <<open, conn>> /\ conn \in Conns /\ up'[conn] = Sent
          /\ \A k \in Conns : k # conn => up'[k] = up[k]
      BY <2>6, HelloEffect
    <3>2. /\ Has(Sent, Ready)
          /\ \A i \in 1..Len(Sent) : Sent[i] # Ready => \E j \in 1..i-1 : Sent[j] = Ready
      BY <1>2, SentReadyFirst
    <3>3. ASSUME NEW k \in Conns, open'[k], NEW i \in 1..Len(up'[k]), up'[k][i] # Ready
          PROVE  bound'[k] \/ \E j \in 1..i-1 : up'[k][j] = Ready
      <4>1. CASE k = conn  BY <3>1, <3>2, <3>3, <4>1
      <4>2. CASE k # conn  BY <2>1, <2>2, <3>1, <3>3, <4>2
      <4>3. QED  BY <4>1, <4>2
    <3>4. Has(up'[conn'], Ready)  BY <3>1, <3>2
    <3>5. QED  BY <2>3, <3>3, <3>4 DEF ReadyFirst
  <2>7. CASE ~Post /\ ~ReadsHello
    <3>1. ASSUME NEW k \in Conns, open'[k], NEW i \in 1..Len(up'[k]), up'[k][i] # Ready
          PROVE  bound'[k] \/ \E j \in 1..i-1 : up'[k][j] = Ready
      <4>1. up'[k] # <<>>
        <5>1. SUFFICES ASSUME up'[k] = <<>> PROVE FALSE  OBVIOUS
        <5>2. Len(up'[k]) = 0  BY <5>1
        <5>3. QED  BY <3>1, <5>2
      <4>2. open[k]  BY <3>1, <4>1, OpenStep
      <4>3. CASE up'[k] = up[k]  BY <2>1, <2>2, <3>1, <4>2, <4>3
      <4>4. CASE \E b \in Posts : TakesAny(b, k)  BY <2>4, <3>1, <4>2, <4>4
      <4>5. QED  BY <2>7, <4>1, <4>3, <4>4, OtherSteps
    <3>2. live' /\ open'[conn'] => bound'[conn'] \/ Has(up'[conn'], Ready)
      <4>1. SUFFICES ASSUME live', open'[conn'] PROVE bound'[conn'] \/ Has(up'[conn'], Ready)  OBVIOUS
      <4>2. live /\ conn' = conn /\ open'[conn] /\ open[conn]  BY <2>7, <4>1, OpenStep
      <4>3. conn \in Conns  BY <4>2, BoundsAssumption DEF TypeOK, Sockets, Conns
      <4>4. bound[conn] \/ Has(up[conn], Ready)  BY <2>1, <4>2
      <4>5. CASE up'[conn] = up[conn]  BY <2>2, <4>2, <4>3, <4>4, <4>5
      <4>6. CASE \E b \in Posts : TakesAny(b, conn)  BY <2>2, <2>4, <4>2, <4>3, <4>4, <4>6
      <4>7. QED  BY <2>7, <4>2, <4>3, <4>5, <4>6, OtherSteps
    <3>3. QED  BY <2>3, <3>1, <3>2 DEF ReadyFirst
  <2>8. QED  BY <2>5, <2>6, <2>7
<1>3. QED  BY <1>1, <1>2

-----------------------------------------------------------------------------
(* The theorems.                                                            *)

IInv == /\ Sockets /\ Unmet /\ Order /\ Gapless /\ Acknowledged
        /\ Remembered /\ Carried /\ ReadyFirst /\ ActedOnce /\ ActedInOrder

LEMMA InitHolds ==
  ASSUME Init
  PROVE  TypeOK /\ IInv
<1>1. /\ Len(<<>>) = 0 /\ Len(<<Ready>>) = 1 /\ <<Ready>>[1] = Ready
      /\ \A T : <<>> \in Seq(T)
      /\ <<Ready>> \in Seq(Commands \union {Ready})
  BY EmptySeq
<1>2. /\ \A k \in Conns : Len(up[k]) = 0 /\ Len(down[k]) = 0 /\ Len(acks[k]) = 0
      /\ Len(cache) = 0 /\ Len(admitted) = 0
  BY <1>1 DEF Init
<1>3. TypeOK
  <2>1. 0 \in 0..MaxCommands /\ 0 \in 0..MaxConns /\ 0 \in 0..MaxAges /\ 0 \in 0..0
        /\ 1 <= MaxUnacked /\ 0 <= CacheMax
    BY BoundsAssumption, CacheAssumption
  <2>2. up \in [Conns -> Seq(Commands \union {Ready})] /\ acks \in [Conns -> Seq(Commands \union {Ready})]
        /\ down \in [Conns -> Seq(Frames)]
    BY <1>1 DEF Init
  <2>3. QED  BY <1>1, <2>1, <2>2 DEF Init, TypeOK
<1>4. Sockets
  <2>1. \A k \in Conns : up[k] = <<>> /\ acks[k] = <<>> /\ ~open[k] /\ ~late[k]  BY DEF Init
  <2>2. conn = 0 /\ ~live  BY DEF Init
  <2>3. QED  BY <1>2, <2>1, <2>2 DEF Sockets
<1>5. unacked = <<Ready>> /\ Len(unacked) = 1 /\ unacked[1] = Ready  BY <1>1 DEF Init
<1>6. Unmet
  <2>1. \A k \in Conns : up[k] = <<>> /\ acks[k] = <<>>  BY DEF Init
  <2>2. running = {}  BY DEF Init
  <2>3. QED  BY <1>2, <1>5, <2>1, <2>2 DEF Unmet
<1>7. Order
  <2>1. \A i \in 1..Len(unacked) : unacked[i] = Ready  BY <1>5
  <2>2. posted = 0 /\ Ready <= 0  BY DEF Init, Ready
  <2>3. Rising(unacked) /\ Within(unacked, posted)  BY <2>1, <2>2 DEF Rising, Within
  <2>4. \A k \in Conns : Rising(up[k]) /\ Within(up[k], posted)  BY <1>2 DEF Rising, Within
  <2>5. QED  BY <2>2, <2>3, <2>4 DEF Order
<1>8. Gapless
  <2>1. ~live  BY DEF Init
  <2>2. QED  BY <1>2, <2>1 DEF Gapless
<1>9. Acknowledged
  <2>1. running = {}  BY DEF Init
  <2>2. QED  BY <1>2, <2>1 DEF Acknowledged, Has
<1>10. Carried
  <2>1. old = {}  BY DEF Init
  <2>2. QED  BY <1>2, <2>1 DEF Carried, Entry, Has
<1>11. ReadyFirst
  <2>1. running = {} /\ ~live  BY DEF Init
  <2>2. QED  BY <1>2, <2>1 DEF ReadyFirst
<1>12. Remembered /\ ActedOnce /\ ActedInOrder  BY <1>2 DEF Remembered, ActedOnce, ActedInOrder
<1>13. QED  BY <1>3, <1>4, <1>6, <1>7, <1>8, <1>9, <1>10, <1>11, <1>12 DEF IInv

LEMMA StutterHolds ==
  ASSUME TypeOK, IInv, UNCHANGED vars
  PROVE  TypeOK' /\ IInv'
<1> USE DEF vars, tab, sockets, results
<1>1. TypeOK'  BY DEF TypeOK
<1>2. \A c : (Swallowed(c) => Swallowed(c)') /\ (Acted(c) => Acted(c)')  BY DEF Swallowed, Acted
<1>3. \A c : Done(c) => Done(c)'  BY <1>2 DEF Done
<1>4. Sockets'  BY DEF IInv, Sockets
<1>5. Unmet'  BY DEF IInv, Unmet
<1>6. Order'  BY <1>3 DEF IInv, Order
<1>7. Gapless'  BY <1>3 DEF IInv, Gapless
<1>8. Acknowledged'  BY <1>2, <1>3 DEF IInv, Acknowledged
<1>9. Remembered' /\ Carried' /\ ReadyFirst'  BY DEF IInv, Remembered, Carried, ReadyFirst, Entry
<1>10. ActedOnce'  BY DEF IInv, ActedOnce
<1>11. ActedInOrder'  BY <1>2 DEF IInv, ActedInOrder
<1>12. QED  BY <1>1, <1>4, <1>5, <1>6, <1>7, <1>8, <1>9, <1>10, <1>11 DEF IInv

LEMMA StepHolds ==
  ASSUME TypeOK, IInv, [Next]_vars
  PROVE  TypeOK' /\ IInv'
<1>1. CASE UNCHANGED vars  BY <1>1, StutterHolds
<1>2. CASE Next
  <2>1. Sockets /\ Unmet /\ Order /\ Gapless /\ Acknowledged /\ Remembered /\ Carried /\ ReadyFirst
        /\ ActedOnce /\ ActedInOrder
    BY DEF IInv
  <2>2. Move  BY <1>2, <2>1, Moves
  <2>3. TypeOK' /\ Sockets'  BY <2>1, <2>2, TypeStep, SocketsStep
  <2>4. Order' /\ Gapless' /\ Acknowledged'  BY <2>1, <2>2, OrderStep, GaplessStep, AcknowledgedStep
  <2>5. Carried' /\ Remembered' /\ ActedOnce'  BY <2>1, <2>2, CarriedStep, RememberedStep
  <2>6. Unmet' /\ ReadyFirst' /\ ActedInOrder'  BY <2>1, <2>2, UnmetStep, ReadyFirstStep, InOrderStep
  <2>7. QED  BY <2>3, <2>4, <2>5, <2>6 DEF IInv
<1>3. QED  BY <1>1, <1>2

LEMMA InvHolds == Spec => [](TypeOK /\ IInv)
<1>1. Init => TypeOK /\ IInv  BY InitHolds
<1>2. TypeOK /\ IInv /\ [Next]_vars => (TypeOK /\ IInv)'  BY StepHolds
<1>3. QED  BY <1>1, <1>2, PTL DEF Spec

(* The tab keeps at most MaxUnacked envelopes, the cache of the device at   *)
(* most CacheMax commands, and every variable is of its type (main.ts:540,  *)
(* commandResults.ts:135-141).                                              *)
THEOREM TypeCorrect == Spec => []TypeOK
BY InvHolds, PTL

(* A resend is never acted on again: a command is let through twice only    *)
(* where ten minutes passed or the cache has turned over, whatever sockets  *)
(* it came on (commandResults.ts:81-96, 135-141).                           *)
THEOREM ActedOnceHolds == Spec => []ActedOnce
<1>1. IInv => ActedOnce  BY DEF IInv
<1>2. QED  BY <1>1, InvHolds, PTL

(* Commands are acted on in the order posted, none passed over but what was *)
(* given up or swallowed by a closed socket (main.ts:255-284, 523-543).     *)
THEOREM ActedInOrderHolds == Spec => []ActedInOrder
<1>1. IInv => ActedInOrder  BY DEF IInv
<1>2. QED  BY <1>1, InvHolds, PTL

(* A command runs only for a pane that has said ready, since the tab sends  *)
(* that ahead of what it sends again (main.ts:255-284).                     *)
THEOREM BoundFirstHolds == Spec => []BoundFirst
<1>1. TypeOK /\ IInv => BoundFirst
  <2>1. SUFFICES ASSUME TypeOK, IInv, Ready \notin dropped, NEW r \in running
                 PROVE  bound[r[2]]
    BY DEF BoundFirst
  <2>2. r \in Entries  BY <2>1 DEF TypeOK
  <2>3. PICK c \in Commands, k \in Conns : r = <<c, k>>  BY <2>2 DEF Entries
  <2>4. bound[k]  BY <2>1, <2>3 DEF IInv, ReadyFirst
  <2>5. QED  BY <2>3, <2>4
<1>2. QED  BY <1>1, InvHolds, PTL
=============================================================================
