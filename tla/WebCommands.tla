---------------------------- MODULE WebCommands ----------------------------
(* A browser tab's commands to the core, over sockets that come and go.      *)
(*                                                                           *)
(* The tab (webview/webshim/main.ts) keeps each envelope until the server    *)
(* acknowledges it and sends what was not acknowledged again on the next     *)
(* socket.  The server (core/web/browserConnections.ts) acknowledges in      *)
(* batches, and admits a mutating command through the cache of its device    *)
(* (core/web/commandResults.ts), which lets a command through once and hands *)
(* its first answer to every connection that asked again.                    *)
(*                                                                           *)
(* One tab of one device.  A command is its number in the order posted; a    *)
(* pane's `ready` is Ready, a message that is never remembered.  The two     *)
(* ends of a socket close on their own: the server may still read what was   *)
(* on its way when the tab has given the socket up and opened another.       *)
EXTENDS Naturals, Sequences, FiniteSets, SequencesExt

CONSTANTS MaxCommands,  \* bound: commands the tab posts
          MaxConns,     \* bound: sockets the tab opens; the last one lasts
          MaxAges,      \* bound: times ten minutes pass
          MaxUnacked,   \* MAX_UNACKED: envelopes a tab keeps for resending
          CacheMax      \* COMMAND_RESULT_MAX: commands remembered per device

ASSUME BoundsAssumption == /\ MaxCommands \in Nat /\ MaxConns \in Nat \ {0}
                           /\ MaxAges \in Nat /\ MaxUnacked \in Nat \ {0}
ASSUME CacheAssumption == CacheMax \in Nat \ {0}

VARIABLES
  posted,    \* commands posted so far
  unacked,   \* the tab's unacknowledged envelopes, oldest first
  dropped,   \* what was pushed out of unacked by newer ones
  waiting,   \* commands whose answer the pane still waits for
  conn,      \* the tab's socket, 0 between two
  live,      \* that socket's hello has come
  met,       \* some socket's hello has come: the next is a reconnect
  conns,     \* sockets opened so far
  up, down,  \* frames on their way, per socket
  open,      \* the server's end of the socket is open
  late,      \* closed with a code: frames on their way are still read
  acks,      \* ids the server will acknowledge at its next turn
  awaiting,  \* commands admitted on the socket and not answered
  bound,     \* the socket's pane has said ready
  running,   \* pairs of a command and the socket it runs for
  cache,     \* admissions remembered: <<command, socket>>, oldest first
  old,       \* admissions more than ten minutes ago
  ages,      \* times ten minutes have passed
  answered,  \* admissions with an answer
  waiters,   \* <<admission, socket that asked again>>
  admitted   \* history: the commands let through, in order, each with
             \* whether a host acted on it

tab == <<posted, unacked, dropped, waiting, conn, live, met, conns>>
sockets == <<up, down, open, late, acks, awaiting, bound, running>>
results == <<cache, old, ages, answered, waiters>>
vars == <<tab, sockets, results, admitted>>

Commands == 1..MaxCommands
Conns == 1..MaxConns
Ready == 0
Hello == [type |-> "hello"]
Ack(ids) == [type |-> "ack", ids |-> ids]
Result(c) == [type |-> "result", of |-> c]

Init == /\ posted = 0 /\ unacked = <<Ready>> /\ dropped = {} /\ waiting = {}
        /\ conn = 0 /\ live = FALSE /\ met = FALSE /\ conns = 0
        /\ up = [k \in Conns |-> <<>>] /\ down = [k \in Conns |-> <<>>]
        /\ open = [k \in Conns |-> FALSE] /\ late = [k \in Conns |-> FALSE]
        /\ acks = [k \in Conns |-> <<>>] /\ awaiting = [k \in Conns |-> {}]
        /\ bound = [k \in Conns |-> FALSE] /\ running = {}
        /\ cache = <<>> /\ old = {} /\ ages = 0 /\ answered = {} /\ waiters = {}
        /\ admitted = <<>>

-----------------------------------------------------------------------------
(* The tab.                                                                  *)

\* What is left of the first i of a list when those of a set are taken out.
Left(s, ids) ==
  LET left[i \in 0..Len(s)] ==
        IF i = 0 THEN <<>>
        ELSE IF s[i] \in ids THEN left[i-1] ELSE Append(left[i-1], s[i])
  IN left

Without(s, ids) == Left(s, ids)[Len(s)]

\* The newest MaxUnacked envelopes, and what the older ones were.
MutKept(s) == IF Len(s) > MaxUnacked + 1 THEN Tail(s) ELSE s
Kept(s) == IF Len(s) > MaxUnacked THEN SubSeq(s, Len(s) - MaxUnacked + 1, Len(s)) ELSE s
PushedOut(s) == ToSet(s) \ ToSet(Kept(s))

\* Mutant: what was sent is not kept.
MutPost ==
  /\ posted < MaxCommands
  /\ posted' = posted + 1
  /\ unacked' = IF live THEN unacked ELSE Kept(Append(unacked, posted'))
  /\ dropped' = IF live THEN dropped ELSE dropped \union PushedOut(Append(unacked, posted'))
  /\ waiting' = waiting \union {posted'}
  /\ up' = IF live THEN [up EXCEPT ![conn] = Append(@, posted')] ELSE up
  /\ UNCHANGED <<conn, live, met, conns, down, open, late, acks, awaiting, bound, running>>
  /\ UNCHANGED <<results, admitted>>

\* host.postMessage: kept until acknowledged, and sent if the socket is live.
Post ==
  /\ posted < MaxCommands
  /\ posted' = posted + 1
  /\ unacked' = Kept(Append(unacked, posted'))
  /\ dropped' = dropped \union PushedOut(Append(unacked, posted'))
  /\ waiting' = waiting \union {posted'}
  /\ up' = IF live THEN [up EXCEPT ![conn] = Append(@, posted')] ELSE up
  /\ UNCHANGED <<conn, live, met, conns, down, open, late, acks, awaiting, bound, running>>
  /\ UNCHANGED <<results, admitted>>

\* A socket opens and is attached; the server's hello is first on it.
Connect ==
  /\ conn = 0 /\ conns < MaxConns
  /\ conns' = conns + 1 /\ conn' = conns'
  /\ open' = [open EXCEPT ![conns'] = TRUE]
  /\ down' = [down EXCEPT ![conns'] = <<Hello>>]
  /\ UNCHANGED <<posted, unacked, dropped, waiting, live, met, up, late, acks, awaiting>>
  /\ UNCHANGED <<bound, running, results, admitted>>

\* Mutants: what is sent again goes ahead of the `ready`, or not at all.
MutHello(order) ==
  LET resend == IF met THEN Without(unacked, {Ready}) ELSE unacked
      kept   == IF met THEN Append(resend, Ready) ELSE unacked
  IN /\ live' = TRUE /\ met' = TRUE
     /\ unacked' = Kept(kept)
     /\ dropped' = dropped \union PushedOut(kept)
     /\ up' = [up EXCEPT ![conn] = order]
     /\ UNCHANGED waiting
MutHelloOrder == MutHello(unacked)
MutHelloOnly == MutHello(IF met THEN <<Ready>> ELSE unacked)

\* onHello.  On a reconnect the old `ready` is dropped and the panes post a
\* new one, ahead of everything that is sent again.
OnHello ==
  LET resend == IF met THEN Without(unacked, {Ready}) ELSE unacked
      kept   == IF met THEN Append(resend, Ready) ELSE unacked
  IN /\ live' = TRUE /\ met' = TRUE
     /\ unacked' = Kept(kept)
     /\ dropped' = dropped \union PushedOut(kept)
     /\ up' = [up EXCEPT ![conn] =
                 (IF met THEN <<Ready>> ELSE <<>>) \o Without(resend, PushedOut(kept))]
     /\ UNCHANGED waiting

OnAck(ids) == /\ unacked' = Without(unacked, ids)
              /\ UNCHANGED <<dropped, waiting, live, met, up>>

OnResult(c) == /\ waiting' = waiting \ {c}
               /\ UNCHANGED <<unacked, dropped, live, met, up>>

\* onFrame, for the socket that is the tab's own.
Receive ==
  /\ conn # 0 /\ down[conn] # <<>>
  /\ LET m == Head(down[conn]) IN
       \/ m.type = "hello" /\ OnHello
       \/ m.type = "ack" /\ OnAck(m.ids)
       \/ m.type = "result" /\ OnResult(m.of)
  /\ down' = [down EXCEPT ![conn] = Tail(@)]
  /\ UNCHANGED <<posted, conn, conns, open, late, acks, awaiting, bound, running>>
  /\ UNCHANGED <<results, admitted>>

\* The tab's end closes; what was on its way to it is gone.
TabLoses ==
  /\ conn # 0
  /\ open[conn] => conn < MaxConns
  /\ conn' = 0 /\ live' = FALSE
  /\ down' = [down EXCEPT ![conn] = <<>>]
  /\ UNCHANGED <<posted, unacked, dropped, waiting, met, conns, up, open, late, acks>>
  /\ UNCHANGED <<awaiting, bound, running, results, admitted>>

-----------------------------------------------------------------------------
(* The cache of the device.                                                  *)

\* Mutant: a command is remembered once it is answered.
MutKnown(c) == {e \in ToSet(cache) : e[1] = c /\ e \notin old /\ e \in answered}

\* Remembered for ten minutes, unless it was pushed out before.
Known(c) == {e \in ToSet(cache) : e[1] = c /\ e \notin old}

\* trim: from the oldest on, until the next is neither too many nor too old.
Trim(s) ==
  LET stay(i) == Len(s) - i + 1 <= CacheMax /\ s[i] \notin old
      first   == CHOOSE i \in 1..Len(s) : stay(i) /\ \A j \in 1..(i - 1) : ~stay(j)
  IN SubSeq(s, first, Len(s))

\* First sight: remembered, and let through to the pane's host.
LetThrough(c, k) ==
  /\ cache' = Trim(Append(Without(cache, {c} \X Conns), <<c, k>>))
  /\ awaiting' = [awaiting EXCEPT ![k] = @ \union {c}]
  /\ UNCHANGED <<down, waiters>>

\* A resend: the first answer if there is one, or when there is one.
Resent(c, k) ==
  \E e \in Known(c) :
     /\ IF e \in answered
        THEN /\ down' = IF open[k] THEN [down EXCEPT ![k] = Append(@, Result(c))] ELSE down
             /\ UNCHANGED waiters
        ELSE waiters' = waiters \union {<<e, k>>} /\ UNCHANGED down
     /\ UNCHANGED <<cache, awaiting>>

Admit(c, k) == IF Known(c) = {} THEN LetThrough(c, k) ELSE Resent(c, k)

Admitted(c, acted) ==
  admitted' = IF Known(c) = {} THEN Append(admitted, [of |-> c, acted |-> acted]) ELSE admitted

\* Ten minutes pass: what is remembered is too old to count.
Age == /\ ages < MaxAges /\ cache # <<>>
       /\ ages' = ages + 1
       /\ old' = old \union ToSet(cache)
       /\ UNCHANGED <<tab, sockets, cache, answered, waiters, admitted>>

-----------------------------------------------------------------------------
(* The server's end.                                                         *)

\* A read is acknowledged, never remembered; a command runs when admitted.
Arrive(k) ==
  /\ open[k] /\ up[k] # <<>>
  /\ up' = [up EXCEPT ![k] = Tail(@)]
  /\ LET c == Head(up[k]) IN
       /\ acks' = [acks EXCEPT ![k] = Append(@, c)]
       /\ \/ /\ c = Ready
             /\ bound' = [bound EXCEPT ![k] = TRUE]
             /\ UNCHANGED <<down, awaiting, cache, waiters, running, admitted>>
          \/ /\ c # Ready /\ Admit(c, k)
             /\ running' = IF Known(c) = {} THEN running \union {<<c, k>>} ELSE running
             /\ Admitted(c, TRUE)
             /\ UNCHANGED bound
  /\ UNCHANGED <<tab, open, late, old, ages, answered>>

\* A frame after the server's own close: admitted as any other, but the panes
\* are gone, so nobody acts on it and nobody answers.
ArriveLate(k) ==
  /\ late[k] /\ up[k] # <<>>
  /\ up' = [up EXCEPT ![k] = Tail(@)]
  /\ LET c == Head(up[k]) IN
       \/ c = Ready /\ UNCHANGED <<down, awaiting, cache, waiters, admitted>>
       \/ c # Ready /\ Admit(c, k) /\ Admitted(c, FALSE)
  /\ UNCHANGED <<tab, open, late, acks, bound, running, old, ages, answered>>

\* The acknowledgements of a turn go out as one frame.
SendAcks(k) ==
  /\ open[k] /\ acks[k] # <<>>
  /\ down' = [down EXCEPT ![k] = Append(@, Ack(ToSet(acks[k])))]
  /\ acks' = [acks EXCEPT ![k] = <<>>]
  /\ UNCHANGED <<tab, up, open, late, awaiting, bound, running, results, admitted>>

\* The host posts the answer.  It is noted, closed socket or not, and goes to
\* this socket and to those that asked again, where they are still open.
Finish(c, k) ==
  /\ <<c, k>> \in running
  /\ running' = running \ {<<c, k>>}
  /\ LET told == {k} \union (IF c \in awaiting[k] THEN {w[2] : w \in {x \in waiters : x[1] = <<c, k>>}} ELSE {})
     IN down' = [j \in Conns |-> IF j \in told /\ open[j] THEN Append(down[j], Result(c)) ELSE down[j]]
  /\ IF c \in awaiting[k]
     THEN /\ answered' = answered \union {<<c, k>>}
          /\ waiters' = {w \in waiters : w[1] # <<c, k>>}
     ELSE UNCHANGED <<answered, waiters>>
  /\ awaiting' = [awaiting EXCEPT ![k] = @ \ {c}]
  /\ UNCHANGED <<tab, up, open, late, acks, bound, cache, old, ages, admitted>>

\* close(): the acknowledgements not sent yet never are; the panes go.  With
\* a code (too much unsent, a device revoked) the peer is asked to close, and
\* its frames are read until it does.
ServerCloses(k) ==
  /\ open[k] /\ k < MaxConns
  /\ open' = [open EXCEPT ![k] = FALSE]
  /\ acks' = [acks EXCEPT ![k] = <<>>]
  /\ \E coded \in BOOLEAN :
       /\ late' = [late EXCEPT ![k] = coded]
       /\ up' = IF coded THEN up ELSE [up EXCEPT ![k] = <<>>]
  /\ UNCHANGED <<tab, down, awaiting, bound, running, results, admitted>>

\* A socket the server closed is found closed.
TabNotices == conn # 0 /\ ~open[conn] /\ TabLoses

Next == \/ Post \/ Connect \/ Receive \/ TabLoses \/ Age
        \/ \E k \in Conns : Arrive(k) \/ ArriveLate(k) \/ SendAcks(k) \/ ServerCloses(k)
        \/ \E c \in Commands, k \in Conns : Finish(c, k)

\* Sockets reconnect on a timer, frames arrive while both ends are open, and
\* the server's turns end.
Fairness == /\ WF_vars(Connect) /\ WF_vars(Receive)
            /\ WF_vars(TabNotices)
            /\ \A k \in Conns : WF_vars(Arrive(k)) /\ WF_vars(SendAcks(k))
            /\ \A c \in Commands, k \in Conns : WF_vars(Finish(c, k))

Spec == Init /\ [][Next]_vars /\ Fairness

-----------------------------------------------------------------------------
Entries == Commands \X Conns
Frames == {Hello} \union {Ack(ids) : ids \in SUBSET (Commands \union {Ready})}
            \union {Result(c) : c \in Commands}

\* The tab keeps at most MAX_UNACKED envelopes, the device's cache at most
\* COMMAND_RESULT_MAX commands, and the rest is of its type.
TypeOK ==
  /\ posted \in 0..MaxCommands /\ conns \in 0..MaxConns
  /\ unacked \in Seq(Commands \union {Ready}) /\ Len(unacked) <= MaxUnacked
  /\ dropped \subseteq Commands \union {Ready} /\ waiting \subseteq Commands
  /\ conn \in 0..conns /\ live \in BOOLEAN /\ met \in BOOLEAN
  /\ up \in [Conns -> Seq(Commands \union {Ready})]
  /\ down \in [Conns -> Seq(Frames)]
  /\ open \in [Conns -> BOOLEAN] /\ late \in [Conns -> BOOLEAN]
  /\ acks \in [Conns -> Seq(Commands \union {Ready})]
  /\ awaiting \in [Conns -> SUBSET Commands] /\ bound \in [Conns -> BOOLEAN]
  /\ running \subseteq Entries /\ old \subseteq Entries /\ answered \subseteq Entries
  /\ cache \in Seq(Entries) /\ Len(cache) <= CacheMax
  /\ waiters \subseteq Entries \X Conns
  /\ ages \in 0..MaxAges /\ admitted \in Seq([of : Commands, acted : BOOLEAN])

\* A command is let through, and so acted on, twice only where the first time
\* was more than ten minutes ago, or as many commands as the cache holds were
\* let through since: never for a resend that races the first copy on the
\* socket given up, or its answer.
ActedOnce ==
  \A i, j \in 1..Len(admitted) :
     i < j /\ admitted[i].of = admitted[j].of
       => (\E e \in old : e[1] = admitted[i].of) \/ j - i > CacheMax

\* Admitted on a socket the server had closed: remembered, and never run.
Swallowed(c) ==
  \E k \in Conns : late[k] /\ c \in awaiting[k] /\ <<c, k>> \notin running

\* Commands are acted on in the order posted, without a gap, whatever part of
\* them each socket carried; but for one the tab gave up or a closed socket
\* swallowed.
ActedInOrder ==
  \A j \in 1..Len(admitted) : \A c \in 1..admitted[j].of :
     \/ ~admitted[j].acted \/ c \in dropped \/ Swallowed(c)
     \/ \E i \in 1..j : admitted[i] = [of |-> c, acted |-> TRUE]

\* A command that is sent reaches a host that has bound its conversation: the
\* pane's `ready` is ahead of it on every socket, old ones given up for a new.
BoundFirst == Ready \in dropped \/ \A r \in running : bound[r[2]]

\* Every command posted is acted on in the end, and the tab knows: it is sent
\* again until it is acknowledged.
Delivered(c) == [of |-> c, acted |-> TRUE] \in ToSet(admitted) /\ c \notin ToSet(unacked)
AllActedOrSwallowed ==
  \A c \in Commands : posted >= c ~> c \in dropped \/ Swallowed(c) \/ Delivered(c)

=============================================================================
