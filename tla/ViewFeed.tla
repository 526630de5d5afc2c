------------------------------ MODULE ViewFeed ------------------------------
(***************************************************************************)
(* What a session view is promised by whatever follows a session host for  *)
(* it, and nothing of how: the protocol comment of                         *)
(* src/src/shared/sessionProtocol.ts:249-294 and the header of             *)
(* src/src/core/session/hostClient.ts:1-26. Events are heard in seq order, *)
(* each at most once; one is passed over only if the host has evicted it   *)
(* or the transcript already shows it; the exit is told once, and only     *)
(* after it happened. The events are those of the view's conversation, a   *)
(* message one event: those of an earlier conversation, and the deltas of  *)
(* a message that is complete, are owed to no view that adopts a host.     *)
(***************************************************************************)
EXTENDS Integers

CONSTANT MaxSeq   \* bound: how many events the host ever emits

VARIABLES
  emitted,   \* the seq of the host's newest event
  gone,      \* events 1..gone can no longer be had from the host
  shown,     \* events 1..shown are in the transcript the view was built from
  over,      \* the session is over: it exited, or its host died
  last,      \* the view has heard, or passed over, events 1..last
  heard,     \* the seqs the view was given
  told       \* the view was told of the exit

vars == <<emitted, gone, shown, over, last, heard, told>>

Init ==
  /\ emitted = 0 /\ gone = 0 /\ shown = 0
  /\ over = FALSE
  /\ last = 0 /\ heard = {}
  /\ told = FALSE

(* The host's side: it emits, forgets, and ends.                           *)
Emit ==
  /\ ~over
  /\ emitted < MaxSeq
  /\ emitted' = emitted + 1
  /\ gone' \in gone..emitted
  /\ over' \in BOOLEAN
  /\ UNCHANGED <<shown, last, heard, told>>

HostDies ==
  /\ ~over
  /\ over' = TRUE
  /\ UNCHANGED <<emitted, gone, shown, last, heard, told>>

(* The transcript is read before anything is heard.                        *)
ReadTranscript ==
  /\ last = 0
  /\ shown' \in 0..emitted
  /\ UNCHANGED <<emitted, gone, over, last, heard, told>>

(* The view is given some events, possibly several in one go and, with     *)
(* them or alone, the exit.                                                *)
Hear ==
  /\ \E to \in last..emitted, given \in SUBSET (last+1..emitted) :
       /\ given \subseteq last+1..to
       /\ \A s \in last+1..to : s \in given \/ s <= gone \/ s <= shown
       /\ last' = to
       /\ heard' = heard \cup given
  /\ told' \in BOOLEAN
  /\ told => told'
  /\ told' => over
  /\ UNCHANGED <<emitted, gone, shown, over>>

Next == Emit \/ HostDies \/ ReadTranscript \/ Hear

Spec == Init /\ [][Next]_vars
=============================================================================
