------------------------- MODULE SessionOwnerProofs -------------------------
(* Proofs about SessionOwner, for any number of hosts, of processes in      *)
(* terminals, and of restarts of the core and of the machine, whatever      *)
(* comes between: no value of Overlaps is assumed. Each property excuses    *)
(* what `crossed` has kept, and is proved of the rest.                      *)
EXTENDS SessionOwner, FiniteSetTheorems, TLAPS

(* A host started counts for each resume on its way, so the bound is kept.  *)
Wanted == (IF adopt # "no" THEN 1 ELSE 0) + (IF auto = "sweep" THEN 1 ELSE 0)

Agents ==
  /\ alive \subseteq spawned \cup Terminal
  /\ alive \cap Terminal \subseteq listed
  /\ \A h \in spawned : host[h] \in {"up", "gone"}
  /\ \A h \in Host : exit[h] # None => host[h] \in {"up", "gone"}
  /\ started + Wanted <= MaxHosts
  /\ ~core => adopt = "no" /\ auto = "done"

-----------------------------------------------------------------------------
(* What the sweep can go by. The agent of a host that has gone is in the    *)
(* CLI's registry and in its manifest; what a sweep has read contains every *)
(* agent whose manifest its result may remove.                              *)
Named ==
  /\ \A h \in Host : host[h] = "up" => h \in files
  /\ \A h \in spawned \cap alive : host[h] = "gone" => h \in listed \cap recorded
  /\ \A h \in forgetting : host[h] = "gone" /\ exit[h] = None
  /\ sweep # None /\ sweep.step # "read" => forgetting \cap alive \subseteq sweep.found
  /\ \A h \in recorded \cap alive : host[h] = "gone" /\ exit[h] = None => h \in files

(* So far, that is, as no host died with an agent that could not be seen,   *)
(* and no sweep missed one.                                                 *)
Tidy == crossed \cap {"launch", "unread"} = {}

-----------------------------------------------------------------------------
(* Only the newest host may run, and only it is followed or being ended. No *)
(* other agent runs while it does, and nobody at all until it has one.      *)
Alone ==
  /\ \A h \in Host : Running(h) => h = started /\ alive \cap Host \subseteq {h}
  /\ \A h \in Host : Running(h) /\ h \notin spawned => alive = {}
  /\ \A h \in Host : view[h] = "following" \/ Ending(h) => h = started
  /\ \A h \in Host : host[h] = "starting" => view[h] = "following" \/ Ending(h)

(* While a resume is on its way the session is nobody's, and from the last  *)
(* look on nothing runs it.                                                 *)
Reserved ==
  /\ Pending => \A h \in Host : ~Running(h) /\ view[h] # "following" /\ ~Ending(h)
  /\ adopt # "no" => auto = "done"
  /\ adopt = "resume" \/ auto = "sweep" => alive = {}

(* What the next start will find of the newest host.                        *)
Found ==
  /\ ~core => \A h \in Host : view[h] = "none"
  /\ \A h \in Host : view[h] \in {"following", "quitting"} =>
       h \notin forgetting /\ (h \in spawned => h \in files)
  /\ ~core /\ rec = "live" => (started \in spawned => started \in files)
  /\ AutoPending => CutOff(started)

Followed == core => (rec = "live" <=> \E h \in Host : view[h] \in {"following", "quitting"})

Owner == Alone /\ Reserved /\ Found /\ Followed

-----------------------------------------------------------------------------
(* The operators.                                                          *)

(* How many resumes a finished sweep lets go ahead.                         *)
LEMMA WaitersCount ==
  Cardinality({w \in {<<adopt, "resume">>, <<auto, "sweep">>} : w[1] = w[2]})
    = (IF adopt = "resume" THEN 1 ELSE 0) + (IF auto = "sweep" THEN 1 ELSE 0)
<1> DEFINE W == {w \in {<<adopt, "resume">>, <<auto, "sweep">>} : w[1] = w[2]}
<1>1. CASE adopt = "resume" /\ auto = "sweep"
  <2>1. W = {<<"resume", "resume">>} \cup {<<"sweep", "sweep">>}  BY <1>1
  <2>2. <<"sweep", "sweep">> \notin {<<"resume", "resume">>}  OBVIOUS
  <2>3. IsFiniteSet({<<"resume", "resume">>}) /\ Cardinality({<<"resume", "resume">>}) = 1
    BY FS_Singleton
  <2>4. Cardinality(W) = 1 + 1  BY <2>1, <2>2, <2>3, FS_AddElement
  <2>5. QED  BY <1>1, <2>4
<1>2. CASE adopt = "resume" /\ auto # "sweep"
  <2>1. W = {<<"resume", "resume">>}  BY <1>2
  <2>2. Cardinality({<<"resume", "resume">>}) = 1  BY FS_Singleton
  <2>3. QED  BY <1>2, <2>1, <2>2
<1>3. CASE adopt # "resume" /\ auto = "sweep"
  <2>1. W = {<<"sweep", "sweep">>}  BY <1>3
  <2>2. Cardinality({<<"sweep", "sweep">>}) = 1  BY FS_Singleton
  <2>3. QED  BY <1>3, <2>1, <2>2
<1>4. CASE adopt # "resume" /\ auto # "sweep"
  <2>1. W = {}  BY <1>4
  <2>2. QED  BY <1>4, <2>1, FS_EmptySet
<1>5. QED  BY <1>1, <1>2, <1>3, <1>4

(* What launching n hosts does.                                            *)
LEMMA LaunchFacts ==
  ASSUME TypeOK, NEW n \in Nat, started + n <= MaxHosts, Launch(n)
  PROVE  /\ started' = started + n /\ started' \in 0..MaxHosts
         /\ host' \in [Host -> {"none", "starting", "up", "gone"}]
         /\ \A h \in Host : host'[h] = "none" <=> h > started'
         /\ \A h \in Host : h <= started => host'[h] = host[h] /\ view'[h] = view[h]
         /\ \A h \in Host : h > started' => host'[h] = host[h] /\ view'[h] = view[h]
         /\ \A h \in Host : started < h /\ h <= started' =>
              host'[h] = "starting" /\ view'[h] = "following"
         /\ view' \in [Host -> {"none", "following", "closing", "quitting", "ended"}]
         /\ rec' = IF n > 0 THEN "live" ELSE rec
BY OwnerAssumption DEF Launch, TypeOK, Host

(* The newest of some hosts, when the one started last is among them.       *)
LEMMA NewestIsStarted ==
  ASSUME TypeOK, NEW S, S \subseteq 1..started, started \in S
  PROVE  Newest(S) = started
<1>1. started \in Nat /\ S \subseteq Int  BY OwnerAssumption DEF TypeOK
<1>2. \A g \in S : g <= started  BY <1>1
<1>3. \A h \in S : (\A g \in S : g <= h) => h = started  BY <1>1, <1>2
<1>4. QED  BY <1>2, <1>3 DEF Newest

(* What a finished sweep does to the rest.                                 *)
LEMMA SweepDoneFacts ==
  ASSUME TypeOK, Agents, NEW clear \in BOOLEAN, SweepDone(clear)
  PROVE  /\ TypeOK' <=> /\ stops' \in 0..MaxStops /\ core' \in BOOLEAN
                        /\ alive' \subseteq Proc /\ killed' \subseteq Proc
                        /\ spawned' \subseteq 1..started' /\ listed' \subseteq spawned' \cup Terminal
                        /\ recorded' \subseteq spawned' /\ booted' \subseteq 1..started'
                        /\ taking' \in Proc \cup {None} /\ crossed' \subseteq Overlaps
                        /\ exit' \in [Host -> {None, "ended", "failed", "stopped", "idle", "signal", "crashed"}]
                        /\ asked' \in [Host -> {None, "stopped", "idle", "signal"}]
         /\ started <= started'
         /\ started' + Wanted' <= MaxHosts
         /\ \E n \in 0..2 : /\ Launch(n) /\ started + n <= MaxHosts
                            /\ n = IF clear THEN (IF adopt = "resume" THEN 1 ELSE 0) + (IF auto = "sweep" THEN 1 ELSE 0) ELSE 0
<1> DEFINE n == IF clear THEN (IF adopt = "resume" THEN 1 ELSE 0) + (IF auto = "sweep" THEN 1 ELSE 0) ELSE 0
<1>1. n \in 0..2 /\ started \in Nat /\ MaxHosts \in Nat
  BY OwnerAssumption DEF TypeOK
<1>2. Launch(n)  BY WaitersCount DEF SweepDone
<1>3. n <= Wanted /\ Wanted \in Nat  BY DEF Wanted
<1>4. started + n <= MaxHosts  BY <1>1, <1>3 DEF Agents
<1>5. started' = started + n /\ started' \in 0..MaxHosts
      /\ host' \in [Host -> {"none", "starting", "up", "gone"}]
      /\ (\A h \in Host : host'[h] = "none" <=> h > started')
      /\ view' \in [Host -> {"none", "following", "closing", "quitting", "ended"}]
      /\ rec' = (IF n > 0 THEN "live" ELSE rec)
  BY <1>1, <1>2, <1>4, LaunchFacts
<1>6. started' + Wanted' <= MaxHosts
  <2>1. n + Wanted' <= Wanted  BY DEF Wanted, SweepDone, TypeOK
  <2>2. Wanted' \in Nat  BY DEF Wanted
  <2>3. started + Wanted <= MaxHosts  BY DEF Agents
  <2>4. started' = started + n  BY <1>5
  <2>5. \A a, b, w, v, m \in Nat : b + v <= w /\ a + w <= m => (a + b) + v <= m  OBVIOUS
  <2> HIDE DEF n
  <2>6. n \in Nat  BY <1>1
  <2>7. QED  BY <1>1, <1>3, <2>1, <2>2, <2>3, <2>4, <2>5, <2>6
<1>7. files' \subseteq 1..started' /\ forgetting' \subseteq 1..started'
  BY <1>1, <1>5 DEF SweepDone, TypeOK
<1>8. sweep' = None /\ adopt' \in {"no", "sweep", "swept", "ending", "resume"} /\ auto' \in {"due", "sweep", "done"}
  BY DEF SweepDone, TypeOK
<1>9. rec' \in {"none", "live", "interrupted", "lost", "stopped", "ended", "failed"}
  BY <1>5 DEF TypeOK
<1>10. QED  BY <1>1, <1>2, <1>4, <1>5, <1>6, <1>7, <1>8, <1>9 DEF TypeOK

(* What a sweep that is on looks like.                                      *)
LEMMA SweepRecord ==
  ASSUME TypeOK, sweep # None
  PROVE  /\ sweep \in [step : {"read", "judge", "term", "kill"}, found : SUBSET Proc, blocked : BOOLEAN]
         /\ sweep.found \subseteq Proc
BY DEF TypeOK

LEMMA JoinSweepType ==
  ASSUME TypeOK, JoinSweep
  PROVE  sweep' \in [step : {"read", "judge", "term", "kill"}, found : SUBSET Proc, blocked : BOOLEAN] \cup {None}
BY DEF TypeOK, JoinSweep

-----------------------------------------------------------------------------
(* Types and Agents, for every value of the constants.                     *)

LEMMA InitTypes ==
  ASSUME Init
  PROVE  TypeOK /\ Agents
BY OwnerAssumption DEF Init, TypeOK, Agents, Wanted, Host, Proc

LEMMA CrossingFacts ==
  ASSUME NEW S, crossed \subseteq Overlaps, Crossing(S)
  PROVE  crossed' \subseteq Overlaps
BY DEF Crossing

LEMMA CrossingGrows ==
  ASSUME NEW S, Crossing(S)
  PROVE  crossed \subseteq crossed' /\ S \subseteq crossed'
BY DEF Crossing

(* A host and its agent.                                                   *)
LEMMA HostTypes ==
  ASSUME TypeOK, Agents, NEW h \in Host, HostStep(h) \/ ViewStep(h)
  PROVE  TypeOK' /\ Agents'
<1> USE OwnerAssumption, CrossingFacts DEF TypeOK, Agents, Wanted, procVars, diskVars, resumeVars, coreVars
<1>0. h \in Nat /\ h \in Proc /\ h \notin Terminal  BY DEF Host, Proc
<1>1. CASE HostReady(h)
  <2>1. h <= started /\ h \in 1..started  BY <1>0, <1>1 DEF HostReady, Host
  <2>2. host' \in [Host -> {"none", "starting", "up", "gone"}] /\ files' \subseteq 1..started
    BY <1>1, <2>1 DEF HostReady
  <2>3. \A g \in Host : host'[g] = (IF g = h THEN "up" ELSE host[g])  BY <1>1 DEF HostReady
  <2>4. \A g \in Host : host'[g] = "none" <=> g > started  BY <1>0, <2>1, <2>3
  <2>5. \A g \in spawned : host'[g] \in {"up", "gone"}  BY <2>3 DEF Host
  <2>6. QED  BY <1>1, <2>2, <2>4, <2>5 DEF HostReady
<1>2. CASE SpawnAgent(h)
  <2>1. h \in 1..started /\ spawned' = spawned \cup {h} /\ alive' = alive \cup {h} /\ host[h] = "up"
    BY <1>0, <1>2 DEF SpawnAgent, Host
  <2>2. UNCHANGED <<started, host, listed, asked, booted, diskVars, killed, rec, coreVars, crossed>>
    BY <1>2 DEF SpawnAgent
  <2>3. spawned' \subseteq 1..started /\ alive' \subseteq Proc  BY <1>0, <2>1
  <2>4. TypeOK'  BY <2>1, <2>2, <2>3
  <2>5. /\ alive' \subseteq spawned' \cup Terminal /\ alive' \cap Terminal \subseteq listed
        /\ \A g \in spawned' : host[g] \in {"up", "gone"}
    BY <1>0, <2>1
  <2>6. QED  BY <2>2, <2>4, <2>5
<1>3. CASE RecordAgent(h)  BY <1>0, <1>3 DEF RecordAgent
<1>4. CASE ListAgent(h)  BY <1>0, <1>4 DEF ListAgent
<1>5. CASE WriteExit(h)  BY <1>0, <1>5 DEF WriteExit
<1>6. CASE HostLeaves(h)  BY <1>0, <1>6 DEF HostLeaves
<1>7. CASE HostKilled(h)  BY <1>0, <1>7 DEF HostKilled
<1>8. CASE HostCrashes(h)  BY <1>0, <1>8 DEF HostCrashes
<1>9. CASE HostFails(h)  BY <1>0, <1>9 DEF HostFails
<1>10. CASE HostTold(h)  BY <1>0, <1>10 DEF HostTold
<1>11. CASE Close(h)  BY <1>0, <1>11 DEF Close, Ask
<1>12. CASE CloseDone(h)  BY <1>0, <1>12 DEF CloseDone
<1>13. CASE Quit(h)  BY <1>0, <1>13 DEF Quit, Ask
<1>14. CASE ViewEnds(h)
  <2>1. sweep' \in [step : {"read", "judge", "term", "kill"}, found : SUBSET Proc, blocked : BOOLEAN] \cup {None}
    BY <1>14, JoinSweepType DEF ViewEnds
  <2>2. crossed' \subseteq Overlaps  BY <1>14 DEF ViewEnds
  <2>3. QED  BY <1>0, <1>14, <2>1, <2>2 DEF ViewEnds
<1>15. QED  BY <1>1, <1>2, <1>3, <1>4, <1>5, <1>6, <1>7, <1>8, <1>9, <1>10, <1>11, <1>12, <1>13, <1>14
            DEF HostStep, ViewStep

(* Somebody starts a process in a terminal.                                *)
LEMMA TerminalTypes ==
  ASSUME TypeOK, Agents, NEW t \in Terminal, TerminalStarts(t)
  PROVE  TypeOK' /\ Agents'
<1>1. crossed' \subseteq Overlaps  BY CrossingFacts DEF TerminalStarts, TypeOK
<1>2. t \in Proc  BY DEF Proc
<1>3. QED
  BY <1>1, <1>2 DEF TerminalStarts, TypeOK, Agents, Wanted, diskVars, resumeVars, coreVars

LEMMA SweepTypes ==
  ASSUME TypeOK, Agents, SweepStep
  PROVE  TypeOK' /\ Agents'
<1> USE OwnerAssumption DEF procVars, diskVars, resumeVars
<1>1. CASE SweepReads
  <2>1. PICK S \in SUBSET Visible :
          /\ sweep' = [sweep EXCEPT !.step = "judge", !.found = S]
          /\ Crossing(When("unread", S # Visible))
    BY <1>1 DEF SweepReads
  <2>2. crossed' \subseteq Overlaps  BY <2>1, CrossingFacts DEF TypeOK
  <2>3. S \subseteq Proc  BY DEF Visible, TypeOK
  <2>4. sweep' \in [step : {"read", "judge", "term", "kill"}, found : SUBSET Proc, blocked : BOOLEAN]
    BY <1>1, <2>1, <2>3, SweepRecord DEF SweepReads
  <2>5. QED  BY <1>1, <2>2, <2>4 DEF SweepReads, TypeOK, Agents, Wanted
<1>2. ASSUME NEW clear \in BOOLEAN, SweepDone(clear),
             UNCHANGED <<alive, spawned, listed, asked, booted, recorded, exit, killed, core, taking, stops, crossed>>
      PROVE  TypeOK' /\ Agents'
  <2>1. PICK n \in 0..2 : Launch(n) /\ started + n <= MaxHosts  BY <1>2, SweepDoneFacts
  <2>2. started <= started' /\ started' + Wanted' <= MaxHosts  BY <1>2, SweepDoneFacts
  <2>3. started' \in Nat /\ started \in Nat /\ 1..started \subseteq 1..started'
    BY <2>1, <2>2, LaunchFacts DEF TypeOK
  <2>4. TypeOK'  BY <1>2, <2>3, SweepDoneFacts DEF TypeOK
  <2>5. \A h \in spawned : host'[h] \in {"up", "gone"}
    BY <2>1, LaunchFacts DEF TypeOK, Agents, Host
  <2>6. ~core' => adopt' = "no" /\ auto' = "done"
    BY <1>2 DEF SweepDone, Agents
  <2>7. \A h \in Host : exit'[h] # None => host'[h] \in {"up", "gone"}
    BY <1>2, <2>1, LaunchFacts DEF TypeOK, Agents, Host
  <2>8. QED  BY <1>2, <2>2, <2>4, <2>5, <2>6, <2>7 DEF Agents
<1>3. CASE SweepJudges
  <2>1. CASE ((sweep.found \cap alive) \cap LostAgents) \ HeldAgents = {}
    BY <1>2, <1>3, <2>1 DEF SweepJudges
  <2>2. CASE ((sweep.found \cap alive) \cap LostAgents) \ HeldAgents # {}
    <3> DEFINE orphans == ((sweep.found \cap alive) \cap LostAgents) \ HeldAgents
               blocked == (sweep.found \cap alive) # orphans
    <3>1. sweep' = [step |-> "term", found |-> orphans, blocked |-> blocked]
          /\ UNCHANGED <<started, host, view, rec, adopt, auto, forgetting, files>>
          /\ UNCHANGED <<alive, spawned, listed, asked, booted, recorded, exit, killed, core, taking, stops, crossed>>
      BY <1>3, <2>2 DEF SweepJudges
    <3>2. orphans \subseteq Proc  BY DEF TypeOK
    <3>3. blocked \in BOOLEAN  OBVIOUS
    <3> HIDE DEF orphans, blocked
    <3>4. sweep' \in [step : {"read", "judge", "term", "kill"}, found : SUBSET Proc, blocked : BOOLEAN]
      BY <3>1, <3>2, <3>3
    <3>5. QED  BY <3>1, <3>4 DEF TypeOK, Agents, Wanted
  <2>3. QED  BY <2>1, <2>2
<1>4. CASE SweepKills
  BY <1>4, SweepRecord DEF SweepKills, TypeOK, Agents, Wanted
<1>5. CASE SweepEnds
  BY <1>2, <1>5, SweepRecord DEF SweepEnds
<1>6. QED  BY <1>1, <1>3, <1>4, <1>5 DEF SweepStep

(* The user, and the automatic resume.                                     *)
LEMMA ResumeTypes ==
  ASSUME TypeOK, Agents, Adopt \/ AdoptGoesOn \/ AdoptEnded \/ AutoResume
  PROVE  TypeOK' /\ Agents'
<1> USE OwnerAssumption, JoinSweepType DEF procVars, diskVars
<1>1. started \in Nat /\ MaxHosts \in Nat  BY DEF TypeOK
<1>2. \A a, v, w, m \in Nat : v <= w /\ a + w <= m => a + v <= m  OBVIOUS
<1>3. CASE Adopt
  <2>1. crossed' \subseteq Overlaps  BY <1>3, CrossingFacts DEF Adopt, TypeOK
  <2>2. QED  BY <1>1, <1>3, <2>1 DEF Adopt, MayLaunch, TypeOK, Agents, Wanted
<1>4. CASE AdoptGoesOn
  <2>1. /\ adopt = "swept" /\ adopt' \in {"no", "ending", "resume"}
        /\ taking' \in Proc \cup {None}
        /\ UNCHANGED <<started, procVars, diskVars, killed, rec, core, view, auto, forgetting, stops, crossed>>
    BY <1>4 DEF AdoptGoesOn, AdoptResumes, TypeOK, Visible
  <2>2. sweep' \in [step : {"read", "judge", "term", "kill"}, found : SUBSET Proc, blocked : BOOLEAN] \cup {None}
    <3>1. CASE UNCHANGED sweep  BY <3>1 DEF TypeOK
    <3>2. CASE JoinSweep  BY <3>2
    <3>3. QED  BY <1>4, <3>1, <3>2 DEF AdoptGoesOn, AdoptResumes
  <2>3. Wanted' \in Nat /\ Wanted \in Nat /\ Wanted' <= Wanted  BY <2>1 DEF Wanted
  <2>4. started + Wanted' <= MaxHosts  BY <1>1, <1>2, <2>3 DEF Agents
  <2>5. TypeOK'  BY <2>1, <2>2 DEF TypeOK
  <2>6. QED  BY <1>4, <2>1, <2>4, <2>5 DEF Agents, AdoptGoesOn
<1>5. CASE AdoptEnded
  <2>1. /\ adopt = "ending" /\ adopt' \in {"no", "ending", "resume"}
        /\ killed' \subseteq Proc /\ taking' \in Proc \cup {None}
        /\ UNCHANGED <<started, procVars, diskVars, rec, core, view, auto, forgetting, stops, crossed>>
    BY <1>1, <1>5 DEF AdoptEnded, AdoptResumes, TypeOK
  <2>2. sweep' \in [step : {"read", "judge", "term", "kill"}, found : SUBSET Proc, blocked : BOOLEAN] \cup {None}
    <3>1. CASE UNCHANGED sweep  BY <3>1 DEF TypeOK
    <3>2. CASE JoinSweep  BY <3>2
    <3>3. QED  BY <1>5, <3>1, <3>2 DEF AdoptEnded, AdoptResumes
  <2>3. Wanted' \in Nat /\ Wanted \in Nat /\ Wanted' <= Wanted  BY <2>1 DEF Wanted
  <2>4. started + Wanted' <= MaxHosts  BY <1>1, <1>2, <2>3 DEF Agents
  <2>5. TypeOK'  BY <2>1, <2>2 DEF TypeOK
  <2>6. QED  BY <1>5, <2>1, <2>4, <2>5 DEF Agents, AdoptEnded
<1>6. CASE AutoResume  BY <1>1, <1>6 DEF AutoResume, MayLaunch, TypeOK, Agents, Wanted
<1>7. QED  BY <1>3, <1>4, <1>5, <1>6

LEMMA OutcomeType ==
  ASSUME NEW h
  PROVE  Outcomes(h) \subseteq {"interrupted", "lost", "stopped", "ended", "failed"}
BY DEF Outcomes, Outcome, When

LEMMA ClassifyType ==
  ASSUME TypeOK
  PROVE  Classify \subseteq {"none", "live", "interrupted", "lost", "stopped", "ended", "failed"}
<1>1. CASE Held  BY <1>1 DEF Classify
<1>2. CASE ~Held /\ rec # "live"  BY <1>2 DEF Classify, TypeOK
<1>3. CASE ~Held /\ rec = "live"  BY <1>3, OutcomeType DEF Classify, When
<1>4. QED  BY <1>1, <1>2, <1>3

LEMMA CoreTypes ==
  ASSUME TypeOK, Agents, CoreStops \/ MachineRestarts \/ CoreStarts
  PROVE  TypeOK' /\ Agents'
<1> USE OwnerAssumption DEF procVars, diskVars
<1>1. CASE CoreStops \/ MachineRestarts
  <2>1. /\ view' = [h \in Host |-> "none"] /\ sweep' = None /\ adopt' = "no" /\ taking' = None
        /\ auto' = "done" /\ forgetting' = {} /\ core' = FALSE
        /\ UNCHANGED <<started, spawned, listed, asked, diskVars, killed, rec>>
    BY <1>1 DEF CoreStops, MachineRestarts, CoreGoes
  <2>2. stops' \in 0..MaxStops
    <3>1. /\ core => stops < MaxStops
          /\ stops' = IF core THEN stops + 1 ELSE stops
      BY <1>1 DEF CoreStops, MachineRestarts, CoreGoes
    <3>2. stops \in 0..MaxStops /\ MaxStops \in Nat  BY DEF TypeOK
    <3>3. CASE core  BY <3>1, <3>2, <3>3
    <3>4. CASE ~core  BY <3>1, <3>2, <3>4
    <3>5. QED  BY <3>3, <3>4
  <2>3. started \in Nat /\ MaxHosts \in Nat /\ started <= MaxHosts /\ Wanted' = 0
    BY <2>1 DEF TypeOK, Wanted
  <2>4. crossed' \subseteq Overlaps
    BY <1>1, CrossingFacts DEF CoreStops, MachineRestarts, TypeOK
  <2>5. /\ host' \in [Host -> {"none", "starting", "up", "gone"}]
        /\ \A h \in Host : /\ host'[h] = "none" <=> host[h] = "none"
                           /\ host[h] \in {"up", "gone"} => host'[h] \in {"up", "gone"}
    BY <1>1 DEF CoreStops, MachineRestarts, TypeOK
  <2>6. alive' \subseteq alive /\ booted' \subseteq 1..started
    BY <1>1 DEF CoreStops, MachineRestarts, TypeOK
  <2>7. spawned \subseteq Host  BY <2>3 DEF TypeOK, Host
  <2>8. TypeOK'  BY <2>1, <2>2, <2>4, <2>5, <2>6 DEF TypeOK
  <2>9. QED  BY <2>1, <2>3, <2>5, <2>6, <2>7, <2>8 DEF Agents
<1>2. CASE CoreStarts
  <2>1. rec' \in {"none", "live", "interrupted", "lost", "stopped", "ended", "failed"}
    BY <1>2, ClassifyType DEF CoreStarts
  <2>2. files' \subseteq files /\ forgetting' \subseteq files
    BY <1>2 DEF CoreStarts, Collected, Dead
  <2>3. sweep' \in [step : {"read", "judge", "term", "kill"}, found : SUBSET Proc, blocked : BOOLEAN] \cup {None}
    BY <1>2 DEF CoreStarts
  <2>4. view' \in [Host -> {"none", "following", "closing", "quitting", "ended"}] /\ auto' \in {"due", "done"}
    BY <1>2 DEF CoreStarts
  <2>5. QED  BY <1>2, <2>1, <2>2, <2>3, <2>4 DEF CoreStarts, TypeOK, Agents, Wanted
<1>3. QED  BY <1>1, <1>2

LEMMA EndsTypes ==
  ASSUME TypeOK, Agents, NEW p \in Proc, AgentEnds(p)
  PROVE  TypeOK' /\ Agents'
BY DEF AgentEnds, TypeOK, Agents, Wanted, diskVars, resumeVars, coreVars

LEMMA NextTypes ==
  ASSUME TypeOK, Agents, [Next]_vars
  PROVE  TypeOK' /\ Agents'
<1>1. CASE UNCHANGED vars
  BY <1>1 DEF vars, procVars, diskVars, resumeVars, coreVars, TypeOK, Agents, Wanted
<1>2. QED
  BY <1>1, HostTypes, EndsTypes, TerminalTypes, SweepTypes, ResumeTypes, CoreTypes DEF Next

(* Every variable keeps its type, and no more hosts are started than there  *)
(* may be, for any bounds and whatever overlaps.                            *)
THEOREM TypeCorrect == Spec => []TypeOK
<1>1. Init => TypeOK /\ Agents  BY InitTypes
<1>2. TypeOK /\ Agents /\ [Next]_vars => (TypeOK /\ Agents)'  BY NextTypes
<1>3. QED  BY <1>1, <1>2, PTL DEF Spec

-----------------------------------------------------------------------------
(* What has come between is kept.                                          *)
LEMMA CrossedKept ==
  ASSUME Next
  PROVE  crossed \subseteq crossed'
BY CrossingGrows
   DEF Next, HostStep, HostReady, SpawnAgent, RecordAgent, ListAgent, WriteExit, HostLeaves, HostKilled,
       HostCrashes, HostFails, HostTold, ViewStep, Close, CloseDone, Quit, ViewEnds, AgentEnds, TerminalStarts,
       SweepStep, SweepReads, SweepJudges, SweepKills, SweepEnds, Adopt, AdoptGoesOn, AdoptEnded, AutoResume,
       CoreStops, MachineRestarts, CoreStarts

-----------------------------------------------------------------------------
(* Named, as long as it is Tidy.                                           *)

(* The orphan of a lost host that a start found is one a sweep may end.     *)
LEMMA ForgottenIsOrphan ==
  ASSUME TypeOK, Agents, Named, NEW h \in forgetting \cap alive
  PROVE  /\ h \in spawned \cap listed \cap recorded \cap files
         /\ h \in Visible /\ h \in LostAgents \ HeldAgents
<1>1. h \in Host /\ h \notin Terminal  BY OwnerAssumption DEF TypeOK, Host
<1>2. h \in spawned  BY <1>1 DEF Agents
<1>3. host[h] = "gone" /\ exit[h] = None  BY DEF Named
<1>4. h \in listed \cap recorded  BY <1>2, <1>3 DEF Named
<1>5. h \in files  BY <1>3, <1>4 DEF Named
<1>6. QED  BY <1>2, <1>3, <1>4, <1>5 DEF Visible, LostAgents, HeldAgents

(* A sweep that finds orphans waits for them; a clear one leaves none.      *)
LEMMA ClearSweep ==
  ASSUME TypeOK, Agents, Named, SweepJudges \/ SweepEnds
  PROVE  \/ /\ sweep'.found = ((sweep.found \cap alive) \cap LostAgents) \ HeldAgents
            /\ UNCHANGED <<started, host, view, rec, adopt, auto, forgetting, files>>
         \/ \E clear \in BOOLEAN : SweepDone(clear) /\ (clear => sweep.found \cap alive = {} /\ forgetting \cap alive = {})
<1>1. forgetting \cap alive \subseteq sweep.found \/ sweep = None \/ sweep.step = "read"  BY DEF Named
<1>2. CASE SweepEnds
  <2> DEFINE clear == ~sweep.blocked /\ ~(sweep.found \cap alive # {})
  <2>1. SweepDone(clear) /\ clear \in BOOLEAN  BY <1>2 DEF SweepEnds
  <2>2. clear => sweep.found \cap alive = {} /\ forgetting \cap alive = {}  BY <1>1, <1>2 DEF SweepEnds
  <2>3. QED  BY <2>1, <2>2
<1>3. CASE SweepJudges
  <2> DEFINE found == sweep.found \cap alive
             orphans == (found \cap LostAgents) \ HeldAgents
             blocked == found # orphans
  <2>1. CASE orphans = {}
    <3>1. SweepDone(~blocked) /\ (~blocked) \in BOOLEAN  BY <1>3, <2>1 DEF SweepJudges
    <3>2. ~blocked => found = {} /\ forgetting \cap alive = {}  BY <1>1, <1>3, <2>1 DEF SweepJudges
    <3>3. QED  BY <3>1, <3>2
  <2>2. CASE orphans # {}
    <3>1. /\ sweep' = [step |-> "term", found |-> orphans, blocked |-> blocked]
          /\ UNCHANGED <<started, host, view, rec, adopt, auto, forgetting, files>>
      BY <1>3, <2>2 DEF SweepJudges
    <3>2. QED  BY <3>1
  <2>3. QED  BY <2>1, <2>2
<1>4. QED  BY <1>2, <1>3

(* A host or its agent moves.                                              *)
LEMMA HostNamed ==
  ASSUME TypeOK, Agents, Named, Tidy', NEW h \in Host, HostStep(h) \/ ViewStep(h)
  PROVE  Named'
<1> USE DEF procVars, diskVars, coreVars, Named
<1>1. h \in Nat /\ h \notin Terminal /\ (h \in alive => h \in spawned)
  BY OwnerAssumption DEF Host, Agents
<1>2. h \in spawned => host[h] \in {"up", "gone"}  BY DEF Agents
<1>3. host \in [Host -> {"none", "starting", "up", "gone"}] /\ DOMAIN exit = Host
      /\ spawned \subseteq Host /\ recorded \subseteq spawned /\ forgetting \subseteq Host
  BY OwnerAssumption DEF TypeOK, Host
<1>4. Crossing(When("launch", Unseen(h))) => (h \in alive => h \in listed \cap recorded)
  BY CrossingGrows DEF When, Unseen, Tidy
<1>5. CASE HostReady(h)  BY <1>1, <1>2, <1>3, <1>5 DEF HostReady
<1>6. CASE SpawnAgent(h)  BY <1>1, <1>2, <1>3, <1>6 DEF SpawnAgent
<1>7. CASE RecordAgent(h)  BY <1>1, <1>2, <1>3, <1>7 DEF RecordAgent
<1>8. CASE ListAgent(h)  BY <1>1, <1>2, <1>3, <1>8 DEF ListAgent
<1>9. CASE WriteExit(h)
  <2>1. \A g \in Host : g # h => exit'[g] = exit[g]
    <3>1. \E why : exit' = [exit EXCEPT ![h] = why]  BY <1>9 DEF WriteExit
    <3>2. QED  BY <1>3, <3>1
  <2>2. host[h] = "up" /\ UNCHANGED <<host, alive, spawned, listed, files, recorded, sweep, forgetting>>
    BY <1>9 DEF WriteExit
  <2>3. QED  BY <1>3, <2>1, <2>2
<1>10. CASE HostLeaves(h)  BY <1>1, <1>2, <1>3, <1>10 DEF HostLeaves
<1>11. CASE HostKilled(h)  BY <1>1, <1>2, <1>3, <1>4, <1>11 DEF HostKilled
<1>12. CASE HostCrashes(h)  BY <1>1, <1>2, <1>3, <1>4, <1>12 DEF HostCrashes
<1>13. CASE HostFails(h)  BY <1>1, <1>2, <1>3, <1>13 DEF HostFails
<1>14. CASE HostTold(h)  BY <1>1, <1>2, <1>3, <1>14 DEF HostTold
<1>15. CASE Close(h)  BY <1>1, <1>2, <1>3, <1>15 DEF Close
<1>16. CASE CloseDone(h)  BY <1>1, <1>2, <1>3, <1>16 DEF CloseDone
<1>17. CASE Quit(h)  BY <1>1, <1>2, <1>3, <1>17 DEF Quit
<1>18. CASE ViewEnds(h)
  <2>1. UNCHANGED <<started, procVars, diskVars, forgetting>>  BY <1>18 DEF ViewEnds
  <2>2. UNCHANGED sweep \/ JoinSweep  BY <1>18 DEF ViewEnds
  <2>3. sweep' # None /\ sweep'.step # "read" => sweep # None /\ sweep' = sweep
    BY <2>2 DEF JoinSweep
  <2>4. QED  BY <2>1, <2>3
<1>19. QED  BY <1>5, <1>6, <1>7, <1>8, <1>9, <1>10, <1>11, <1>12, <1>13, <1>14, <1>15, <1>16, <1>17, <1>18
            DEF HostStep, ViewStep

LEMMA SweepNamed ==
  ASSUME TypeOK, Agents, Named, Tidy', SweepStep
  PROVE  Named'
<1> USE DEF procVars, diskVars
<1>1. CASE SweepReads
  <2>1. UNCHANGED <<started, procVars, diskVars, forgetting>> /\ sweep'.found = Visible
    BY <1>1, SweepRecord, CrossingGrows DEF SweepReads, When, Tidy
  <2>2. forgetting \cap alive \subseteq Visible  BY ForgottenIsOrphan
  <2>3. QED  BY <2>1, <2>2 DEF Named
<1>2. CASE SweepKills
  <2>1. UNCHANGED <<started, procVars, diskVars, forgetting>> /\ sweep'.found = sweep.found
    BY <1>2, SweepRecord DEF SweepKills
  <2>2. sweep # None /\ sweep.step # "read"  BY <1>2 DEF SweepKills
  <2>3. QED  BY <2>1, <2>2 DEF Named
<1>3. CASE SweepJudges \/ SweepEnds
  <2>1. UNCHANGED <<alive, spawned, listed, recorded, exit>> /\ sweep # None /\ sweep.step # "read"
    BY <1>3 DEF SweepJudges, SweepEnds
  <2>2. CASE /\ sweep'.found = ((sweep.found \cap alive) \cap LostAgents) \ HeldAgents
             /\ UNCHANGED <<started, host, view, rec, adopt, auto, forgetting, files>>
    <3>1. forgetting \cap alive \subseteq sweep'.found  BY <2>1, <2>2, ForgottenIsOrphan DEF Named
    <3>2. QED  BY <2>1, <2>2, <3>1 DEF Named
  <2>3. ASSUME NEW clear \in BOOLEAN, SweepDone(clear), clear => forgetting \cap alive = {}
        PROVE  Named'
    <3>1. sweep' = None /\ forgetting' = {}  BY <2>3 DEF SweepDone
    <3>2. \A h \in Host : h \in files /\ h \notin files' => host[h] = "gone" /\ h \notin alive
      BY <2>3 DEF SweepDone
    <3>3. files' \subseteq files  BY <2>3 DEF SweepDone
    <3>4. PICK n \in 0..2 : Launch(n) /\ started + n <= MaxHosts  BY <2>3, SweepDoneFacts
    <3>5. \A h \in Host : host'[h] = host[h] \/ (h > started /\ host'[h] = "starting")
      BY <3>4, LaunchFacts DEF TypeOK, Host
    <3>6. started \in Nat /\ spawned \subseteq 1..started /\ spawned \subseteq Host /\ recorded \subseteq spawned
      BY OwnerAssumption DEF TypeOK, Host
    <3>7. \A h \in Host : host'[h] = "up" => h \in files'  BY <3>2, <3>5 DEF Named
    <3>8. \A h \in spawned' \cap alive' : host'[h] = "gone" => h \in listed' \cap recorded'
      BY <2>1, <3>5, <3>6 DEF Named
    <3>9. \A h \in recorded' \cap alive' : host'[h] = "gone" /\ exit'[h] = None => h \in files'
      BY <2>1, <3>2, <3>5, <3>6 DEF Named
    <3>10. QED  BY <3>1, <3>7, <3>8, <3>9 DEF Named
  <2>4. QED  BY <1>3, <2>2, <2>3, ClearSweep
<1>4. QED  BY <1>1, <1>2, <1>3 DEF SweepStep

LEMMA OthersNamed ==
  ASSUME TypeOK, Agents, Named,
         \/ Adopt \/ AdoptGoesOn \/ AdoptEnded \/ AutoResume \/ CoreStops \/ MachineRestarts \/ CoreStarts
         \/ (\E p \in Proc : AgentEnds(p)) \/ (\E t \in Terminal : TerminalStarts(t))
  PROVE  Named'
<1> USE DEF procVars, diskVars, coreVars
<1>1. CASE Adopt \/ AdoptGoesOn \/ AdoptEnded \/ AutoResume
  <2>1. UNCHANGED <<started, procVars, diskVars, forgetting>>
    BY <1>1 DEF Adopt, AdoptGoesOn, AdoptEnded, AutoResume
  <2>2. UNCHANGED sweep \/ JoinSweep
    BY <1>1 DEF Adopt, AdoptGoesOn, AdoptEnded, AutoResume, AdoptResumes
  <2>3. sweep' # None /\ sweep'.step # "read" => sweep # None /\ sweep' = sweep
    BY <2>2 DEF JoinSweep
  <2>4. QED  BY <2>1, <2>3 DEF Named
<1>2. CASE CoreStops
  BY <1>2 DEF CoreStops, CoreGoes, Named
<1>5. CASE MachineRestarts
  <2>1. alive' = {} /\ sweep' = None /\ forgetting' = {} /\ \A h \in Host : host'[h] # "up"
    BY <1>5 DEF MachineRestarts, CoreGoes
  <2>2. QED  BY <2>1 DEF Named
<1>3. CASE CoreStarts
  <2>1. UNCHANGED <<started, procVars, recorded, exit>> /\ files' = Collected
        /\ forgetting' = {h \in Dead : exit[h] = None}
    BY <1>3 DEF CoreStarts
  <2>2. sweep' # None => sweep'.step = "read"  BY <1>3 DEF CoreStarts
  <2>3. QED  BY <2>1, <2>2 DEF Named, Collected, Dead
<1>4. CASE \E p \in Proc : AgentEnds(p)
  BY <1>4 DEF AgentEnds, Named
<1>6. CASE \E t \in Terminal : TerminalStarts(t)
  <2>1. PICK t \in Terminal : TerminalStarts(t)  BY <1>6
  <2>2. /\ alive' = alive \cup {t} /\ listed' = listed \cup {t}
        /\ UNCHANGED <<host, spawned, files, recorded, exit, sweep, forgetting>>
    BY <2>1 DEF TerminalStarts
  <2>3. t \notin Host /\ spawned \subseteq Host /\ recorded \subseteq Host /\ forgetting \subseteq Host
    BY OwnerAssumption DEF TypeOK, Host
  <2>4. /\ spawned \cap alive' = spawned \cap alive /\ recorded \cap alive' = recorded \cap alive
        /\ forgetting \cap alive' = forgetting \cap alive
    BY <2>2, <2>3
  <2>5. QED  BY <2>2, <2>4 DEF Named
<1>7. QED  BY <1>1, <1>2, <1>3, <1>4, <1>5, <1>6

(* The manifest of an orphan stays until the orphan has gone: the one proof *)
(* by which a sweep may end it is never collected under a sweep that has    *)
(* not seen it, nor while it runs (hostSupervisor.ts:124-131, 146-156), as  *)
(* long as no agent was left unseen and no sweep failed to read.            *)
THEOREM OrphanStaysNamedHolds == Spec => []OrphanStaysNamed
<1> DEFINE NInv == TypeOK /\ Agents /\ (Tidy => Named)
<1>1. Init => NInv
  <2>1. Init => Named  BY DEF Init, Named
  <2>2. QED  BY <2>1, InitTypes
<1>2. NInv /\ [Next]_vars => NInv'
  <2>1. TypeOK /\ Agents /\ [Next]_vars => TypeOK' /\ Agents'  BY NextTypes
  <2>2. UNCHANGED vars => (Named => Named') /\ (Tidy' => Tidy)
    BY DEF vars, procVars, diskVars, coreVars, Named, Tidy
  <2>3. TypeOK /\ Agents /\ Named /\ Next /\ Tidy' => Named'
    BY HostNamed, SweepNamed, OthersNamed DEF Next
  <2>4. Next /\ Tidy' => Tidy  BY CrossedKept DEF Tidy
  <2>5. QED  BY <2>1, <2>2, <2>3, <2>4
<1>3. NInv => OrphanStaysNamed  BY DEF Named, Tidy, OrphanStaysNamed
<1>4. QED  BY <1>1, <1>2, <1>3, PTL DEF Spec

-----------------------------------------------------------------------------
(* Owner, as long as nothing has come between.                             *)
Inv == TypeOK /\ Agents /\ Named /\ Owner

(* When no host runs, whatever runs the session is seen.                    *)
LEMMA AllIsSeen ==
  ASSUME TypeOK, Agents, Named, \A h \in Host : ~Running(h)
  PROVE  Visible = alive
<1>1. spawned \subseteq Host  BY OwnerAssumption DEF TypeOK, Host
<1>2. \A h \in spawned \cap alive : h \in listed  BY <1>1 DEF Agents, Named, Running
<1>3. QED  BY <1>2 DEF Visible, Agents

(* A session the user may resume runs nowhere, or in a terminal.            *)
LEMMA FreeSession ==
  ASSUME Inv, ~Owned, ~Held
  PROVE  \A h \in Host : ~Running(h) /\ view[h] # "following"
<1>1. \A h \in Host : host[h] # "up"  BY DEF Inv, Named, Held
<1>2. \A h \in Host : view[h] # "following" /\ (Ending(h) => ~Running(h))  BY DEF Owned
<1>3. \A h \in Host : host[h] # "starting"  BY <1>2 DEF Inv, Owner, Alone, Running
<1>4. QED  BY <1>1, <1>2, <1>3 DEF Running

(* Steps of a host and of its agent, and a close.                           *)
LEMMA HostOwner ==
  ASSUME Inv, NEW h \in Host, HostStep(h)
  PROVE  Owner'
<1> USE DEF procVars, diskVars, coreVars
<1>1. /\ h \in Nat /\ host \in [Host -> {"none", "starting", "up", "gone"}]
      /\ DOMAIN exit = Host /\ spawned \subseteq Host /\ files \subseteq Host
  BY OwnerAssumption DEF Inv, TypeOK, Host
<1>2. UNCHANGED <<started, booted, core, view, rec, sweep, adopt, auto, forgetting>>
  BY DEF resumeVars, HostStep, HostReady, SpawnAgent, RecordAgent, ListAgent, WriteExit, HostLeaves, HostKilled,
         HostCrashes, HostFails, HostTold
<1>3. /\ \A g \in Host : g # h => host'[g] = host[g] /\ exit'[g] = exit[g]
      /\ Running(h)' => Running(h)
      /\ host'[h] = "starting" => host[h] = "starting"
  <2>1. host' = host \/ \E s \in {"up", "gone"} : host' = [host EXCEPT ![h] = s]
    BY DEF HostStep, HostReady, SpawnAgent, RecordAgent, ListAgent, WriteExit, HostLeaves, HostKilled,
           HostCrashes, HostFails, HostTold
  <2>2. exit' = exit \/ \E why : exit' = [exit EXCEPT ![h] = why]
    BY DEF HostStep, HostReady, SpawnAgent, RecordAgent, ListAgent, WriteExit, HostLeaves, HostKilled,
           HostCrashes, HostFails, HostTold
  <2>3. host' = host \/ Running(h)
    <3>1. host[h] \in {"starting", "up"} \/ host' = host
      BY DEF HostStep, HostReady, SpawnAgent, RecordAgent, ListAgent, WriteExit, HostLeaves, HostKilled,
             HostCrashes, HostFails, HostTold
    <3>2. QED  BY <3>1 DEF Running
  <2>4. QED  BY <1>1, <2>1, <2>2, <2>3 DEF Running
<1>4. /\ Running(h) \/ UNCHANGED <<spawned, exit>>
      /\ \/ alive' \subseteq alive
         \/ Running(h) /\ h \notin spawned /\ h \in spawned' /\ alive' = alive \cup {h}
      /\ spawned \subseteq spawned'
      /\ spawned' \subseteq spawned \cup {h} /\ (h \in spawned' => h \in spawned \/ h \in files)
      /\ files \subseteq files' /\ (h \in spawned => host[h] # "starting")
  <2>1. host[h] = "up" => h \in files  BY DEF Inv, Named
  <2>2. h \in spawned => host[h] # "starting"  BY DEF Inv, Agents
  <2>3. host[h] = "up" => Running(h)  BY DEF Running
  <2>4. QED
    BY <2>1, <2>2, <2>3 DEF HostStep, HostReady, SpawnAgent, RecordAgent, ListAgent, WriteExit, HostLeaves, HostKilled,
           HostCrashes, HostFails, HostTold
<1>5. Alone'
  <2>1. \A g \in Host : Running(g)' => Running(g)  BY <1>3 DEF Running
  <2>2. Running(h) => h = started /\ alive \cap Host \subseteq {h}  BY DEF Inv, Owner, Alone
  <2>3. alive' \cap Host \subseteq alive \cap Host \/ (Running(h) /\ alive' \cap Host \subseteq {h})
    BY <1>4, <2>2
  <2>4. \A g \in Host : Running(g)' => g = started /\ alive' \cap Host \subseteq {g}
    BY <2>1, <2>2, <2>3 DEF Inv, Owner, Alone
  <2>5. \A g \in Host : Running(g) /\ g \notin spawned' => alive' = {}
    <3>1. \A g \in Host : Running(g) /\ g \notin spawned => alive = {}  BY DEF Inv, Owner, Alone
    <3>2. \A g \in Host : Running(g) => g = started  BY DEF Inv, Owner, Alone
    <3>3. QED  BY <1>4, <3>1, <3>2
  <2>6. \A g \in Host : host'[g] = "starting" => host[g] = "starting"  BY <1>3
  <2>7. QED  BY <1>2, <2>1, <2>4, <2>5, <2>6 DEF Inv, Owner, Alone, Ending
<1>6. Reserved'
  <2>1. Pending => ~Running(h)  BY DEF Inv, Owner, Reserved
  <2>2. \A g \in Host : Running(g)' => Running(g)  BY <1>3 DEF Running
  <2>3. Pending' <=> Pending  BY <1>2 DEF Pending, AutoPending
  <2>4. Pending => alive' \subseteq alive  BY <1>4, <2>1
  <2>5. adopt = "resume" \/ auto = "sweep" => Pending  BY DEF Pending, AutoPending
  <2>6. QED  BY <1>2, <2>2, <2>3, <2>4, <2>5 DEF Inv, Owner, Reserved, Ending
<1>7. Found'
  <2>1. AutoPending => UNCHANGED <<spawned, exit>>
    BY <1>4 DEF Inv, Owner, Reserved, Pending
  <2>2. \A g \in Host : (g \in spawned => g \in files) => (g \in spawned' => g \in files')
    BY <1>4
  <2>3. started \in spawned' => started \in Host
    BY <1>1, <1>4
  <2>4. ~core /\ rec = "live" => (started \in spawned' => started \in files')
    BY <1>4, <2>2, <2>3 DEF Inv, Owner, Found
  <2>5. AutoPending' <=> AutoPending  BY <1>2 DEF AutoPending
  <2>6. AutoPending' => CutOff(started)'
    BY <1>2, <2>1, <2>5 DEF Inv, Owner, Found, CutOff
  <2>7. \A g \in Host : view'[g] \in {"following", "quitting"} => g \notin forgetting' /\ (g \in spawned' => g \in files')
    BY <1>2, <2>2 DEF Inv, Owner, Found
  <2>8. ~core' => \A g \in Host : view'[g] = "none"  BY <1>2 DEF Inv, Owner, Found
  <2>9. QED  BY <1>2, <2>4, <2>6, <2>7, <2>8 DEF Found
<1>8. Followed'  BY <1>2 DEF Inv, Owner, Followed
<1>9. QED  BY <1>5, <1>6, <1>7, <1>8 DEF Owner

LEMMA ViewOwner ==
  ASSUME Inv, NEW h \in Host, ViewStep(h)
  PROVE  Owner'
<1> USE DEF procVars, diskVars, resumeVars, coreVars
<1>1. /\ core /\ view[h] \in {"following", "closing"} /\ h = started
      /\ UNCHANGED <<started, host, alive, spawned, files, exit, booted, core, adopt, auto, forgetting>>
  BY DEF ViewStep, Close, CloseDone, Quit, ViewEnds, Inv, Owner, Alone, Ending
<1>2. ~Pending  BY <1>1 DEF Inv, Owner, Reserved, Ending
<1>3. host[h] = "starting" => exit[h] = None  BY DEF Inv, Agents
<1>4. /\ \A g \in Host : g # h => view'[g] = view[g]
      /\ view'[h] \in {"closing", "quitting", "ended"}
      /\ host[h] = "starting" => view'[h] \in {"closing", "quitting"}
      /\ view'[h] = "quitting" => view[h] = "following" /\ rec' = rec
      /\ view'[h] # "quitting" => rec' # "live"
  <2>1. \/ view' = [view EXCEPT ![h] = "closing"] /\ rec' # "live"
        \/ view' = [view EXCEPT ![h] = "quitting"] /\ view[h] = "following" /\ rec' = rec
        \/ /\ view' = [view EXCEPT ![h] = "ended"]
           /\ host[h] # "starting" /\ rec' # "live"
    BY <1>3 DEF ViewStep, Close, CloseDone, Quit, ViewEnds
  <2>2. view \in [Host -> {"none", "following", "closing", "quitting", "ended"}]  BY DEF Inv, TypeOK
  <2>3. QED  BY <2>1, <2>2
<1>5. \A g \in Host : g # h => view'[g] \notin {"following", "quitting"}
  BY <1>1, <1>4 DEF Inv, Owner, Alone, Ending
<1>6. Alone'  BY <1>1, <1>4 DEF Inv, Owner, Alone, Running, Ending
<1>7. Reserved'  BY <1>1, <1>2 DEF Inv, Owner, Reserved, Pending, AutoPending
<1>8. Found'  BY <1>1, <1>2, <1>4, <1>5 DEF Inv, Owner, Found, Pending, AutoPending
<1>9. Followed'
  <2>1. view[h] = "following" => rec = "live"  BY <1>1 DEF Inv, Owner, Followed
  <2>2. view'[h] \in {"following", "quitting"} <=> rec' = "live"  BY <1>4, <2>1
  <2>3. QED  BY <1>5, <2>2 DEF Followed
<1>10. QED  BY <1>6, <1>7, <1>8, <1>9 DEF Owner

LEMMA TerminalOwner ==
  ASSUME Inv, crossed' = {}, NEW t \in Terminal, TerminalStarts(t)
  PROVE  Owner'
<1>1. ~Pending /\ \A h \in Host : Running(h) => h \in spawned
  BY CrossingGrows DEF TerminalStarts, When
<1>2. alive' = alive \cup {t} /\ t \notin Host  BY OwnerAssumption DEF TerminalStarts
<1>3. UNCHANGED <<started, host, spawned, files, exit, booted, core, view, rec, adopt, auto, forgetting>>
  BY DEF TerminalStarts, diskVars, resumeVars, coreVars
<1>4. alive' \cap Host = alive \cap Host  BY <1>2
<1>5. Alone'  BY <1>1, <1>3, <1>4 DEF Inv, Owner, Alone, Running, Ending
<1>6. Reserved'  BY <1>1, <1>3 DEF Reserved, Pending, AutoPending
<1>7. Found' /\ Followed'
  BY <1>3 DEF Inv, Owner, Found, CutOff, AutoPending, Followed
<1>8. QED  BY <1>5, <1>6, <1>7 DEF Owner

LEMMA EndsOwner ==
  ASSUME Inv, NEW p \in Proc, AgentEnds(p)
  PROVE  Owner'
<1>1. /\ alive' \subseteq alive
      /\ UNCHANGED <<started, host, spawned, files, exit, booted, core, view, rec, adopt, auto, forgetting>>
  BY DEF AgentEnds, diskVars, resumeVars, coreVars
<1>2. Alone'
  BY <1>1 DEF Inv, Owner, Alone, Running, Ending
<1>3. Reserved'  BY <1>1 DEF Inv, Owner, Reserved, Pending, AutoPending, Running, Ending
<1>4. Found' /\ Followed'
  BY <1>1 DEF Inv, Owner, Found, CutOff, AutoPending, Followed
<1>5. QED  BY <1>2, <1>3, <1>4 DEF Owner

(* A step that leaves hosts, agents, disk and views alone, and turns no     *)
(* resume into one that may launch while something runs.                    *)
LEMMA SweepOnly ==
  ASSUME Inv,
         UNCHANGED <<started, host, alive, spawned, files, exit, booted, core, view, rec, adopt, auto, forgetting>>
  PROVE  Owner'
BY DEF Inv, Owner, Alone, Reserved, Pending, AutoPending, Running, Ending, Found, CutOff, Followed

(* A resume that launches finds nobody on the session.                      *)
LEMMA DoneOwner ==
  ASSUME Inv, NEW clear \in BOOLEAN, SweepDone(clear), core,
         UNCHANGED <<alive, spawned, exit, booted, core>>
  PROVE  Owner'
<1>1. PICK n \in 0..2 :
        /\ Launch(n) /\ started + n <= MaxHosts
        /\ n = IF clear THEN (IF adopt = "resume" THEN 1 ELSE 0) + (IF auto = "sweep" THEN 1 ELSE 0) ELSE 0
  BY SweepDoneFacts DEF Inv
<1>2. /\ adopt' = (CASE adopt = "sweep" -> "swept" [] adopt = "resume" -> "no" [] OTHER -> adopt)
      /\ auto' = (IF auto = "sweep" THEN "done" ELSE auto)
      /\ forgetting' = {} /\ files' \subseteq files
      /\ \A h \in files \ files' : h \in forgetting
  BY DEF SweepDone
<1>3. n \in {0, 1} /\ (n = 1 => adopt = "resume" \/ auto = "sweep")
  BY <1>1 DEF Inv, Owner, Reserved
<1>4. \A h \in Host : view[h] \in {"following", "quitting"} /\ h \in spawned => h \in files'
  BY <1>2 DEF Inv, Owner, Found
<1>5. TypeOK /\ started \in Nat /\ spawned \subseteq 1..started  BY OwnerAssumption DEF Inv, TypeOK
<1>6. CASE n = 0
  <2>1. started' = started /\ rec' = rec
        /\ \A h \in Host : host'[h] = host[h] /\ view'[h] = view[h]
    BY <1>1, <1>5, <1>6 DEF Launch, TypeOK
  <2>2. Pending' => Pending  BY <1>2 DEF Pending, AutoPending
  <2>3. Alone'  BY <2>1 DEF Inv, Owner, Alone, Running, Ending
  <2>4. adopt' # "resume" /\ auto' # "sweep"  BY <1>2
  <2>5. adopt' # "no" => auto' = "done"  BY <1>2 DEF Inv, Owner, Reserved
  <2>6. Reserved'  BY <2>1, <2>2, <2>4, <2>5 DEF Inv, Owner, Reserved, Running, Ending
  <2>7. AutoPending' => AutoPending  BY <1>2 DEF AutoPending
  <2>8. Found'  BY <1>2, <1>4, <2>1, <2>7 DEF Inv, Owner, Found, CutOff
  <2>9. Followed'  BY <2>1 DEF Inv, Owner, Followed
  <2>10. QED  BY <2>3, <2>6, <2>8, <2>9 DEF Owner
<1>7. CASE n = 1
  <2>1. Pending /\ alive = {}  BY <1>3, <1>7 DEF Inv, Owner, Reserved, Pending, AutoPending
  <2>2. \A h \in Host : ~Running(h) /\ view[h] # "following" /\ ~Ending(h)
    BY <2>1 DEF Inv, Owner, Reserved
  <2>3. /\ started' = started + 1 /\ started' \in Host /\ rec' = "live"
        /\ host'[started'] = "starting" /\ view'[started'] = "following"
        /\ \A h \in Host : h # started' => host'[h] = host[h] /\ view'[h] = view[h]
    <3>1. started' = started + 1 /\ rec' = "live" /\ started' \in Host
      BY <1>1, <1>5, <1>7, OwnerAssumption DEF Launch, Host
    <3>2. started+1..started+n = {started'}  BY <1>5, <1>7, <3>1
    <3>3. QED  BY <1>1, <3>1, <3>2 DEF Launch
  <2>4. Alone'
    <3>1. alive' = {} /\ \A h \in Host : Running(h)' => h = started'  BY <2>1, <2>2, <2>3 DEF Running
    <3>2. \A h \in Host : view'[h] = "following" \/ Ending(h)' => h = started'
      BY <2>2, <2>3 DEF Ending
    <3>3. \A h \in Host : host'[h] = "starting" => view'[h] = "following"
      BY <2>2, <2>3 DEF Running
    <3>4. QED  BY <3>1, <3>2, <3>3 DEF Alone
  <2>5. adopt' = "no" /\ auto' = "done"
    BY <1>2, <1>3, <1>5, <1>7 DEF Inv, Owner, Reserved
  <2>6. ~Pending' /\ ~AutoPending'  BY <2>5 DEF Pending, AutoPending
  <2>7. Reserved'  BY <2>5, <2>6 DEF Reserved
  <2>8. started' \notin spawned  BY <1>5, <2>3
  <2>9. Found'  BY <1>2, <2>2, <2>3, <2>6, <2>8 DEF Found, Ending
  <2>10. Followed'  BY <2>3 DEF Followed
  <2>11. QED  BY <2>4, <2>7, <2>9, <2>10 DEF Owner
<1>8. QED  BY <1>3, <1>6, <1>7

LEMMA SweepOwner ==
  ASSUME Inv, SweepStep
  PROVE  Owner'
<1> USE DEF procVars, diskVars, resumeVars
<1>1. CASE SweepReads \/ SweepKills
  BY <1>1, SweepOnly DEF SweepReads, SweepKills
<1>2. CASE SweepJudges \/ SweepEnds
  <2>1. core /\ UNCHANGED <<alive, spawned, exit, booted, core>>  BY <1>2 DEF SweepJudges, SweepEnds
  <2>2. CASE UNCHANGED <<started, host, view, rec, adopt, auto, forgetting, files>>
    BY <2>1, <2>2, SweepOnly
  <2>3. CASE \E clear \in BOOLEAN : SweepDone(clear)
    BY <2>1, <2>3, DoneOwner
  <2>4. QED  BY <1>2, <2>2, <2>3, ClearSweep DEF Inv
<1>3. QED  BY <1>1, <1>2 DEF SweepStep

LEMMA ResumeOwner ==
  ASSUME Inv, crossed' = {}, Adopt \/ AdoptGoesOn \/ AdoptEnded \/ AutoResume
  PROVE  Owner'
<1> USE DEF procVars, diskVars, coreVars
<1>1. UNCHANGED <<started, host, alive, spawned, files, exit, booted, core, view, rec, forgetting>>
  BY DEF Adopt, AdoptGoesOn, AdoptEnded, AutoResume
<1>2. core /\ (adopt # "no" \/ auto = "due" \/ (~Owned /\ ~Held /\ ~AutoPending /\ \A h \in Host : ~Ending(h)))
  BY CrossingGrows DEF When, Adopt, AdoptGoesOn, AdoptEnded, AutoResume
<1>3. \A h \in Host : ~Running(h) /\ view[h] # "following" /\ ~Ending(h)
  <2>1. CASE Pending  BY <2>1 DEF Inv, Owner, Reserved
  <2>2. CASE ~Pending
    BY <1>2, <2>2, FreeSession DEF Pending, AutoPending
  <2>3. QED  BY <2>1, <2>2
<1>4. Visible = alive  BY <1>3, AllIsSeen DEF Inv
<1>5. (adopt' = "resume" => Visible = {}) /\ (auto' = "sweep" => Visible = {})
      /\ (adopt' # "no" => auto' = "done") /\ (AutoPending' => AutoPending)
  <2>1. CASE Adopt
    <3>1. auto = "done"  BY <2>1, CrossingGrows DEF Adopt, When, Inv, TypeOK, AutoPending
    <3>2. QED  BY <2>1, <3>1 DEF Adopt, AutoPending
  <2>2. CASE AdoptGoesOn
    BY <2>2 DEF AdoptGoesOn, AdoptResumes, Inv, Owner, Reserved, AutoPending
  <2>3. CASE AdoptEnded
    BY <2>3 DEF AdoptEnded, AdoptResumes, Inv, Owner, Reserved, AutoPending
  <2>4. CASE AutoResume
    BY <2>4 DEF AutoResume, Inv, Owner, Reserved, AutoPending
  <2>5. QED  BY <2>1, <2>2, <2>3, <2>4
<1>6. Alone'  BY <1>1 DEF Inv, Owner, Alone, Running, Ending
<1>7. Reserved'  BY <1>1, <1>3, <1>4, <1>5 DEF Reserved, Running, Ending
<1>8. Found'  BY <1>1, <1>5 DEF Inv, Owner, Found, CutOff
<1>9. Followed'  BY <1>1 DEF Inv, Owner, Followed
<1>10. QED  BY <1>6, <1>7, <1>8, <1>9 DEF Owner

(* What a start makes of a record that says live: live exactly when a host  *)
(* holds the session, and interrupted only if the newest host was cut off.  *)
LEMMA ClassifyFacts ==
  ASSUME Inv, ~core, NEW r \in Classify
  PROVE  /\ r = "live" <=> Held
         /\ rec = "live" /\ r = "interrupted" => ~Held /\ CutOff(started)
<1>1. \A h : /\ "live" \notin Outcomes(h)
             /\ "interrupted" \in Outcomes(h) =>
                  exit[h] \in {"stopped", "signal"} \/ (exit[h] = None /\ h \in booted)
  BY OwnerAssumption DEF Outcomes, Outcome, When
<1>2. CASE Held  BY <1>2 DEF Classify
<1>3. CASE ~Held /\ rec # "live"  BY <1>3 DEF Classify
<1>4. CASE ~Held /\ rec = "live"
  <2>1. r # "live"  BY <1>1, <1>4 DEF Classify, When
  <2>2. ASSUME started \in spawned, r = "interrupted"
        PROVE  CutOff(started)
    <3>1. started \in files  BY <1>4, <2>2 DEF Inv, Owner, Found
    <3>2. host[started] \in {"up", "gone"}  BY <2>2 DEF Inv, Agents
    <3>3. started \in Dead /\ Dead \subseteq 1..started
      BY <1>4, <3>1, <3>2 DEF Held, Dead, Inv, TypeOK
    <3>4. Newest(Dead) = started  BY <3>3, NewestIsStarted DEF Inv
    <3>5. r \in Outcomes(started)  BY <1>4, <3>3, <3>4 DEF Classify, When
    <3>6. QED  BY <1>1, <2>2, <3>5 DEF CutOff
  <2>3. started \notin spawned => CutOff(started)  BY DEF CutOff
  <2>4. QED  BY <1>4, <2>1, <2>2, <2>3
<1>5. QED  BY <1>2, <1>3, <1>4

LEMMA CoreOwner ==
  ASSUME Inv, crossed' = {}, CoreStops \/ MachineRestarts \/ CoreStarts
  PROVE  Owner'
<1> USE DEF procVars, diskVars
<1>1. CASE CoreStops \/ MachineRestarts
  <2>1. /\ ~core' /\ UNCHANGED <<started, spawned, files, exit, rec>>
        /\ \A h \in Host : view'[h] = "none"
        /\ adopt' = "no" /\ auto' = "done"
    BY <1>1 DEF CoreStops, MachineRestarts, CoreGoes
  <2>2. /\ alive' \subseteq alive
        /\ \A h \in Host : host'[h] # "starting" /\ (Running(h)' => Running(h))
    <3>1. CASE CoreStops
      <4>1. \A h \in Host : host[h] # "starting"  BY <3>1, CrossingGrows DEF CoreStops, When
      <4>2. QED  BY <3>1, <4>1 DEF CoreStops, Running
    <3>2. CASE MachineRestarts  BY <3>2 DEF MachineRestarts, Running
    <3>3. QED  BY <1>1, <3>1, <3>2
  <2>3. Alone'  BY <2>1, <2>2 DEF Inv, Owner, Alone, Ending
  <2>4. Reserved'  BY <2>1 DEF Reserved, Pending, AutoPending
  <2>5. rec = "live" => (started \in spawned => started \in files)
    <3>1. CASE core /\ rec = "live"
      <4>1. PICK h \in Host : view[h] \in {"following", "quitting"}  BY <3>1 DEF Inv, Owner, Followed
      <4>2. h = started  BY <4>1 DEF Inv, Owner, Alone, Ending
      <4>3. QED  BY <4>1, <4>2 DEF Inv, Owner, Found
    <3>2. CASE ~core  BY <3>2 DEF Inv, Owner, Found
    <3>3. QED  BY <3>1, <3>2
  <2>6. Found'  BY <2>1, <2>5 DEF Found, AutoPending
  <2>7. Followed'  BY <2>1 DEF Followed
  <2>8. QED  BY <2>3, <2>4, <2>6, <2>7 DEF Owner
<1>2. CASE CoreStarts
  <2>1. /\ ~core /\ core' /\ rec' \in Classify
        /\ UNCHANGED <<started, host, alive, spawned, exit, booted>> /\ adopt' = adopt
        /\ files' = Collected /\ forgetting' = {h \in Dead : exit[h] = None}
        /\ \A h \in Host : view'[h] = IF h \in files /\ host[h] = "up" THEN "following" ELSE "none"
        /\ auto' = IF rec = "live" /\ rec' = "interrupted" THEN "due" ELSE "done"
    BY <1>2 DEF CoreStarts
  <2>2. adopt' = "no" /\ \A h \in Host : host[h] # "starting"
    BY <2>1 DEF Inv, Agents, Owner, Alone, Found, Ending
  <2>3. /\ rec' = "live" <=> Held
        /\ auto' = "due" => ~Held /\ CutOff(started)
    BY <2>1, ClassifyFacts
  <2>4. ~Held => \A h \in Host : host[h] # "up"  BY DEF Held, Inv, Named
  <2>5. files \subseteq Host  BY OwnerAssumption DEF Inv, TypeOK, Host
  <2>6. \A h \in Host : ~Ending(h)' /\ (view'[h] = "following" => Running(h))
    BY <2>1 DEF Ending, Running
  <2>7. Alone'  BY <2>1, <2>2, <2>6 DEF Inv, Owner, Alone, Running
  <2>8. Pending' => ~Held  BY <2>1, <2>2, <2>3 DEF Pending, AutoPending
  <2>9. Reserved'  BY <2>1, <2>2, <2>4, <2>6, <2>8 DEF Reserved, Running
  <2>10. Found'  BY <2>1, <2>3 DEF Inv, Named, Found, CutOff, AutoPending, Collected, Dead
  <2>11. Followed'  BY <2>1, <2>3, <2>5 DEF Followed, Held
  <2>12. QED  BY <2>7, <2>9, <2>10, <2>11 DEF Owner
<1>3. QED  BY <1>1, <1>2

LEMMA InitInv ==
  ASSUME Init
  PROVE  Inv
<1>1. Named  BY DEF Init, Named
<1>2. Alone /\ Reserved /\ Found /\ Followed
  BY DEF Init, Alone, Reserved, Found, Followed, Running, Ending, Pending, AutoPending, CutOff
<1>3. QED  BY <1>1, <1>2, InitTypes DEF Inv, Owner

LEMMA NextInv ==
  ASSUME Inv, crossed' = {}, [Next]_vars
  PROVE  Inv'
<1>1. TypeOK' /\ Agents'  BY NextTypes DEF Inv
<1>2. CASE UNCHANGED vars
  <2>1. Named'  BY <1>2 DEF vars, procVars, diskVars, coreVars, Inv, Named
  <2>2. Owner'  BY <1>2, SweepOnly DEF vars, procVars, diskVars, resumeVars, coreVars
  <2>3. QED  BY <1>1, <2>1, <2>2 DEF Inv
<1>3. CASE Next
  <2>1. Tidy'  BY DEF Tidy
  <2>2. Named'  BY <1>3, <2>1, HostNamed, SweepNamed, OthersNamed DEF Next, Inv
  <2>3. Owner'
    BY <1>3, HostOwner, ViewOwner, EndsOwner, TerminalOwner, SweepOwner, ResumeOwner, CoreOwner DEF Next
  <2>4. QED  BY <1>1, <2>2, <2>3 DEF Inv
<1>4. QED  BY <1>2, <1>3

LEMMA InvHolds == Spec => [](crossed = {} => Inv)
<1>1. Init => Inv  BY InitInv
<1>2. (crossed = {} => Inv) /\ [Next]_vars => (crossed = {} => Inv)'
  <2>1. Next \/ UNCHANGED vars => crossed \subseteq crossed'  BY CrossedKept DEF vars
  <2>2. QED  BY <2>1, NextInv
<1>3. QED  BY <1>1, <1>2, PTL DEF Spec

(* The agent of a host starts when nothing else runs the session, for any   *)
(* number of hosts, of processes in terminals and of restarts, until        *)
(* something comes between that the code does not keep apart: a second      *)
(* resume, a close, a process started in a terminal, a death half launched, *)
(* a sweep that does not read (runnerService.ts:156-160).                   *)
THEOREM OneProcessHolds == Spec => OneProcess
<1>1. ASSUME Inv, Next, NEW h \in Host \cap (alive' \ alive)
      PROVE  alive = {}
  <2>1. SpawnAgent(h)
    <3>1. ASSUME NEW g \in Host, HostStep(g) \/ ViewStep(g)
          PROVE  SpawnAgent(h)
      <4>1. SpawnAgent(g) \/ alive' \subseteq alive
        BY <3>1 DEF HostStep, HostReady, RecordAgent, ListAgent, WriteExit, HostLeaves, HostKilled, HostCrashes,
                    HostFails, HostTold, ViewStep, Close, CloseDone, Quit, ViewEnds, procVars
      <4>2. SpawnAgent(g) => h = g  BY DEF SpawnAgent
      <4>3. QED  BY <4>1, <4>2
    <3>2. \A t \in Terminal : ~TerminalStarts(t)  BY OwnerAssumption DEF TerminalStarts
    <3>3. /\ SweepStep \/ Adopt \/ AdoptGoesOn \/ AdoptEnded \/ AutoResume \/ CoreStops \/ MachineRestarts
             \/ CoreStarts \/ (\E p \in Proc : AgentEnds(p)) => alive' \subseteq alive
      BY DEF SweepStep, SweepReads, SweepJudges, SweepKills, SweepEnds, Adopt, AdoptGoesOn, AdoptEnded, AutoResume,
             CoreStops, MachineRestarts, CoreStarts, AgentEnds, procVars
    <3>4. QED  BY <1>1, <3>1, <3>2, <3>3 DEF Next
  <2>2. Running(h) /\ h \notin spawned  BY <2>1 DEF SpawnAgent, Running
  <2>3. QED  BY <1>1, <2>2 DEF Inv, Owner, Alone
<1>2. (crossed = {} => Inv) /\ [Next]_vars =>
        [crossed = {} => \A h \in Host \cap (alive' \ alive) : alive = {}]_vars
  BY <1>1
<1>3. QED  BY <1>2, InvHolds, PTL DEF Spec, OneProcess

(* The record says live exactly while the core follows a host, or ends it   *)
(* to quit, across any number of restarts (recovery.ts:101-113).            *)
THEOREM LiveIsFollowedHolds == Spec => []LiveIsFollowed
<1>1. (crossed = {} => Inv) => LiveIsFollowed  BY DEF Inv, Owner, Followed, LiveIsFollowed
<1>2. QED  BY <1>1, InvHolds, PTL

(* What the automatic resume brings back was cut off by a stop, a signal or *)
(* a restart of the machine, or never had its agent (recovery.ts:16-22,     *)
(* 76-79, 110-112, 195-208).                                                *)
THEOREM OnlyInterruptedComesBackHolds == Spec => OnlyInterruptedComesBack
<1>1. (crossed = {} => Inv) =>
        (crossed = {} /\ started' > started /\ auto = "sweep" => CutOff(started))
  BY DEF Inv, Owner, Found, AutoPending
<1>2. QED  BY <1>1, InvHolds, PTL DEF OnlyInterruptedComesBack
=============================================================================
