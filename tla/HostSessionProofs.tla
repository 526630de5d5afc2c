------------------------- MODULE HostSessionProofs -------------------------
(***************************************************************************)
(* Proofs about HostSession, for any number of asks, clients and messages. *)
(***************************************************************************)
EXTENDS HostSession, FiniteSetTheorems, SequenceTheorems, TLAPS

(* What the promises say of the asks.                                      *)
Asks ==
  /\ pending \subseteq raised
  /\ \A a \in raised : a \in pending <=> answer[a] = None
  /\ \A a \in Ask \ raised : answer[a] = None
  /\ state = "exited" => pending = {}

(* Why it is ending, and what it said when it did.                         *)
Ending ==
  /\ endReason # None => state \in {"ending", "exited"}
  /\ state # "exited" => exitReason = None
  /\ endStep # "none" => endReason # None

IInv == Asks /\ Ending /\ AppliedIsAnswered /\ EndingIsNoFailure

-----------------------------------------------------------------------------
(* The memories and the orders of settling.                                *)

(* What Newest keeps is a list of the same things, of at most max.          *)
LEMMA NewestType ==
  ASSUME NEW T, NEW list \in Seq(T), NEW max \in Nat
  PROVE  Newest(list, max) \in Seq(T) /\ Len(Newest(list, max)) <= max
<1>1. CASE Len(list) > max
  <2>1. Newest(list, max) = SubSeq(list, Len(list) - max + 1, Len(list))
    BY <1>1 DEF Newest
  <2>2. Len(list) \in Nat /\ Len(list) - max + 1 \in 1..Len(list) + 1
    BY <1>1, LenProperties
  <2>3. QED  BY <2>1, <2>2, SubSeqProperties
<1>2. CASE ~(Len(list) > max)
  BY <1>2, LenProperties DEF Newest
<1>3. QED  BY <1>1, <1>2

LEMMA OrderType ==
  ASSUME NEW S, S \subseteq Ask, NEW order \in Orders(S)
  PROVE  /\ order \in Seq(Ask)
         /\ S = {} => order = <<>>
<1>1. IsFiniteSet(S) /\ Cardinality(S) \in Nat
  BY FS_Subset, FS_CardinalityType, ConstantsAssumption
<1>2. order \in [1..Cardinality(S) -> Ask]
  BY DEF Orders
<1>3. order \in Seq(Ask)
  BY <1>1, <1>2
<1>4. CASE S = {}
  <2>1. Cardinality(S) = 0  BY <1>4, FS_EmptySet
  <2>2. Len(order) = 0  BY <2>1, <1>2, <1>3
  <2>3. QED  BY <2>2, <1>3, EmptySeq
<1>5. QED  BY <1>3, <1>4

LEMMA RememberType ==
  ASSUME NEW T, NEW list \in Seq(T), NEW id \in T, NEW max \in Nat
  PROVE  Remember(list, id, max) \in Seq(T) /\ Len(Remember(list, id, max)) <= max
<1>1. Append(list, id) \in Seq(T)
  OBVIOUS
<1>2. QED  BY <1>1, NewestType DEF Remember

(* Settling every ask: they are denied if they had no answer yet.           *)
LEMMA SettleAllType ==
  ASSUME TypeOK, SettleAll
  PROVE  /\ pending' = {}
         /\ settled' \in Seq(Ask) /\ Len(settled') <= SettledMemory
         /\ closings' \in Seq(Ask)
         /\ pending = {} => closings' = closings
         /\ answer' \in [Ask -> Client \cup {None, "allow", "deny"}]
         /\ \A a \in Ask : answer'[a] = IF a \in pending /\ answer[a] = None THEN "deny" ELSE answer[a]
<1>1. PICK order \in Orders(pending) :
        /\ settled' = Newest(settled \o order, SettledMemory)
        /\ closings' = closings \o order
  BY DEF SettleAll
<1>2. order \in Seq(Ask) /\ (pending = {} => order = <<>>)
  BY OrderType DEF TypeOK
<1>3. settled \o order \in Seq(Ask) /\ closings \o order \in Seq(Ask)
  BY <1>2 DEF TypeOK
<1>4. settled' \in Seq(Ask) /\ Len(settled') <= SettledMemory
  BY <1>1, <1>3, NewestType, ConstantsAssumption
<1>5. pending = {} => closings' = closings
  BY <1>1, <1>2 DEF TypeOK
<1>6. QED  BY <1>1, <1>3, <1>4, <1>5 DEF SettleAll, DenyAll, TypeOK

LEMMA SettleType ==
  ASSUME TypeOK, NEW a \in Ask, Settle(a)
  PROVE  /\ pending' = pending \ {a} /\ pending' \subseteq Ask
         /\ settled' \in Seq(Ask) /\ Len(settled') <= SettledMemory
         /\ closings' \in Seq(Ask)
BY RememberType, ConstantsAssumption DEF Settle, TypeOK

LEMMA ResolveType ==
  ASSUME TypeOK, NEW a \in Ask, NEW with \in Client \cup {"allow", "deny"}, Resolve(a, with)
  PROVE  /\ answer' \in [Ask -> Client \cup {None, "allow", "deny"}]
         /\ \A b \in Ask : answer'[b] = IF b = a /\ answer[a] = None THEN with ELSE answer[b]
BY DEF TypeOK, Resolve

(* Exit, with a reason of its type.                                        *)
LEMMA ExitType ==
  ASSUME TypeOK, NEW reason \in {"ended", "stopped", "signal", "error"}, Exit(reason)
  PROVE  /\ state' = "exited"
         /\ exitReason' = IF state = "exited" THEN exitReason ELSE reason
         /\ inputClosed' \in BOOLEAN
         /\ pending' \subseteq Ask
         /\ settled' \in Seq(Ask) /\ Len(settled') <= SettledMemory
         /\ closings' \in Seq(Ask)
         /\ answer' \in [Ask -> Client \cup {None, "allow", "deny"}]
         /\ state = "exited" => UNCHANGED <<pending, closings, answer>>
         /\ state # "exited" =>
              /\ pending' = {}
              /\ \A a \in Ask : answer'[a] = IF a \in pending /\ answer[a] = None THEN "deny" ELSE answer[a]
<1>1. CASE state = "exited"  BY <1>1 DEF Exit, TypeOK
<1>2. CASE state # "exited"  BY <1>2, SettleAllType DEF Exit
<1>3. QED  BY <1>1, <1>2

-----------------------------------------------------------------------------
(* Types and the invariant, one action at a time.                          *)

LEMMA InitHolds ==
  ASSUME Init
  PROVE  TypeOK /\ IInv
<1>1. << >> \in Seq(Ask) /\ << >> \in Seq(Uuid) /\ Len(<< >>) = 0
  BY EmptySeq
<1>2. TypeOK
  <2>1. Len(settled) <= SettledMemory /\ Len(sentUuids) <= SentMemory
    BY <1>1, ConstantsAssumption DEF Init
  <2>2. replies \in [Client -> [Ask -> SUBSET {"applied", "stale", "gone"}]]
    BY DEF Init
  <2>3. answer \in [Ask -> Client \cup {None, "allow", "deny"}]
    BY DEF Init
  <2>4. QED  BY <1>1, <2>1, <2>2, <2>3 DEF Init, TypeOK
<1>3. AppliedIsAnswered
  BY DEF Init, AppliedIsAnswered
<1>4. QED  BY <1>2, <1>3 DEF Init, IInv, Asks, Ending, EndingIsNoFailure

(* Starting, and the agent's own steps. *)
LEMMA AgentStep ==
  ASSUME TypeOK, IInv,
         StartWithKey \/ StartQuery \/ InitMessage \/ Work \/ ResultMessage \/ AgentEnds
  PROVE  TypeOK' /\ IInv'
<1> USE ConstantsAssumption
<1> USE DEF TypeOK, IInv, Asks, Ending, AppliedIsAnswered, EndingIsNoFailure,
            askVars, sendVars, endVars, Alive, NextState
<1>1. CASE StartWithKey  BY <1>1 DEF StartWithKey
<1>2. CASE StartQuery
  <2>1. CASE Launch  BY <1>2, <2>1 DEF StartQuery, Launch
  <2>2. CASE StartFails /\ state \notin {"ending", "exited"}
    BY <1>2, <2>2, ExitType DEF StartQuery, StartFails
  <2>3. CASE query = "key" /\ UNCHANGED <<state, askVars, inputClosed, exitReason>>
             /\ query' = "none" /\ agent' = "gone"
    BY <1>2, <2>3 DEF StartQuery
  <2>4. QED  BY <1>2, <2>1, <2>2, <2>3 DEF StartQuery
<1>3. CASE InitMessage  BY <1>3 DEF InitMessage
<1>4. CASE Work  BY <1>4 DEF Work
<1>5. CASE ResultMessage  BY <1>5 DEF ResultMessage
<1>6. CASE AgentEnds
  <2>1. PICK threw \in BOOLEAN : Exit(IF threw /\ state # "ending" THEN "error" ELSE Why)
    BY <1>6 DEF AgentEnds
  <2>2. Why \in {"ended", "stopped", "signal"}  BY DEF Why
  <2>3. QED  BY <1>6, <2>1, <2>2, ExitType DEF AgentEnds, Why
<1>7. QED  BY <1>1, <1>2, <1>3, <1>4, <1>5, <1>6

(* Asks and messages. *)
LEMMA RespondStep ==
  ASSUME TypeOK, IInv, NEW a \in Ask, NEW c \in Client, RespondAsk(c, a)
  PROVE  TypeOK' /\ IInv'
<1> USE ConstantsAssumption DEF sendVars, endVars
<1>1. /\ replies' \in [Client -> [Ask -> SUBSET {"applied", "stale", "gone"}]]
      /\ \A d \in Client, b \in Ask : "applied" \in replies'[d][b] =>
            "applied" \in replies[d][b] \/ (d = c /\ b = a /\ a \in pending)
  <2>1. PICK word \in {"applied", "stale", "gone"} :
          /\ replies' = [replies EXCEPT ![c][a] = {word}]
          /\ word = "applied" => a \in pending
    BY DEF RespondAsk
  <2>2. \A d \in Client, b \in Ask :
          replies'[d][b] = IF d = c /\ b = a THEN {word} ELSE replies[d][b]
    BY <2>1 DEF TypeOK
  <2>3. replies' \in [Client -> [Ask -> SUBSET {"applied", "stale", "gone"}]]
    BY <2>1 DEF TypeOK
  <2>4. QED  BY <2>1, <2>2, <2>3
<1>2. CASE a \in pending
  <2>1. Settle(a) /\ Resolve(a, c)  BY <1>2 DEF RespondAsk
  <2>2. answer[a] = None  BY <1>2 DEF IInv, Asks
  <2>3. TypeOK'  BY <1>1, <2>1, SettleType, ResolveType DEF RespondAsk, TypeOK
  <2>4. Asks'
    BY <2>1, <2>2, SettleType, ResolveType DEF RespondAsk, TypeOK, IInv, Asks
  <2>5. AppliedIsAnswered'
    BY <1>1, <2>1, <2>2, ResolveType DEF IInv, AppliedIsAnswered
  <2>6. Ending' /\ EndingIsNoFailure'
    BY DEF RespondAsk, IInv, Ending, EndingIsNoFailure
  <2>7. QED  BY <2>3, <2>4, <2>5, <2>6 DEF IInv
<1>3. CASE a \notin pending
  BY <1>1, <1>3 DEF RespondAsk, TypeOK, IInv, Asks, Ending, AppliedIsAnswered, EndingIsNoFailure
<1>4. QED  BY <1>2, <1>3

LEMMA AskStep ==
  ASSUME TypeOK, IInv, NEW a \in Ask, CanUseTool(a) \/ AskClosedByAgent(a)
  PROVE  TypeOK' /\ IInv'
<1> USE ConstantsAssumption
<1> USE DEF sendVars, endVars, Alive, NextState
<1>0. None # "deny" /\ None # "allow"  OBVIOUS
<1>1. CASE CanUseTool(a)
  <2>1. answer[a] = None /\ a \notin pending
    BY <1>1 DEF CanUseTool, IInv, Asks
  <2>2. TypeOK'
    <3>1. answer' \in [Ask -> Client \cup {None, "allow", "deny"}]
      BY <1>1, ResolveType DEF CanUseTool, TypeOK
    <3>2. QED  BY <1>1, <3>1 DEF CanUseTool, TypeOK
  <2>3. Asks'
    <3>1. CASE state \in {"ending", "exited"}
      BY <1>0, <1>1, <2>1, <3>1, ResolveType DEF CanUseTool, TypeOK, IInv, Asks
    <3>2. CASE state \notin {"ending", "exited"}
      BY <1>0, <1>1, <2>1, <3>2, ResolveType DEF CanUseTool, TypeOK, IInv, Asks
    <3>3. QED  BY <3>1, <3>2
  <2>4. AppliedIsAnswered'
    BY <1>1, <2>1, ResolveType DEF CanUseTool, IInv, AppliedIsAnswered
  <2>5. Ending' /\ EndingIsNoFailure'
    BY <1>1 DEF CanUseTool, IInv, Ending, EndingIsNoFailure
  <2>6. QED  BY <2>2, <2>3, <2>4, <2>5 DEF IInv
<1>2. CASE AskClosedByAgent(a)
  <2>1. answer[a] = None
    BY <1>2 DEF AskClosedByAgent, IInv, Asks
  <2>2. TypeOK'  BY <1>2, SettleType, ResolveType DEF AskClosedByAgent, TypeOK
  <2>3. Asks'
    BY <1>0, <1>2, <2>1, SettleType, ResolveType DEF AskClosedByAgent, TypeOK, IInv, Asks
  <2>4. AppliedIsAnswered'
    BY <1>2, <2>1, ResolveType DEF AskClosedByAgent, IInv, AppliedIsAnswered
  <2>5. Ending' /\ EndingIsNoFailure'
    BY <1>2 DEF AskClosedByAgent, IInv, Ending, EndingIsNoFailure
  <2>6. QED  BY <2>2, <2>3, <2>4, <2>5 DEF IInv
<1>3. QED  BY <1>1, <1>2

LEMMA SendStep ==
  ASSUME TypeOK, IInv, NEW u \in Uuid, Send(u)
  PROVE  TypeOK' /\ IInv'
BY RememberType, ConstantsAssumption
   DEF Send, TypeOK, IInv, Asks, Ending, AppliedIsAnswered, EndingIsNoFailure,
       askVars, endVars, NextState

(* The ways of ending. *)
LEMMA EndStep ==
  ASSUME TypeOK, IInv, End \/ GraceOver \/ EofOver \/ KillOver \/ Terminate
  PROVE  TypeOK' /\ IInv'
<1> USE ConstantsAssumption
<1> USE DEF TypeOK, IInv, Asks, Ending, AppliedIsAnswered, EndingIsNoFailure,
            askVars, sendVars, endVars, CloseInput
<1>1. CASE End
  <2> DEFINE why == IF endReason = None THEN "stopped" ELSE endReason
  <2>1. why \in {"stopped", "signal"}  OBVIOUS
  <2>2. CASE query # "set"  BY <1>1, <2>1, <2>2, ExitType DEF End
  <2>3. CASE query = "set"  BY <1>1, <2>1, <2>3, SettleAllType DEF End
  <2>4. QED  BY <2>2, <2>3
<1>2. CASE GraceOver  BY <1>2, SettleAllType DEF GraceOver
<1>3. CASE EofOver  BY <1>3 DEF EofOver
<1>4. CASE KillOver
  <2>1. Why \in {"stopped", "signal"}  BY <1>4 DEF Why, KillOver
  <2>2. QED  BY <1>4, <2>1, ExitType DEF KillOver
<1>5. CASE Terminate
  <2>1. CASE query # "set"  BY <1>5, <2>1, ExitType DEF Terminate
  <2>2. CASE query = "set"  BY <1>5, <2>2, SettleAllType DEF Terminate
  <2>3. QED  BY <2>1, <2>2
<1>6. QED  BY <1>1, <1>2, <1>3, <1>4, <1>5

LEMMA NextIInv ==
  ASSUME TypeOK, IInv, [Next]_vars
  PROVE  TypeOK' /\ IInv'
<1>1. CASE UNCHANGED vars
  BY <1>1 DEF vars, askVars, sendVars, endVars, TypeOK, IInv, Asks, Ending, AppliedIsAnswered, EndingIsNoFailure
<1>2. ASSUME NEW c \in Client, NEW a \in Ask, RespondAsk(c, a)
      PROVE  TypeOK' /\ IInv'
  BY <1>2, RespondStep
<1>3. ASSUME NEW a \in Ask, CanUseTool(a) \/ AskClosedByAgent(a)
      PROVE  TypeOK' /\ IInv'
  BY <1>3, AskStep
<1>4. QED  BY <1>1, <1>2, <1>3, SendStep, AgentStep, EndStep DEF Next

LEMMA SpecIInv == Spec => [](TypeOK /\ IInv)
<1>1. Init => TypeOK /\ IInv  BY InitHolds
<1>2. TypeOK /\ IInv /\ [Next]_vars => (TypeOK /\ IInv)'  BY NextIInv
<1>3. QED  BY <1>1, <1>2, PTL DEF Spec

-----------------------------------------------------------------------------
(* Every variable keeps its type: the memories never outgrow their bounds.  *)
THEOREM TypeCorrect == Spec => []TypeOK
<1>1. TypeOK /\ IInv => TypeOK  OBVIOUS
<1>2. QED  BY <1>1, SpecIInv, PTL

(* A client told "applied" is the one whose answer the agent has.           *)
THEOREM AppliedIsAnsweredHolds == Spec => []AppliedIsAnswered
<1>1. TypeOK /\ IInv => AppliedIsAnswered  BY DEF IInv
<1>2. QED  BY <1>1, SpecIInv, PTL

(* When the session is over, every ask the agent raised has been answered.  *)
THEOREM NothingHangsHolds == Spec => []NothingHangs
<1>1. TypeOK /\ IInv => NothingHangs  BY DEF IInv, Asks, NothingHangs
<1>2. QED  BY <1>1, SpecIInv, PTL

(* An ending that was asked for is never reported as a failure.             *)
THEOREM EndingIsNoFailureHolds == Spec => []EndingIsNoFailure
<1>1. TypeOK /\ IInv => EndingIsNoFailure  BY DEF IInv
<1>2. QED  BY <1>1, SpecIInv, PTL

(* A step of an exited session: nothing is pending, so settling does nothing. *)
LEMMA ExitedStep ==
  ASSUME TypeOK, IInv, Next, state = "exited"
  PROVE  UNCHANGED <<state, exitReason, pending, closings, sends>>
<1> USE DEF askVars, sendVars, endVars
<1>1. pending = {}  BY DEF IInv, Asks
<1>2. ASSUME NEW c \in Client, NEW a \in Ask, RespondAsk(c, a)
      PROVE  UNCHANGED <<state, exitReason, pending, closings, sends>>
  BY <1>1, <1>2 DEF RespondAsk
<1>3. ASSUME NEW a \in Ask, CanUseTool(a) \/ AskClosedByAgent(a)
      PROVE  UNCHANGED <<state, exitReason, pending, closings, sends>>
  BY <1>1, <1>3 DEF CanUseTool, AskClosedByAgent
<1>4. CASE \E u \in Uuid : Send(u)  BY <1>4 DEF Send
<1>5. CASE StartWithKey \/ StartQuery \/ InitMessage \/ Work \/ ResultMessage
  BY <1>5 DEF StartWithKey, StartQuery, Launch, StartFails, Exit, InitMessage, Work,
              ResultMessage, NextState
<1>6. CASE AgentEnds \/ KillOver \/ EofOver \/ End \/ Terminate
  BY <1>6 DEF AgentEnds, KillOver, EofOver, End, Terminate, Exit
<1>7. CASE GraceOver
  BY <1>1, <1>7, SettleAllType DEF GraceOver, CloseInput
<1>8. QED  BY <1>2, <1>3, <1>4, <1>5, <1>6, <1>7 DEF Next

(* The exit is the last thing the session says.                            *)
THEOREM ExitIsLastHolds == Spec => ExitIsLast
<1>1. TypeOK /\ IInv /\ [Next]_vars =>
        [state = "exited" => UNCHANGED <<state, exitReason, pending, closings, sends>>]_vars
  BY ExitedStep
<1>2. QED  BY <1>1, SpecIInv, PTL DEF Spec, ExitIsLast

-----------------------------------------------------------------------------
(* The memories: each is the end of the history it remembers, as long as    *)
(* its bound lets it be.                                                    *)
EndOf(mem, all, max) ==
  /\ Len(mem) = IF Len(all) < max THEN Len(all) ELSE max
  /\ \A i \in 1..Len(mem) : mem[i] = all[Len(all) - Len(mem) + i]

Memories == EndOf(settled, closings, SettledMemory) /\ EndOf(sentUuids, sends, SentMemory)

(* It stays so when both are extended and the memory is cut.                *)
LEMMA EndOfConcat ==
  ASSUME NEW T, NEW mem \in Seq(T), NEW all \in Seq(T), NEW new \in Seq(T), NEW max \in Nat \ {0},
         EndOf(mem, all, max)
  PROVE  EndOf(Newest(mem \o new, max), all \o new, max)
<1> DEFINE L == Len(mem)
           A == Len(all)
           N == Len(new)
           m == mem \o new
           a == all \o new
<1>1. L \in Nat /\ A \in Nat /\ N \in Nat  BY LenProperties
<1>2. L = (IF A < max THEN A ELSE max) /\ \A i \in 1..L : mem[i] = all[A - L + i]  BY DEF EndOf
<1>3. /\ m \in Seq(T) /\ Len(m) = L + N
      /\ \A i \in 1..L+N : m[i] = IF i <= L THEN mem[i] ELSE new[i - L]
  BY ConcatProperties
<1>4. /\ a \in Seq(T) /\ Len(a) = A + N
      /\ \A i \in 1..A+N : a[i] = IF i <= A THEN all[i] ELSE new[i - A]
  BY ConcatProperties
<1> HIDE DEF L, A, N, m, a
<1>5. \A i \in 1..L+N : m[i] = a[A - L + i]
  <2> TAKE i \in 1..L+N
  <2>1. A - L + i \in 1..A+N  BY <1>1, <1>2
  <2>2. CASE i <= L
    <3>1. i \in 1..L /\ A - L + i <= A  BY <1>1, <2>2
    <3>2. m[i] = mem[i] /\ mem[i] = all[A - L + i]  BY <1>2, <1>3, <3>1, <2>2
    <3>3. a[A - L + i] = all[A - L + i]  BY <1>4, <2>1, <3>1
    <3>4. QED  BY <3>2, <3>3
  <2>3. CASE ~(i <= L)
    <3>1. ~(A - L + i <= A) /\ (A - L + i) - A = i - L  BY <1>1, <2>3
    <3>2. m[i] = new[i - L]  BY <1>3, <2>3
    <3>3. a[A - L + i] = new[(A - L + i) - A]  BY <1>4, <2>1, <3>1
    <3>4. QED  BY <3>1, <3>2, <3>3
  <2>4. QED  BY <2>2, <2>3
<1>6. CASE L + N > max
  <2>1. Newest(m, max) = SubSeq(m, L + N - max + 1, L + N)
    <3>1. Len(m) = L + N  BY <1>3
    <3>2. ASSUME NEW k, Len(m) = k, k > max
          PROVE  Newest(m, max) = SubSeq(m, k - max + 1, k)
      BY <3>2, Zenon DEF Newest
    <3>3. Newest(m, max) = SubSeq(m, (L + N) - max + 1, L + N)  BY <1>6, <3>1, <3>2, Zenon
    <3>4. (L + N) - max + 1 = L + N - max + 1  BY <1>1
    <3>5. QED  BY <3>3, <3>4, Zenon
  <2>2. L + N - max + 1 \in 1..L+N+1 /\ L + N \in Nat /\ A + N > max  BY <1>1, <1>2, <1>6
  <2>3. /\ Len(SubSeq(m, L + N - max + 1, L + N)) = max
        /\ \A i \in 1..max : SubSeq(m, L + N - max + 1, L + N)[i] = m[L + N - max + i]
    <3>1. /\ Len(SubSeq(m, L + N - max + 1, L + N)) = (L + N) - (L + N - max + 1) + 1
          /\ \A i \in 1..(L + N) - (L + N - max + 1) + 1 :
               SubSeq(m, L + N - max + 1, L + N)[i] = m[(L + N - max + 1) + i - 1]
      BY <1>1, <1>3, <2>2, SubSeqProperties
    <3>2. (L + N) - (L + N - max + 1) + 1 = max  BY <1>1
    <3>3. \A i \in 1..max : (L + N - max + 1) + i - 1 = L + N - max + i  BY <1>1
    <3>4. QED  BY <3>1, <3>2, <3>3
  <2>4. \A i \in 1..max : m[L + N - max + i] = a[A + N - max + i]
    <3> TAKE i \in 1..max
    <3>1. L + N - max + i \in 1..L+N /\ A - L + (L + N - max + i) = A + N - max + i
      BY <1>1, <1>6
    <3>2. QED  BY <1>5, <3>1
  <2>5. Len(Newest(m, max)) = max /\ Len(a) = A + N  BY <1>4, <2>1, <2>3, Zenon
  <2>6. \A i \in 1..max : Newest(m, max)[i] = a[A + N - max + i]  BY <2>1, <2>3, <2>4, Zenon
  <2>7. EndOf(Newest(m, max), a, max)  BY <1>1, <2>2, <2>5, <2>6 DEF EndOf
  <2>8. QED  BY <2>7 DEF m, a
<1>7. CASE ~(L + N > max)
  <2>1. Newest(m, max) = m  BY <1>3, <1>7 DEF Newest
  <2>2. L + N = (IF A + N < max THEN A + N ELSE max)  BY <1>1, <1>2, <1>7
  <2>3. \A i \in 1..L+N : m[i] = a[(A + N) - (L + N) + i]
    <3> TAKE i \in 1..L+N
    <3>1. (A + N) - (L + N) + i = A - L + i  BY <1>1
    <3>2. QED  BY <1>5, <3>1
  <2>4. QED  BY <1>3, <1>4, <2>1, <2>2, <2>3 DEF EndOf, m, a
<1>8. QED  BY <1>6, <1>7

LEMMA EndOfAppend ==
  ASSUME NEW T, NEW mem \in Seq(T), NEW all \in Seq(T), NEW id \in T, NEW max \in Nat \ {0},
         EndOf(mem, all, max)
  PROVE  EndOf(Remember(mem, id, max), Append(all, id), max)
<1>1. Append(mem, id) = mem \o <<id>> /\ Append(all, id) = all \o <<id>> /\ <<id>> \in Seq(T)
  BY AppendIsConcat
<1>2. QED  BY <1>1, EndOfConcat DEF Remember

(* What is not in the memory is not among the last max of the history.      *)
LEMMA NotRemembered ==
  ASSUME NEW T, NEW mem \in Seq(T), NEW all \in Seq(T), NEW max \in Nat \ {0}, EndOf(mem, all, max),
         NEW id, \A k \in DOMAIN mem : mem[k] # id, NEW i \in DOMAIN all, all[i] = id
  PROVE  Len(all) - i >= max
<1>1. Len(mem) \in Nat /\ Len(all) \in Nat /\ i \in 1..Len(all) /\ DOMAIN mem = 1..Len(mem)
  BY LenProperties
<1>2. ~(i > Len(all) - Len(mem))
  <2>1. SUFFICES ASSUME i > Len(all) - Len(mem) PROVE FALSE  OBVIOUS
  <2>2. i - (Len(all) - Len(mem)) \in 1..Len(mem)  BY <1>1, <2>1
  <2>3. mem[i - (Len(all) - Len(mem))] = all[Len(all) - Len(mem) + (i - (Len(all) - Len(mem)))]
    BY <2>2 DEF EndOf
  <2>4. Len(all) - Len(mem) + (i - (Len(all) - Len(mem))) = i  BY <1>1
  <2>5. QED  BY <1>1, <2>2, <2>3, <2>4
<1>3. QED  BY <1>1, <1>2 DEF EndOf

(* Both memories move with their histories.                                 *)
LEMMA MemoriesStep ==
  ASSUME TypeOK, Memories, [Next]_vars
  PROVE  Memories'
<1> USE DEF vars, askVars, sendVars, endVars
<1>1. CASE UNCHANGED <<settled, closings, sentUuids, sends>>
  BY <1>1 DEF Memories, EndOf
<1>2. ASSUME NEW u \in Uuid, Send(u)
      PROVE  Memories'
  <2>1. EndOf(Remember(sentUuids, u, SentMemory), Append(sends, u), SentMemory)
    BY <1>2, EndOfAppend, ConstantsAssumption DEF Memories, TypeOK
  <2>2. QED  BY <1>2, <2>1 DEF Send, Memories
<1>3. ASSUME NEW a \in Ask, Settle(a), UNCHANGED sendVars
      PROVE  Memories'
  <2>1. EndOf(Remember(settled, a, SettledMemory), Append(closings, a), SettledMemory)
    BY EndOfAppend, ConstantsAssumption DEF Memories, TypeOK
  <2>2. QED  BY <1>3, <2>1 DEF Settle, Memories
<1>4. ASSUME SettleAll, UNCHANGED sendVars
      PROVE  Memories'
  <2>1. PICK order \in Orders(pending) :
          /\ settled' = Newest(settled \o order, SettledMemory)
          /\ closings' = closings \o order
    BY <1>4 DEF SettleAll
  <2>2. order \in Seq(Ask)  BY OrderType DEF TypeOK
  <2>3. EndOf(Newest(settled \o order, SettledMemory), closings \o order, SettledMemory)
    BY <2>2, EndOfConcat, ConstantsAssumption DEF Memories, TypeOK
  <2>4. QED  BY <1>4, <2>1, <2>3 DEF Memories
<1>5. ASSUME NEW reason, Exit(reason), UNCHANGED sendVars
      PROVE  Memories'
  BY <1>1, <1>4, <1>5 DEF Exit
<1>6. CASE \E c \in Client, a \in Ask : RespondAsk(c, a)
  BY <1>1, <1>3, <1>6 DEF RespondAsk
<1>7. CASE \E a \in Ask : CanUseTool(a) \/ AskClosedByAgent(a)
  BY <1>1, <1>3, <1>7 DEF CanUseTool, AskClosedByAgent
<1>8. CASE StartWithKey \/ StartQuery \/ InitMessage \/ Work \/ ResultMessage \/ EofOver
  BY <1>1, <1>5, <1>8 DEF StartWithKey, StartQuery, Launch, StartFails, InitMessage, Work, ResultMessage, EofOver
<1>9. CASE AgentEnds \/ End \/ GraceOver \/ KillOver \/ Terminate
  BY <1>1, <1>4, <1>5, <1>9 DEF AgentEnds, End, GraceOver, KillOver, Terminate, CloseInput
<1>10. CASE UNCHANGED vars  BY <1>1, <1>10
<1>11. QED  BY <1>2, <1>6, <1>7, <1>8, <1>9, <1>10 DEF Next

(* A message sent again within the memory is refused.                       *)
LEMMA SentOnceStep ==
  ASSUME TypeOK, Memories, SentOnce, [Next]_vars
  PROVE  SentOnce'
<1>1. CASE UNCHANGED sends  BY <1>1 DEF SentOnce
<1>2. ASSUME NEW u \in Uuid, Send(u)
      PROVE  SentOnce'
  <2>1. /\ sends' \in Seq(Uuid) /\ Len(sends') = Len(sends) + 1 /\ Len(sends) \in Nat
        /\ DOMAIN sends = 1..Len(sends) /\ DOMAIN sends' = 1..Len(sends')
        /\ \A i \in 1..Len(sends) : sends'[i] = sends[i]
        /\ sends'[Len(sends) + 1] = u
    BY <1>2 DEF Send, TypeOK
  <2>2. ASSUME NEW i \in DOMAIN sends, sends[i] = u
        PROVE  Len(sends) - i >= SentMemory
    <3>1. \A k \in DOMAIN sentUuids : sentUuids[k] # u  BY <1>2 DEF Send
    <3>2. sentUuids \in Seq(Uuid) /\ sends \in Seq(Uuid) /\ SentMemory \in Nat \ {0}
          /\ EndOf(sentUuids, sends, SentMemory)
      BY ConstantsAssumption DEF TypeOK, Memories
    <3>3. QED  BY <2>2, <3>1, <3>2, NotRemembered
  <2>3. ASSUME NEW i \in DOMAIN sends', NEW j \in DOMAIN sends', i < j, sends'[i] = sends'[j]
        PROVE  j - i > SentMemory
    <3>1. CASE j \in 1..Len(sends)  BY <2>1, <2>3, <3>1 DEF SentOnce
    <3>2. CASE j = Len(sends) + 1
      <4>1. i \in 1..Len(sends) /\ sends[i] = u  BY <2>1, <2>3, <3>2
      <4>2. QED  BY <2>1, <2>2, <3>2, <4>1, ConstantsAssumption
    <3>3. QED  BY <2>1, <3>1, <3>2
  <2>4. QED  BY <2>3 DEF SentOnce
<1>3. UNCHANGED sends \/ \E u \in Uuid : Send(u)
  BY DEF Next, vars, sendVars, StartWithKey, StartQuery, RespondAsk, CanUseTool, AskClosedByAgent, InitMessage,
         Work, ResultMessage, AgentEnds, End, GraceOver, EofOver, KillOver, Terminate
<1>4. QED  BY <1>1, <1>2, <1>3

(* Only an answer to an ask that is not pending is told so, and it is told  *)
(* "gone" only if its id is not remembered.                                 *)
LEMMA LateStep ==
  ASSUME TypeOK, Memories, Next, NEW c \in Client, NEW a \in Ask,
         replies[c][a] = {}, replies'[c][a] = {"gone"},
         NEW i \in DOMAIN closings, closings[i] = a
  PROVE  Len(closings) - i >= SettledMemory
<1>1. UNCHANGED replies \/ \E d \in Client, b \in Ask : RespondAsk(d, b)
  BY DEF Next, askVars, StartWithKey, StartQuery, Launch, StartFails, Send, CanUseTool, AskClosedByAgent,
         InitMessage, Work, ResultMessage, AgentEnds, End, GraceOver, EofOver, KillOver, Terminate
<1>2. PICK d \in Client, b \in Ask : RespondAsk(d, b)  BY <1>1
<1>3. \E s : /\ replies' = [replies EXCEPT ![d][b] = s]
             /\ "gone" \in s => \A k \in DOMAIN settled : settled[k] # b
  <2>1. CASE b \in pending
    <3>1. replies' = [replies EXCEPT ![d][b] = {"applied"}]  BY <1>2, <2>1 DEF RespondAsk
    <3>2. QED  BY <3>1
  <2>2. CASE b \notin pending
    <3>1. replies' = [replies EXCEPT ![d][b] =
                        {IF b \in {settled[k] : k \in DOMAIN settled} THEN "stale" ELSE "gone"}]
      BY <1>2, <2>2 DEF RespondAsk
    <3>2. CASE \A k \in DOMAIN settled : settled[k] # b  BY <3>1, <3>2
    <3>3. CASE \E k \in DOMAIN settled : settled[k] = b
      <4>1. b \in {settled[k] : k \in DOMAIN settled}  BY <3>3
      <4>2. "gone" \notin {IF b \in {settled[k] : k \in DOMAIN settled} THEN "stale" ELSE "gone"}
        BY <4>1
      <4>3. QED  BY <3>1, <4>2
    <3>4. QED  BY <3>2, <3>3
  <2>3. QED  BY <2>1, <2>2
<1>4. PICK s : /\ replies' = [replies EXCEPT ![d][b] = s]
               /\ "gone" \in s => \A k \in DOMAIN settled : settled[k] # b
  BY <1>3
<1>5. DOMAIN replies = Client /\ DOMAIN replies[d] = Ask /\ DOMAIN replies[c] = Ask  BY DEF TypeOK
<1>6. replies'[c][a] # replies[c][a]  OBVIOUS
<1>7. /\ c # d => replies'[c] = replies[c]
      /\ \A x \in Ask : replies'[d][x] = IF x = b THEN s ELSE replies[d][x]
  BY <1>4, <1>5
<1>8. d = c /\ b = a /\ "gone" \in s
  <2>1. d = c  BY <1>6, <1>7
  <2>2. b = a  BY <1>6, <1>7, <2>1
  <2>3. s = {"gone"}  BY <1>7, <2>1, <2>2
  <2>4. QED  BY <2>1, <2>2, <2>3
<1>9. \A k \in DOMAIN settled : settled[k] # a  BY <1>4, <1>8
<1>10. settled \in Seq(Ask) /\ closings \in Seq(Ask) /\ SettledMemory \in Nat \ {0}
      /\ EndOf(settled, closings, SettledMemory)
  BY ConstantsAssumption DEF TypeOK, Memories
<1>11. QED  BY <1>9, <1>10, NotRemembered

LEMMA SpecMemories == Spec => [](TypeOK /\ Memories /\ SentOnce)
<1>1. Init => TypeOK /\ IInv /\ Memories /\ SentOnce
  <2>1. Init => Memories /\ SentOnce
    BY EmptySeq, ConstantsAssumption DEF Init, Memories, EndOf, SentOnce
  <2>2. QED  BY <2>1, InitHolds
<1>2. TypeOK /\ IInv /\ Memories /\ SentOnce /\ [Next]_vars => (TypeOK /\ IInv /\ Memories /\ SentOnce)'
  BY NextIInv, MemoriesStep, SentOnceStep
<1>3. QED  BY <1>1, <1>2, PTL DEF Spec

(* A message sent again is not handed to the CLI a second time until as     *)
(* many others were sent as are remembered (claudeSdkSession.ts:318-335).   *)
THEOREM SentOnceHolds == Spec => []SentOnce
<1>1. TypeOK /\ Memories /\ SentOnce => SentOnce  OBVIOUS
<1>2. QED  BY <1>1, SpecMemories, PTL

(* An answer that comes too late is told that it is stale as long as the    *)
(* ask is among those remembered (claudeSdkSession.ts:144-145, 339).        *)
THEOREM LateIsStaleHolds == Spec => LateIsStale
<1>1. TypeOK /\ Memories /\ SentOnce /\ [Next]_vars =>
        [\A c \in Client, a \in Ask :
           replies[c][a] = {} /\ replies'[c][a] = {"gone"} =>
             \A i \in DOMAIN closings : closings[i] = a => Len(closings) - i >= SettledMemory]_vars
  BY LateStep
<1>2. QED  BY <1>1, SpecMemories, PTL DEF Spec, LateIsStale
=============================================================================
