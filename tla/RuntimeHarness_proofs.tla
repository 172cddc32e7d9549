----------------------- MODULE RuntimeHarness_proofs -----------------------
(***************************************************************************)
(* Theorems of RuntimeHarness for every set of agents, every budget, every *)
(* limit and every number of tool calls, and their proofs.                 *)
(***************************************************************************)
EXTENDS RuntimeHarness, NaturalSets, FiniteSetTheorems

\* How many of the counted calls have a given signature is a natural number.
LEMMA CountsAreNaturals ==
    ASSUME NEW P, P \subseteq Nat, NEW n \in Nat, P \subseteq 1..n
    PROVE  Cardinality(P) \in Nat
<1>1. IsFiniteSet(1..n)
  BY FS_Interval
<1>2. IsFiniteSet(P)
  BY <1>1, FS_Subset
<1> QED
  BY <1>2, FS_CardinalityType

\* The calls of a round form a sequence of signatures.
LEMMA CallsAreSequences ==
    ASSUME NEW c \in CallSeqs
    PROVE  \E n \in Nat : DOMAIN c = 1..n /\ c \in [1..n -> Signatures]
BY LimitsAssumption DEF CallSeqs

LEMMA CountedCallsAreFinite ==
    ASSUME NEW a \in Agents, NEW c \in CallSeqs, NEW s \in Signatures
    PROVE  Cardinality({k \in Counted(a, c) : c[k] = s}) \in Nat
<1>1. PICK n \in Nat : DOMAIN c = 1..n
  BY CallsAreSequences
<1>2. {k \in Counted(a, c) : c[k] = s} \subseteq 1..n
  BY <1>1 DEF Counted
<1> HIDE <1>1
<1> QED
  BY <1>2, CountsAreNaturals

\* A round's decision is one of the five of HarnessDecision.
LEMMA DecideType ==
    ASSUME NEW a \in Agents, NEW r \in RoundResults, NEW final \in BOOLEAN
    PROVE  Decide(a, r, final) \in Decisions
BY DEF Decide, Decisions

\* On the final round of a budget the harness never goes on.
LEMMA FinalRoundDecides ==
    ASSUME NEW a \in Agents, NEW r \in RoundResults
    PROVE  Decide(a, r, TRUE) \in Terminal \cup {"retry"}
BY DEF Decide, Terminal

-----------------------------------------------------------------------------
LEMMA TypeOKInit == Init => TypeOK
BY DEF Init, TypeOK, Idle, NoResult, Reasons, Decisions

LEMMA RoundEventFacts ==
    ASSUME NEW a \in Agents, NEW n \in Nat, NEW r \in RoundResults,
           NEW d \in Decisions, NEW x \in BOOLEAN
    PROVE  LET e == RoundEvent(a, n, r, d, x)
           IN  /\ e \in Event
               /\ e.agent = a /\ e.round = n /\ e.decision = d /\ e.calls = r.calls
               /\ e.exhausted = x /\ (d = "retry" => e.reason = RetryReason(r))
<1>1. (IF d = "retry" THEN RetryReason(r) ELSE "none") \in Reasons \cup {"none"}
  BY DEF RetryReason, Reasons
<1>2. r.calls \in CallSeqs
  BY DEF RoundResults
<1> QED
  BY <1>1, <1>2 DEF RoundEvent, Event

LEMMA RecordType ==
    ASSUME TypeOK, NEW a \in Agents, NEW n \in Nat, NEW r \in RoundResults,
           NEW d \in Decisions, NEW x \in BOOLEAN, Record(a, n, r, d, x)
    PROVE  /\ journal' \in Seq(Event)
           /\ checkpoints' \in [Agents -> SUBSET Nat]
           /\ call' \in [agent : Agents \cup {NoAgent}, round : Nat]
           /\ result' \in [agent : Agents \cup {NoAgent}, rounds : Nat,
                           decision : Decisions \cup {"none", "raised", "duplicate_event"}]
<1>1. RoundEvent(a, n, r, d, x) \in Event
  BY RoundEventFacts
<1>2. /\ journal \in Seq(Event)
      /\ checkpoints \in [Agents -> SUBSET Nat]
      /\ call \in [agent : Agents \cup {NoAgent}, round : Nat]
      /\ result \in [agent : Agents \cup {NoAgent}, rounds : Nat,
                     decision : Decisions \cup {"none", "raised", "duplicate_event"}]
  BY DEF TypeOK
<1>3. journal' \in Seq(Event)
  BY <1>1, <1>2 DEF Record
<1>4. checkpoints' \in [Agents -> SUBSET Nat]
  <2>1. checkpoints' = checkpoints \/ checkpoints' = [checkpoints EXCEPT ![a] = @ \cup {n}]
    BY DEF Record
  <2> QED
    BY <1>2, <2>1
<1>5. call' \in [agent : Agents \cup {NoAgent}, round : Nat]
  <2>1. call' = Idle \/ call' = [call EXCEPT !.round = n + 1]
    BY DEF Record
  <2> QED
    BY <1>2, <2>1 DEF Idle
<1>6. result' \in [agent : Agents \cup {NoAgent}, rounds : Nat,
                   decision : Decisions \cup {"none", "raised", "duplicate_event"}]
  <2>1. \/ result' = result
        \/ result' = [agent |-> a, decision |-> "duplicate_event", rounds |-> n]
        \/ result' = [agent |-> a, decision |-> d, rounds |-> n]
    BY DEF Record
  <2> QED
    BY <1>2, <2>1
<1> QED
  BY <1>3, <1>4, <1>5, <1>6

LEMMA TypeOKRunRound ==
    ASSUME TypeOK, NEW a \in Agents, NEW r \in RoundResults, RunRound(a, r)
    PROVE  TypeOK'
<1> DEFINE n == call.round
           d == Decide(a, r, n = MaxRounds[a])
           x == Exhausted(a, r, n = MaxRounds[a])
<1>1. n \in Nat /\ d \in Decisions /\ x \in BOOLEAN /\ r.calls \in CallSeqs
  <2>1. d \in Decisions
    BY DecideType
  <2>2. x \in BOOLEAN
    BY DEF Exhausted
  <2> QED
    BY <2>1, <2>2 DEF TypeOK, RoundResults
<1>4. sigCounts' \in [Agents -> [Signatures -> Nat]]
  <2>1. \A s \in Signatures :
          Cardinality({k \in Counted(a, r.calls) : r.calls[k] = s}) \in Nat
    BY <1>1, CountedCallsAreFinite
  <2>2. CASE ReachesBreaker(r)
    <3> DEFINE card(s) == Cardinality({k \in Counted(a, r.calls) : r.calls[k] = s})
    <3>1. sigCounts' = [sigCounts EXCEPT ![a] = [s \in Signatures |-> @[s] + card(s)]]
      BY <2>2 DEF RunRound
    <3>2. \A s \in Signatures : card(s) \in Nat
      BY <2>1
    <3>3. sigCounts \in [Agents -> [Signatures -> Nat]]
      BY DEF TypeOK
    <3> HIDE DEF card
    <3> QED
      BY <3>1, <3>2, <3>3
  <2>3. CASE ~ReachesBreaker(r)
    BY <2>3 DEF RunRound, TypeOK
  <2> QED
    BY <2>2, <2>3
<1>5. retryCounts' \in [Agents -> [Reasons -> Nat]]
  <2>1. RetryReason(r) \in Reasons
    BY DEF RetryReason, Reasons
  <2> QED
    BY <2>1 DEF RunRound, TypeOK
<1>6. Record(a, n, r, d, x)
  BY DEF RunRound
<1>7. resetAt' = resetAt
  BY DEF RunRound
<1> HIDE DEF n, d, x
<1>8. /\ journal' \in Seq(Event)
      /\ checkpoints' \in [Agents -> SUBSET Nat]
      /\ call' \in [agent : Agents \cup {NoAgent}, round : Nat]
      /\ result' \in [agent : Agents \cup {NoAgent}, rounds : Nat,
                      decision : Decisions \cup {"none", "raised", "duplicate_event"}]
  BY <1>1, <1>6, RecordType
<1> QED
  BY <1>4, <1>5, <1>7, <1>8 DEF TypeOK

-----------------------------------------------------------------------------
(* The loop of run_agent: the checkpoints of an agent are the rounds 1..k for *)
(* some k within its budget, and an invocation is about to run round k + 1.   *)

SavedUpTo(a, k) ==
    /\ checkpoints[a] = 1..k
    /\ HasCheckpoints /\ call.agent = a => call.round = k + 1
Contiguous == \A a \in Agents : \E k \in 0..MaxRounds[a] : SavedUpTo(a, k)
InLoop ==
    \/ call = Idle
    \/ call.agent \in Agents /\ call.round \in 1..MaxRounds[call.agent]

LoopInv == TypeOK /\ Contiguous /\ InLoop

\* start_round is the round after the last one saved.
LEMMA StartRoundValue ==
    ASSUME NEW a \in Agents, NEW k \in Nat, checkpoints[a] = 1..k
    PROVE  StartRound(a) = IF HasCheckpoints THEN k + 1 ELSE 1
<1>1. CASE HasCheckpoints /\ k # 0
  <2>1. k \in 1..k /\ \A m \in 1..k : m <= k
    BY <1>1
  <2>2. \A n \in 1..k : (\A m \in 1..k : m <= n) => n = k
    BY <2>1
  <2>3. (CHOOSE n \in 1..k : \A m \in 1..k : m <= n) = k
    BY <2>1, <2>2
  <2> QED
    BY <1>1, <2>1, <2>3 DEF StartRound
<1>2. CASE HasCheckpoints /\ k = 0
  <2>1. checkpoints[a] = {}
    BY <1>2
  <2> QED
    BY <1>2, <2>1 DEF StartRound
<1>3. CASE ~HasCheckpoints
  BY <1>3 DEF StartRound
<1> QED
  BY <1>1, <1>2, <1>3, CheckpointsAssumption

LEMMA LoopInvInit == Init => LoopInv
<1> SUFFICES ASSUME Init PROVE LoopInv
  OBVIOUS
<1>1. ASSUME NEW a \in Agents PROVE 0 \in 0..MaxRounds[a] /\ SavedUpTo(a, 0)
  BY BudgetAssumption, AgentsAssumption DEF Init, Idle, SavedUpTo
<1> QED
  BY <1>1, TypeOKInit DEF LoopInv, Contiguous, InLoop, Init

LEMMA LoopInvRunAgent ==
    ASSUME LoopInv, NEW a \in Agents, RunAgent(a)
    PROVE  LoopInv'
<1>1. PICK k \in 0..MaxRounds[a] : SavedUpTo(a, k)
  BY DEF LoopInv, Contiguous
<1>2. StartRound(a) = IF HasCheckpoints THEN k + 1 ELSE 1
  BY <1>1, StartRoundValue, BudgetAssumption DEF SavedUpTo
<1>3. StartRound(a) \in Nat \ {0}
  BY <1>2, BudgetAssumption
<1>4. TypeOK'
  BY <1>3, BudgetAssumption
     DEF RunAgent, LoopInv, TypeOK, NoResult, Decisions
<1>5. InLoop'
  BY <1>3, BudgetAssumption DEF RunAgent, InLoop, LoopInv, TypeOK
<1>6. ASSUME NEW b \in Agents PROVE \E m \in 0..MaxRounds[b] : SavedUpTo(b, m)'
  <2>1. CASE b = a
    <3>1. HasCheckpoints /\ call'.agent = a => call'.round = k + 1
      BY <1>2, AgentsAssumption DEF RunAgent, Idle
    <3> QED
      BY <1>1, <2>1, <3>1 DEF RunAgent, SavedUpTo
  <2>2. CASE b # a
    <3>1. PICK m \in 0..MaxRounds[b] : SavedUpTo(b, m)
      BY DEF LoopInv, Contiguous
    <3>2. call'.agent # b
      BY <2>2, AgentsAssumption DEF RunAgent, Idle
    <3> QED
      BY <3>1, <3>2 DEF RunAgent, SavedUpTo
  <2> QED
    BY <2>1, <2>2
<1> QED
  BY <1>4, <1>5, <1>6 DEF LoopInv, Contiguous

LEMMA LoopInvRunRound ==
    ASSUME LoopInv, NEW a \in Agents, NEW r \in RoundResults, RunRound(a, r)
    PROVE  LoopInv'
<1> DEFINE n == call.round
           d == Decide(a, r, n = MaxRounds[a])
           x == Exhausted(a, r, n = MaxRounds[a])
<1>1. Record(a, n, r, d, x) /\ call.agent = a
  BY DEF RunRound
<1>2. call # Idle /\ n \in 1..MaxRounds[a]
  BY <1>1, AgentsAssumption DEF LoopInv, InLoop, Idle
<1>3. TypeOK'
  BY TypeOKRunRound DEF LoopInv
<1> HIDE DEF n, d, x
<1>4. InLoop'
  <2>1. n \in Nat /\ MaxRounds[a] \in Nat /\ call.round = n
    BY BudgetAssumption DEF LoopInv, TypeOK, n
  <2>2. call' = Idle \/ (n # MaxRounds[a] /\ call' = [call EXCEPT !.round = n + 1])
    BY <1>1 DEF Record
  <2>3. CASE n # MaxRounds[a] /\ call' = [call EXCEPT !.round = n + 1]
    <3>1. call'.agent = a /\ call'.round = n + 1
      BY <1>1, <2>3 DEF LoopInv, TypeOK
    <3>2. n + 1 \in 1..MaxRounds[a]
      BY <1>2, <2>1, <2>3
    <3> QED
      BY <3>1, <3>2 DEF InLoop
  <2> QED
    BY <2>2, <2>3 DEF InLoop
<1>5. ASSUME NEW b \in Agents PROVE \E m \in 0..MaxRounds[b] : SavedUpTo(b, m)'
  <2>1. PICK k \in 0..MaxRounds[b] : SavedUpTo(b, k)
    BY DEF LoopInv, Contiguous
  <2>2. CASE b # a
    <3>1. checkpoints'[b] = checkpoints[b]
      BY <1>1, <2>2 DEF Record, LoopInv, TypeOK
    <3>2. call'.agent # b
      BY <1>1, <2>2, AgentsAssumption DEF Record, Idle, LoopInv, TypeOK
    <3> QED
      BY <2>1, <3>1, <3>2 DEF SavedUpTo
  <2>3. CASE b = a /\ HasCheckpoints /\ ~Journalled(a, n)
    <3>1. n = k + 1
      BY <1>1, <2>1, <2>3 DEF SavedUpTo, n
    <3>2. checkpoints'[a] = 1..n
      <4>1. checkpoints'[a] = (1..k) \cup {n}
        BY <1>1, <2>1, <2>3 DEF Record, SavedUpTo, LoopInv, TypeOK
      <4> QED
        BY <3>1, <4>1
    <3>3. call'.agent = a => call'.round = n + 1
      BY <1>1, <2>3, AgentsAssumption DEF Record, Idle, LoopInv, TypeOK
    <3> QED
      BY <1>2, <2>3, <3>2, <3>3, BudgetAssumption DEF SavedUpTo
  <2>4. CASE b = a /\ ~HasCheckpoints
    <3>1. checkpoints' = checkpoints
      BY <1>1, <2>4 DEF Record
    <3> QED
      BY <2>1, <2>4, <3>1 DEF SavedUpTo
  <2>5. CASE b = a /\ Journalled(a, n)
    <3>1. checkpoints' = checkpoints /\ call'.agent # a
      BY <1>1, <2>5, AgentsAssumption DEF Record, Idle
    <3> QED
      BY <2>1, <2>5, <3>1 DEF SavedUpTo
  <2> QED
    BY <2>2, <2>3, <2>4, <2>5, CheckpointsAssumption
<1> QED
  BY <1>3, <1>4, <1>5 DEF LoopInv, Contiguous

\* A step that leaves the checkpoints alone and ends or keeps the invocation.
LEMMA LoopInvOther ==
    ASSUME LoopInv, TypeOK', UNCHANGED checkpoints, call' = call \/ call' = Idle
    PROVE  LoopInv'
<1>1. ASSUME NEW a \in Agents PROVE \E m \in 0..MaxRounds[a] : SavedUpTo(a, m)'
  <2>1. PICK k \in 0..MaxRounds[a] : SavedUpTo(a, k)
    BY DEF LoopInv, Contiguous
  <2>2. call'.agent = a => call' = call
    BY AgentsAssumption DEF Idle
  <2> QED
    BY <2>1, <2>2 DEF SavedUpTo
<1>2. InLoop'
  BY DEF LoopInv, InLoop
<1> QED
  BY <1>1, <1>2 DEF LoopInv, Contiguous

LEMMA LoopInvStep == LoopInv /\ [Next]_vars => LoopInv'
<1> SUFFICES ASSUME LoopInv, [Next]_vars PROVE LoopInv'
  OBVIOUS
<1>1. ASSUME NEW a \in Agents, RunAgent(a) PROVE LoopInv'
  BY <1>1, LoopInvRunAgent
<1>2. ASSUME NEW a \in Agents, NEW r \in RoundResults, RunRound(a, r) PROVE LoopInv'
  BY <1>2, LoopInvRunRound
<1>3. ASSUME NEW a \in Agents, AgentRaises(a) PROVE LoopInv'
  <2>1. TypeOK'
    BY <1>3 DEF AgentRaises, LoopInv, TypeOK, Idle
  <2> QED
    BY <1>3, <2>1, LoopInvOther DEF AgentRaises
<1>4. ASSUME NEW a \in Agents, ResetRetryCounts(a) PROVE LoopInv'
  <2>1. TypeOK'
    BY <1>4 DEF ResetRetryCounts, LoopInv, TypeOK
  <2> QED
    BY <1>4, <2>1, LoopInvOther DEF ResetRetryCounts
<1>5. CASE UNCHANGED vars
  <2>1. TypeOK'
    BY <1>5 DEF vars, LoopInv, TypeOK
  <2> QED
    BY <1>5, <2>1, LoopInvOther DEF vars
<1> QED
  BY <1>1, <1>2, <1>3, <1>4, <1>5 DEF Next, Round

THEOREM LoopInvariant == Spec => []LoopInv
BY LoopInvInit, LoopInvStep, PTL DEF Spec

\* Every variable of the harness keeps its type, whatever the constants.
THEOREM TypeCorrect == Spec => []TypeOK
<1>1. LoopInv => TypeOK
  BY DEF LoopInv
<1> QED
  BY <1>1, LoopInvariant, PTL

-----------------------------------------------------------------------------
(* Answers: run_agent answers nothing before it returns, and conclusively then. *)

Pending == call # Idle => result = NoResult
AnswerInv == Pending /\ AnswersConclusively

LEMMA AnswerInvRunRound ==
    ASSUME LoopInv, AnswerInv, NEW a \in Agents, NEW r \in RoundResults, RunRound(a, r)
    PROVE  AnswerInv'
<1> DEFINE n == call.round
           d == Decide(a, r, n = MaxRounds[a])
           x == Exhausted(a, r, n = MaxRounds[a])
<1>1. Record(a, n, r, d, x) /\ call.agent = a
  BY DEF RunRound
<1>2. result = NoResult
  BY <1>1, AgentsAssumption DEF AnswerInv, Pending, Idle
<1>3. d \in Terminal \/ n = MaxRounds[a] => d \in Terminal \cup {"retry"}
  BY FinalRoundDecides
<1> HIDE DEF n, d, x
<1>6. CASE Journalled(a, n)
  BY <1>1, <1>6 DEF Record, AnswerInv, Pending, AnswersConclusively, Idle
<1>7. CASE ~Journalled(a, n) /\ (d \in Terminal \/ n = MaxRounds[a])
  <2>1. call' = Idle /\ result' = [agent |-> a, decision |-> d, rounds |-> n]
    BY <1>1, <1>7 DEF Record
  <2>2. result'.decision = d /\ result'.rounds = n /\ result'.agent = a
    BY <2>1
  <2>3. d \in Terminal \/ (d = "retry" /\ n = MaxRounds[a])
    BY <1>3, <1>7
  <2> QED
    BY <2>1, <2>2, <2>3 DEF AnswerInv, Pending, AnswersConclusively
<1>8. CASE ~Journalled(a, n) /\ ~(d \in Terminal \/ n = MaxRounds[a])
  <2>1. result' = result
    BY <1>1, <1>8 DEF Record
  <2> QED
    BY <1>2, <2>1 DEF AnswerInv, Pending, AnswersConclusively
<1> QED
  BY <1>6, <1>7, <1>8

LEMMA AnswerInvStep == LoopInv /\ AnswerInv /\ [Next]_vars => AnswerInv'
<1> SUFFICES ASSUME LoopInv, AnswerInv, [Next]_vars PROVE AnswerInv'
  OBVIOUS
<1>1. ASSUME NEW a \in Agents, RunAgent(a) PROVE AnswerInv'
  BY <1>1 DEF RunAgent, AnswerInv, Pending, AnswersConclusively, NoResult, Terminal, Idle
<1>2. ASSUME NEW a \in Agents, NEW r \in RoundResults, RunRound(a, r) PROVE AnswerInv'
  BY <1>2, AnswerInvRunRound
<1>3. ASSUME NEW a \in Agents, AgentRaises(a) PROVE AnswerInv'
  BY <1>3 DEF AgentRaises, AnswerInv, Pending, AnswersConclusively
<1>4. ASSUME NEW a \in Agents, ResetRetryCounts(a) PROVE AnswerInv'
  BY <1>4 DEF ResetRetryCounts, AnswerInv, Pending, AnswersConclusively
<1>5. CASE UNCHANGED vars
  BY <1>5 DEF vars, AnswerInv, Pending, AnswersConclusively
<1> QED
  BY <1>1, <1>2, <1>3, <1>4, <1>5 DEF Next, Round

\* No invocation of an agent ends with "continue", which its callers would take
\* for success, and one ends with "retry" only when the budget is spent.
THEOREM ConclusiveAnswers == Spec => []AnswersConclusively
<1>1. Init => AnswerInv
  BY DEF Init, AnswerInv, Pending, AnswersConclusively, NoResult
<1>2. AnswerInv => AnswersConclusively
  BY DEF AnswerInv
<1> QED
  BY <1>1, <1>2, AnswerInvStep, LoopInvariant, PTL DEF Spec

-----------------------------------------------------------------------------
(* The journal: ids are unique, rounds are numbered without a gap within the *)
(* budget, and the checkpoints are the journal's rounds.                      *)

JournalInv ==
    /\ EventIdsUnique /\ RoundsInBudget
    /\ HasCheckpoints => RoundsFollow /\ CheckpointsMatchJournal /\ NeverDuplicates

HInv == LoopInv /\ AnswerInv /\ JournalInv

\* What Append does to the journal, position by position.
LEMMA AppendedJournal ==
    ASSUME journal \in Seq(Event), NEW e, journal' = Append(journal, e)
    PROVE  /\ Len(journal) \in Nat
           /\ DOMAIN journal = 1..Len(journal)
           /\ DOMAIN journal' = 1..(Len(journal) + 1)
           /\ \A i \in 1..Len(journal) : journal'[i] = journal[i]
           /\ journal'[Len(journal) + 1] = e
OBVIOUS

LEMMA JournalInvInit == Init => JournalInv
<1> SUFFICES ASSUME Init PROVE JournalInv
  OBVIOUS
<1>1. DOMAIN journal = {}
  BY DEF Init
<1>2. EventIdsUnique /\ RoundsInBudget /\ RoundsFollow
  BY <1>1 DEF EventIdsUnique, RoundsInBudget, RoundsFollow
<1>3. CheckpointsMatchJournal
  BY <1>1 DEF Init, CheckpointsMatchJournal, RoundsOf
<1>4. NeverDuplicates
  BY DEF Init, NoResult, NeverDuplicates
<1> QED
  BY <1>2, <1>3, <1>4 DEF JournalInv

\* A round appended right after the rounds 1..n-1 of its agent.
LEMMA JournalInvAppend ==
    ASSUME HInv, NEW a \in Agents, NEW n \in 1..MaxRounds[a], NEW e,
           e.agent = a, e.round = n, ~Journalled(a, n),
           HasCheckpoints => checkpoints[a] = 1..(n - 1),
           journal' = Append(journal, e),
           checkpoints' = IF HasCheckpoints
                          THEN [checkpoints EXCEPT ![a] = @ \cup {n}] ELSE checkpoints,
           result'.decision # "duplicate_event"
    PROVE  JournalInv'
<1> DEFINE L == Len(journal)
<1>1. /\ L \in Nat /\ DOMAIN journal = 1..L /\ DOMAIN journal' = 1..(L + 1)
      /\ \A i \in 1..L : journal'[i] = journal[i]
      /\ journal'[L + 1] = e
  BY AppendedJournal DEF HInv, LoopInv, TypeOK
<1>2. n \in Nat
  BY BudgetAssumption
<1> HIDE DEF L
<1>3. \A i \in 1..(L + 1) : i \in 1..L \/ i = L + 1
  BY <1>1
<1>4. \A i \in 1..L : ~(journal[i].agent = a /\ journal[i].round = n)
  BY <1>1 DEF Journalled
<1>5. EventIdsUnique'
  <2>1. \A i, j \in 1..L : journal[i].agent = journal[j].agent
                          /\ journal[i].round = journal[j].round => i = j
    BY <1>1 DEF HInv, JournalInv, EventIdsUnique
  <2>2. SUFFICES ASSUME NEW i \in 1..(L + 1), NEW j \in 1..(L + 1),
                        journal'[i].agent = journal'[j].agent,
                        journal'[i].round = journal'[j].round
                 PROVE  i = j
    BY <1>1 DEF EventIdsUnique
  <2>3. CASE i \in 1..L /\ j \in 1..L
    BY <1>1, <2>1, <2>2, <2>3
  <2>4. CASE i = L + 1 /\ j \in 1..L
    BY <1>1, <1>4, <2>2, <2>4
  <2>5. CASE j = L + 1 /\ i \in 1..L
    BY <1>1, <1>4, <2>2, <2>5
  <2> QED
    BY <1>3, <2>3, <2>4, <2>5
<1>6. RoundsInBudget'
  <2>1. \A i \in 1..L : journal[i].round \in 1..MaxRounds[journal[i].agent]
    BY <1>1 DEF HInv, JournalInv, RoundsInBudget
  <2>2. \A i \in 1..(L + 1) : journal'[i].round \in 1..MaxRounds[journal'[i].agent]
    BY <1>1, <1>3, <2>1
  <2> QED
    BY <1>1, <2>2 DEF RoundsInBudget
<1>7. ASSUME HasCheckpoints PROVE CheckpointsMatchJournal'
  <2>1. \A b \in Agents : checkpoints[b] = {journal[i].round :
                             i \in {k \in 1..L : journal[k].agent = b}}
    BY <1>1, <1>7 DEF HInv, JournalInv, CheckpointsMatchJournal, RoundsOf
  <2>2. checkpoints \in [Agents -> SUBSET Nat]
    BY DEF HInv, LoopInv, TypeOK
  <2>3. ASSUME NEW b \in Agents
        PROVE  checkpoints'[b] = {journal'[i].round :
                                   i \in {k \in 1..(L + 1) : journal'[k].agent = b}}
    <3>1. CASE b = a
      <4>1. checkpoints'[b] = checkpoints[b] \cup {n}
        BY <1>7, <2>2, <3>1
      <4>2. {journal'[i].round : i \in {k \in 1..(L + 1) : journal'[k].agent = b}}
            = {journal[i].round : i \in {k \in 1..L : journal[k].agent = b}} \cup {n}
        BY <1>1, <1>3, <3>1
      <4> QED
        BY <2>1, <4>1, <4>2
    <3>2. CASE b # a
      <4>1. checkpoints'[b] = checkpoints[b]
        BY <1>7, <2>2, <3>2
      <4>2. {journal'[i].round : i \in {k \in 1..(L + 1) : journal'[k].agent = b}}
            = {journal[i].round : i \in {k \in 1..L : journal[k].agent = b}}
        BY <1>1, <1>3, <3>2
      <4> QED
        BY <2>1, <4>1, <4>2
    <3> QED
      BY <3>1, <3>2
  <2> QED
    BY <1>1, <2>3 DEF CheckpointsMatchJournal, RoundsOf
<1>8. ASSUME HasCheckpoints PROVE RoundsFollow'
  <2>1. \A i \in 1..L : \A m \in 1..(journal[i].round - 1) :
          \E j \in 1..(i - 1) : journal[j].agent = journal[i].agent /\ journal[j].round = m
    BY <1>1, <1>8 DEF HInv, JournalInv, RoundsFollow
  <2>2. \A m \in 1..(n - 1) : \E j \in 1..L : journal[j].agent = a /\ journal[j].round = m
    <3>1. 1..(n - 1) = {journal[i].round : i \in {k \in 1..L : journal[k].agent = a}}
      BY <1>1, <1>8 DEF HInv, JournalInv, CheckpointsMatchJournal, RoundsOf
    <3> QED
      BY <3>1
  <2>3. SUFFICES ASSUME NEW i \in 1..(L + 1), NEW m \in 1..(journal'[i].round - 1)
                 PROVE  \E j \in 1..(i - 1) : journal'[j].agent = journal'[i].agent
                                           /\ journal'[j].round = m
    BY <1>1 DEF RoundsFollow
  <2>4. CASE i \in 1..L
    <3>1. PICK j \in 1..(i - 1) : journal[j].agent = journal[i].agent /\ journal[j].round = m
      BY <1>1, <2>1, <2>4
    <3>2. j \in 1..L
      BY <1>1, <2>4
    <3> QED
      BY <1>1, <2>4, <3>1, <3>2
  <2>5. CASE i = L + 1
    <3>1. m \in 1..(n - 1)
      BY <1>1, <2>5
    <3>2. PICK j \in 1..L : journal[j].agent = a /\ journal[j].round = m
      BY <2>2, <3>1
    <3>3. j \in 1..(i - 1)
      BY <1>1, <2>5
    <3> QED
      BY <1>1, <2>5, <3>2, <3>3
  <2> QED
    BY <1>3, <2>4, <2>5
<1> QED
  BY <1>5, <1>6, <1>7, <1>8 DEF JournalInv, NeverDuplicates

LEMMA JournalInvRunRound ==
    ASSUME HInv, NEW a \in Agents, NEW r \in RoundResults, RunRound(a, r)
    PROVE  JournalInv'
<1> DEFINE n == call.round
           d == Decide(a, r, n = MaxRounds[a])
           x == Exhausted(a, r, n = MaxRounds[a])
           e == RoundEvent(a, n, r, d, x)
<1>1. Record(a, n, r, d, x) /\ call.agent = a
  BY DEF RunRound
<1>2. n \in 1..MaxRounds[a]
  BY <1>1, AgentsAssumption DEF HInv, LoopInv, InLoop, Idle
<1>3. HasCheckpoints => checkpoints[a] = 1..(n - 1)
  <2>1. PICK k \in 0..MaxRounds[a] : SavedUpTo(a, k)
    BY DEF HInv, LoopInv, Contiguous
  <2>2. k \in Nat /\ (HasCheckpoints => n = k + 1) /\ checkpoints[a] = 1..k
    BY <1>1, <2>1, BudgetAssumption DEF SavedUpTo
  <2> QED
    BY <2>2
<1>4. e.agent = a /\ e.round = n
  BY DEF RoundEvent
<1>5. d # "duplicate_event"
  BY DecideType DEF Decisions
<1>6. CASE ~Journalled(a, n)
  <2>1. /\ journal' = Append(journal, e)
        /\ checkpoints' = IF HasCheckpoints
                          THEN [checkpoints EXCEPT ![a] = @ \cup {n}] ELSE checkpoints
    BY <1>1, <1>6 DEF Record
  <2>2. result'.decision # "duplicate_event"
    <3>1. result' = result \/ result' = [agent |-> a, decision |-> d, rounds |-> n]
      BY <1>1, <1>6 DEF Record
    <3>2. result.decision = "none"
      BY <1>1, AgentsAssumption DEF HInv, AnswerInv, Pending, Idle, NoResult
    <3> QED
      BY <1>5, <3>1, <3>2
  <2> HIDE DEF n, d, x, e
  <2> QED
    BY <1>2, <1>3, <1>4, <1>6, <2>1, <2>2, JournalInvAppend
<1>7. CASE Journalled(a, n)
  <2>1. UNCHANGED <<journal, checkpoints>>
    BY <1>1, <1>7 DEF Record
  <2>2. ~HasCheckpoints
    <3>1. SUFFICES ASSUME HasCheckpoints PROVE FALSE
      OBVIOUS
    <3>2. n \in RoundsOf(a)
      BY <1>7 DEF Journalled, RoundsOf
    <3>3. n \in 1..(n - 1) /\ n \in Nat
      BY <1>2, <1>3, <3>1, <3>2, BudgetAssumption DEF HInv, JournalInv, CheckpointsMatchJournal
    <3> QED
      BY <3>3
  <2> QED
    BY <2>1, <2>2 DEF HInv, JournalInv, EventIdsUnique, RoundsInBudget
<1> QED
  BY <1>6, <1>7

\* A step that does not end with a duplicate event and leaves the stores alone.
LEMMA JournalInvOther ==
    ASSUME JournalInv, UNCHANGED <<journal, checkpoints>>,
           result' = result \/ result'.decision # "duplicate_event"
    PROVE  JournalInv'
BY DEF JournalInv, EventIdsUnique, RoundsInBudget, RoundsFollow, CheckpointsMatchJournal,
       RoundsOf, NeverDuplicates

LEMMA HInvStep == HInv /\ [Next]_vars => HInv'
<1> SUFFICES ASSUME HInv, [Next]_vars PROVE JournalInv'
  BY LoopInvStep, AnswerInvStep DEF HInv
<1>1. ASSUME NEW a \in Agents, RunAgent(a) PROVE JournalInv'
  <2>1. result'.decision # "duplicate_event"
    BY <1>1 DEF RunAgent, NoResult
  <2> QED
    BY <1>1, <2>1, JournalInvOther DEF RunAgent, HInv
<1>2. ASSUME NEW a \in Agents, NEW r \in RoundResults, RunRound(a, r) PROVE JournalInv'
  BY <1>2, JournalInvRunRound
<1>3. ASSUME NEW a \in Agents, AgentRaises(a) PROVE JournalInv'
  <2>1. result'.decision # "duplicate_event"
    BY <1>3 DEF AgentRaises
  <2> QED
    BY <1>3, <2>1, JournalInvOther DEF AgentRaises, HInv
<1>4. ASSUME NEW a \in Agents, ResetRetryCounts(a) PROVE JournalInv'
  BY <1>4, JournalInvOther DEF ResetRetryCounts, HInv
<1>5. CASE UNCHANGED vars
  BY <1>5, JournalInvOther DEF vars, HInv
<1> QED
  BY <1>1, <1>2, <1>3, <1>4, <1>5 DEF Next, Round

THEOREM HarnessInvariant == Spec => []HInv
<1>1. Init => HInv
  BY LoopInvInit, JournalInvInit
     DEF HInv, Init, AnswerInv, Pending, AnswersConclusively, NoResult
<1> QED
  BY <1>1, HInvStep, PTL DEF Spec

\* The journal never holds an event id twice, with or without checkpoints.
THEOREM JournalIdsUnique == Spec => []EventIdsUnique
<1>1. HInv => EventIdsUnique
  BY DEF HInv, JournalInv
<1> QED
  BY <1>1, HarnessInvariant, PTL

\* With a checkpoint store the journal of every agent is numbered 1, 2, 3, ... in
\* the order of its events and within the agent's budget, over all invocations.
THEOREM JournalIsReplayable == HasCheckpoints => (Spec => []JournalReplays)
<1>1. SUFFICES ASSUME HasCheckpoints PROVE Spec => []JournalReplays
  OBVIOUS
<1>2. HInv => JournalReplays
  BY <1>1 DEF HInv, JournalInv, JournalReplays
<1> QED
  BY <1>2, HarnessInvariant, PTL

\* With a checkpoint store no invocation collides with a journalled round, and
\* the checkpoints stay the journal's rounds.
THEOREM ReinvocationIsSafe ==
    HasCheckpoints => (Spec => [](NeverDuplicates /\ CheckpointsMatchJournal))
<1>1. SUFFICES ASSUME HasCheckpoints
               PROVE  Spec => [](NeverDuplicates /\ CheckpointsMatchJournal)
  OBVIOUS
<1>2. HInv => NeverDuplicates /\ CheckpointsMatchJournal
  BY <1>1 DEF HInv, JournalInv
<1> QED
  BY <1>2, HarnessInvariant, PTL

-----------------------------------------------------------------------------
(* The harness implements RoundBudget, step by step *)

LEMMA CardinalityOfInterval == ASSUME NEW k \in Nat PROVE Cardinality(1..k) = k
<1>1. Cardinality(1..k) = IF 1 > k THEN 0 ELSE k - 1 + 1
  BY FS_Interval
<1> QED
  BY <1>1

\* The rounds an agent has spent are those of its events.
LEMMA UsedValue ==
    ASSUME HInv, HasCheckpoints, NEW a \in Agents
    PROVE  \E k \in 0..MaxRounds[a] :
              /\ checkpoints[a] = 1..k /\ RoundsOf(a) = 1..k
              /\ Cardinality(RoundsOf(a)) = k
              /\ (call.agent = a => call.round = k + 1)
<1>1. PICK k \in 0..MaxRounds[a] : SavedUpTo(a, k)
  BY DEF HInv, LoopInv, Contiguous
<1>2. checkpoints[a] = RoundsOf(a)
  BY DEF HInv, JournalInv, CheckpointsMatchJournal
<1>3. k \in Nat
  BY BudgetAssumption
<1>4. Cardinality(1..k) = k
  BY <1>3, CardinalityOfInterval
<1> QED
  BY <1>1, <1>2, <1>4 DEF SavedUpTo

LEMMA BudgetRunAgent ==
    ASSUME HInv, HasCheckpoints, NEW a \in Agents, RunAgent(a)
    PROVE  Budget!Begin(a) \/ Budget!Refuse(a)
<1>1. PICK k \in 0..MaxRounds[a] : checkpoints[a] = 1..k /\ Cardinality(RoundsOf(a)) = k
  BY UsedValue
<1>2. StartRound(a) = k + 1 /\ k \in Nat /\ MaxRounds[a] \in Nat
  BY <1>1, StartRoundValue, BudgetAssumption
<1>3. [b \in Agents |-> Cardinality(RoundsOf(b))]' = [b \in Agents |-> Cardinality(RoundsOf(b))]
  BY DEF RunAgent, RoundsOf
<1>4. call.agent = NoAgent
  BY DEF RunAgent, Idle
<1>5. CASE StartRound(a) > MaxRounds[a]
  <2>1. k = MaxRounds[a]
    BY <1>2, <1>5
  <2>2. result'.decision = "abort" /\ call' = call
    BY <1>5 DEF RunAgent
  <2> QED
    BY <1>1, <1>3, <1>4, <2>1, <2>2 DEF Budget!Refuse
<1>6. CASE ~(StartRound(a) > MaxRounds[a])
  <2>1. k < MaxRounds[a]
    BY <1>2, <1>6
  <2>2. result'.decision = "none" /\ call'.agent = a
    BY <1>6 DEF RunAgent, NoResult
  <2> QED
    BY <1>1, <1>3, <1>4, <2>1, <2>2 DEF Budget!Begin
<1> QED
  BY <1>5, <1>6

\* A recorded round spends one round of its agent and none of the others.
LEMMA RoundSpent ==
    ASSUME HInv, HInv', HasCheckpoints, NEW a \in Agents, NEW n, n = call.round,
           call.agent = a, NEW e, e.agent = a, e.round = n, journal' = Append(journal, e)
    PROVE  /\ [b \in Agents |-> Cardinality(RoundsOf(b))]'
              = [[b \in Agents |-> Cardinality(RoundsOf(b))] EXCEPT ![a] = @ + 1]
           /\ n \in 1..MaxRounds[a]
           /\ Cardinality(RoundsOf(a)) = n - 1
<1> DEFINE L == Len(journal)
<1>1. /\ L \in Nat /\ DOMAIN journal = 1..L /\ DOMAIN journal' = 1..(L + 1)
      /\ \A i \in 1..L : journal'[i] = journal[i]
      /\ journal'[L + 1] = e
  BY AppendedJournal DEF HInv, LoopInv, TypeOK
<1> HIDE DEF L
<1>2. \A i \in 1..(L + 1) : i \in 1..L \/ i = L + 1
  BY <1>1
<1>3. n \in 1..MaxRounds[a]
  BY AgentsAssumption DEF HInv, LoopInv, InLoop, Idle
<1>4. PICK k \in 0..MaxRounds[a] : RoundsOf(a) = 1..k /\ Cardinality(RoundsOf(a)) = k /\ n = k + 1
  BY UsedValue
<1>5. k \in Nat /\ n \in Nat
  BY <1>4, BudgetAssumption
<1>6. RoundsOf(a)' = 1..n
  <2>1. RoundsOf(a)' = RoundsOf(a) \cup {n}
    BY <1>1, <1>2 DEF RoundsOf
  <2> QED
    BY <1>4, <1>5, <2>1
<1>7. Cardinality(RoundsOf(a)') = n
  BY <1>5, <1>6, CardinalityOfInterval
<1>8. ASSUME NEW b \in Agents, b # a PROVE RoundsOf(b)' = RoundsOf(b)
  BY <1>1, <1>2, <1>8 DEF RoundsOf
<1>9. \A b \in Agents : Cardinality(RoundsOf(b))' =
                        IF b = a THEN Cardinality(RoundsOf(a)) + 1 ELSE Cardinality(RoundsOf(b))
  BY <1>4, <1>7, <1>8
<1>10. [b \in Agents |-> Cardinality(RoundsOf(b))]'
       = [b \in Agents |-> IF b = a THEN Cardinality(RoundsOf(a)) + 1
                                   ELSE Cardinality(RoundsOf(b))]
  BY <1>9
<1>11. Cardinality(RoundsOf(a)) = n - 1
  BY <1>4, <1>5
<1>12. [[b \in Agents |-> Cardinality(RoundsOf(b))] EXCEPT ![a] = @ + 1]
       = [b \in Agents |-> IF b = a THEN Cardinality(RoundsOf(a)) + 1
                                   ELSE Cardinality(RoundsOf(b))]
  OBVIOUS
<1> QED
  BY <1>3, <1>10, <1>11, <1>12

LEMMA BudgetRunRound ==
    ASSUME HInv, HInv', HasCheckpoints, NEW a \in Agents, NEW r \in RoundResults, RunRound(a, r)
    PROVE  Budget!Step(a)
<1> DEFINE n == call.round
           d == Decide(a, r, n = MaxRounds[a])
           x == Exhausted(a, r, n = MaxRounds[a])
           e == RoundEvent(a, n, r, d, x)
<1>1. Record(a, n, r, d, x) /\ call.agent = a
  BY DEF RunRound
<1>2. ~Journalled(a, n)
  <2>1. SUFFICES ASSUME Journalled(a, n) PROVE FALSE
    OBVIOUS
  <2>2. result'.decision = "duplicate_event"
    BY <1>1, <2>1 DEF Record
  <2> QED
    BY <2>2 DEF HInv, JournalInv, NeverDuplicates
<1>3. journal' = Append(journal, e) /\ e.agent = a /\ e.round = n
  BY <1>1, <1>2 DEF Record, RoundEvent
<1>4. d \in Decisions /\ (n = MaxRounds[a] => d \in Terminal \cup {"retry"})
  BY DecideType, FinalRoundDecides
<1> HIDE DEF d, x, e
<1>5. /\ [b \in Agents |-> Cardinality(RoundsOf(b))]'
         = [[b \in Agents |-> Cardinality(RoundsOf(b))] EXCEPT ![a] = @ + 1]
      /\ n \in 1..MaxRounds[a] /\ Cardinality(RoundsOf(a)) = n - 1
  BY <1>1, <1>3, RoundSpent
<1>6. n \in Nat /\ MaxRounds[a] \in Nat
  BY <1>5, BudgetAssumption
<1>7. CASE d \in Terminal \/ n = MaxRounds[a]
  <2>1. call'.agent = NoAgent /\ result'.decision = d
    BY <1>1, <1>2, <1>7 DEF Record, Idle
  <2>2. d \in {"stop", "rework", "abort"} \/ (n = MaxRounds[a] /\ d = "retry")
    BY <1>4, <1>7 DEF Terminal
  <2>3. [b \in Agents |-> Cardinality(RoundsOf(b))]'[a] = n
    BY <1>5, <1>6
  <2> HIDE DEF n
  <2>4. Budget!Finish(a)
    BY <1>1, <1>5, <1>6, <2>1, <2>2, <2>3 DEF Budget!Finish, Budget!Conclusive
  <2> QED
    BY <2>4 DEF Budget!Step
<1>8. CASE ~(d \in Terminal \/ n = MaxRounds[a])
  <2>1. call' = [call EXCEPT !.round = n + 1] /\ result' = result
    BY <1>1, <1>2, <1>8 DEF Record
  <2>2. call'.agent = call.agent
    BY <2>1 DEF HInv, LoopInv, TypeOK
  <2> HIDE DEF n
  <2>3. Budget!Spend(a)
    BY <1>1, <1>5, <1>6, <1>8, <2>1, <2>2 DEF Budget!Spend
  <2> QED
    BY <2>3 DEF Budget!Step
<1> QED
  BY <1>7, <1>8

LEMMA BudgetStep == HasCheckpoints /\ HInv /\ HInv' /\ [Next]_vars => [Budget!Next]_(Budget!vars)
<1> SUFFICES ASSUME HasCheckpoints, HInv, HInv', [Next]_vars PROVE [Budget!Next]_(Budget!vars)
  OBVIOUS
<1>1. ASSUME NEW a \in Agents, RunAgent(a) PROVE Budget!Next
  BY <1>1, BudgetRunAgent DEF Budget!Next
<1>2. ASSUME NEW a \in Agents, NEW r \in RoundResults, RunRound(a, r) PROVE Budget!Next
  BY <1>2, BudgetRunRound DEF Budget!Next
<1>3. ASSUME NEW a \in Agents, AgentRaises(a) PROVE Budget!Next
  <2>1. [b \in Agents |-> Cardinality(RoundsOf(b))]' = [b \in Agents |-> Cardinality(RoundsOf(b))]
    BY <1>3 DEF AgentRaises, RoundsOf
  <2>2. Budget!Raise(a)
    BY <1>3, <2>1 DEF AgentRaises, Idle, Budget!Raise
  <2> QED
    BY <2>2 DEF Budget!Next, Budget!Step
<1>4. ASSUME NEW a \in Agents, ResetRetryCounts(a) PROVE UNCHANGED Budget!vars
  BY <1>4 DEF ResetRetryCounts, RoundsOf, Budget!vars
<1>5. CASE UNCHANGED vars
  BY <1>5 DEF vars, RoundsOf, Budget!vars
<1> QED
  BY <1>1, <1>2, <1>3, <1>4, <1>5 DEF Next, Round

\* With a checkpoint store every step of the harness is a step of RoundBudget or
\* leaves its variables alone: an agent's budget covers all its invocations.
THEOREM HarnessImplementsBudget ==
    HasCheckpoints => (Spec => Budget!Init /\ [][Budget!Next]_(Budget!vars))
<1>1. SUFFICES ASSUME HasCheckpoints
               PROVE  Spec => Budget!Init /\ [][Budget!Next]_(Budget!vars)
  OBVIOUS
<1>2. Init => Budget!Init
  <2>1. SUFFICES ASSUME Init PROVE Budget!Init
    OBVIOUS
  <2>2. DOMAIN journal = {}
    BY <2>1 DEF Init
  <2>3. \A a \in Agents : Cardinality(RoundsOf(a)) = 0
    BY <2>2, FS_EmptySet DEF RoundsOf
  <2>4. [a \in Agents |-> Cardinality(RoundsOf(a))] = [a \in Agents |-> 0]
    BY <2>3
  <2>5. call.agent = NoAgent /\ result.decision = "none"
    BY <2>1 DEF Init, Idle, NoResult
  <2> QED
    BY <2>4, <2>5 DEF Budget!Init
<1>3. HInv /\ HInv' /\ [Next]_vars => [Budget!Next]_(Budget!vars)
  BY <1>1, BudgetStep
<1> QED
  BY <1>2, <1>3, HarnessInvariant, PTL DEF Spec

-----------------------------------------------------------------------------
(***************************************************************************)
(* The two limits of the harness that count over rounds and invocations,   *)
(* retries and repeated calls.                                             *)
(*                                                                         *)
(* Neither is inductive: the counters go on when a limit has been reached, *)
(* and so say more than what was granted.  Each proof relates the journal  *)
(* to the counters, as long as they are below their limit.                 *)
(***************************************************************************)

(* Retries: what the journal shows of a reason since the last reset was    *)
(* granted, and a reason grants no more than its limit.                    *)

Granted(count) == IF count <= MaxRetries THEN count ELSE MaxRetries

RetryInv ==
    \A a \in Agents, reason \in Reasons :
        Cardinality(Retried(a, reason)) <= Granted(retryCounts[a][reason])

LEMMA GrantedFacts ==
    /\ \A n \in Nat : Granted(n) \in Nat /\ Granted(n) <= MaxRetries
                      /\ Granted(n) <= Granted(n + 1)
    /\ \A n \in Nat : n + 1 <= MaxRetries => Granted(n + 1) = Granted(n) + 1
BY LimitsAssumption DEF Granted

LEMMA CountsOfReasons ==
    ASSUME TypeOK, NEW a \in Agents, NEW reason \in Reasons
    PROVE  /\ retryCounts[a][reason] \in Nat
           /\ Granted(retryCounts[a][reason]) \in Nat
           /\ resetAt[a] \in Nat /\ Len(journal) \in Nat
<1>1. retryCounts[a][reason] \in Nat
  BY DEF TypeOK
<1>2. resetAt[a] \in Nat /\ Len(journal) \in Nat
  BY DEF TypeOK
<1>3. Granted(retryCounts[a][reason]) \in Nat
  BY <1>1, GrantedFacts
<1> QED
  BY <1>1, <1>2, <1>3

LEMMA OneMore ==
    ASSUME NEW S, NEW x, IsFiniteSet(S)
    PROVE  /\ IsFiniteSet(S \cup {x})
           /\ Cardinality(S) \in Nat /\ Cardinality(S \cup {x}) \in Nat
           /\ Cardinality(S \cup {x}) <= Cardinality(S) + 1
<1>1. Cardinality(S) \in Nat /\ IsFiniteSet(S \cup {x})
  BY FS_CardinalityType, FS_AddElement
<1>2. \/ Cardinality(S \cup {x}) = Cardinality(S)
      \/ Cardinality(S \cup {x}) = Cardinality(S) + 1
  BY FS_AddElement
<1> QED
  BY <1>1, <1>2

LEMMA UnionBound ==
    ASSUME NEW S, NEW T, NEW U, IsFiniteSet(S), IsFiniteSet(T), U \subseteq S \cup T
    PROVE  Cardinality(U) \in Nat /\ Cardinality(U) <= Cardinality(S) + Cardinality(T)
<1>1. IsFiniteSet(S \cup T) /\ IsFiniteSet(S \cap T)
  BY FS_Union, FS_Intersection
<1>2. /\ Cardinality(S \cup T) = Cardinality(S) + Cardinality(T) - Cardinality(S \cap T)
      /\ Cardinality(S) \in Nat /\ Cardinality(T) \in Nat /\ Cardinality(S \cap T) \in Nat
      /\ Cardinality(S \cup T) \in Nat
  BY <1>1, FS_Union, FS_CardinalityType
<1>3. IsFiniteSet(U) /\ Cardinality(U) <= Cardinality(S \cup T)
  BY <1>1, FS_Subset
<1>4. Cardinality(U) \in Nat
  BY <1>3, FS_CardinalityType
<1> QED
  BY <1>2, <1>3, <1>4

LEMMA RetriedIsFinite ==
    ASSUME TypeOK, NEW a \in Agents, NEW reason \in Reasons
    PROVE  IsFiniteSet(Retried(a, reason)) /\ Cardinality(Retried(a, reason)) \in Nat
<1>1. IsFiniteSet((resetAt[a] + 1)..Len(journal))
  BY CountsOfReasons, FS_Interval
<1>2. Retried(a, reason) \in SUBSET ((resetAt[a] + 1)..Len(journal))
  BY DEF Retried
<1> QED
  BY <1>1, <1>2, FS_Subset, FS_CardinalityType

\* What a round adds to the journal, if anything.
LEMMA JournalOfRound ==
    ASSUME TypeOK, NEW a \in Agents, NEW r \in RoundResults, RunRound(a, r)
    PROVE  \E e \in Event :
               /\ e.agent = a
               /\ e.decision = Decide(a, r, call.round = MaxRounds[a])
               /\ e.calls = r.calls
               /\ e.exhausted = Exhausted(a, r, call.round = MaxRounds[a])
               /\ e.decision = "retry" => e.reason = RetryReason(r)
               /\ journal' = journal \/ journal' = Append(journal, e)
<1> DEFINE d == Decide(a, r, call.round = MaxRounds[a])
           x == Exhausted(a, r, call.round = MaxRounds[a])
           e == RoundEvent(a, call.round, r, d, x)
<1>1. journal' = journal \/ journal' = Append(journal, e)
  BY DEF RunRound, Record
<1>2. d \in Decisions /\ x \in BOOLEAN /\ call.round \in Nat
  BY DecideType DEF Exhausted, TypeOK
<1> HIDE DEF d, x
<1>3. /\ e \in Event /\ e.agent = a /\ e.decision = d /\ e.calls = r.calls
      /\ e.exhausted = x /\ (d = "retry" => e.reason = RetryReason(r))
  BY <1>2, RoundEventFacts
<1> QED
  BY <1>1, <1>3 DEF d, x

\* A round is only answered with a retry that is still to be had.
LEMMA RetryIsGranted ==
    ASSUME TypeOK, NEW a \in Agents, NEW r \in RoundResults, NEW final \in BOOLEAN,
           Decide(a, r, final) = "retry"
    PROVE  /\ ConsumesRetry(a, r, final)
           /\ RetryReason(r) \in Reasons
           /\ retryCounts[a][RetryReason(r)] + 1 <= MaxRetries
<1>1. ConsumesRetry(a, r, final) /\ ~Exhausted(a, r, final)
  BY DEF Decide
<1>2. RetryReason(r) \in Reasons
  BY DEF RetryReason, Reasons
<1>3. retryCounts[a][RetryReason(r)] \in Nat
  BY <1>2 DEF TypeOK
<1> QED
  BY <1>1, <1>2, <1>3, LimitsAssumption DEF Exhausted

\* A round leaves every count as it is, but for that of the reason it is retried for,
\* which is one higher and was below the limit.
LEMMA CountingRetries ==
    ASSUME TypeOK, NEW a \in Agents, NEW r \in RoundResults, RunRound(a, r),
           NEW b \in Agents, NEW reason \in Reasons
    PROVE  LET final == call.round = MaxRounds[a]
               before == Granted(retryCounts[b][reason])
               after  == Granted(retryCounts'[b][reason])
           IN  /\ before \in Nat /\ after \in Nat /\ before <= after
               /\ b = a /\ reason = RetryReason(r) /\ Decide(a, r, final) = "retry" =>
                      after = before + 1
<1> DEFINE final == call.round = MaxRounds[a]
           k == RetryReason(r)
<1>1. k \in Reasons
  BY DEF RetryReason, Reasons
<1>2. retryCounts[b][reason] \in Nat /\ retryCounts \in [Agents -> [Reasons -> Nat]]
  BY DEF TypeOK
<1>3. retryCounts' = IF ConsumesRetry(a, r, final)
                     THEN [retryCounts EXCEPT ![a][k] = @ + 1] ELSE retryCounts
  BY DEF RunRound
<1>4. Decide(a, r, final) = "retry" =>
         ConsumesRetry(a, r, final) /\ retryCounts[a][k] + 1 <= MaxRetries
  BY RetryIsGranted
<1> HIDE DEF k
<1>5. CASE b = a /\ reason = k /\ ConsumesRetry(a, r, final)
  <2>1. retryCounts'[b][reason] = retryCounts[b][reason] + 1
    BY <1>1, <1>2, <1>3, <1>5
  <2> QED
    BY <1>2, <1>4, <1>5, <2>1, GrantedFacts DEF k
<1>6. CASE ~(b = a /\ reason = k /\ ConsumesRetry(a, r, final))
  <2>1. retryCounts'[b][reason] = retryCounts[b][reason]
    BY <1>1, <1>2, <1>3, <1>6
  <2> QED
    BY <1>2, <1>4, <1>6, <2>1, GrantedFacts DEF k
<1> QED
  BY <1>5, <1>6

LEMMA RetryInvRunRound ==
    ASSUME TypeOK, RetryInv, NEW a \in Agents, NEW r \in RoundResults, RunRound(a, r)
    PROVE  RetryInv'
<1> DEFINE final == call.round = MaxRounds[a]
           d == Decide(a, r, final)
<1> SUFFICES ASSUME NEW b \in Agents, NEW reason \in Reasons
             PROVE  Cardinality(Retried(b, reason)') <= Granted(retryCounts'[b][reason])
  BY DEF RetryInv
<1> DEFINE R      == Retried(b, reason)
           before == Granted(retryCounts[b][reason])
           after  == Granted(retryCounts'[b][reason])
<1>1. resetAt' = resetAt /\ journal \in Seq(Event) /\ Len(journal) \in Nat /\ resetAt[b] \in Nat
  BY DEF RunRound, TypeOK
<1>2. IsFiniteSet(R) /\ Cardinality(R) \in Nat /\ Cardinality(R) <= before
  BY RetriedIsFinite DEF RetryInv
<1>3. /\ before \in Nat /\ after \in Nat /\ before <= after
      /\ b = a /\ reason = RetryReason(r) /\ d = "retry" => after = before + 1
  BY CountingRetries
<1>4. PICK e : /\ e.agent = a /\ e.decision = d
               /\ e.decision = "retry" => e.reason = RetryReason(r)
               /\ journal' = journal \/ journal' = Append(journal, e)
  BY JournalOfRound
<1> HIDE DEF d, before, after
<1>5. CASE b = a /\ reason = RetryReason(r) /\ d = "retry"
  <2> DEFINE T == R \cup {Len(journal) + 1}
  <2>1. R' \in SUBSET T
    BY <1>1, <1>4 DEF Retried
  <2> HIDE DEF R
  <2>2. IsFiniteSet(T) /\ Cardinality(T) \in Nat /\ Cardinality(T) <= Cardinality(R) + 1
    BY <1>2, OneMore
  <2> HIDE DEF T
  <2>3. Cardinality(R') <= Cardinality(T) /\ Cardinality(R') \in Nat
    BY <2>1, <2>2, FS_Subset, FS_CardinalityType
  <2> QED
    BY <1>2, <1>3, <1>5, <2>2, <2>3 DEF R, after
<1>6. CASE ~(b = a /\ reason = RetryReason(r) /\ d = "retry")
  <2>1. R' \in SUBSET R
    BY <1>1, <1>4, <1>6 DEF Retried
  <2> HIDE DEF R
  <2>2. Cardinality(R') <= Cardinality(R) /\ Cardinality(R') \in Nat
    BY <1>2, <2>1, FS_Subset, FS_CardinalityType
  <2> QED
    BY <1>2, <1>3, <2>2 DEF R, after
<1> QED
  BY <1>5, <1>6

LEMMA RetryInvReset ==
    ASSUME TypeOK, RetryInv, NEW a \in Agents, ResetRetryCounts(a)
    PROVE  RetryInv'
<1> SUFFICES ASSUME NEW b \in Agents, NEW reason \in Reasons
             PROVE  Cardinality(Retried(b, reason)') <= Granted(retryCounts'[b][reason])
  BY DEF RetryInv
<1>1. CASE b = a
  <2>1. Retried(b, reason)' = {}
    <3>1. resetAt'[a] = Len(journal) /\ journal' = journal /\ Len(journal) \in Nat
      BY DEF ResetRetryCounts, TypeOK
    <3> QED
      BY <1>1, <3>1 DEF Retried
  <2>2. retryCounts'[a][reason] = 0
    BY DEF ResetRetryCounts, TypeOK
  <2>3. Granted(0) \in Nat
    BY GrantedFacts
  <2> QED
    BY <1>1, <2>1, <2>2, <2>3, FS_EmptySet
<1>2. CASE b # a
  <2>1. /\ resetAt'[b] = resetAt[b] /\ journal' = journal
        /\ retryCounts'[b] = retryCounts[b]
    BY <1>2 DEF ResetRetryCounts, TypeOK
  <2>2. Retried(b, reason)' = Retried(b, reason)
    BY <2>1 DEF Retried
  <2> QED
    BY <2>1, <2>2 DEF RetryInv
<1> QED
  BY <1>1, <1>2

LEMMA RetryInvStep == TypeOK /\ RetryInv /\ [Next]_vars => RetryInv'
<1> SUFFICES ASSUME TypeOK, RetryInv, [Next]_vars PROVE RetryInv'
  OBVIOUS
<1>1. CASE UNCHANGED <<journal, retryCounts, resetAt>>
  BY <1>1 DEF RetryInv, Retried
<1>2. ASSUME NEW a \in Agents, RunAgent(a) \/ AgentRaises(a) PROVE RetryInv'
  BY <1>1, <1>2 DEF RunAgent, AgentRaises
<1>3. ASSUME NEW a \in Agents, NEW r \in RoundResults, RunRound(a, r) PROVE RetryInv'
  BY <1>3, RetryInvRunRound
<1>4. ASSUME NEW a \in Agents, ResetRetryCounts(a) PROVE RetryInv'
  BY <1>4, RetryInvReset
<1>5. CASE UNCHANGED vars
  BY <1>1, <1>5 DEF vars
<1> QED
  BY <1>2, <1>3, <1>4, <1>5 DEF Next, Round

\* Between two resets an agent is retried at most MaxRetries times for each reason,
\* over all its invocations (_retry_exhausted, reset_retry_counts).
THEOREM RetriesAreBounded == Spec => []RetriesBounded
<1>1. Init => RetryInv
  <2> SUFFICES ASSUME Init, NEW a \in Agents, NEW reason \in Reasons
               PROVE  Cardinality(Retried(a, reason)) <= Granted(retryCounts[a][reason])
    BY DEF RetryInv
  <2>1. Retried(a, reason) = {}
    BY DEF Init, Retried
  <2>2. retryCounts[a][reason] = 0 /\ Granted(0) \in Nat
    BY GrantedFacts DEF Init
  <2> QED
    BY <2>1, <2>2, FS_EmptySet
<1>2. TypeOK /\ RetryInv => RetriesBounded
  <2> SUFFICES ASSUME TypeOK, RetryInv, NEW a \in Agents, NEW reason \in Reasons
               PROVE  Cardinality(Retried(a, reason)) <= MaxRetries
    BY DEF RetriesBounded
  <2>1. /\ Granted(retryCounts[a][reason]) \in Nat
        /\ Granted(retryCounts[a][reason]) <= MaxRetries
    BY CountsOfReasons, GrantedFacts
  <2>2. /\ Cardinality(Retried(a, reason)) \in Nat
        /\ Cardinality(Retried(a, reason)) <= Granted(retryCounts[a][reason])
    BY RetriedIsFinite DEF RetryInv
  <2> QED
    BY <2>1, <2>2, LimitsAssumption
<1> QED
  BY <1>1, <1>2, RetryInvStep, TypeCorrect, PTL DEF Spec

-----------------------------------------------------------------------------
(* Repeated calls: each call of a round that was let go has been counted,  *)
(* and the last one of a signature did not reach the limit.                *)

CallsOf(calls, s) == {k \in DOMAIN calls : calls[k] = s}

RepeatInv ==
    \A a \in Agents, s \in Signatures :
        /\ Cardinality(CallsLetGo(a, s)) <= sigCounts[a][s]
        /\ Cardinality(CallsLetGo(a, s)) < RepeatedToolLimit

LEMMA LetGoIsFinite ==
    ASSUME TypeOK, NEW a \in Agents, NEW s \in Signatures
    PROVE  /\ IsFiniteSet(CallsLetGo(a, s)) /\ Cardinality(CallsLetGo(a, s)) \in Nat
           /\ sigCounts[a][s] \in Nat
<1>1. /\ IsFiniteSet(1..Len(journal)) /\ IsFiniteSet(1..MaxCalls)
  <2>1. Len(journal) \in Int /\ MaxCalls \in Int
    BY LimitsAssumption DEF TypeOK
  <2> QED
    BY <2>1, FS_Interval
<1>2. IsFiniteSet((1..Len(journal)) \X (1..MaxCalls))
  BY <1>1, FS_Product
<1>3. CallsLetGo(a, s) \in SUBSET ((1..Len(journal)) \X (1..MaxCalls))
  BY DEF CallsLetGo
<1> QED
  BY <1>2, <1>3, FS_Subset, FS_CardinalityType DEF TypeOK

LEMMA CallsOfIsFinite ==
    ASSUME NEW c \in CallSeqs, NEW s
    PROVE  /\ IsFiniteSet(CallsOf(c, s)) /\ Cardinality(CallsOf(c, s)) \in Nat
           /\ CallsOf(c, s) \in SUBSET Nat
           /\ \E n \in 0..MaxCalls : DOMAIN c = 1..n /\ Len(c) = n
<1>1. PICK n \in 0..MaxCalls : c \in [1..n -> Signatures]
  BY DEF CallSeqs
<1>2. DOMAIN c = 1..n /\ Len(c) = n /\ n \in Nat
  BY <1>1, LimitsAssumption
<1>3. IsFiniteSet(1..n)
  BY <1>2, FS_Interval
<1>4. CallsOf(c, s) \in SUBSET (1..n)
  BY <1>2 DEF CallsOf
<1> QED
  BY <1>2, <1>3, <1>4, FS_Subset, FS_CardinalityType

\* A round that lets the agent go has been through the circuit breaker, which did not
\* trip and so counted all of its calls.
LEMMA LetGoIsCounted ==
    ASSUME NEW a \in Agents, NEW r \in RoundResults, NEW final \in BOOLEAN,
           Decide(a, r, final) \in {"continue", "retry"} \/ Exhausted(a, r, final)
    PROVE  /\ ReachesBreaker(r) /\ Trips(a, r.calls) = {}
           /\ Counted(a, r.calls) = DOMAIN r.calls
<1>1. ReachesBreaker(r) /\ ~Repeated(a, r)
  BY DEF Decide, Exhausted, ConsumesRetry, ReachesBreaker
<1>2. Trips(a, r.calls) = {}
  BY <1>1 DEF Repeated
<1> QED
  BY <1>1, <1>2 DEF Counted

\* Without a trip the calls counted so far and those of the round stay below the limit.
LEMMA BelowTheLimit ==
    ASSUME TypeOK, NEW a \in Agents, NEW s \in Signatures, NEW c \in CallSeqs,
           Trips(a, c) = {}, CallsOf(c, s) # {}
    PROVE  sigCounts[a][s] + Cardinality(CallsOf(c, s)) < RepeatedToolLimit
<1>1. PICK n \in 0..MaxCalls : DOMAIN c = 1..n
  BY CallsOfIsFinite
<1>2. n \in Nat /\ CallsOf(c, s) \in SUBSET Nat /\ \A k \in CallsOf(c, s) : k <= n
  BY <1>1, LimitsAssumption, CallsOfIsFinite DEF CallsOf
<1>3. PICK m \in CallsOf(c, s) : \A k \in CallsOf(c, s) : k <= m
  BY <1>2, Greatest
<1>4. m \in DOMAIN c /\ c[m] = s
  BY <1>3 DEF CallsOf
<1>5. {k \in 1..m : c[k] = c[m]} = CallsOf(c, s)
  <2>1. \A k \in 1..m : k \in DOMAIN c
    BY <1>1, <1>2, <1>4
  <2>2. \A k \in CallsOf(c, s) : k \in 1..m /\ c[k] = s
    BY <1>1, <1>2, <1>3 DEF CallsOf
  <2> QED
    BY <1>4, <2>1, <2>2 DEF CallsOf
<1>6. ~(sigCounts[a][c[m]] + Cardinality({k \in 1..m : c[k] = c[m]}) >= RepeatedToolLimit)
  BY <1>4 DEF Trips
<1>7. sigCounts[a][s] \in Nat /\ Cardinality(CallsOf(c, s)) \in Nat
  BY LetGoIsFinite, CallsOfIsFinite
<1> QED
  BY <1>4, <1>5, <1>6, <1>7, LimitsAssumption

\* The calls of one signature in a new event are as many as in the round.
LEMMA NewCalls ==
    ASSUME NEW c \in CallSeqs, NEW s, NEW n
    PROVE  /\ IsFiniteSet({<<n, k>> : k \in CallsOf(c, s)})
           /\ Cardinality({<<n, k>> : k \in CallsOf(c, s)}) = Cardinality(CallsOf(c, s))
<1> DEFINE S == CallsOf(c, s)
           T == {<<n, k>> : k \in S}
           f == [k \in S |-> <<n, k>>]
<1>1. IsFiniteSet(S)
  BY CallsOfIsFinite
<1> HIDE DEF S
<1>2. f \in Bijection(S, T)
  BY DEF Bijection, Injection, Surjection, IsInjective
<1>3. ExistsBijection(S, T)
  BY <1>2 DEF ExistsBijection
<1> QED
  BY <1>1, <1>3, FS_Bijection DEF S

\* What is added to a number below a count stays below the count's new value.
LEMMA AddedStaysBelow ==
    ASSUME NEW x \in Nat, NEW y \in Nat, NEW k \in Nat, NEW z \in Nat, NEW l \in Nat,
           x <= y, z <= x + k, y + k < l
    PROVE  z <= y + k /\ z < l
OBVIOUS

LEMMA RepeatInvRunRound ==
    ASSUME TypeOK, RepeatInv, NEW a \in Agents, NEW r \in RoundResults, RunRound(a, r)
    PROVE  RepeatInv'
<1> DEFINE final == call.round = MaxRounds[a]
           c == r.calls
<1> SUFFICES ASSUME NEW b \in Agents, NEW s \in Signatures
             PROVE  /\ Cardinality(CallsLetGo(b, s)') <= sigCounts'[b][s]
                    /\ Cardinality(CallsLetGo(b, s)') < RepeatedToolLimit
  BY DEF RepeatInv
<1>1. /\ Cardinality(CallsLetGo(b, s)) \in Nat /\ IsFiniteSet(CallsLetGo(b, s))
      /\ sigCounts[b][s] \in Nat /\ c \in CallSeqs
      /\ journal \in Seq(Event) /\ Len(journal) \in Nat
      /\ Cardinality(CallsLetGo(b, s)) <= sigCounts[b][s]
      /\ Cardinality(CallsLetGo(b, s)) < RepeatedToolLimit
  BY LetGoIsFinite DEF RepeatInv, TypeOK, RoundResults
<1>2. PICK e \in Event : /\ e.agent = a /\ e.calls = c
                         /\ e.decision = Decide(a, r, final)
                         /\ e.exhausted = Exhausted(a, r, final)
                         /\ journal' = journal \/ journal' = Append(journal, e)
  BY JournalOfRound
<1>3. sigCounts[b][s] <= sigCounts'[b][s]
  <2>1. Cardinality({k \in Counted(a, c) : c[k] = s}) \in Nat
    BY <1>1, CountedCallsAreFinite
  <2>2. \/ sigCounts'[b][s] = sigCounts[b][s]
        \/ sigCounts'[b][s] = sigCounts[b][s] + Cardinality({k \in Counted(a, c) : c[k] = s})
    BY DEF RunRound, TypeOK
  <2> QED
    BY <1>1, <2>1, <2>2
<1>4. CASE b = a /\ LetGo(e) /\ journal' = Append(journal, e)
  <2> DEFINE new == {<<Len(journal) + 1, k>> : k \in CallsOf(c, s)}
  <2>1. ReachesBreaker(r) /\ Trips(a, c) = {} /\ Counted(a, c) = DOMAIN c
    BY <1>2, <1>4, LetGoIsCounted DEF LetGo
  <2>2. sigCounts'[a][s] = sigCounts[a][s] + Cardinality(CallsOf(c, s))
    <3>1. {k \in Counted(a, c) : c[k] = s} = CallsOf(c, s)
      BY <2>1 DEF CallsOf
    <3> QED
      BY <2>1, <3>1 DEF RunRound, TypeOK
  <2>3. CallsLetGo(a, s)' \subseteq CallsLetGo(a, s) \cup new
    <3>1. SUFFICES ASSUME NEW p \in CallsLetGo(a, s)' PROVE p \in CallsLetGo(a, s) \cup new
      OBVIOUS
    <3>2. /\ p \in (1..Len(journal')) \X (1..MaxCalls)
          /\ journal'[p[1]].agent = a /\ LetGo(journal'[p[1]])
          /\ p[2] <= Len(journal'[p[1]].calls) /\ journal'[p[1]].calls[p[2]] = s
      BY <3>1 DEF CallsLetGo
    <3>3. CASE p[1] \in 1..Len(journal)
      <4>1. journal'[p[1]] = journal[p[1]]
        BY <1>1, <1>4, <3>3
      <4> QED
        BY <3>2, <3>3, <4>1 DEF CallsLetGo
    <3>4. CASE p[1] = Len(journal) + 1
      <4>1. journal'[p[1]] = e
        BY <1>1, <1>4, <3>4
      <4>2. p[2] \in CallsOf(c, s)
        <5>1. p[2] \in 1..Len(c) /\ c[p[2]] = s
          BY <1>1, <1>2, <3>2, <4>1, CallsOfIsFinite
        <5> QED
          BY <1>1, <5>1, CallsOfIsFinite DEF CallsOf
      <4>3. p = <<p[1], p[2]>>
        BY <3>2
      <4> QED
        BY <3>4, <4>2, <4>3
    <3>5. Len(journal') = Len(journal) + 1
      BY <1>1, <1>4
    <3> QED
      BY <1>1, <3>2, <3>3, <3>4, <3>5
  <2>4. /\ IsFiniteSet(new) /\ Cardinality(new) = Cardinality(CallsOf(c, s))
        /\ Cardinality(CallsOf(c, s)) \in Nat
    BY <1>1, NewCalls, CallsOfIsFinite
  <2> HIDE DEF new
  <2>5. /\ Cardinality(CallsLetGo(a, s)') \in Nat
        /\ Cardinality(CallsLetGo(a, s)')
             <= Cardinality(CallsLetGo(a, s)) + Cardinality(CallsOf(c, s))
    BY <1>1, <1>4, <2>3, <2>4, UnionBound
  <2>6. CASE CallsOf(c, s) = {}
    <3>1. Cardinality(CallsOf(c, s)) = 0
      BY <2>6, FS_EmptySet
    <3>2. /\ Cardinality(CallsLetGo(a, s)) \in Nat /\ sigCounts[a][s] \in Nat
          /\ Cardinality(CallsLetGo(a, s)) <= sigCounts[a][s]
          /\ Cardinality(CallsLetGo(a, s)) < RepeatedToolLimit
      BY <1>1, <1>4
    <3>3. Cardinality(CallsLetGo(a, s)') <= Cardinality(CallsLetGo(a, s))
      BY <2>5, <3>1, <3>2
    <3>4. sigCounts'[a][s] = sigCounts[a][s]
      BY <2>2, <3>1, <3>2
    <3>5. /\ Cardinality(CallsLetGo(a, s)') <= sigCounts[a][s]
          /\ Cardinality(CallsLetGo(a, s)') < RepeatedToolLimit
      BY <2>5, <3>2, <3>3, LimitsAssumption
    <3>6. b = a
      BY <1>4
    <3> QED
      BY <3>4, <3>5, <3>6
  <2>7. CASE CallsOf(c, s) # {}
    <3>1. sigCounts[a][s] + Cardinality(CallsOf(c, s)) < RepeatedToolLimit
      BY <1>1, <2>1, <2>7, BelowTheLimit
    <3>2. /\ Cardinality(CallsLetGo(a, s)) \in Nat /\ sigCounts[a][s] \in Nat
          /\ Cardinality(CallsLetGo(a, s)) <= sigCounts[a][s]
      BY <1>1, <1>4
    <3>3. /\ Cardinality(CallsLetGo(a, s)') <= sigCounts[a][s] + Cardinality(CallsOf(c, s))
          /\ Cardinality(CallsLetGo(a, s)') < RepeatedToolLimit
      BY <2>4, <2>5, <3>1, <3>2, AddedStaysBelow, LimitsAssumption
    <3>4. b = a
      BY <1>4
    <3> QED
      BY <2>2, <3>3, <3>4
  <2> QED
    BY <2>6, <2>7
<1>5. CASE ~(b = a /\ LetGo(e) /\ journal' = Append(journal, e))
  <2>1. CallsLetGo(b, s)' \subseteq CallsLetGo(b, s)
    <3>1. SUFFICES ASSUME NEW p \in CallsLetGo(b, s)', journal' = Append(journal, e)
                   PROVE  p \in CallsLetGo(b, s)
      BY <1>2 DEF CallsLetGo
    <3>2. /\ p \in (1..Len(journal')) \X (1..MaxCalls)
          /\ journal'[p[1]].agent = b /\ LetGo(journal'[p[1]])
          /\ p[2] <= Len(journal'[p[1]].calls) /\ journal'[p[1]].calls[p[2]] = s
      BY <3>1 DEF CallsLetGo
    <3>3. p[1] \in 1..Len(journal) /\ journal'[p[1]] = journal[p[1]]
      BY <1>1, <1>2, <1>5, <3>1, <3>2
    <3> QED
      BY <3>2, <3>3 DEF CallsLetGo
  <2>2. /\ Cardinality(CallsLetGo(b, s)') <= Cardinality(CallsLetGo(b, s))
        /\ Cardinality(CallsLetGo(b, s)') \in Nat
    BY <1>1, <2>1, FS_Subset, FS_CardinalityType
  <2>3. sigCounts'[b][s] \in Nat
    BY TypeOKRunRound DEF TypeOK
  <2> QED
    BY <1>1, <1>3, <2>2, <2>3, LimitsAssumption
<1> QED
  BY <1>4, <1>5

LEMMA RepeatInvStep == TypeOK /\ RepeatInv /\ [Next]_vars => RepeatInv'
<1> SUFFICES ASSUME TypeOK, RepeatInv, [Next]_vars PROVE RepeatInv'
  OBVIOUS
<1>1. CASE UNCHANGED <<journal, sigCounts>>
  BY <1>1 DEF RepeatInv, CallsLetGo
<1>2. ASSUME NEW a \in Agents, RunAgent(a) \/ AgentRaises(a) \/ ResetRetryCounts(a)
      PROVE  RepeatInv'
  BY <1>1, <1>2 DEF RunAgent, AgentRaises, ResetRetryCounts
<1>3. ASSUME NEW a \in Agents, NEW r \in RoundResults, RunRound(a, r) PROVE RepeatInv'
  BY <1>3, RepeatInvRunRound
<1>4. CASE UNCHANGED vars
  BY <1>1, <1>4 DEF vars
<1> QED
  BY <1>2, <1>3, <1>4 DEF Next, Round

\* Over all invocations of an agent, the rounds that let it go on hold fewer than
\* RepeatedToolLimit identical calls (_has_repeated_tool_call).
THEOREM RepeatsAreBroken == Spec => []RepeatsBroken
<1>1. Init => RepeatInv
  <2> SUFFICES ASSUME Init, NEW a \in Agents, NEW s \in Signatures
               PROVE  /\ Cardinality(CallsLetGo(a, s)) <= sigCounts[a][s]
                      /\ Cardinality(CallsLetGo(a, s)) < RepeatedToolLimit
    BY DEF RepeatInv
  <2>1. CallsLetGo(a, s) = {} /\ sigCounts[a][s] = 0
    BY DEF Init, CallsLetGo
  <2> QED
    BY <2>1, FS_EmptySet, LimitsAssumption
<1>2. RepeatInv => RepeatsBroken
  BY DEF RepeatInv, RepeatsBroken
<1> QED
  BY <1>1, <1>2, RepeatInvStep, TypeCorrect, PTL DEF Spec
=============================================================================
