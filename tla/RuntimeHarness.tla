--------------------------- MODULE RuntimeHarness ---------------------------
(***************************************************************************)
(* harness/runtime.py with journal/store.py: the harness runs an agent     *)
(* round by round, executes the tool calls the agent asks for, decides     *)
(* whether to go on, appends one event per round to the append-only        *)
(* journal and saves a checkpoint.  One harness serves one run: its        *)
(* counters outlive an invocation, so the invocations of the rework loop   *)
(* continue where the first ones stopped.                                  *)
(*                                                                         *)
(* An agent is any object with run_round (the Protocol of agents/base.py), *)
(* so a round's result is chosen freely among RoundResults.                *)
(***************************************************************************)
EXTENDS Integers, Sequences, FiniteSets

CONSTANTS Agents,               \* the agents of the run
          MaxRounds,            \* their round budgets (agent_profiles.yaml)
          NoAgent,              \* no invocation in progress
          Signatures,           \* (tool name, argument signature) pairs
          MaxCalls,             \* bound: tool calls asked for in one round
          RepeatedToolLimit,    \* repeated_tool_limit, 3 in the code
          MaxRetries,           \* max_retries, 2 in the code
          HasCheckpoints        \* whether the harness was given a CheckpointStore

ASSUME AgentsAssumption  == NoAgent \notin Agents
ASSUME BudgetAssumption  == MaxRounds \in [Agents -> Nat]
ASSUME LimitsAssumption  ==
    /\ MaxCalls \in Nat
    /\ RepeatedToolLimit \in Nat \ {0}
    /\ MaxRetries \in Nat
ASSUME CheckpointsAssumption == HasCheckpoints \in BOOLEAN

VARIABLES journal,        \* JournalStore: events in the order they were appended
          checkpoints,    \* CheckpointStore: the rounds saved, per agent
          sigCounts,      \* _tool_signature_counts
          retryCounts,    \* _retry_counts
          call,           \* run_agent's frame: which agent, which round is next
          result,         \* what the last run_agent returned or raised
          resetAt         \* history: journal length when an agent's retries were reset

vars == <<journal, checkpoints, sigCounts, retryCounts, call, result, resetAt>>

Decisions == {"continue", "stop", "rework", "abort", "retry"}
Terminal  == {"stop", "rework", "abort"}
Reasons   == {"error", "stall"}
CallSeqs  == UNION {[1..n -> Signatures] : n \in 0..MaxCalls}

\* AgentRoundResult, with what _decide looks at: `failed` says that some tool
\* call's ToolResult was not ok, `outputs` that artifact ids were returned.
RoundResults ==
    {r \in [completed : BOOLEAN, rework : BOOLEAN, nonRetryable : BOOLEAN,
            alternate : BOOLEAN, error : BOOLEAN, outputs : BOOLEAN,
            calls : CallSeqs, failed : BOOLEAN] :
        r.failed => r.calls # <<>>}

Idle        == [agent |-> NoAgent, round |-> 0]
NoResult    == [agent |-> NoAgent, decision |-> "none", rounds |-> 0]

-----------------------------------------------------------------------------
(* The journal and the checkpoints *)

\* Event ids are "run:agent:round", so an id is taken when agent and round are.
Journalled(a, n) == \E i \in DOMAIN journal : journal[i].agent = a /\ journal[i].round = n

\* Wrong, for mutants: every invocation starts over, or leaves a round out.
StartOver(a)    == 1
StartTooLate(a) == Cardinality(checkpoints[a]) + 2

\* _latest_checkpoint and run_agent's start_round.
StartRound(a) ==
    IF HasCheckpoints /\ checkpoints[a] # {}
    THEN 1 + CHOOSE n \in checkpoints[a] : \A m \in checkpoints[a] : m <= n
    ELSE 1

-----------------------------------------------------------------------------
(* The decision *)

\* _is_stalled: nothing was asked for, produced or escalated.
Stalled(r) == ~r.completed /\ r.calls = <<>> /\ ~r.outputs /\ ~r.rework

HasError(r) == r.error \/ r.failed

\* Wrong, for a mutant: > instead of >=.
TripsTooLate(a, calls) ==
    {n \in DOMAIN calls :
        sigCounts[a][calls[n]] + Cardinality({k \in 1..n : calls[k] = calls[n]})
            > RepeatedToolLimit}

\* The positions of calls at which a count reaches the limit, and the positions
\* _has_repeated_tool_call counts: it returns at the first one that trips.
Trips(a, calls) ==
    {n \in DOMAIN calls :
        sigCounts[a][calls[n]] + Cardinality({k \in 1..n : calls[k] = calls[n]})
            >= RepeatedToolLimit}
Counted(a, calls) == {k \in DOMAIN calls : \A n \in Trips(a, calls) : k <= n}

\* The rounds that reach the circuit breaker count their calls, others do not.
ReachesBreaker(r) == ~r.completed /\ ~r.rework /\ ~r.nonRetryable
Repeated(a, r)    == ReachesBreaker(r) /\ Trips(a, r.calls) # {}
\* Errors that do not count against the retries, before the final round.
Tolerated(r, final) == HasError(r) /\ (r.outputs \/ r.alternate) /\ ~final
\* The rounds that reach _retry_exhausted consume one retry of their reason.
ConsumesRetry(a, r, final) ==
    /\ ReachesBreaker(r) /\ ~Repeated(a, r) /\ ~Tolerated(r, final)
    /\ HasError(r) \/ Stalled(r)
RetryReason(r) == IF HasError(r) THEN "error" ELSE "stall"

\* Wrong, for a mutant: the count is compared before it is increased.
ExhaustedTooLate(a, r, final) ==
    ConsumesRetry(a, r, final) /\ retryCounts[a][RetryReason(r)] > MaxRetries

\* _retry_exhausted: the round is signalled max_errors_tolerated.
Exhausted(a, r, final) ==
    ConsumesRetry(a, r, final) /\ retryCounts[a][RetryReason(r)] + 1 > MaxRetries

\* Wrong, for a mutant: the final round is not told from the others.
DecideWithoutEnd(a, r, final) ==
    CASE r.completed                                         -> "stop"
      [] ~r.completed /\ r.rework                            -> "rework"
      [] ~r.completed /\ ~r.rework /\ r.nonRetryable         -> "abort"
      [] Repeated(a, r)                                      -> "abort"
      [] Exhausted(a, r, final)                              -> "stop"
      [] OTHER -> IF ConsumesRetry(a, r, final) THEN "retry" ELSE "continue"

\* The cases exclude each other, so their order does not matter.
Decide(a, r, final) ==
    CASE r.completed                                         -> "stop"
      [] ~r.completed /\ r.rework                            -> "rework"
      [] ~r.completed /\ ~r.rework /\ r.nonRetryable         -> "abort"
      [] Repeated(a, r)                                      -> "abort"
      [] Exhausted(a, r, final)                              -> "stop"
      [] ConsumesRetry(a, r, final) /\ ~Exhausted(a, r, final) -> "retry"
      [] OTHER -> IF final THEN "abort" ELSE "continue"

-----------------------------------------------------------------------------
Init ==
    /\ journal = <<>>
    /\ checkpoints = [a \in Agents |-> {}]
    /\ sigCounts = [a \in Agents |-> [s \in Signatures |-> 0]]
    /\ retryCounts = [a \in Agents |-> [k \in Reasons |-> 0]]
    /\ call = Idle
    /\ result = NoResult
    /\ resetAt = [a \in Agents |-> 0]

\* An exception leaves run_agent, ReworkLoop and Orchestrator.run, none of which
\* catches it: the harness of that run is not used again.
Escaped == result.decision \in {"raised", "duplicate_event"}

\* run_agent up to its loop: with no round left the loop body never runs and
\* the initial last_decision, "abort", is returned without a journal event.
RunAgent(a) ==
    /\ call = Idle /\ ~Escaped
    /\ IF StartRound(a) > MaxRounds[a]
       THEN /\ result' = [agent |-> a, decision |-> "abort", rounds |-> MaxRounds[a]]
            /\ UNCHANGED call
       ELSE /\ call' = [agent |-> a, round |-> StartRound(a)]
            /\ result' = NoResult
    /\ UNCHANGED <<journal, checkpoints, sigCounts, retryCounts, resetAt>>

\* `exhausted` stands for a signal of the event; `reason`, what a retry was granted
\* for, is history: it follows only in part from the signals.
RoundEvent(a, n, r, d, exhausted) ==
    [agent |-> a, round |-> n, decision |-> d, calls |-> r.calls, exhausted |-> exhausted,
     reason |-> IF d = "retry" THEN RetryReason(r) ELSE "none"]

\* run_round refuses an event id the journal already holds: the exception
\* leaves run_agent, after the counters were bumped.
\* Otherwise the event is appended and the checkpoint saved, and run_agent
\* returns on a terminal decision or when the budget is spent.
Record(a, n, r, d, exhausted) ==
    IF Journalled(a, n)
    THEN /\ call' = Idle
         /\ result' = [agent |-> a, decision |-> "duplicate_event", rounds |-> n]
         /\ UNCHANGED <<journal, checkpoints>>
    ELSE /\ journal' = Append(journal, RoundEvent(a, n, r, d, exhausted))
         /\ checkpoints' = IF HasCheckpoints
                           THEN [checkpoints EXCEPT ![a] = @ \cup {n}]
                           ELSE checkpoints
         /\ IF d \in Terminal \/ n = MaxRounds[a]
            THEN /\ call' = Idle
                 /\ result' = [agent |-> a, decision |-> d, rounds |-> n]
            ELSE /\ call' = [call EXCEPT !.round = n + 1]
                 /\ UNCHANGED result

\* run_round, for whatever the agent returned.
RunRound(a, r) ==
    /\ call.agent = a
    /\ LET n     == call.round
           final == n = MaxRounds[a]
           d     == Decide(a, r, final)
       IN  /\ sigCounts' = IF ReachesBreaker(r)
                           THEN [sigCounts EXCEPT ![a] =
                                   [s \in Signatures |-> @[s] +
                                      Cardinality({k \in Counted(a, r.calls) : r.calls[k] = s})]]
                           ELSE sigCounts
           /\ retryCounts' = IF ConsumesRetry(a, r, final)
                             THEN [retryCounts EXCEPT ![a][RetryReason(r)] = @ + 1]
                             ELSE retryCounts
           /\ Record(a, n, r, d, Exhausted(a, r, final))
    /\ UNCHANGED resetAt

\* The agent (or a tool or store under it) raised: nothing catches it here.
AgentRaises(a) ==
    /\ call.agent = a
    /\ call' = Idle
    /\ result' = [agent |-> a, decision |-> "raised", rounds |-> call.round]
    /\ UNCHANGED <<journal, checkpoints, sigCounts, retryCounts, resetAt>>

\* Wrong, for a mutant: the keys are deleted, and no default stands in for them.
ResetDeletesCounts(a) ==
    /\ call = Idle /\ ~Escaped
    /\ retryCounts' = [retryCounts EXCEPT ![a] = [k \in {} |-> 0]]
    /\ UNCHANGED <<journal, checkpoints, sigCounts, call, result, resetAt>>

\* reset_retry_counts, which ReworkLoop._run_route calls before it reinvokes.
ResetRetryCounts(a) ==
    /\ call = Idle /\ ~Escaped
    /\ retryCounts' = [retryCounts EXCEPT ![a] = [k \in Reasons |-> 0]]
    /\ resetAt' = [resetAt EXCEPT ![a] = Len(journal)]
    /\ UNCHANGED <<journal, checkpoints, sigCounts, call, result>>

Round(a) == AgentRaises(a) \/ \E r \in RoundResults : RunRound(a, r)

Next == \E a \in Agents : RunAgent(a) \/ Round(a) \/ ResetRetryCounts(a)

\* The for loop of run_agent keeps going: an agent's round returns (every tool
\* and model call has a timeout), and nothing else runs in between.
Fairness == \A a \in Agents : WF_vars(Round(a))

Spec == Init /\ [][Next]_vars /\ Fairness

-----------------------------------------------------------------------------
(* Properties *)

Event == [agent : Agents, round : Nat, decision : Decisions, calls : CallSeqs,
          exhausted : BOOLEAN, reason : Reasons \cup {"none"}]

TypeOK ==
    /\ journal \in Seq(Event)
    /\ checkpoints \in [Agents -> SUBSET Nat]
    /\ sigCounts \in [Agents -> [Signatures -> Nat]]
    /\ retryCounts \in [Agents -> [Reasons -> Nat]]
    /\ call \in [agent : Agents \cup {NoAgent}, round : Nat]
    /\ result \in [agent : Agents \cup {NoAgent}, rounds : Nat,
                   decision : Decisions \cup {"none", "raised", "duplicate_event"}]
    /\ resetAt \in [Agents -> Nat]

\* The journal replays a run: however often an agent is invoked again by the
\* rework loop, its events are numbered 1, 2, 3, ... in the order they were
\* appended, none twice, and never past its budget (run_agent's start_round).
EventIdsUnique ==
    \A i, j \in DOMAIN journal :
        journal[i].agent = journal[j].agent /\ journal[i].round = journal[j].round => i = j
RoundsFollow ==
    \A i \in DOMAIN journal : \A n \in 1..(journal[i].round - 1) :
        \E j \in 1..(i - 1) : journal[j].agent = journal[i].agent /\ journal[j].round = n
RoundsInBudget ==
    \A i \in DOMAIN journal : journal[i].round \in 1..MaxRounds[journal[i].agent]
JournalReplays == EventIdsUnique /\ RoundsFollow /\ RoundsInBudget

\* A re-invocation never collides with a round already journalled: with a
\* checkpoint store, append never raises DuplicateJournalEventError.
NeverDuplicates == result.decision # "duplicate_event"

\* What the callers of run_agent rely on: it answers stop, rework or abort, and
\* "retry" only when the agent's budget is spent.  They have no branch for
\* "continue", which would be taken for success.
AnswersConclusively ==
    result.decision \in Terminal \cup {"none", "raised", "duplicate_event"}
    \/ (result.decision = "retry" /\ result.rounds = MaxRounds[result.agent])

\* The circuit breaker, over all invocations of an agent in the run: the rounds
\* that let the agent go on hold fewer than RepeatedToolLimit identical calls.
LetGo(e) == e.decision \in {"continue", "retry"} \/ e.exhausted
CallsLetGo(a, s) ==
    {p \in (1..Len(journal)) \X (1..MaxCalls) :
        LET e == journal[p[1]] IN
        e.agent = a /\ LetGo(e) /\ p[2] <= Len(e.calls) /\ e.calls[p[2]] = s}
RepeatsBroken ==
    \A a \in Agents, s \in Signatures : Cardinality(CallsLetGo(a, s)) < RepeatedToolLimit

\* Between two resets an agent is retried at most MaxRetries times for an error and at
\* most MaxRetries times for a stall, whatever it did in between and however often it was
\* invoked.
Retried(a, reason) ==
    {i \in (resetAt[a] + 1)..Len(journal) :
        /\ journal[i].agent = a /\ journal[i].decision = "retry"
        /\ journal[i].reason = reason}
RetriesBounded ==
    \A a \in Agents, reason \in Reasons : Cardinality(Retried(a, reason)) <= MaxRetries

\* The checkpoints are the journal's rounds: recovery by start_round and the
\* event ids can never drift apart.
RoundsOf(a) == {journal[i].round : i \in {k \in DOMAIN journal : journal[k].agent = a}}
CheckpointsMatchJournal == \A a \in Agents : checkpoints[a] = RoundsOf(a)

-----------------------------------------------------------------------------
(* The harness implements the contract its callers build on *)

Budget == INSTANCE RoundBudget WITH
    used   <- [a \in Agents |-> Cardinality(RoundsOf(a))],
    active <- call.agent,
    answer <- IF result.decision = "duplicate_event" THEN "raised" ELSE result.decision

\* Every behaviour of the harness is one of RoundBudget: the budget is shared by
\* all invocations of an agent and every invocation ends.
ImplementsBudget == Budget!Spec
=============================================================================
