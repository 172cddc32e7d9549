---------------------------- MODULE ModelRuntime ----------------------------
(***************************************************************************)
(* runtime/model_runtime.py with memory/conversation.py: what an agent's   *)
(* call of the model costs in time and leaves in its conversation, under   *)
(* the two loops that make the calls (the harness's rounds, the rework     *)
(* loop's routes) and the deadline that only the orchestrator looks at.    *)
(*                                                                         *)
(* Time passes in model calls only; what else an agent does, the tools of  *)
(* the collector above all, is left out, and so are exceptions, which end  *)
(* a run sooner.                                                           *)
(***************************************************************************)
EXTENDS Integers, Sequences, FiniteSetsExt, SequencesExt

CONSTANTS Pipeline,         \* the agents, in order
          MaxRounds,        \* agent_profiles.yaml: the round budget of each agent
          Calls,            \* the model calls of one of its rounds, at most
          MaxRetries,       \* max_retries, 3 in the code
          Base,             \* backoff_base, 1 s
          Cap,              \* backoff_max, 8 s
          Timeout,          \* what one request takes at most: 30 s, or 180 s (Anthropic)
          MaxWallTime,      \* max_wall_time
          MaxRework,        \* max_rework_attempts, 2 in the code
          MaxTurns          \* max_history_turns, 6 in the code

Agents == Range(Pipeline)

\* The last line is arithmetic that the provers are not told.
ASSUME ModelAssumption ==
    /\ Pipeline \in Seq(Agents) /\ IsInjective(Pipeline)
    /\ MaxRounds \in [Agents -> Nat \ {0}] /\ Calls \in [Agents -> Nat \ {0}]
    /\ {MaxRetries, Base, Cap, Timeout, MaxRework} \subseteq Nat
    /\ {MaxWallTime, MaxTurns} \subseteq Nat \ {0}
    /\ \A k \in 0..MaxRetries : 2^k \in Nat

VARIABLES now,          \* time.monotonic
          stage,        \* where run is
          agents,       \* the agents it has to run, the one being run first
          left,         \* iterations left of the rework loop
          rounds,       \* rounds of its budget each agent has spent
          turn,         \* of the agent: outside a round, between two calls, in one
          made,         \* calls made in the round
          log,          \* attempts of the latest call: when, and how it went
          history,      \* InMemoryConversationStore._store
          told,         \* the exchanges recorded for each agent so far
          stretch       \* rounds that may be run until the clock is looked at again

timeVars == <<now, log>>
runVars  == <<stage, agents, left, stretch>>
talkVars == <<history, told>>
vars == <<timeVars, runVars, talkVars, rounds, turn, made>>

Agent      == Head(agents)
NoStretch  == [a \in Agents |-> 0]

Init ==
    /\ now = 0
    /\ stage = "boundary"
    /\ agents = Pipeline
    /\ left = MaxRework
    /\ rounds = [a \in Agents |-> 0]
    /\ turn = "new"
    /\ made = 0
    /\ log = <<>>
    /\ history = [a \in Agents |-> <<>>]
    /\ told = [a \in Agents |-> 0]
    /\ stretch = NoStretch

-----------------------------------------------------------------------------
(* Orchestrator.run and _apply_integrated_rework: where the clock is looked at *)

Due == now >= MaxWallTime

Runs(a) == [NoStretch EXCEPT ![a] = MaxRounds[a] - rounds[a]]

\* Wrong, for a mutant: the deadline is looked at in the rework loop only.
BoundaryWithoutLook ==
    /\ stage = "boundary"
    /\ IF agents = <<>>
       THEN stage' = "done" /\ UNCHANGED <<turn, stretch>>
       ELSE stage' = "invoked" /\ turn' = "new" /\ stretch' = Runs(Agent)
    /\ UNCHANGED <<timeVars, talkVars, agents, left, rounds, made>>

\* At the boundary before each agent, and after the last.
Boundary ==
    /\ stage = "boundary"
    /\ IF Due \/ agents = <<>>
       THEN stage' = "done" /\ UNCHANGED <<turn, stretch>>
       ELSE stage' = "invoked" /\ turn' = "new" /\ stretch' = Runs(Agent)
    /\ UNCHANGED <<timeVars, talkVars, agents, left, rounds, made>>

\* One iteration of the rework loop: a route runs every agent from the one the
\* feedback is for to the end of the pipeline.  The loop ends at the deadline, when no
\* iteration is left, and when the feedback has used up its attempts.
Iterate ==
    /\ stage = "loop"
    /\ \/ /\ stage' = "done"
          /\ UNCHANGED <<agents, left, turn, stretch>>
       \/ /\ ~Due /\ left > 0
          /\ \E k \in DOMAIN Pipeline :
                /\ agents' = SubSeq(Pipeline, k, Len(Pipeline))
                /\ stretch' = [a \in Agents |-> IF a \in Range(agents') THEN Runs(a)[a] ELSE 0]
          /\ left' = left - 1
          /\ stage' = "route"
          /\ turn' = "new"
    /\ UNCHANGED <<timeVars, talkVars, rounds, made>>

\* The harness returns the agent's answer: after a round, or at once if the budget of
\* its rounds is spent.  In the pipeline it may abort the run or have it reworked;
\* in a route the next agent follows whatever it was, and the clock is not looked at.
InvocationEnds ==
    /\ \/ turn = "out"
       \/ turn = "new" /\ stage \in {"invoked", "route"} /\ rounds[Agent] = MaxRounds[Agent]
    /\ agents' = Tail(agents)
    /\ \/ stage = "invoked" /\ stage' \in {"boundary", "loop", "done"}
       \/ stage = "route" /\ stage' = IF agents' # <<>> THEN "route" ELSE "loop"
       \/ stage = "route" /\ agents' = <<>> /\ stage' = "done"
    /\ turn' = "new"
    /\ UNCHANGED <<timeVars, talkVars, left, rounds, made, stretch>>

-----------------------------------------------------------------------------
(* RuntimeHarness.run_agent: rounds, and in a round some calls *)

StartRound ==
    /\ stage \in {"invoked", "route"}
    /\ turn \in {"new", "out"} /\ rounds[Agent] < MaxRounds[Agent]
    /\ rounds' = [rounds EXCEPT ![Agent] = @ + 1]
    /\ turn' = "idle"
    /\ made' = 0
    /\ UNCHANGED <<timeVars, runVars, talkVars>>

RoundEnds ==
    /\ turn = "idle"
    /\ turn' = "out"
    /\ UNCHANGED <<timeVars, runVars, talkVars, rounds, made>>

-----------------------------------------------------------------------------
(* ModelRuntime.complete *)

Ask ==
    /\ turn = "idle" /\ made < Calls[Agent]
    /\ made' = made + 1
    /\ turn' = "asking"
    /\ log' = <<[at |-> now, end |-> "asked"]>>
    /\ UNCHANGED <<now, runVars, talkVars, rounds>>

\* Retries made so far: the attempt of the code.
Attempt == Len(log) - 1

\* One request to the provider ends after some time, in an answer or an exception.
Request(end) ==
    /\ turn = "asking"
    /\ \E d \in 0..Timeout : now' = now + d
    /\ log' = [log EXCEPT ![Len(log)].end = end]

\* Wrong, for a mutant: one retry too many.
ExhaustedTooLate == Attempt > MaxRetries

Exhausted == Attempt >= MaxRetries

\* HTTP 408, 425, 429, 500, 502, 503, 504, the network, or a body that is no JSON.
Transient ==
    /\ Request("transient")
    /\ turn' = IF Exhausted THEN "idle" ELSE "sleeping"
    /\ UNCHANGED <<runVars, talkVars, rounds, made>>

\* Wrong, for a mutant: whatever is wrong, it is tried again.
PermanentRetried ==
    /\ Request("permanent")
    /\ turn' = IF Exhausted THEN "idle" ELSE "sleeping"
    /\ UNCHANGED <<runVars, talkVars, rounds, made>>

\* Any other status, or any other exception.
Permanent ==
    /\ Request("permanent")
    /\ turn' = "idle"
    /\ UNCHANGED <<runVars, talkVars, rounds, made>>

\* Wrong, for a mutant: the backoff has no limit.
DelayUncapped == Base * 2^Attempt

Delay == Min({Base * 2^Attempt, Cap})

Wake ==
    /\ turn = "sleeping"
    /\ now' = now + Delay
    /\ log' = Append(log, [at |-> now', end |-> "asked"])
    /\ turn' = "asking"
    /\ UNCHANGED <<runVars, talkVars, rounds, made>>

-----------------------------------------------------------------------------
(* The conversation of an agent *)

Exchange(n) == <<[role |-> "user", exchange |-> n], [role |-> "assistant", exchange |-> n]>>

\* Wrong, for a mutant: the slice is made and not stored.
TruncatedNowhere(msgs) == msgs

\* Wrong, for a mutant: the window counts turns where it should count messages.
TruncatedToTurns(msgs) ==
    IF Len(msgs) > 2 * MaxTurns THEN SubSeq(msgs, Len(msgs) - MaxTurns + 1, Len(msgs)) ELSE msgs

Truncated(msgs) ==
    IF Len(msgs) > 2 * MaxTurns THEN SubSeq(msgs, Len(msgs) - 2 * MaxTurns + 1, Len(msgs)) ELSE msgs

\* append_exchange
AppendExchange(a) ==
    /\ told' = [told EXCEPT ![a] = @ + 1]
    /\ history' = [history EXCEPT ![a] = Truncated(@ \o Exchange(told[a] + 1))]

\* An answer.  The first call of a round is the agent's dialogue with the model; its
\* exchange is recorded if the answer could be used.  The second of the reviewer, the
\* cross-check of the claims, is no part of the dialogue.
Succeeds ==
    /\ Request("answered")
    /\ turn' = "idle"
    /\ \/ made = 1 /\ AppendExchange(Agent)
       \/ UNCHANGED talkVars
    /\ UNCHANGED <<runVars, rounds, made>>

-----------------------------------------------------------------------------
Next ==
    \/ Boundary \/ Iterate \/ InvocationEnds \/ StartRound \/ RoundEnds
    \/ Ask \/ Transient \/ Permanent \/ Wake \/ Succeeds

Spec == Init /\ [][Next]_vars

-----------------------------------------------------------------------------
(* Properties *)

Ends == {"asked", "answered", "transient", "permanent"}

TypeOK ==
    /\ now \in Nat
    /\ stage \in {"boundary", "invoked", "loop", "route", "done"}
    /\ agents \in UNION {[1..n -> Agents] : n \in 0..Len(Pipeline)}
    /\ left \in 0..MaxRework
    /\ \A a \in Agents : rounds[a] \in 0..MaxRounds[a] /\ stretch[a] \in 0..MaxRounds[a]
    /\ turn \in {"new", "out", "idle", "asking", "sleeping"}
    /\ turn \in {"idle", "asking", "sleeping"} => agents # <<>> /\ made \in 0..Calls[Agent]
    /\ \A i \in DOMAIN log : log[i].at \in Nat /\ log[i].end \in Ends
    /\ \A a \in Agents : Len(history[a]) <= 2 * MaxTurns /\ told[a] \in Nat

\* The backoff after the i-th attempt of a call.
Backoff(i) == Min({Base * 2^(i - 1), Cap})

\* Only transient failures are tried again, after their backoff, a bounded number of
\* times; and a call that failed on a transient one has used all its attempts.
RetriesPaced ==
    /\ Len(log) <= MaxRetries + 1
    /\ \A i \in 1..(Len(log) - 1) :
          /\ log[i].end = "transient"
          /\ log[i + 1].at - log[i].at \in Backoff(i)..(Backoff(i) + Timeout)
    /\ turn = "idle" /\ made > 0 /\ Last(log).end = "transient" => Len(log) = MaxRetries + 1

\* f[1] + ... + f[n]
SumTo(f, n) == LET sum[i \in 0..n] == IF i = 0 THEN 0 ELSE sum[i - 1] + f[i] IN sum[n]

Backoffs(n)  == SumTo([i \in 1..MaxRetries |-> Backoff(i)], n)
WorstCall    == (MaxRetries + 1) * Timeout + Backoffs(MaxRetries)
Worst(a)     == stretch[a] * (Calls[a] * WorstCall)

\* A run may outlast its deadline, for it is not looked at inside an invocation or a
\* route, but by no more than the calls of one such stretch can take.
OvershootBounded ==
    now < MaxWallTime + SumTo([k \in DOMAIN Pipeline |-> Worst(Pipeline[k])], Len(Pipeline))

Window(a) == Min({told[a], MaxTurns})

\* What the next request of an agent repeats is its last exchanges, whole and in
\* order, so that the roles alternate as the Messages API demands, whatever failed,
\* was retried, could not be used, or was reworked in between.
HistoryAlternates ==
    \A a \in Agents :
        /\ Len(history[a]) = 2 * Window(a)
        /\ \A i \in 1..Window(a) :
              LET exchange == Exchange(told[a] - Window(a) + i)
              IN  history[a][2 * i - 1] = exchange[1] /\ history[a][2 * i] = exchange[2]
=============================================================================
