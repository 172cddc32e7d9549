# A verification of competitive-intel-agents

TLA+ models of the competitive-intelligence pipeline under
`src/src/competitive_intel_agents/` (paths below are relative to it; `docs/` and
`tests/` are `src/docs/` and `src/tests/`), checked with TLC on small instances,
with theorems proved by TLAPS for every value of the constants.

## 1. The system

A *run* turns a brief into a reviewed report. An orchestrator calls four agents in
order, collector, analyst, writer, reviewer, each through a runtime harness that
bounds its rounds and journals them; agents keep their work as artifacts (sources,
claims, reports) in a store; the reviewer's feedback is answered by a bounded
rework loop that invalidates stale artifacts and runs the agents again. A run is
sequential. Runs overlap each other: the web server runs each in a thread, and the
threads share the registry file, two SQLite connections, the cache of fetched pages and
the files of their texts; runs of the CLI are processes of their own on the same files. Rate limiters are not shared: every run builds its own.

    web / CLI --start--> Orchestrator.run --run_agent--> RuntimeHarness --run_round--> agent
        |                    |    \                          |    \                    |   |
        |                    |     ReworkLoop.apply          |     JournalStore        |   ToolRuntime -> web tools,
        v                    v        | (routes)             |     CheckpointStore     |     content store, cache
    runs.json <--result-- RunResult   +--> harness           v                         v
    (Workspace)                       +--> ArtifactStore   events            ModelRuntime -> TokenBucket

| Component (source) | State it keeps | Operations | What is hard | What makes it correct | Module |
| --- | --- | --- | --- | --- | --- |
| Runtime harness (`harness/runtime.py`) | call counts per signature, retry counts per reason | `run_agent`, `run_round`, `reset_retry_counts` | re-invocation by rework; three nested limits; exceptions | rounds in budget, conclusive answers, breaker and retry bounds | `RuntimeHarness` |
| Journal, checkpoints (`journal/store.py`) | events per run, latest state per agent | `append`, `list_*`, `save`, `latest` | collision of event ids after a restart of an agent | append-only, replayable, in step with the checkpoints, committed when the call returns | `RuntimeHarness`, `SharedConnection` |
| Artifact store (`artifacts/store.py`) | artifacts, statuses, order per run | `save_*`, `mark_*`, `list_*`, `get_*`, metadata | lineage built by independent callers | unique ids, auditable lineage, nothing lost, locks released | `ArtifactOps`, `ArtifactStore`, `SharedConnection` |
| Agents (`agents/*.py`) | none but the harness' memory | `run_round` | what the model answers; ids minted by counting | no dangling citation, no stale report | `AgentRounds` |
| Orchestrator (`orchestrator/__init__.py`) | deadline, results | `run` | deadline against rework; which result a run gets | what ships was reviewed, rests on evidence; every run ends | `Orchestrator` |
| Rework loop (`rework/__init__.py`) | attempts per feedback triple | `apply` | derived ids, targets of any status, aborts in a route | bounded, invalidates what is stale | `AgentRounds`, `Orchestrator` |
| Workspace (`workspace/__init__.py`) | `runs.json` | `save_run_result`, `list_run_results`, `get_run_result` | read-merge-write by threads, death in a write | a run listed once, with its latest result; its files agree | `RunRegistry`, `Workspace` |
| Web dashboard, REST API (`web/`) | run threads | start inline or in the background, list runs, pages | threads, shutdown, paging over a list that grows | polling and paging end with the truth | `RunRegistry`, `Workspace` (starting and listing runs) |
| CLI (`cli/__init__.py`) | none | `run`, `chat` | a process of its own on the files of the server | as for the workspace | `RunRegistry`, `Workspace` |
| Collector's rounds (`agents/collector.py`) | queries, pending and queried URLs, coverage slots; the tool results in the harness' memory | `run_round` | results of tools arrive one round later; three ways to be complete; re-invocation | no page lost or saved twice, gaps first, gaps reported | `Collector`; its effect on the store in `AgentRounds` |
| Rate limiter (`runtime/rate_limiter.py`) | tokens, last refill, penalty window and factor | `acquire`, `penalize` | penalties that begin and end while the bucket waits or idles | no more than the rate, half of it in a penalty | `TokenBucket`, `WebTools` |
| Web tools (`runtime/web_tools.py`) | fetch cache | search with fallback, cached fetch | cache shared by run threads, no lock, no expiry | what the cache refers to exists | `WebTools` |
| Tool runtime, content store (`runtime/tool_runtime.py`, `content_store.py`) | texts of pages | `execute`, `save_text`, `persist_payload` | text and reference are written apart; death in between | a reference has its text | `WebTools` (texts), `Collector` (answers of calls) |
| Model runtime (`runtime/model_runtime.py`) | none | `complete` | retries with backoff under the harness' rounds and the rework's routes; a deadline nobody looks at meanwhile | attempts, waits and the overshoot bounded | `ModelRuntime` |
| Conversation (`memory/conversation.py`) | messages per run and agent | `append_exchange`, `get_history` | the window cuts messages, the provider wants exchanges | whole exchanges, the latest ones, in order | `ModelRuntime` |
| Models, profiles, prompts, prompt context, provenance, golden cases, export, dashboard snapshot, logging | none | pure functions, rendering, parsing | | | not modelled (section 7) |

The hazards, each at its line with the properties that would catch it going wrong,
are in `PROJECT.json`, the two no property covers with the reason.

## 2. The modules

    RoundBudget  <-- implemented by --  RuntimeHarness  <-- RuntimeHarness_proofs, MCRuntimeHarness
    ArtifactOps  <-- ArtifactStore <-- ArtifactStore_proofs, MCArtifactStore
    ArtifactOps  <-- AgentRounds <-- Orchestrator <-- Orchestrator_proofs, MCOrchestrator
    RuntimeHarness (its decision)  <-- Collector <-- Collector_proofs, MCCollector
    TokenBucket <-- WebTools <-- WebTools_proofs, MCWebTools
    RunRegistry  <-- MCRunRegistry
    RunRegistry, SharedConnection  <-- Workspace  <-- Workspace_proofs, MCWorkspace
    ModelRuntime <-- ModelRuntime_proofs, MCModelRuntime
    NaturalSets (sets of naturals, least counterexamples)  <-- the proofs of RuntimeHarness,
        ArtifactStore, Orchestrator, Collector, Workspace and ModelRuntime

Operators whose comment begins "Wrong, for a mutant" are plausible bugs: no action
uses them. Each property of a passing run has one: put in the place of the
definition `PROJECT.json` names, it must make that property fail.

### RoundBudget and RuntimeHarness

`RuntimeHarness` is `run_agent` and `run_round` with the two stores they write.
An action is one round with everything it does: the tool calls, the decision, the
counters, the journal event, the checkpoint, and the return when the decision is
terminal or the budget spent.

| Model | Code |
| --- | --- |
| `journal`, `checkpoints` | `JournalStore`, `CheckpointStore` (in memory and SQLite alike) |
| `sigCounts`, `retryCounts` | `_tool_signature_counts`, `_retry_counts` |
| `call`, `result` | the frame of `run_agent`, and what it returned or raised |
| `RunAgent`, `RunRound`, `AgentRaises`, `ResetRetryCounts` | `run_agent` up to its loop, `run_round`, an exception under it, `reset_retry_counts` |
| `Decide` with `Repeated`, `Tolerated`, `Exhausted` | `_decide`, `_has_repeated_tool_call`, `_retry_exhausted` |

An agent is anything with `run_round`, so its result is any member of
`RoundResults`. `resetAt` and the field `reason` of an event, for what a retry was granted, are
history, for one property.

`RoundBudget` is what the callers rely on: an invocation spends rounds of a budget
shared by all invocations of the agent, and ends with a conclusive answer, with
`retry` on the last round, or by an exception. `ImplementsBudget` says that the
harness implements it, under the mapping "used = rounds in the journal".

### ArtifactOps and ArtifactStore

`ArtifactOps` has the store as a sequence and its operations as operators;
`ArtifactStore` is the store under arbitrary callers, `Orchestrator` uses the same
operators under the callers the program has. A call that raises changes nothing and
is no step. `Remembers` is what the callers need from the store: agents number new
artifacts by counting those of every status, which is sound only while nothing is
ever removed or renumbered.

### AgentRounds and Orchestrator

`AgentRounds` says which stores an invocation of an agent may leave behind, and
what a review may say. A check that reads texts (does a source mention a
competitor, what does the model think) may come out either way; the checks on ids,
statuses and citations are exact, as are the derived ids of the rework loop and of
the claim cross-check. `Orchestrator` is `run`: the pipeline with its deadline
checks (`Run...`, `AgentAborts`, `TimeOut`, `Approve`), the rework loop
(`Apply`, `Rerun...`, `ReworkTimesOut`, `ReworkGivesUp`) and the result.

An invocation is one action. The program is sequential and nobody looks at the
store of a run during an invocation; that an invocation ends, and with which
answers, is what `RuntimeHarness` shows. Consequences of the code that the model
uses, each read off the lines it maps:

- `retry` is treated by `run` as `stop`; a collector or analyst whose budget is spent
  answers `abort` without a round. The budgets of `agent_profiles.yaml` are 20, 15,
  8 and 4: the reviewer is invoked at most 1 + 2 times and is never refused.
- `if not remaining_feedback: break` is never taken. The one rework whose status is not
  `applied`, of a triple without attempts left, is in `Apply`, and never met
  (`TriplesNeverRunOut`).
- The feedback of the previous review reaches the next one (open collector items);
  earlier reviews add nothing to it.
- The writer, given feedback, rejects the latest report in each of its stalled rounds.
- What an invocation that raised had saved is left out: nothing of the run looks at
  the store any more. The order in which several verdicts of one cross-check are
  saved is not varied.

### Collector

`Collector` is `CollectorAgent.run_round` under the harness. An action is one round: what
the agent does with the results in its memory, the calls it asks for, their answers
(`SearchAnswers`, `FetchAnswers`), and the harness' decision, for which the module
instantiates `RuntimeHarness` and uses its `Decide` and counters.

| Model | Code |
| --- | --- |
| `agent` | the agent's fields: `searched` is `_search_queries` non-empty, `queried` `_queried_urls`, `pending` `_pending_urls`, `attempted` and `baseline` the two sets of coverage slots |
| `memory` | `state_memory["tool_results"]` of `run_agent` |
| `sources`, `target`, `plan` | active sources of the run, `_target_sources`, `collector_rework_plan` |
| `signal`, `answer` | signals on coverage of the latest event, what `run_agent` returned |
| `Done`, `Generate`, `FetchSelected`, `FetchDirectly`, `SearchExhausted`, `FetchPending`, `Refine`, `FinishRound` | the returns of `run_round`, in order |
| `Reinvoke` | a route of the rework loop: a new agent, a new target, maybe a plan, maybe a placeholder more among the sources (`Rework`) |

What the model takes from the code and a reader may stumble over:

- A `ToolResult` that failed has no data, so `_failed_urls` is never filled; it is left out.
- `_coverage_attempts_complete` holds from the first search on, because every search marks
  its slots when it is issued. The escape at 60 % of the target therefore never
  decides anything: what it asks for beyond coverage is already true.
- `search_exhausted` completes without `coverage_partial`, hence the condition of
  `PartialSignalled`.
- The model may name one result twice, which is then fetched twice, and the URLs it selects
  lose the entity of their query. `OneSourcePerPage` is about both. It says nothing of the
  placeholders: `_prepare_artifact_changes` saves one for each attempt whose target is not stored,
  with one URL under the next free id (`rework/__init__.py:113-125`), so that a second attempt
  for the coverage leaves two active sources with one URL.
- One targeted query stands for the three of a rework plan; the menu's comparisons, which
  name no competitor in their metadata, count as one; the extra queries of reading
  markets are further `Dimensions`.
- A round that raises (a tool runtime without a tool) is `AgentRaises` of `RuntimeHarness`.
- A brief without competitors asks for no coverage (`_coverage_partial` answers so as long as
  nothing is covered), hence the other condition of `PartialSignalled`.
- The loops of `_elidible_fetch_batch` and `_filter_and_save` are recursive functions in
  `Unqueried` and `FilterAndSave`, which the provers can unfold, one page or URL a step.
- Assumed of the constants: finitely many dimensions and URLs that searches find, at least one
  entity, and budgets, targets and batches of at least one; briefs, candidates and limits are
  otherwise free.

### TokenBucket and WebTools

`TokenBucket` has the operations of a bucket as operators. Time is in ticks and tokens in
parts of a token, so that a tick earns a whole number of parts also at half the rate;
`Wait` rounds up. `WebTools` has a thread for each run, which makes one call at a time,
search or fetch, in the steps between which others run: the refill and check of
`acquire`, each sleep, each request, and the opening and the writing of each file
(`write_text` empties a file before it writes it). A request may take any time, since
`Tick` may come before every step. `ServerRestarts` ends all threads at any point; files
remain.

- Whether two overlapping writes of an entry leave a whole one is a free choice, as in
  `RunRegistry`. Nothing mends a torn entry: each later fetch of the URL raises.
- Only adapters with one request, or with a second endpoint after the first failed (that
  is DuckDuckGo), are told apart. What searches find is a free choice in `Collector`.
- `granted` and `since` are history variables for `RateKept`, which says two things of them:
  the requests a run let pass to a site are `Paced` at the full rate at all times, and those
  of a penalty (`Penalised`) at half of it.
- `ReferencesKept` excuses a torn text only by a crash, or by a run that is writing that very
  text at the moment.
- Rates are positive and even, so that half of one is a whole number of parts; any engines in
  any order, any bursts, pages and bounds are allowed.

### RunRegistry

Every run is a thread; a save of `runs.json` is three steps (read and merge, open,
which empties the file, write), because `write_text` does that and no lock is held. What a
save keeps of the list it read, `Others`, is a recursive function, since the provers cannot
see into the operator that filters a sequence.
Whether an overlapping write leaves readable text depends on the lengths of the
texts, so it is a free choice. `ServerDies` ends all threads of the server at any point,
`CliDies` one process of the CLI, which saves as an inline run does. `disturbed` and
`kills` are history variables that let the properties say under which conditions they hold.

### SharedConnection and Workspace

`SharedConnection` is the way both SQLite stores write: `execute`, then `commit`. What
happens between threads on one connection comes from Python's `sqlite3` module and from
SQLite, which are outside of the repository: `execute` looks whether a transaction is open
and begins one if not, the global lock is released while SQLite works, an error code is
read from the connection after the call, `commit` does nothing without a transaction.

| Model | Code |
| --- | --- |
| `stored`, `writer` | the committed rows of a file, and the connection that holds its write lock |
| `open`, `pending` | a connection's transaction, and the rows in it |
| `call`, `answer` | where a thread is in a call of a store, and how its last one ended |
| `Call`, `Begin`, `Write`, `WriteDuplicate`, `WriteLocked`, `Check`, `Commit` | the steps of `_insert_artifact` and `append` between which other threads run |
| `Disconnect` | the end of a process, whose open transactions are undone |

`saved`, `refused` and `lost` are history variables. `lost` becomes true when `sqlite3` asks
for the error of a failed call after another thread's call has replaced it; then the
failed statement looks like a success. The window is small, it needs two threads inside
SQLite on one connection, and every property is about what holds without it.

`Workspace` composes: the runs of `RunRegistry` write a round each through the connections
(some saves, then the event that lists those whose save returned) while their results go
through `runs.json`, and a client pages through `GET /api/runs`. Runs of the server, in the
background or inline, use the server's two connections; a run of the CLI has its own
(`Process`). A round may save an id twice, as the second attempt of the rework loop does
(`MCRunSecondAttempt`); its agent may swallow the exception (`analyst.py:261`,
`reviewer.py:390`) or not. `EventsResolve` is what readers of the journal (the dashboard
snapshot, the provenance graph, the rework loop) rely on.

### ModelRuntime

`ModelRuntime.complete` under what calls it: rounds of an agent's budget, the pipeline with
its looks at the deadline, and routes of the rework loop without one. Time is an integer;
a request takes up to `Timeout`, which is what the providers pass to `urlopen`. A call is
`Ask`, then `Succeeds`, `Permanent` or `Transient` with `Wake` after each backoff; an
answer that could be used is recorded by `AppendExchange`.

- How many calls a round makes is bounded by `Calls` (the reviewer makes two, a review and a
  cross-check of claims, `reviewer.py`), which answers it gives is free, and so is where
  the orchestrator goes next.
- `stretch` is a history variable: the rounds that may be run until the clock is looked at
  again. `OvershootBounded` is stated with it and its bound is reached in the run. Its sums
  (`SumTo`, `Backoffs`) are recursive functions, for the proofs.
- `HistoryAlternates` says message by message what a conversation is: the last exchanges,
  whole, at most `MaxTurns` of them.
- That powers of two are natural numbers is an assumption of the module, for the provers have
  no definition of them; TLC evaluates it.
- `max_history_turns = 0` would keep everything (`history[-0:]`); `ModelAssumption` asks
  for at least one, and the program uses 6.

## 3. The runs

| Run | Checks | Bounds, and why they are enough |
| --- | --- | --- |
| `MCHarnessAgent` | `RepeatsBroken`, `RetriesBounded`, `JournalReplays`, `NeverDuplicates`, `ImplementsBudget`, `TypeOK` | One agent, 3 rounds, 2 tool signatures, up to 2 calls a round, limit 3, 1 retry: the breaker trips within a round, across rounds and across invocations; each retry reason is exhausted before and on the final round; invocations end early, continue, and are refused when the budget is spent. Agents only share the journal, and the proofs are for any number. |
| `MCStore` | `LineageAuditable`, `LineageHasHead`, `NothingForgotten`, `TypeOK` | Three ids, two runs, two versions, all types: chains, forks, would-be cycles, replacements that cross runs or types. Symmetric in ids and runs. Unique ids are proved. |
| `MCRunTemplate` | `ShippedWasReviewed`, `FreshAfterRework`, `OneReport`, `ReworkNeverCollides`, `RejectedNotConsumed`, `RunEnds`, `TypeOK` | No model, two rework attempts as in the code, a deadline; one new source, two new claims an invocation, two text-dependent feedback items a review: every route is taken first and second. |
| `MCRunModel` | `ApprovedRestsOnEvidence`, `MissingSourceNeverCaveat`, `LineageKept` | With a model whose feedback may name any artifact and which may find fault with any claim; one rework attempt (the second may end in the finding of `MCRunSecondAttempt`), no deadline. |
| `MCCollector` | `OneSourcePerPage`, `PartialSignalled`, `NothingSelectedDropped`, `NeverStartsOver`, `CoverageFirst`, `TypeOK` | With a model; two entities, of which one has three guessed URLs and the other none, two URLs that searches find, batches of 2, a target of 3 (10 in the code: it has to exceed the number of entities, so that the collection goes on when they are covered), 5 rounds, three invocations, as many as two rework attempts give. Selections with repetitions, pending URLs left over by a batch, failed and useless pages, plans, up to two placeholders and a spent budget all occur. A plan of the model is one query (`MaxPicks`), its refinements are the gap queries. |
| `MCWebTools` | `RateKept`, `ReferencesKept`, `TypeOK` | Two runs, one page with two possible contents, one engine with two endpoints and a burst of 2, one host; three calls in all, one restart. A penalty lasts 3 ticks of 4 (30 s in the code), so that requests come before, in and after it and it is renewed. |
| `MCWorkspace` | `RegistryExact`, `SavedSurvives`, `LockExplained`, `EventsResolve`, `PagingComplete`, `PollingEnds`, `WorkspaceTypeOK` | Two runs, in the background, inline or of the CLI, in any mixture and overlap: threads that share connections, processes that share files, or one of each. One saves twice, so that a duplicate is refused, and the other once, so that it meets the transaction that is left open. One process is killed; pages of one run. |
| `MCModelRuntime` | `RetriesPaced`, `OvershootBounded`, `HistoryAlternates`, `TypeOK` | The two ends of the pipeline with 2 rounds each and up to 2 calls a round, 3 retries with backoffs of 1, 2 and 2 (the cap bites), a deadline of 4 that falls between any two steps, one rework route, a window of one exchange. The latest end the bound allows is reached. |

The remaining runs expect a violation; they are the findings (section 6).

What the properties say that is not obvious from the code: `RetriesBounded` bounds
the retries for errors and those for stalls, each by itself, between two resets however often
an agent was invoked; `RepeatsBroken` holds
over all invocations of a run, because the counters outlive them;
`LineageHasHead` says that superseded artifacts never hide each other in a cycle,
which the store guarantees by comparing versions only; `ShippedWasReviewed` relates
what the orchestrator reads from the journal to what it reads from the store;
`FreshAfterRework` says that invalidation downstream of a rework is complete,
even when the deadline cuts the rework short; `ApprovedRestsOnEvidence` survives the
cross-check, which replaces claims of the very report it judges; `NeverStartsOver` says
that a branch of the code is dead, because a gap always has queries; `CoverageFirst`
holds within a batch, whose pages cover entities while it is saved; `RateKept` holds
although a refill counts time before or after a penalty at the wrong rate: the error
never exceeds the full rate, and inside a penalty window half of it; `SavedSurvives` holds
although a thread's rows are often committed by another thread, or in a transaction
that failed for another; `EventsResolve` relates two files that are committed apart;
`PagingComplete` holds because results only move towards the front of a list that is read
from its end; `HistoryAlternates` because both the window and what is appended are even.

Deadlock is not checked: a run that has returned, a budget that is spent, a store
that is full of the bounded ids do stop.

### Fairness

- `RuntimeHarness`: `WF(Round(a))`. The for loop of `run_agent` runs as long as an
  invocation is open; each round ends because model and tool calls have timeouts.
  Invocations themselves need not come.
- `Orchestrator`: `WF(Proceeds)`. One thread that waits for nothing but its own calls.
  `DeadlinePasses` is not fair: time need not run out.
- `RunRegistry`: `WF(Step(r))` for each thread. Requests need not come and the server
  need not die.
- `Workspace`: `WF(RunStep(r))` for each run, which adds the calls of its stores: a thread
  that waits for a lock goes on when the lock is released, or gives up after five seconds
  (`sqlite3`'s default). Requests, deaths and clients need not come.
- `ArtifactStore`, `Collector`, `WebTools`, `ModelRuntime`: safety only. That an invocation of the collector
  ends is `ImplementsBudget` of the harness.

## 4. What is proved

`RuntimeHarness_proofs`, for any set of agents, any budgets and limits, any set of
signatures, finite or not:

- `TypeCorrect`, `ConclusiveAnswers`: that an invocation answers `stop`, `rework` or `abort`, or
  `retry` with its budget spent (which is part of `RoundBudget`), is not inductive. The
  argument needs that an open invocation has a round left in its budget and that its
  checkpoints are exactly 1..k (`LoopInv`: `Contiguous`, `InLoop`), and that nothing is
  returned while one is open (`Pending`).
- `JournalIsReplayable`, `ReinvocationIsSafe`: `JournalInv` adds that the rounds in the
  journal are the checkpoints and come in order; `HInv` is the conjunction. Assumes
  `HasCheckpoints`, which every caller in the repository grants.
- `JournalIdsUnique`, with or without checkpoints: without them a second invocation
  raises instead of writing an id twice. (TLC only runs with them.)
- `HarnessImplementsBudget`: initial states map to initial states and every step to
  a step of `RoundBudget` or a stutter. The fairness half of `ImplementsBudget` stays
  with TLC.

Two more, with a finite bound on the calls of a round. The counters go on after a limit is
reached, so that they do not say what was granted:

- `RetriesAreBounded`: `RetryInv` says that the retries in the journal since the last reset are,
  for each reason, no more than it granted, which is its count cut off at the limit. A round that
  is not retried for a reason leaves the retries of that reason as they were, and one that is
  adds itself to them.
- `RepeatsAreBroken`: `RepeatInv` says that the calls of a signature that were let go are at
  most those counted, and below the limit. The step needs that a round is let go only when
  none of its calls trips: the last call of the signature then found a count below
  the limit that includes all the earlier ones (`BelowTheLimit`).

`ArtifactStore_proofs`, for any ids, runs and versions:

- `TypeCorrect`, `StoreInvariant`: types, unique ids, and the successor of everything superseded, as
  one inductive invariant `StoreInv`; one lemma per operation, on top of facts about
  `Saved`, `Place` and `WithStatus`.
- `LineageIsAuditable` and `StoreNeverForgets` follow.
- `LineageEndsAtAHead`: among superseded artifacts take one of the greatest version; its
  successor has a greater one and so is outside of them. That there is a greatest
  (`NaturalSets`) rests on the well-foundedness of the naturals, cited as a fact about sets,
  and that versions have a bound on an induction along the store by its least counterexample.

`Orchestrator_proofs`, with and without a model, rework or a deadline, for any number of rework
attempts, and for any number of artifacts an invocation saves and opinions a review has:

- `CaveatsAreEarned`, `TriplesNeverRunOut`: `CaveatInv` says that iterations left and
  attempts made add up to `MaxRework`. So an attempt is never refused while an iteration is
  left, and only the end of the loop makes a caveat of what blocks.
- `LineageAlwaysKept`: `StoreInv` holds for the store of a run. What makes it inductive is
  `Numbered`: a counted id is not ahead of the count of its type, so that the next one is
  free, while a derived id has a suffix and is none of them. One lemma per kind of step:
  `CollectedKeeps`, `AnalysedKeeps`, `WrittenKeeps`, `WithVerdictsKeeps`, `PreparedKeeps`. That
  a placeholder finds a free number is the pigeonhole principle.
- `ReviewedShips`, `ApprovalRestsOnEvidence`: `RunInv` adds `ReviewUpToDate`: when the pipeline
  is through, and whenever the rework loop may give up, the latest review is of the latest
  report as it now is, or what remains is the partial coverage that precedes the
  review and cannot become a caveat. A review leaves the reports alone and replaces
  the claims it finds fault with by versions of its own (`Judged`), so what its rules found
  in order still is (`RulesLeaveEvidence`).
- `TypeCorrect` is `TypeOK`, from both invariants.
- Without a model (`~HasModel`, where alone they hold) four more, from `PlainInv`:
  `OneReportAtATime`, `NoStaleWorkShips`, `ReworkSavesNeverCollide` and `RejectedStaysUnused`.
  What they need of the store is that the evidence of what is active is active and one report
  is (`Standing`): each route of the rework loop retires whatever rests on what it retires.
  What they need of the feedback is which artifact it names: the coverage checks none, the
  others the active report or none (`NamesCoverage`, `NamesReport`). An id derived for a
  replacement is then new, because the report it derives from is retired with it
  (`ReportsDerive`), and a report retired once is not named again. `FreshInv` says that an
  active report is newer than every change behind it, except while a route is on its way to
  the writer, who replaces it (`AwaitsWriter`); a deadline that passes in a route does not end
  it, and so `ShipsFresh`.
- `EveryStepCounts`: `StepsLeft` falls in every step of `run`, which therefore takes at most
  6 (`MaxRework` + 1) of them. That it takes them at all is `RunEnds`, checked by TLC.

`Collector_proofs`, for any brief, queries, URLs, answers of the tools, choices of the model,
budgets and limits, with one inductive invariant `CollInv` and one lemma per action:

- What a collection has at hand (`Begun`): one that has searched has results to go on, slots it
  set out for, and has attempted them all; one that has not has selected nothing. `NeverOver`
  is that. It is inductive because `FinishRound` always completes (`FinishedIsComplete`):
  a plan of gaps is empty only when nothing is missing (`GapPlanIsAsked`), and every plan a
  collection begins with has slots (`InitialPlansAreAsked`).
- Where a selected URL is (`Kept`): asked for, or pending. A batch and the rest of the pending
  URLs are all of them (`BatchAndRest`), and those that are passed over were asked for before
  (`UnqueriedUrls`); hence `NothingDropped`.
- `PagesSavedOnce` (of pages, not of placeholders), `GapsComeFirst`: along the pages of a batch `Saves` says that what was saved
  is known, that no page was saved twice, and that gaps went first (`SaveOneKeeps`). The
  recursion of `FilterAndSave` is unfolded by an induction along the pages, by its least
  counterexample (`Inductively`); that a function satisfies such a recursion at all is
  `IterationExists`.
- `PartialIsSignalled`: a collection in progress has fewer sources than its target, so it ends
  covered, or with a batch after which the coverage is looked at.
- `TypeCorrect` from the same invariant.

`Workspace_proofs`, of the stores alone, for any threads, files, connections and rows:

- `StoreInvariant`: `SavedSurvives` is not inductive, since a row is in the file only after
  a commit that another thread may have made. `StoreInv` adds that what a call has written
  is in the file or in the open transaction of its connection (`WrittenIsThere`), that only
  open transactions have rows (`PendingIsOpen`), and whose a lock is (`LockIsHeld`).
- `SavedIsDurable` and `OnlyDuplicatesKeepTheLock` follow.

and of the workspace, for any runs, bounds and page sizes:

- `WorkspaceUsesStores`: every step of the composition is a step of `SharedConnection`, or
  none, so that its theorems carry over (`SavedSurvivesInWorkspace`,
  `LockExplainedInWorkspace`). This needs that a run only calls with rows and connections
  of its own.
- `EventsOnlyListStored`: inductive with two more facts, that an event under way or
  written fixes what it lists, and that what a run has taken up is saved.

- `RegistryIsExact`: a run is never listed twice (`Once`), whatever overlaps. While saves
  follow each other and none is cut short (`InTurn`) there is one save at a time
  (`OneSaver`), the file tells of every run what is so (`FileTells`), and so does what a save
  has read, but for its own run, of which it has what it is about to save (`FoundTells`). The
  step from the open to the write needs that the file has not changed since the read
  (`FoundMerged`) and is empty in between (`FileEmptied`). What `Others` keeps of a list, and
  in which order, is shown by the least place where it would not (`MergedFacts`).
- `PagingIsComplete`: a result the client is due and has not seen is on a page it has not
  asked for (`Ahead`): behind it in the file, and in what a save is about to write, there are at
  least as many results as were passed (`Deep`). A save takes one other result out at most
  and appends one, so that nothing gets nearer to the front (`ResultsStay`).
- `TypeCorrect`: the types of all parts, and that no run saves more than its bound.

`ModelRuntime_proofs`, for any pipeline, budgets, limits and timeouts:

- `RetriesArePaced`: the attempts in the log are paced, and what the log ends with fits
  where the call is (`CallInv`).
- `OvershootIsBounded`: the time that has passed is not inductive, since the bound counts
  rounds and time passes in attempts. `TimeInv` adds what the round may still take
  (`Pending`: the calls it has left, and of the call in progress the attempts and backoffs
  it has left) and holds it against the full price of the rounds that were started. `RunInv`
  says that only rounds are run that were granted when the clock was last looked at. That sums
  are monotone, and how one changes with one of its terms, is shown by least
  counterexamples.
- `HistoryDoesAlternate`: after n exchanges the messages are the last of them, two by two
  (`HistInv`): cutting an even number from the front of such a list leaves such a list.
- `TypeCorrect` from all of these.

`WebTools_proofs`, for any runs, sites, rates, bursts, pages, engines and restarts:

- `RateIsKept`: that requests are paced is not inductive; what a bucket holds has to be
  counted too. `Earned` says that what was let pass since any request, with what is in the
  bucket, was in it as a burst or earned since; while a penalty lasts the same holds at half
  the rate for the requests since it began (`SiteOK`). A refill that counts time before a
  penalty at half the rate, or time of it at the full one after its end, keeps the first; the
  second is claimed only until the penalty ends, and within it every refill is halved.
- `ReferencesAreKept`: `RefInv` adds the entries that are about to be written: the text is
  there before the entry is (`Kept`), and nothing removes a text.
- `TypeCorrect` from both.

The assumptions are those declared in the modules (`...Assumption`, `CollectorBounds`), which TLC
evaluates in every run. Every safety property of the passing runs is proved. Only
model-checked are `RunEnds` and `PollingEnds`, and the fairness half of `ImplementsBudget`:
the prover has no rules for ENABLED, and so none for fairness. `EveryStepCounts` is the part
of `RunEnds` that needs neither.

## 5. Plan

1. Done: harness and journal; artifact store; one run with its rework loop; registry; the
   collector's rounds; rate limiters, fetch cache and contents; the stores' transactions and
   the workspace of server, CLI and client; model calls, deadline and conversation.
2. Next: the tool runtime's permissions; `Collector` shown to implement `Collected` of
   `AgentRounds`; agent contexts, once a decision depends on them.
3. Abstract specifications: `RoundBudget` (implemented by `RuntimeHarness`, proved),
   `SharedConnection` (implemented by `Workspace`, proved). Worth adding: a reliable
   registry, which `RunRegistry` implements while saves do not overlap.
4. Theorems: that `Collector` implements `Collected`; that `RunRegistry` implements a
   reliable registry while saves do not overlap.
5. Pure algorithms against reference definitions: provenance graph, golden cases,
   chunking of contents.

## 6. Findings

Each is the run of that name, which finds a counterexample.

| Run | What the code does | What was said |
| --- | --- | --- |
| `MCRunLateApproval` | a deadline that passes in a route of the rework loop is not noticed: the route goes on, and its reviewer's stop is approved (`orchestrator/__init__.py:219`, `rework/__init__.py:181`) | checks at every agent boundary, and after the reviewer a timeout result instead of `approved` (docs/modules/33:16, :77) |
| `MCRunSecondAttempt` | the second attempt for one feedback triple derives the id of the first replacement and raises (`rework/__init__.py:146`) | each triple has two attempts |
| `MCCollectorRework` | a targeted search of a rework invocation is discarded once every entity has some source: its slots count as attempted when it is issued, and the next round is complete before it reads the results (`agents/collector.py:1351`, `:59`) | the collector runs a targeted search and fetch (docs/modules/26) |
| `MCRegistryLost` | overlapping saves lose a result or leave broken text (`workspace/__init__.py:26`) | results survive (docs/modules/20) |

Met while modelling, without a run of their own:

- docs/modules/08-runtime-harness.md:64 and :75: a spent budget aborts; in the code the
  last round may also answer `retry` (`harness/runtime.py:218-223`).
- docs/modules/15-rework-loop.md:15, :68: the earliest blocking item is worked on;
  an upstream advisory goes first (`orchestrator/__init__.py:246-257`).
- Exhausted retries answer `stop` (`harness/runtime.py:220`); docs/modules/25:16 says `abort`.
  An agent that only stalled or failed is treated as done.
- The limit of attempts per triple (`rework/__init__.py:84`) never takes effect in a run: the
  loop around it has as many iterations as a triple has attempts (`TriplesNeverRunOut`).
- An abort inside a rework route is overwritten by the next agent's answer
  (`rework/__init__.py:190`); docs/modules/26:41 says that an abort ends the run as aborted.
- With a model, feedback that names a rejected artifact makes the rework loop copy it into
  an active one (`rework/__init__.py:112`); docs/modules/05:53 says that rejected artifacts
  are not consumed. `RejectedNotConsumed` holds without a model.
- Gap searches repeat the "official" query of the first plan, with the same signature, so a
  collection that keeps looking for a gap runs into the circuit breaker and aborts;
  docs/modules/09:48 says it refines or stops with `coverage_partial`.
- The comment at `agents/collector.py:1334` calls the coverage guard critical; completion by
  number of sources, three lines above it, does without.
- DuckDuckGo's second endpoint is asked without a token (`runtime/web_tools.py:169-174`), and
  each run has buckets of its own, so the process as a whole exceeds the rates;
  `runtime/rate_limiter.py:3-11` speaks of a single-process bucket and of an acquire before
  each outbound request. Searches of the CLI have no rate limiter at all
  (`cli/__init__.py:323`).
- A refused duplicate leaves its transaction open and its file locked, until the connection
  writes again or its process ends (`artifacts/store.py:325`, `journal/store.py:87`;
  `LockExplained` is as much as holds). Other processes get "database is locked" after five
  seconds. The in-memory stores know nothing of this; docs/modules/05:55 wants "the same
  duplicate, status, and lineage semantics" of both.
- Two threads that begin a transaction on the shared connection at the same moment: one gets
  `OperationalError`, which no store translates, and its run aborts; likewise two that commit,
  although the row is then stored.
- docs/modules/33-global-timeout.md:144: the retries of a model call are bounded "so retries
  don't silently consume the wall-clock budget"; one call of the Anthropic provider may take
  four requests of 180 s and 7 s of backoff, more than the default deadline of 600 s.
- `JsonPostTransport` retries 408, 425, 429, 500, 502, 503 and 504; the comment at
  `runtime/model_runtime.py:383` says 5xx. A body that ends early raises `IncompleteRead`, or
  `UnicodeDecodeError` when cut in a character, neither of which counts as transient, although
  the comment at :144 means them.
- The comment at `runtime/web_tools.py:414` says that after a 429 Serper is not retried for
  the rest of the penalty; `penalize` only halves the rate.

## 7. Not modelled, and why

Texts, URLs, prompts and the model's answers are free choices wherever a decision
depends on them. Agent contexts (`save_agent_context`) only reach prompts. The rollback
journal of SQLite is taken to work: a file holds what was committed to it. The workspace
exists when the models begin: that `LocalWorkspace.__init__` writes an empty registry where it
finds none (`workspace/__init__.py:22`), so that a process that creates it may empty what
another has just saved, is left out. The timeout of
a request holds for each operation on its socket; that a whole request ends within it is
an assumption of `ModelRuntime`, and so is that time passes in model calls only. Data
classes and their validation, prompts, rendering (export, pages, dashboard snapshot), golden
cases, provenance, parsing in the CLI and the API, authentication, the configuration of
providers and logging keep no state of a run. `EnableRework = FALSE` is in the model
and in the theorems, but in no run. Network, search engines and the model provider are outside of the repository.
