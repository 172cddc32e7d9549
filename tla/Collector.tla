------------------------------ MODULE Collector ------------------------------
(***************************************************************************)
(* agents/collector.py under harness/runtime.py and the tools: the rounds  *)
(* of the collector in one run.  It searches, fetches what it found, saves *)
(* pages as sources, and searches again for the competitors that are still *)
(* without a source.  What a round asks for is answered by the tools in    *)
(* the same round and read by the agent in the next one, from the memory   *)
(* the harness passes on.                                                  *)
(*                                                                         *)
(* Each action is one round, with the harness' decision, which is that of  *)
(* RuntimeHarness.  Texts, scores and what the web or a model answers are  *)
(* free choices.                                                           *)
(***************************************************************************)
EXTENDS Integers, FiniteSets, SequencesExt

CONSTANTS Required,         \* the product's company, then its competitors
          None,             \* no entity in a source's metadata
          Dimensions,       \* dimensions of the questions, besides official and features
          Found,            \* urls that searches may find
          Candidates,       \* _official_url_candidates of each entity
          Placeholder,      \* url of the source ReworkLoop saves for feedback on coverage
          HasModel,         \* whether the collector has a ModelRuntime
          MaxPicks,         \* bound: queries the model picks (8 in the code)
          Inventions,       \* bound: queries the model makes up to refine a search
          FirstTarget,      \* target_sources of the first invocation, 2 or 10
          MaxSelected,      \* urls selected from one search, 12 in the code
          MaxBatch,         \* urls fetched in one round, 8 in the code
          MaxRounds,        \* the collector's budget, 20 in the code
          RepeatedToolLimit, MaxRetries,    \* of the harness
          MaxInvocations    \* bound: how often the collector is invoked in the run

Entities == Range(Required)
Company  == Required[1]

ASSUME RequiredAssumption ==
    Required \in Seq(Entities) /\ Required # <<>> /\ None \notin Entities
ASSUME QueriesAssumption ==
    /\ IsFiniteSet(Dimensions)
    /\ MaxPicks \in Nat /\ HasModel \in BOOLEAN
ASSUME UrlsAssumption ==
    /\ IsFiniteSet(Found) /\ Placeholder \notin Found
    /\ \A e \in Entities : /\ Candidates[e] \in Seq(Range(Candidates[e]))
                           /\ Found \cap Range(Candidates[e]) = {}
ASSUME CollectorBounds ==
    /\ {FirstTarget, MaxBatch, MaxSelected, MaxRounds, MaxInvocations} \subseteq Nat \ {0}
    /\ {RepeatedToolLimit, MaxRetries} \subseteq Nat

VARIABLES agent,        \* the CollectorAgent's fields
          memory,       \* state_memory["tool_results"] of run_agent
          sources,      \* active sources of the run, in the order they were saved
          target,       \* _target_sources
          plan,         \* collector_rework_plan: the entity it is for, or None
          round,        \* rounds journalled so far
          sigCounts, retryCounts,           \* of the harness
          signal,       \* what the latest event's signals say of coverage
          answer,       \* what run_agent returned, "none" during an invocation
          invocations,  \* how often the collector was invoked
          chosen        \* history: the urls this agent ever selected

vars == <<agent, memory, sources, target, plan, round, sigCounts, retryCounts, signal, answer,
          invocations, chosen>>
context == <<target, plan, invocations>>

-----------------------------------------------------------------------------
(* Queries *)

Query(entity, term) == [entity |-> entity, term |-> term, rival |-> None]
\* _query_item: the dimension in a query's metadata.  Made up queries have none.
Dimension(term) == IF term = "pricing features" THEN "features" ELSE term
\* _coverage_attempt_key
Slots(queries) ==
    {[entity |-> q.entity, dimension |-> Dimension(q.term), rival |-> q.rival] :
        q \in {q \in queries : q.entity # None}}

\* _coverage_query_plan
PlanOf(e) ==
    <<Query(e, "official"), Query(e, "features")>> \o SetToSeq({Query(e, d) : d \in Dimensions})
Comparisons ==
    [k \in 1..(Len(Required) - 1) |->
        [Query(Company, "comparison") EXCEPT !.rival = Required[k + 1]]]
CoveragePlan == FlattenSeq([k \in DOMAIN Required |-> PlanOf(Required[k])]) \o Comparisons

Covered(srcs) == {srcs[i].entity : i \in DOMAIN srcs} \ {None}
Missing(srcs) == Entities \ Covered(srcs)

GapsOf(e, srcs) ==
    IF e \in Missing(srcs) THEN <<Query(e, "official"), Query(e, "pricing features")>> ELSE <<>>

\* Wrong, for a mutant: as in _missing_entities, nothing is missing while nothing is covered.
GapPlanOnceCovered(srcs) ==
    IF Covered(srcs) = {} THEN <<>>
    ELSE FlattenSeq([k \in DOMAIN Required |-> GapsOf(Required[k], srcs)])

\* _coverage_gap_query_plan
GapPlan(srcs) == FlattenSeq([k \in DOMAIN Required |-> GapsOf(Required[k], srcs)])

\* _targeted_rework_plan: its queries are for one entity and dimension.
TargetedPlan == <<Query(plan, "targeted")>>

\* _model_driven_query_selection: queries of the menu, free ones, twice the same too.
\* The menu's comparisons have no competitor in their metadata; they count as one here.
Menu == (UNION {Range(PlanOf(e)) : e \in Entities})
            \cup {Query(Company, "free_search")}
            \cup IF Comparisons = <<>> THEN {} ELSE {Query(Company, "comparison")}
ModelPlans == IF HasModel THEN UNION {[1..k -> Menu] : k \in 1..MaxPicks} ELSE {}

\* _generate_queries: without an answer of the model the whole plan is searched.
InitialPlans == IF plan # None THEN {TargetedPlan} ELSE ModelPlans \cup {CoveragePlan}

\* _refine_queries: the model's new queries, if it names any, or the gaps.
Refinements(srcs) ==
    {GapPlan(srcs)} \cup (IF HasModel THEN {<<Query(None, i)>> : i \in Inventions} ELSE {})

Queries == Menu \cup Range(CoveragePlan) \cup Range(GapPlan(<<>>))
               \cup {Query(e, "targeted") : e \in Entities} \cup {Query(None, i) : i \in Inventions}

-----------------------------------------------------------------------------
(* Tools: what the calls of a round may be answered *)

Call(tool, arg) == [tool |-> tool, arg |-> arg]
Searches(queries) == [i \in DOMAIN queries |-> Call("web_search", queries[i])]
Fetches(batch)    == [i \in DOMAIN batch |-> Call("web_fetch", batch[i].url)]
Urls == Found \cup UNION {Range(Candidates[e]) : e \in Entities}
Signatures == {Call("web_search", q) : q \in Queries} \cup {Call("web_fetch", u) : u \in Urls}

NoResults == [kind |-> "none", hits |-> {}, ok |-> FALSE, pages |-> <<>>]

\* What searches find: each url with the entity of the query that found it best.
Finds(queries) == UNION {[U -> {queries[i].entity : i \in DOMAIN queries}] : U \in SUBSET Found}
Brought(of, ok) ==
    [kind |-> "search", hits |-> {[url |-> u, entity |-> of[u]] : u \in DOMAIN of}, ok |-> ok,
     pages |-> <<>>]
SearchResults(queries) == {Brought(of, ok) : of \in Finds(queries), ok \in BOOLEAN}
SearchAnswers(queries) ==
    {[results |-> r, failed |-> failed] :
        r \in {r \in SearchResults(queries) : r.hits # {} => r.ok}, failed \in BOOLEAN}
PossibleSearch(queries, a) ==
    /\ a.results.ok \/ a.failed
    /\ Len(queries) = 1 => a.results.ok # a.failed

\* What a fetch brings: a page that is kept, one that is not (irrelevant, needs
\* JavaScript), or an error, whose ToolResult holds no url.
Outcomes == {"good", "useless", "failed"}
FetchAnswers(batch) ==
    {[results |-> [kind |-> "fetch", hits |-> {}, ok |-> FALSE,
                   pages |-> [i \in DOMAIN batch |-> [url |-> batch[i].url, outcome |-> o[i],
                                                      entity |-> batch[i].entity]]],
      failed |-> "failed" \in Range(o)] : o \in [DOMAIN batch -> Outcomes]}

-----------------------------------------------------------------------------
(* The agent *)

FreshAgent == [searched |-> FALSE, queried |-> {}, pending |-> <<>>, attempted |-> {},
               baseline |-> {}]

UrlsOf(srcs) == {srcs[i].url : i \in DOMAIN srcs}

\* _coverage_attempts_complete and _collection_complete
AttemptsComplete(ag) ==
    (IF ag.baseline = {} THEN Slots(Range(CoveragePlan)) ELSE ag.baseline) \subseteq ag.attempted
CoversAll(srcs) == Covered(srcs) # {} /\ Missing(srcs) = {}
Complete(ag, srcs) ==
    \/ Len(srcs) >= target
    \/ /\ Len(srcs) >= Max({3, (target * 6) \div 10}) /\ Cardinality(ag.attempted) > 6
       /\ CoversAll(srcs)
    \/ AttemptsComplete(ag) /\ CoversAll(srcs)

\* Wrong, for a mutant: partial only once something is covered.
PartialOnceCovered(srcs) == Covered(srcs) # {} /\ Missing(srcs) # {}

\* _coverage_partial
Partial(srcs) ==
    IF Covered(srcs) = {} THEN Len(Required) > 1 ELSE Missing(srcs) # {}

\* _elidible_fetch_batch and the batches of pending urls.
Unqueried(ag, urls) ==
    LET new[i \in 0..Len(urls)] ==
            IF i = 0 THEN <<>>
            ELSE IF urls[i].url \in ag.queried THEN new[i - 1] ELSE Append(new[i - 1], urls[i])
    IN  new[Len(urls)]
FirstOf(urls) == SubSeq(urls, 1, IF Len(urls) < MaxBatch THEN Len(urls) ELSE MaxBatch)

\* Wrong, for a mutant: what did not fit into the batch is forgotten.
NothingRests(urls) == <<>>

RestOf(urls) == SubSeq(urls, MaxBatch + 1, Len(urls))

\* _select_urls: the best of the new urls, in any order.
Ranked(fresh) ==
    LET k == IF Cardinality(fresh) < MaxSelected THEN Cardinality(fresh) ELSE MaxSelected
    IN  {s \in [1..k -> fresh] : \A i, j \in 1..k : s[i].url = s[j].url => i = j}
\* _model_select_urls: any of the new urls, the same one twice too, without the
\* metadata of their query; or none, when all of them are filtered out or the
\* model only names indices out of range.
Selections(ag, hits) ==
    LET fresh == {h \in hits : h.url \notin ag.queried}
        bare  == {[url |-> h.url, entity |-> None] : h \in fresh}
    IN  Ranked(fresh)
        \cup (IF HasModel THEN UNION {[1..k -> bare] : k \in 0..MaxSelected} ELSE {})

\* _direct_url_fallbacks: the candidates of the entities in turn.
Fallbacks(ag) ==
    LET most == Max({Len(Candidates[e]) : e \in Entities})
        Nth(i, e) == IF i <= Len(Candidates[e]) THEN <<[url |-> Candidates[e][i], entity |-> e]>>
                     ELSE <<>>
        all == FlattenSeq([i \in 1..most |->
                   FlattenSeq([k \in DOMAIN Required |-> Nth(i, Required[k])])])
    IN  Unqueried(ag, all)

\* _remaining_source_slots
SourceSlots(srcs) ==
    LET gap == Max({target, Len(Required)}) - Len(srcs)
    IN  Max({0, gap} \cup (IF Covered(srcs) = {} THEN {} ELSE {Cardinality(Missing(srcs))}))

\* Wrong, for mutants: a saved url is not noted; a page of any entity is saved.
SaveOneAgain(acc, page) ==
    IF /\ acc.left > 0 /\ page.outcome = "good" /\ page.url \notin acc.known
       /\ acc.missing # {} /\ page.entity # None => page.entity \in acc.missing
    THEN [acc EXCEPT !.sources = Append(@, [url |-> page.url, entity |-> page.entity]),
                     !.left = @ - 1, !.missing = @ \ {page.entity}]
    ELSE acc
SaveAnyEntity(acc, page) ==
    IF acc.left > 0 /\ page.outcome = "good" /\ page.url \notin acc.known
    THEN [acc EXCEPT !.sources = Append(@, [url |-> page.url, entity |-> page.entity]),
                     !.left = @ - 1, !.known = @ \cup {page.url}, !.missing = @ \ {page.entity}]
    ELSE acc

\* _filter_and_save: while entities are missing, pages of the others are passed over.
SaveOne(acc, page) ==
    IF /\ acc.left > 0 /\ page.outcome = "good" /\ page.url \notin acc.known
       /\ acc.missing # {} /\ page.entity # None => page.entity \in acc.missing
    THEN [acc EXCEPT !.sources = Append(@, [url |-> page.url, entity |-> page.entity]),
                     !.left = @ - 1, !.known = @ \cup {page.url}, !.missing = @ \ {page.entity}]
    ELSE acc
BeforeSaving(srcs) ==
    [sources |-> srcs, left |-> SourceSlots(srcs), known |-> UrlsOf(srcs),
     missing |-> IF Covered(srcs) = {} THEN {} ELSE Missing(srcs)]
FilterAndSave(srcs, pages) ==
    LET acc[i \in 0..Len(pages)] ==
            IF i = 0 THEN BeforeSaving(srcs) ELSE SaveOne(acc[i - 1], pages[i])
    IN  acc[Len(pages)].sources

-----------------------------------------------------------------------------
(* A round under the harness *)

Self == "collector"

\* The harness of the run, for its decision; its journal is not kept here.
Harness == INSTANCE RuntimeHarness WITH
    Agents <- {Self}, MaxRounds <- [a \in {Self} |-> MaxRounds], NoAgent <- None,
    MaxCalls <- Cardinality(Signatures), HasCheckpoints <- TRUE,
    journal <- <<>>, checkpoints <- [a \in {Self} |-> 1..round],
    sigCounts <- [a \in {Self} |-> sigCounts], retryCounts <- [a \in {Self} |-> retryCounts],
    call <- [agent |-> Self, round |-> round + 1],
    result <- [agent |-> Self, decision |-> answer, rounds |-> round],
    resetAt <- [a \in {Self} |-> 0]

RoundResult(completed, calls, outputs, alternate, failed) ==
    [completed |-> completed, rework |-> FALSE, nonRetryable |-> FALSE, alternate |-> alternate,
     error |-> FALSE, outputs |-> outputs, calls |-> calls, failed |-> failed]

\* Wrong, for a mutant: a retry in the last round does not end run_agent.
AnswersTerminal(decision, final) == IF decision \in Harness!Terminal THEN decision ELSE "none"

\* run_agent returns a terminal decision, and any decision of the last round.
Answer(decision, final) == IF decision \in Harness!Terminal \/ final THEN decision ELSE "none"

RunRound(r) ==
    LET final    == round + 1 = MaxRounds
        decision == Harness!Decide(Self, r, final)
    IN  /\ round' = round + 1
        /\ sigCounts' = IF Harness!ReachesBreaker(r)
                        THEN [s \in Signatures |-> sigCounts[s] +
                                Cardinality({k \in Harness!Counted(Self, r.calls) : r.calls[k] = s})]
                        ELSE sigCounts
        /\ retryCounts' = IF Harness!ConsumesRetry(Self, r, final)
                          THEN [retryCounts EXCEPT ![Harness!RetryReason(r)] = @ + 1]
                          ELSE retryCounts
        /\ answer' = Answer(decision, final)

Init ==
    /\ agent = FreshAgent /\ memory = NoResults
    /\ sources = <<>> /\ target = FirstTarget /\ plan = None
    /\ round = 0
    /\ sigCounts = [s \in Signatures |-> 0] /\ retryCounts = [k \in {"error", "stall"} |-> 0]
    /\ signal = "none" /\ answer = "none" /\ invocations = 1 /\ chosen = {}

\* The calls of the round and their answers, which the next round reads.
SearchFor(queries, outputs) ==
    \E a \in SearchAnswers(queries) :
        /\ PossibleSearch(queries, a)
        /\ memory' = a.results
        /\ RunRound(RoundResult(FALSE, Searches(queries), outputs, FALSE, a.failed))
FetchAll(batch, outputs, alternate) ==
    \E a \in FetchAnswers(batch) :
        /\ memory' = a.results
        /\ RunRound(RoundResult(FALSE, Fetches(batch), outputs, alternate, a.failed))
Stop(outputs) ==
    /\ memory' = NoResults
    /\ RunRound(RoundResult(TRUE, <<>>, outputs, FALSE, FALSE))

-----------------------------------------------------------------------------
(* run_round *)

Running == answer = "none" /\ ~Complete(agent, sources)

\* The check at the start.  What the last searches found is no longer looked at.
Done ==
    /\ answer = "none" /\ Complete(agent, sources)
    /\ agent' = FreshAgent
    /\ signal' = "sources_ready"
    /\ Stop(TRUE)
    /\ UNCHANGED <<sources, context, chosen>>

\* Phase 1, or, when a round brought no results, the end of run_round.
Generate ==
    /\ Running /\ memory.kind = "none"
    /\ IF agent.searched
       THEN /\ agent' = FreshAgent
            /\ memory' = NoResults
            /\ signal' = "no_new_sources"
            /\ RunRound(RoundResult(FALSE, <<>>, FALSE, FALSE, FALSE))
       ELSE \E queries \in InitialPlans :
            /\ agent' = [agent EXCEPT !.searched = TRUE, !.queried = UrlsOf(sources),
                                      !.baseline = Slots(Range(queries)),
                                      !.attempted = @ \cup Slots(Range(queries))]
            /\ signal' = "none"
            /\ SearchFor(queries, FALSE)
    /\ UNCHANGED <<sources, context, chosen>>

\* Phase 2: urls are selected from what the searches found ...
FetchSelected ==
    /\ Running /\ memory.kind = "search" /\ memory.hits # {}
    /\ \E urls \in Selections(agent, memory.hits) \ {<<>>} :
        LET batch == FirstOf(Unqueried(agent, urls))
        IN  /\ agent' = [agent EXCEPT !.pending = urls, !.queried = @ \cup UrlsOf(batch)]
            /\ chosen' = chosen \cup UrlsOf(urls)
            /\ FetchAll(batch, FALSE, FALSE)
    /\ signal' = "none"
    /\ UNCHANGED <<sources, context>>

\* ... or guessed, when they found nothing at all ...
FoundNothing == memory.kind = "search" /\ memory.hits = {} /\ memory.ok
FetchDirectly ==
    /\ Running /\ FoundNothing
    /\ LET urls  == Fallbacks(agent)
           batch == FirstOf(urls)
       IN  /\ urls # <<>>
           /\ agent' = [agent EXCEPT !.pending = RestOf(urls), !.queried = @ \cup UrlsOf(batch),
                            !.attempted = @ \cup Slots({Query(batch[i].entity, "official") :
                                                       i \in DOMAIN batch})]
           /\ chosen' = chosen \cup UrlsOf(urls)
           /\ FetchAll(batch, FALSE, FALSE)
    /\ signal' = "none"
    /\ UNCHANGED <<sources, context>>

\* ... or the collector gives up.
SearchExhausted ==
    /\ Running /\ FoundNothing /\ Fallbacks(agent) = <<>>
    /\ signal' = "search_exhausted"
    /\ Stop(sources # <<>>)
    /\ UNCHANGED <<agent, sources, context, chosen>>

\* Phase 3: fetched pages, or searches that failed or of which nothing was selected.
ToFilter ==
    \/ memory.kind = "fetch"
    \/ memory.kind = "search" /\ ~FoundNothing
       /\ (memory.hits # {} => <<>> \in Selections(agent, memory.hits))
Pending == IF memory.hits # {} THEN <<>> ELSE Unqueried(agent, agent.pending)
Now     == FilterAndSave(sources, memory.pages)
Errors  ==
    memory.kind = "search" \/ \E i \in DOMAIN memory.pages : memory.pages[i].outcome = "failed"

FetchPending ==
    /\ Running /\ ToFilter
    /\ Pending # <<>> /\ Len(Now) < target
    /\ sources' = Now
    /\ LET batch == FirstOf(Pending)
       IN  /\ agent' = [agent EXCEPT !.pending = RestOf(Pending), !.queried = @ \cup UrlsOf(batch)]
           /\ FetchAll(batch, Now # sources, Errors)
    /\ signal' = "none"
    /\ UNCHANGED <<context, chosen>>

NothingPending == Pending = <<>> \/ Len(Now) >= target
Refine ==
    /\ Running /\ ToFilter /\ NothingPending
    /\ ~Complete(agent, Now) /\ agent.searched
    /\ sources' = Now
    /\ \E queries \in Refinements(Now) \ {<<>>} :
        /\ agent' = [agent EXCEPT !.pending = IF memory.hits # {} THEN <<>> ELSE @,
                                  !.baseline = @ \cup Slots(Range(queries)),
                                  !.attempted = @ \cup Slots(Range(queries))]
        /\ SearchFor(queries, Now # sources)
    /\ signal' = "none"
    /\ UNCHANGED <<context, chosen>>

FinishRound ==
    /\ Running /\ ToFilter /\ NothingPending
    /\ sources' = Now
    /\ LET completed == Complete(agent, Now)
       IN  /\ completed \/ ~agent.searched \/ GapPlan(Now) = <<>>
           /\ agent' = IF completed THEN FreshAgent ELSE agent
           /\ signal' = IF completed /\ Partial(Now) THEN "coverage_partial" ELSE "sources_saved"
           /\ memory' = NoResults
           /\ RunRound(RoundResult(completed, <<>>, Now # sources, FALSE, FALSE))
    /\ UNCHANGED <<context, chosen>>

Round == Done \/ Generate \/ FetchSelected \/ FetchDirectly \/ SearchExhausted \/ FetchPending
         \/ Refine \/ FinishRound

\* _prepare_artifact_changes saves a source of its own, under a new id, each time the
\* feedback names no stored artifact: a second attempt leaves a second one with the same
\* url.  (A stored source it replaces by a copy; their order is looked at by nothing.)
Rework(srcs) == {srcs, Append(srcs, [url |-> Placeholder, entity |-> None])}

\* ReworkLoop runs a new collector, for feedback that may come with a rework plan.  An
\* abort in the pipeline ends the run; without a round left the collector is refused
\* (RuntimeHarness).
Reinvoke ==
    /\ answer # "none" /\ (answer = "abort" => invocations > 1)
    /\ invocations < MaxInvocations /\ round < MaxRounds
    /\ invocations' = invocations + 1
    /\ plan' \in Entities \cup {None}
    /\ sources' \in Rework(sources)
    /\ target' = Max({2, Len(sources') + 2})
    /\ agent' = FreshAgent /\ memory' = NoResults
    /\ retryCounts' = [k \in {"error", "stall"} |-> 0]
    /\ signal' = "none" /\ answer' = "none" /\ chosen' = {}
    /\ UNCHANGED <<round, sigCounts>>

Next == Round \/ Reinvoke

Spec == Init /\ [][Next]_vars

-----------------------------------------------------------------------------
(* Properties *)

Terms == Dimensions \cup {"official", "features", "pricing features", "comparison",
                         "free_search", "targeted"}
IsPlaced(u) == u.url \in Urls \cup {Placeholder} /\ u.entity \in Entities \cup {None}
TypeOK ==
    /\ agent.searched \in BOOLEAN /\ agent.queried \subseteq Urls \cup {Placeholder}
    /\ \A s \in agent.baseline \cup agent.attempted :
        s.entity \in Entities /\ s.dimension \in Terms /\ s.rival \in Entities \cup {None}
    /\ \A i \in DOMAIN agent.pending : IsPlaced(agent.pending[i])
    /\ memory.kind \in {"none", "search", "fetch"} /\ memory.ok \in BOOLEAN
    /\ \A h \in memory.hits : IsPlaced(h)
    /\ \A i \in DOMAIN memory.pages : memory.pages[i].outcome \in Outcomes
    /\ \A i \in DOMAIN sources : IsPlaced(sources[i])
    /\ target \in Nat /\ plan \in Entities \cup {None} /\ round \in 0..MaxRounds
    /\ sigCounts \in [Signatures -> Nat] /\ retryCounts \in [{"error", "stall"} -> Nat]
    /\ signal \in {"none", "sources_ready", "sources_saved", "coverage_partial",
                   "search_exhausted", "no_new_sources"}
    /\ answer \in {"none", "stop", "abort", "retry"}
    /\ invocations \in 1..MaxInvocations /\ chosen \subseteq Urls

\* A page is one source, whatever was searched, selected or fetched twice, and however
\* often the collector was invoked again.  (What the rework loop saves is no page.)
OneSourcePerPage ==
    \A i, j \in DOMAIN sources :
        sources[i].url = sources[j].url => i = j \/ sources[i].url = Placeholder

\* The orchestrator goes on to the analyst unless the collector's latest event signals
\* partial coverage: a collector that finishes on its own terms either covers every
\* entity or says that it does not.  (After an exhausted search it says so otherwise; a
\* brief without competitors asks for no coverage.)
PartialSignalled ==
    Len(Required) > 1 /\ answer = "stop" /\ signal \in {"sources_ready", "sources_saved"} =>
        Missing(sources) = {}

\* No selected url is lost between the rounds: the collector searches again only after
\* it fetched everything it selected before.
NothingSelectedDropped ==
    answer = "none" /\ memory.kind = "search" => chosen \subseteq agent.queried

\* The reset at the end of run_round, which would start the collection over within one
\* invocation, is never reached: a round that leaves the collector incomplete always
\* asks for something, so the next one has results to go on.
NeverStartsOver == answer = "none" /\ memory.kind = "none" => ~agent.searched

\* Evidence goes first to the entities that have none: once one is covered, no round
\* spends a place on an entity that has a source while another has none.
CoverageFirst ==
    [][answer = "none" /\ Covered(sources) # {} =>
        \A i \in DOMAIN sources' \ DOMAIN sources :
            LET before == SubSeq(sources', 1, i - 1)
            IN  Missing(before) # {} /\ sources'[i].entity # None
                => sources'[i].entity \notin Covered(before)]_vars

-----------------------------------------------------------------------------
(* What the docs say and the code does not do *)

\* docs/modules/26 "Collector runs targeted search/fetch": a collector with a rework
\* plan does not stop before it selected any of the new pages its search found.
ReworkCollects ==
    [][/\ answer = "none" /\ plan # None /\ chosen = {}
       /\ \E h \in memory.hits : h.url \notin UrlsOf(sources)
       => chosen' # {} \/ answer' # "stop"]_vars
=============================================================================
