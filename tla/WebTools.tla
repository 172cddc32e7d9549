----------------------------- MODULE WebTools -----------------------------
(***************************************************************************)
(* runtime/web_tools.py and runtime/content_store.py: what the threads of  *)
(* the runs do when the harness executes web_search and web_fetch.  Each   *)
(* run has rate limiters of its own and makes one call at a time; the      *)
(* cache of fetched pages and the texts they refer to are files of the     *)
(* workspace, shared by all runs and kept when the server goes down.       *)
(*                                                                         *)
(* write_text opens a file, which empties it, and then writes it: two      *)
(* steps, between which other threads run or the server dies.              *)
(***************************************************************************)
EXTENDS TokenBucket, FiniteSets, Sequences

CONSTANTS Runs,
          Urls, HostOf,       \* pages and their hosts
          Engines,            \* adapters of FallbackSearch, in order
          Endpoints,          \* requests one search may make, 2 for DuckDuckGo
          Rate, Burst,        \* of each engine and host
          Pages, Blank,       \* contents of a page; Blank has no text
          None, Torn,         \* no entry, and one that is emptied
          MaxTime,            \* bound: ticks
          MaxCalls,           \* bound: searches and fetches of all runs
          MaxCrashes          \* bound: how often the server goes down

Sites == Range(Engines) \cup {HostOf[u] : u \in Urls}

ASSUME SitesAssumption ==
    \A s \in Sites : Rate[s] \in Nat /\ Rate[s] % 2 = 0 /\ Rate[s] > 0 /\ Burst[s] \in Nat \ {0}
ASSUME EnginesAssumption == Engines \in Seq(Range(Engines))
ASSUME BlankAssumption == Blank \in Pages
ASSUME BoundsAssumption == MaxTime \in Nat /\ MaxCalls \in Nat /\ MaxCrashes \in Nat

VARIABLES now,
          buckets,    \* buckets[r][s]
          step,       \* where the thread of each run is
          cache,      \* cache[u]: None, Torn, or a page and whether it has a content_ref
          content,    \* content[u, p]: "none", "torn" or "whole"
          crashes,
          calls,      \* searches and fetches so far
          granted,    \* history: times of the requests acquire let pass, per run and site
          since       \* history: when the latest penalty of a run and site began

vars == <<now, buckets, step, cache, content, crashes, calls, granted, since>>
files == <<cache, content>>
limits == <<buckets, granted, since>>

Idle == [at |-> "idle", site |-> None, url |-> None, page |-> None, engine |-> 0, endpoint |-> 0,
         wake |-> 0]
Start == [at |-> "acquire", site |-> None, url |-> None, page |-> None, engine |-> 0,
          endpoint |-> 1, wake |-> 0]
Cached(page) == [page |-> page, ref |-> page # Blank]
OldEntry(page) == [page |-> page, ref |-> FALSE]

FreshBuckets(t) == [r \in Runs |-> [s \in Sites |-> Bucket(Rate[s], Burst[s], t)]]

\* The workspace may hold entries of a version without content references.
Init ==
    /\ now = 0
    /\ buckets = FreshBuckets(0)
    /\ step = [r \in Runs |-> Idle]
    /\ cache \in [Urls -> {None} \cup {OldEntry(p) : p \in Pages}]
    /\ content = [c \in Urls \X Pages |-> "none"]
    /\ crashes = 0 /\ calls = 0
    /\ granted = [r \in Runs |-> [s \in Sites |-> <<>>]]
    /\ since = [r \in Runs |-> [s \in Sites |-> 0]]

GoTo(r, at) == step' = [step EXCEPT ![r].at = at]
Return(r)   == step' = [step EXCEPT ![r] = Idle]

-----------------------------------------------------------------------------
(* Rate limits *)

\* TokenBucket.acquire: after each sleep it looks again.
Acquire(r) ==
    LET s == step[r].site
        b == Refilled(buckets[r][s], now)
    IN  /\ step[r].at = "acquire" \/ (step[r].at = "asleep" /\ now >= step[r].wake)
        /\ IF HasToken(b)
           THEN /\ buckets' = [buckets EXCEPT ![r][s] = Consumed(b)]
                /\ granted' = [granted EXCEPT ![r][s] = Append(@, now)]
                /\ GoTo(r, "request")
           ELSE /\ buckets' = [buckets EXCEPT ![r][s] = b]
                /\ step' = [step EXCEPT ![r].at = "asleep", ![r].wake = now + Wait(b, now)]
                /\ UNCHANGED granted
        /\ UNCHANGED <<now, files, crashes, calls, since>>

\* The answer is 429 Too Many Requests.
Penalize(r) ==
    LET s == step[r].site
    IN  /\ buckets' = [buckets EXCEPT ![r][s] = Penalized(@, now)]
        /\ since' = [since EXCEPT ![r][s] = IF now < buckets[r][s].until THEN @ ELSE now]
        /\ UNCHANGED granted

Refused(r) == Penalize(r) \/ UNCHANGED limits

-----------------------------------------------------------------------------
(* web_search: FallbackSearch asks every adapter, whatever the others found *)

NextEngine(r, i) ==
    step' = [step EXCEPT ![r] =
                IF i > Len(Engines) THEN Idle
                ELSE [Start EXCEPT !.engine = i, !.site = Engines[i]]]

Search(r) ==
    /\ step[r].at = "idle" /\ Engines # <<>>
    /\ calls < MaxCalls /\ calls' = calls + 1
    /\ NextEngine(r, 1)
    /\ UNCHANGED <<now, limits, files, crashes>>

\* An adapter that finds nothing at its first endpoint, or is refused, asks the next
\* one, without a token of its own; it never raises.
EngineAnswers(r) ==
    /\ step[r].at = "request" /\ step[r].engine > 0
    /\ \/ NextEngine(r, step[r].engine + 1) /\ UNCHANGED limits
       \/ /\ Refused(r)
          /\ IF step[r].endpoint < Endpoints[step[r].site]
             THEN step' = [step EXCEPT ![r].endpoint = @ + 1]
             ELSE NextEngine(r, step[r].engine + 1)
    /\ UNCHANGED <<now, files, crashes, calls>>

-----------------------------------------------------------------------------
(* web_fetch: CachedWebFetch over PersistedContentTool over WebFetchTool *)

\* Wrong, for a mutant: a page is cached without its text.
CacheAtOnce(page) == "payload"

\* persist_payload leaves a payload without text as it is.
AfterPage(page) == IF page = Blank THEN "payload" ELSE "text"

\* A torn entry is no JSON and raises; one without content_ref is persisted anew.
Fetch(r, u) ==
    /\ step[r].at = "idle"
    /\ calls < MaxCalls /\ calls' = calls + 1
    /\ IF cache[u] = None
       THEN step' = [step EXCEPT ![r] = [Start EXCEPT !.url = u, !.site = HostOf[u]]]
       ELSE /\ cache[u] # Torn /\ ~cache[u].ref
            /\ step' = [step EXCEPT ![r] = [Start EXCEPT !.at = AfterPage(cache[u].page),
                                               !.url = u, !.page = cache[u].page]]
    /\ UNCHANGED <<now, limits, files, crashes>>

PageArrives(r, page) ==
    /\ step[r].at = "request" /\ step[r].url # None
    /\ step' = [step EXCEPT ![r].page = page, ![r].at = AfterPage(page)]
    /\ UNCHANGED <<now, limits, files, crashes, calls>>

PageRefused(r) ==
    /\ step[r].at = "request" /\ step[r].url # None
    /\ Refused(r)
    /\ Return(r)
    /\ UNCHANGED <<now, files, crashes, calls>>

\* LocalContentStore.save_text: the file's name is that of the text.
Text(r) == <<step[r].url, step[r].page>>
OpenText(r) ==
    /\ step[r].at = "text"
    /\ content' = [content EXCEPT ![Text(r)] = "torn"]
    /\ GoTo(r, "write text")
    /\ UNCHANGED <<now, limits, cache, crashes, calls>>
WriteText(r) ==
    /\ step[r].at = "write text"
    /\ content' = [content EXCEPT ![Text(r)] = "whole"]
    /\ GoTo(r, "payload")
    /\ UNCHANGED <<now, limits, cache, crashes, calls>>

OpenPayload(r) ==
    /\ step[r].at = "payload"
    /\ cache' = [cache EXCEPT ![step[r].url] = Torn]
    /\ GoTo(r, "write payload")
    /\ UNCHANGED <<now, limits, content, crashes, calls>>
\* Another thread that opened the file too and wrote first may leave its tail behind.
WritePayload(r) ==
    /\ step[r].at = "write payload"
    /\ LET payload == Cached(step[r].page)
           u       == step[r].url
       IN  \E entry \in {payload} \cup (IF cache[u] \in {Torn, payload} THEN {} ELSE {Torn}) :
            cache' = [cache EXCEPT ![u] = entry]
    /\ Return(r)
    /\ UNCHANGED <<now, limits, content, crashes, calls>>

-----------------------------------------------------------------------------
Tick ==
    /\ now < MaxTime
    /\ now' = now + 1
    /\ UNCHANGED <<limits, step, files, crashes, calls>>

\* The runs of a new server have new buckets; the files stay as they are.
ServerRestarts ==
    /\ crashes < MaxCrashes
    /\ crashes' = crashes + 1
    /\ buckets' = FreshBuckets(now)
    /\ step' = [r \in Runs |-> Idle]
    /\ granted' = [r \in Runs |-> [s \in Sites |-> <<>>]]
    /\ since' = [r \in Runs |-> [s \in Sites |-> 0]]
    /\ UNCHANGED <<now, files, calls>>

Step(r) ==
    \/ Acquire(r) \/ Search(r) \/ EngineAnswers(r)
    \/ \E u \in Urls : Fetch(r, u)
    \/ \E p \in Pages : PageArrives(r, p)
    \/ PageRefused(r) \/ OpenText(r) \/ WriteText(r) \/ OpenPayload(r) \/ WritePayload(r)

Next == Tick \/ ServerRestarts \/ \E r \in Runs : Step(r)

Spec == Init /\ [][Next]_vars

-----------------------------------------------------------------------------
(* Properties *)

TypeOK ==
    /\ now \in 0..MaxTime /\ crashes \in 0..MaxCrashes /\ calls \in 0..MaxCalls
    /\ \A r \in Runs, s \in Sites :
        LET b == buckets[r][s]
        IN  /\ b.tokens \in 0..(Burst[s] * One) /\ b.last \in 0..now
            /\ b.until \in 0..(now + PenaltyTicks) /\ b.halved \in BOOLEAN
    /\ \A r \in Runs : step[r].site \in Sites \cup {None} /\ step[r].url \in Urls \cup {None}
    /\ cache \in [Urls -> {None, Torn} \cup [page : Pages, ref : BOOLEAN]]
    /\ content \in [Urls \X Pages -> {"none", "torn", "whole"}]

\* The requests between any two of those in a window, of a run to one site: a burst, and
\* what the time between them earns at the given rate.
Paced(times, window, rate, burst) ==
    \A i, j \in window :
        i <= j => (j - i + 1) * One <= burst * One + rate * (times[j] - times[i])

\* The requests let pass while a penalty lasts, from its begin to its end.
Penalised(times, from, until) == {i \in DOMAIN times : from <= times[i] /\ times[i] < until}

\* However searches and fetches, waits and penalties follow each other, no stretch of a
\* run sees more granted requests than the steady rate and the burst allow; while a
\* penalty lasts, and however often it is renewed, they come at half the rate.
RateKept ==
    \A r \in Runs, s \in Sites :
        LET times == granted[r][s]
        IN  /\ Paced(times, DOMAIN times, Rate[s], Burst[s])
            /\ Paced(times, Penalised(times, since[r][s], buckets[r][s].until),
                     Rate[s] \div 2, Burst[s])

\* A cached page with a content_ref, which the reviewer reads for its cross-check, has
\* its text; only a second writer of the same text, or a crash of one, may have emptied it.
ReferencesKept ==
    \A u \in Urls :
        cache[u] \notin {None, Torn} /\ cache[u].ref =>
            LET referred == <<u, cache[u].page>>
            IN  \/ content[referred] = "whole"
                \/ /\ content[referred] = "torn"
                   /\ crashes > 0 \/ \E r \in Runs : step[r].at = "write text" /\ Text(r) = referred
=============================================================================
