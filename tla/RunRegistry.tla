---------------------------- MODULE RunRegistry ----------------------------
(***************************************************************************)
(* workspace/__init__.py with the run threads of web/__init__.py and the   *)
(* commands of cli/__init__.py: runs.json is the registry that pages, the  *)
(* API and later processes read.  It is read, merged and written back as a *)
(* whole, without a lock, by the threads of the web server, two times for  *)
(* a run in the background ("running", then its result), and by the CLI,   *)
(* each of whose runs is a process of its own.  Server and CLI may be shut *)
(* down or killed; the threads of the server are daemons and die with it.  *)
(*                                                                         *)
(* A save takes three steps, between which other threads run: the file is  *)
(* read, it is opened (which empties it), the text is written.             *)
(*                                                                         *)
(* The registry exists when the model begins: the empty one that           *)
(* LocalWorkspace.__init__ writes where it finds none is left out.         *)
(***************************************************************************)
EXTENDS Integers, Sequences

CONSTANTS Runs,         \* run ids, each from a uuid and so new
          MaxKills      \* bound: how often a process is killed

ASSUME KillsAssumption == MaxKills \in Nat

VARIABLES file,         \* runs.json: whether its text is JSON, and the results in it
          pc,           \* where the thread of the run is
          mode,         \* how the run was started: background, inline or CLI
          found,        \* the text a save of the run is about to write
          outcome,      \* RunResult.status of the run, as its orchestrator returned it
          kills,        \* history: how often a process was killed
          disturbed     \* history: two saves overlapped, or one was cut short

vars == <<file, pc, mode, found, outcome, kills, disturbed>>

Statuses == {"approved", "aborted"}
Entry(r, status) == [run |-> r, status |-> status]

\* Text that json.loads refuses: empty, cut short, or with the rest of a longer text.
NoJson == [json |-> FALSE, entries |-> <<>>]
Json(entries) == [json |-> TRUE, entries |-> entries]

\* A save is under way from its read to its write.
Opening == {"pendingOpen", "resultOpen"}
Writing == {"pendingWrite", "resultWrite"}
Saving(r) == pc[r] \in Opening \cup Writing
Live(r)   == Saving(r) \/ pc[r] \in {"pending", "running", "result"}

Init ==
    /\ file = Json(<<>>)
    /\ pc = [r \in Runs |-> "new"]
    /\ mode = [r \in Runs |-> "none"]
    /\ found = [r \in Runs |-> <<>>]
    /\ outcome = [r \in Runs |-> "running"]
    /\ kills = 0
    /\ disturbed = FALSE

-----------------------------------------------------------------------------
(* save_run_result *)

\* Wrong, for a mutant: the results of the other runs are dropped.
MergedWithoutOthers(entries, r, status) == <<Entry(r, status)>>

\* The results of the other runs, in their order.
Others(entries, r) ==
    LET rest[i \in 0..Len(entries)] ==
            IF i = 0 THEN <<>>
            ELSE IF entries[i].run = r THEN rest[i - 1] ELSE Append(rest[i - 1], entries[i])
    IN  rest[Len(entries)]

\* And then this one: the file is in completion order.
Merged(entries, r, status) == Append(Others(entries, r), Entry(r, status))

\* list_run_results; text that is not JSON raises.
ReadFile(r, status, then, failed) ==
    /\ IF file.json
       THEN /\ pc' = [pc EXCEPT ![r] = then]
            /\ found' = [found EXCEPT ![r] = Merged(file.entries, r, status)]
       ELSE /\ pc' = [pc EXCEPT ![r] = failed]
            /\ UNCHANGED found
    /\ disturbed' = (disturbed \/ \E other \in Runs : Saving(other))
    /\ UNCHANGED <<file, mode, outcome, kills>>

\* write_text opens the file, which empties it ...
OpenFile(r, write) ==
    /\ file' = NoJson
    /\ pc' = [pc EXCEPT ![r] = write]
    /\ UNCHANGED <<mode, found, outcome, kills, disturbed>>

\* ... and writes from its start: over the text of a thread that opened the file too
\* and wrote first, whose end stays when it is the longer one.
WriteFile(r, next) ==
    /\ \/ file' = Json(found[r])
       \/ file.json /\ file.entries # found[r] /\ file' = NoJson
    /\ pc' = [pc EXCEPT ![r] = next]
    /\ found' = [found EXCEPT ![r] = <<>>]
    /\ UNCHANGED <<mode, outcome, kills, disturbed>>

-----------------------------------------------------------------------------
(* do_POST and POST /api/runs *)

\* start_run_from_form, for a request with real_web or real_model.
StartRun(r) ==
    /\ pc[r] = "new"
    /\ pc' = [pc EXCEPT ![r] = "pending"]
    /\ mode' = [mode EXCEPT ![r] = "background"]
    /\ UNCHANGED <<file, found, outcome, kills, disturbed>>

\* The request is refused when the file cannot be read.
ReadForPending(r) == pc[r] = "pending" /\ ReadFile(r, "running", "pendingOpen", "refused")
OpenForPending(r) == pc[r] = "pendingOpen" /\ OpenFile(r, "pendingWrite")
\* The thread of the run is started and the request is answered 202.
WritePending(r)   == pc[r] = "pendingWrite" /\ WriteFile(r, "running")

\* create_run_from_form, in the thread of the request, or a CLI process that runs the
\* orchestrator and saves its result.
CreateRun(r) ==
    /\ pc[r] = "new"
    /\ pc' = [pc EXCEPT ![r] = "running"]
    /\ \E m \in {"inline", "cli"} : mode' = [mode EXCEPT ![r] = m]
    /\ UNCHANGED <<file, found, outcome, kills, disturbed>>

\* orchestrator.run returns (the deadline and the budgets see to it).
OrchestratorReturns(r) ==
    /\ pc[r] = "running"
    /\ pc' = [pc EXCEPT ![r] = "result"]
    /\ \E status \in Statuses : outcome' = [outcome EXCEPT ![r] = status]
    /\ UNCHANGED <<file, mode, found, kills, disturbed>>

\* Wrong, for a mutant: nothing catches it in the background either.
RaisesUncaught(r) ==
    /\ pc[r] = "running"
    /\ pc' = [pc EXCEPT ![r] = "refused"]
    /\ UNCHANGED <<file, mode, found, outcome, kills, disturbed>>

\* Wrong, for a mutant: the error is taken for the status.
RaisesWithError(r) ==
    /\ pc[r] = "running"
    /\ pc' = [pc EXCEPT ![r] = "result"]
    /\ outcome' = [outcome EXCEPT ![r] = "model call failed"]
    /\ UNCHANGED <<file, mode, found, kills, disturbed>>

\* It raises: a background run is recorded as aborted, an inline one is refused, and
\* the CLI ends with the exception.
OrchestratorRaises(r) ==
    /\ pc[r] = "running"
    /\ IF mode[r] = "background"
       THEN /\ pc' = [pc EXCEPT ![r] = "result"]
            /\ outcome' = [outcome EXCEPT ![r] = "aborted"]
       ELSE /\ pc' = [pc EXCEPT ![r] = "refused"]
            /\ UNCHANGED outcome
    /\ UNCHANGED <<file, mode, found, kills, disturbed>>

\* Outside of the try: when the file cannot be read the thread ends, and an inline
\* request is answered with an error.
ReadForResult(r) == pc[r] = "result" /\ ReadFile(r, outcome[r], "resultOpen", "unsaved")
OpenForResult(r) == pc[r] = "resultOpen" /\ OpenFile(r, "resultWrite")
WriteResult(r)   == pc[r] = "resultWrite" /\ WriteFile(r, "saved")

Killed(rs) ==
    /\ kills < MaxKills
    /\ rs # {}
    /\ kills' = kills + 1
    /\ pc' = [r \in Runs |-> IF r \in rs THEN "died" ELSE pc[r]]
    /\ found' = [r \in Runs |-> IF r \in rs THEN <<>> ELSE found[r]]
    /\ disturbed' = (disturbed \/ \E r \in rs : Saving(r))
    /\ UNCHANGED <<file, mode, outcome>>

\* start_web_server ends, on a signal or killed: no thread is waited for.
ServerDies == Killed({r \in Runs : Live(r) /\ mode[r] # "cli"})

\* A CLI command is interrupted.
CliDies(r) == mode[r] = "cli" /\ Live(r) /\ Killed({r})

-----------------------------------------------------------------------------
Step(r) ==
    \/ ReadForPending(r) \/ OpenForPending(r) \/ WritePending(r)
    \/ OrchestratorReturns(r) \/ OrchestratorRaises(r)
    \/ ReadForResult(r) \/ OpenForResult(r) \/ WriteResult(r)

Next ==
    \/ \E r \in Runs : StartRun(r) \/ CreateRun(r) \/ Step(r) \/ CliDies(r)
    \/ ServerDies

\* Threads are scheduled and the orchestrator ends; requests need not come.
Fairness == \A r \in Runs : WF_vars(Step(r))

Spec == Init /\ [][Next]_vars /\ Fairness

-----------------------------------------------------------------------------
(* Properties *)

Steps == {"new", "pending", "pendingOpen", "pendingWrite", "running", "result", "resultOpen",
          "resultWrite", "saved", "refused", "unsaved", "died"}
Entries == Seq([run : Runs, status : Statuses \cup {"running"}])

TypeOK ==
    /\ file \in [json : BOOLEAN, entries : Entries]
    /\ pc \in [Runs -> Steps]
    /\ mode \in [Runs -> {"none", "background", "inline", "cli"}]
    /\ found \in [Runs -> Entries]
    /\ outcome \in [Runs -> Statuses \cup {"running"}]
    /\ kills \in 0..MaxKills
    /\ disturbed \in BOOLEAN

Recorded(r, status) == \E i \in DOMAIN file.entries : file.entries[i] = Entry(r, status)

\* However the saves interleave, no run is listed twice, though a background run is
\* saved twice.
RunsListedOnce ==
    \A i, j \in DOMAIN file.entries : file.entries[i].run = file.entries[j].run => i = j

\* docs/modules/20 "Run ids are unique and listable".  And as long as no save was
\* disturbed the registry tells of each run what is so: its result once saved,
\* "running" from its acceptance on, nothing of a refused one.  Between a save's open
\* and its write there is no text to tell it.
Expected(r) ==
    CASE pc[r] = "saved" -> {outcome[r]}
      [] mode[r] = "background" /\ pc[r] \in {"running", "result", "resultOpen", "unsaved"}
                         -> {"running"}
      [] pc[r] = "died"  -> {"running", "none"}
      [] OTHER           -> {"none"}
Told(r) == {s \in Statuses \cup {"running"} : Recorded(r, s)}
RegistryExact ==
    /\ RunsListedOnce
    /\ ~disturbed /\ ~(\E r \in Runs : pc[r] \in Writing) =>
           /\ file.json
           /\ \A r \in Runs : Told(r) \in {{s} \ {"none"} : s \in Expected(r)}

\* A client that polls an accepted run until it is no longer "running" stops, unless
\* saves overlap or the server goes down meanwhile.
Accepted(r) == mode[r] = "background" /\ pc[r] = "running"
PollingEnds ==
    \A r \in Runs :
        Accepted(r) ~> (disturbed \/ pc[r] = "died" \/ \E s \in Statuses : Recorded(r, s))

-----------------------------------------------------------------------------
(* What the docs say and the code does not do *)

\* docs/modules/20 "CLI results survive process exit" and can be loaded later: once
\* no save is under way, each result that was saved is in the registry.
ResultsSurvive ==
    (\A w \in Runs : ~Saving(w)) =>
        \A r \in Runs : pc[r] = "saved" => Recorded(r, outcome[r])
=============================================================================
