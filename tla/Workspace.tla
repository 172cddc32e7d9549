----------------------------- MODULE Workspace -----------------------------
(***************************************************************************)
(* A workspace at work: the runs of RunRegistry write their artifacts and  *)
(* their journal through the connections of SharedConnection while they    *)
(* run.  Runs of the web server share its two connections; a run of the    *)
(* CLI is a process with two of its own, on the same files.  A client of   *)
(* the REST API pages through the list of runs meanwhile.                  *)
(*                                                                         *)
(* What a run writes is one round: some saves of artifacts, then the event *)
(* that lists those whose save returned.  Its further rounds do the same   *)
(* with other ids.  Which agent it is, and what the artifacts are, makes   *)
(* no difference here.                                                     *)
(***************************************************************************)
EXTENDS RunRegistry, SharedConnection

CONSTANTS Server,       \* the process of the web server
          MaxSaves,     \* bound: the saves of each run
          Limit         \* the page size of the client

Processes == Runs \cup {Server}

ASSUME WorkspaceAssumption ==
    /\ Threads = Runs /\ Runs # {} /\ Server \notin Runs
    /\ Files = {"artifacts", "journal"}
    /\ Connections = Processes \X Files
    /\ Shared = {Server} \X Files
    /\ FileOf = [c \in Connections |-> c[2]]
    /\ MaxSaves \in [Runs -> Nat \ {0}]
    /\ Rows \subseteq Runs \X Nat
    /\ \A r \in Runs : {r} \X (1..MaxSaves[r]) \subseteq Rows
    /\ Limit \in Nat \ {0}

VARIABLES saves,        \* how many artifacts a run has tried to save
          doing,        \* the call it is in, or was in last
          outputs,      \* the artifacts its event will list, or lists
          paging        \* the client: its next offset, what it is due, what it saw

roundVars == <<saves, doing, outputs>>
wsVars    == <<vars, storeVars, roundVars, paging>>

Process(r)       == IF mode[r] = "cli" THEN r ELSE Server
ConnectionsOf(p) == {p} \X Files
On(r, f)         == <<Process(r), f>>
Running(r)       == pc[r] = "running" /\ call[r].at = "out"

WorkspaceInit ==
    /\ Init
    /\ LET r == CHOOSE r \in Runs : TRUE IN InitStores(<<Server, "artifacts">>, <<r, 1>>)
    /\ saves = [r \in Runs |-> 0]
    /\ doing = [r \in Runs |-> "begin"]
    /\ outputs = [r \in Runs |-> {}]
    /\ paging = [at |-> "off", offset |-> 0, due |-> {}, seen |-> {}]

-----------------------------------------------------------------------------
(* What a run writes *)

Working(r) == Running(r) /\ doing[r] \in {"begin", "save"}

\* Wrong, for a mutant: an artifact is taken up whether or not it was saved.
TakenUpAnyway(r) == outputs[r] \cup IF doing[r] = "save" THEN {call[r].row} ELSE {}

\* An agent takes an artifact up after its save returned; it goes on without it when the
\* save raised and it swallows the exception.
TakenUp(r) ==
    outputs[r] \cup IF doing[r] = "save" /\ answer[r] = "saved" THEN {call[r].row} ELSE {}

\* save_source, save_claim or save_report, of a new artifact or, as a second attempt of
\* the rework loop does, of one whose id is taken.
Save(r) ==
    /\ Working(r)
    /\ saves[r] < MaxSaves[r]
    /\ saves' = [saves EXCEPT ![r] = @ + 1]
    /\ outputs' = [outputs EXCEPT ![r] = TakenUp(r)]
    /\ \E n \in 1..(saves[r] + 1) : Call(r, On(r, "artifacts"), <<r, n>>)
    /\ doing' = [doing EXCEPT ![r] = "save"]

\* run_round: the agent has answered, and the harness appends the round's event.
AppendEvent(r) ==
    /\ Working(r)
    /\ outputs' = [outputs EXCEPT ![r] = TakenUp(r)]
    /\ Call(r, On(r, "journal"), <<r, 1>>)
    /\ doing' = [doing EXCEPT ![r] = "append"]
    /\ UNCHANGED saves

RunReturns(r) ==
    /\ Running(r) /\ doing[r] = "append" /\ answer[r] = "saved"
    /\ OrchestratorReturns(r)

\* Out of a call to a store, unless an agent swallows it, or for a reason of its own.
RunRaises(r) ==
    /\ Running(r)
    /\ doing[r] = "append" => answer[r] # "saved"
    /\ OrchestratorRaises(r)

-----------------------------------------------------------------------------
(* GET /api/runs?limit=..&offset=.., page after page *)

\* Wrong, for a mutant: the file's order, the oldest result first.
PageOldestFirst(entries, from) ==
    {entries[i].run : i \in DOMAIN entries \cap (from + 1)..(from + Limit)}

\* Newest first: the file is in completion order.
Page(entries, from) ==
    LET n == Len(entries)
    IN  {entries[n + 1 - i].run : i \in DOMAIN entries \cap (from + 1)..(from + Limit)}

Finished == {r \in Runs : \E s \in Statuses : Recorded(r, s)}

GetPage(due, from, seen) ==
    IF file.json
    THEN paging' = [at |-> IF from + Limit >= Len(file.entries) THEN "done" ELSE "next",
                    offset |-> from + Limit, due |-> due,
                    seen |-> seen \cup Page(file.entries, from)]
    ELSE paging' = [paging EXCEPT !.at = "failed"]

\* Only lists with some result in them are of interest.
FirstPage == paging.at = "off" /\ Finished # {} /\ GetPage(Finished, 0, {})
NextPage  == paging.at = "next" /\ GetPage(paging.due, paging.offset, paging.seen)

-----------------------------------------------------------------------------
RegistryStep(r) ==
    \/ ReadForPending(r) \/ OpenForPending(r) \/ WritePending(r)
    \/ ReadForResult(r) \/ OpenForResult(r) \/ WriteResult(r)

RunStep(r) ==
    \/ RegistryStep(r) /\ UNCHANGED <<storeVars, roundVars, paging>>
    \/ (Save(r) \/ AppendEvent(r)) /\ UNCHANGED <<vars, paging>>
    \/ StoreStep(r) /\ UNCHANGED <<vars, roundVars, paging>>
    \/ (RunReturns(r) \/ RunRaises(r)) /\ UNCHANGED <<storeVars, roundVars, paging>>

Request(r) == (StartRun(r) \/ CreateRun(r)) /\ UNCHANGED <<storeVars, roundVars, paging>>

\* The connections of a process end with it: when it is killed, and, for a run of the
\* CLI, when the run is over, with or without an exception.
ProcessDies ==
    /\ \/ ServerDies /\ Disconnect(ConnectionsOf(Server))
       \/ \E r \in Runs : CliDies(r) /\ Disconnect(ConnectionsOf(r))
    /\ UNCHANGED <<roundVars, paging>>

CliEnds(r) ==
    /\ mode[r] = "cli" /\ pc[r] \in {"saved", "refused", "unsaved"}
    /\ \E c \in ConnectionsOf(r) : open[c]
    /\ Disconnect(ConnectionsOf(r))
    /\ UNCHANGED <<vars, roundVars, paging>>

Client == (FirstPage \/ NextPage) /\ UNCHANGED <<vars, storeVars, roundVars>>

WorkspaceNext ==
    \/ \E r \in Runs : Request(r) \/ RunStep(r) \/ CliEnds(r)
    \/ ProcessDies \/ Client

WorkspaceSpec ==
    /\ WorkspaceInit
    /\ [][WorkspaceNext]_wsVars
    /\ \A r \in Runs : WF_wsVars(RunStep(r))

-----------------------------------------------------------------------------
(* Properties *)

WorkspaceTypeOK ==
    /\ TypeOK
    /\ StoreTypeOK
    /\ \A r \in Runs : saves[r] \in 0..MaxSaves[r]
    /\ doing \in [Runs -> {"begin", "save", "append"}]
    /\ outputs \in [Runs -> SUBSET Rows]
    /\ paging.at \in {"off", "next", "done", "failed"}
    /\ paging.due \cup paging.seen \subseteq Runs

\* The journal never tells of an artifact that is not in the store: an event that is
\* in its file, now or after any crash, lists artifacts that are in theirs.
EventsResolve ==
    \A x \in stored["journal"] : lost \/ outputs[x[1]] \subseteq stored["artifacts"]

\* A client that has paged to the end saw every run whose result was there when it
\* began, whatever was started and saved meanwhile, unless saves overlapped.
PagingComplete == paging.at = "done" /\ ~disturbed => paging.due \subseteq paging.seen
=============================================================================
