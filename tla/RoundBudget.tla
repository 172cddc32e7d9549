---------------------------- MODULE RoundBudget ----------------------------
(***************************************************************************)
(* What the runtime harness promises to its callers (the orchestrator and  *)
(* the rework loop), with the way it decides left out: one agent at a time *)
(* is invoked; an invocation spends rounds of that agent's budget, the     *)
(* budget is shared by every invocation of the agent in the run, and an    *)
(* invocation ends with a conclusive answer or by an exception.            *)
(***************************************************************************)
EXTENDS Naturals

CONSTANTS Agents,       \* the names of the agents a run invokes
          MaxRounds,    \* agent_profiles.yaml: the round budget of each agent
          NoAgent       \* nobody is being invoked

VARIABLES used,         \* rounds of its budget each agent has spent
          active,       \* the agent being invoked, or NoAgent
          answer        \* how the last invocation ended

vars == <<used, active, answer>>

Conclusive == {"stop", "rework", "abort"}

Init ==
    /\ used = [a \in Agents |-> 0]
    /\ active = NoAgent
    /\ answer = "none"

\* An invocation of an agent with budget left begins.
Begin(a) ==
    /\ active = NoAgent
    /\ used[a] < MaxRounds[a]
    /\ active' = a
    /\ answer' = "none"
    /\ UNCHANGED used

\* An agent whose budget is spent is not run: its invocation aborts at once.
Refuse(a) ==
    /\ active = NoAgent
    /\ used[a] = MaxRounds[a]
    /\ answer' = "abort"
    /\ UNCHANGED <<used, active>>

\* A round that leaves the invocation going: another round must be left.
Spend(a) ==
    /\ active = a
    /\ used[a] + 1 < MaxRounds[a]
    /\ used' = [used EXCEPT ![a] = @ + 1]
    /\ UNCHANGED <<active, answer>>

\* A round that ends it: conclusively, or with "retry" on the last round.
Finish(a) ==
    /\ active = a
    /\ used[a] < MaxRounds[a]
    /\ used' = [used EXCEPT ![a] = @ + 1]
    /\ active' = NoAgent
    /\ \/ answer' \in Conclusive
       \/ used'[a] = MaxRounds[a] /\ answer' = "retry"

\* The agent or a store raised: the round is not journalled.
Raise(a) ==
    /\ active = a
    /\ active' = NoAgent
    /\ answer' = "raised"
    /\ UNCHANGED used

Step(a) == Spend(a) \/ Finish(a) \/ Raise(a)

Next == \E a \in Agents : Begin(a) \/ Refuse(a) \/ Step(a)

Fairness == \A a \in Agents : WF_vars(Step(a))

Spec == Init /\ [][Next]_vars /\ Fairness
=============================================================================
