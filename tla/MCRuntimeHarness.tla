-------------------------- MODULE MCRuntimeHarness --------------------------
(* RuntimeHarness on a small instance. *)
EXTENDS RuntimeHarness

CONSTANTS collector, search, fetch

\* One agent with the budget to trip the breaker and exhaust its retries.
OneAgent       == {collector}
OneAgentBudget == [a \in {collector} |-> 3]
Tools          == {search, fetch}
=============================================================================
