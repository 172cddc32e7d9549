----------------------------- MODULE MCWebTools -----------------------------
(* WebTools on small instances. *)
EXTENDS WebTools, TLC

CONSTANTS r1, r2, page, host, ddg, text, blank

TwoRuns    == {r1, r2}
OnePage    == {page}
HostOfPage == page :> host
JustDdg    == <<ddg>>
TwoEndpoints == ddg :> 2
\* A tick is a second: DuckDuckGo 1 per second in bursts of 2, hosts 1 in two seconds.
Rates      == ddg :> 4 @@ host :> 2
Bursts     == ddg :> 2 @@ host :> 1
RunSymmetry == Permutations(TwoRuns)
=============================================================================
