----------------------------- MODULE MCCollector -----------------------------
(* Small instances of Collector for TLC. *)
EXTENDS Collector, TLC

CONSTANTS acme, rival,      \* the product's company and a competitor
          u1, u2, u3,       \* urls that searches find
          d1, d2, d3,       \* guessed urls
          rework            \* https://rework.local/...

AcmeAndRival == <<acme, rival>>
ThreeUrls    == {u1, u2, u3}
TwoUrls      == {u1, u2}
\* The second: the company's name gives no slug.
Guesses      == (acme :> <<d1>> @@ rival :> <<d2>>)
RivalGuesses == (acme :> <<>> @@ rival :> <<d1, d2, d3>>)
UrlSymmetry  == Permutations(TwoUrls)
=============================================================================
