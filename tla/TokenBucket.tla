---------------------------- MODULE TokenBucket ----------------------------
(***************************************************************************)
(* runtime/rate_limiter.py: the token bucket of one search engine or host. *)
(* Time is in ticks and tokens in parts, One of which make a token, so     *)
(* that what a tick earns is a whole number of parts.                      *)
(***************************************************************************)
EXTENDS Integers, FiniteSetsExt

CONSTANTS One,            \* parts of a token
          PenaltyTicks    \* duration of penalize, 30 s in the code

ASSUME PartsAssumption == One \in Nat \ {0} /\ PenaltyTicks \in Nat \ {0}

\* rate: parts per tick; until: the end of the penalty; halved: _penalty_factor is 0.5.
Bucket(rate, burst, now) ==
    [rate |-> rate, burst |-> burst, tokens |-> burst * One, last |-> now, until |-> 0,
     halved |-> FALSE]

\* _effective_rate.  It also resets the factor after the penalty (Refilled).
EffectiveRate(b, now) == IF now < b.until /\ b.halved THEN b.rate \div 2 ELSE b.rate

\* Wrong, for mutants: the burst is no cap; the time of the last refill stays.
RefilledUncapped(b, now) ==
    [b EXCEPT !.tokens = b.tokens + (now - b.last) * EffectiveRate(b, now), !.last = now,
              !.halved = b.halved /\ now < b.until]
RefilledAgain(b, now) ==
    [b EXCEPT !.tokens = Min({b.burst * One, b.tokens + (now - b.last) * EffectiveRate(b, now)}),
              !.halved = b.halved /\ now < b.until]

\* The refill of acquire: all the time since the last one counts at the rate of now.
Refilled(b, now) ==
    [b EXCEPT !.tokens = Min({b.burst * One, b.tokens + (now - b.last) * EffectiveRate(b, now)}),
              !.last = now,
              !.halved = b.halved /\ now < b.until]

HasToken(b) == b.tokens >= One
Consumed(b) == [b EXCEPT !.tokens = @ - One]

\* Ticks until the deficit is earned.
Wait(b, now) ==
    LET rate == Max({1, EffectiveRate(b, now)})
    IN  (One - b.tokens + rate - 1) \div rate

Penalized(b, now) == [b EXCEPT !.until = Max({@, now + PenaltyTicks}), !.halved = TRUE]
=============================================================================
