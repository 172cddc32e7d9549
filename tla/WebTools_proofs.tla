--------------------------- MODULE WebTools_proofs ---------------------------
(***************************************************************************)
(* Theorems of WebTools for all runs, pages, engines, rates and bounds,    *)
(* and their proofs: the limits of the buckets, whatever waits, penalties  *)
(* and restarts come, and the texts behind the cached pages.               *)
(***************************************************************************)
EXTENDS WebTools, TLAPS

-----------------------------------------------------------------------------
(* Arithmetic of the smallest and the greatest of two numbers, and of      *)
(* products of numbers the provers do not know.                            *)

LEMMA MinOfTwo ==
    ASSUME NEW x \in Int, NEW y \in Int
    PROVE  Min({x, y}) \in Int /\ Min({x, y}) <= x /\ Min({x, y}) <= y
           /\ (Min({x, y}) = x \/ Min({x, y}) = y)
<1>1. \E z \in {x, y} : \A w \in {x, y} : z <= w
  OBVIOUS
<1> QED
  BY <1>1 DEF Min

LEMMA MaxOfTwo ==
    ASSUME NEW x \in Int, NEW y \in Int
    PROVE  Max({x, y}) \in Int /\ Max({x, y}) >= x /\ Max({x, y}) >= y
           /\ (Max({x, y}) = x \/ Max({x, y}) = y)
<1>1. \E z \in {x, y} : \A w \in {x, y} : z >= w
  OBVIOUS
<1> QED
  BY <1>1 DEF Max

LEMMA Products ==
    ASSUME NEW x \in Nat, NEW y \in Nat
    PROVE  x * y \in Nat /\ (x + 1) * y = x * y + y
OBVIOUS

LEMMA ProductsGrow ==
    ASSUME NEW x \in Nat, NEW y \in Nat, NEW z \in Nat, x <= y
    PROVE  x * z <= y * z
<1>1. y - x \in Nat /\ y = x + (y - x)
  OBVIOUS
<1>2. PICK d \in Nat : y = x + d
  BY <1>1
<1>3. y * z = x * z + d * z /\ d * z \in Nat /\ x * z \in Nat
  BY <1>2
<1> QED
  BY <1>3

\* What is earned from a to c is what is earned to b and what is earned from there.
LEMMA EarnedInParts ==
    ASSUME NEW rate \in Nat, NEW a \in Nat, NEW b \in Nat, NEW c \in Nat, a <= b, b <= c
    PROVE  /\ rate * (c - a) = rate * (b - a) + rate * (c - b)
           /\ rate * (c - a) \in Nat /\ rate * (b - a) \in Nat /\ rate * (c - b) \in Nat
<1>1. c - b \in Nat /\ b - a \in Nat /\ c - a = (b - a) + (c - b)
  OBVIOUS
<1>2. \A x \in Nat, y \in Nat : rate * (x + y) = rate * x + rate * y
                                /\ rate * x \in Nat /\ rate * y \in Nat
  OBVIOUS
<1> QED
  BY <1>1, <1>2

LEMMA HalfRate ==
    ASSUME NEW rate \in Nat
    PROVE  rate \div 2 \in Nat /\ rate \div 2 <= rate
OBVIOUS

-----------------------------------------------------------------------------
(* One bucket: what it has let pass and what it holds now were earned      *)
(* since, or were in it as a burst.  While a penalty lasts this is so at   *)
(* half the rate for what it let pass during the penalty.                  *)

Buckets == [rate : Nat, burst : Nat, tokens : Nat, last : Nat, until : Nat, halved : BOOLEAN]

Earned(times, from, b, rate) ==
    \A i \in DOMAIN times :
        from <= times[i] =>
            (Len(times) - i + 1) * One + b.tokens <= b.burst * One + rate * (b.last - times[i])

BucketOK(b, t) ==
    /\ b \in Buckets
    /\ b.tokens <= b.burst * One /\ b.last <= t /\ b.until <= t + PenaltyTicks
    /\ t < b.until => b.halved

TimesOK(b, times, from, t) ==
    /\ times \in Seq(Nat) /\ from \in Nat /\ from <= t
    /\ \A i \in DOMAIN times : times[i] <= b.last

SiteOK(b, times, from, t) ==
    /\ BucketOK(b, t)
    /\ TimesOK(b, times, from, t)
    /\ Earned(times, 0, b, b.rate)
    /\ t < b.until => Earned(times, from, b, b.rate \div 2)
    /\ Paced(times, DOMAIN times, b.rate, b.burst)
    /\ Paced(times, Penalised(times, from, b.until), b.rate \div 2, b.burst)

LEMMA FreshSite ==
    ASSUME NEW rate \in Nat, NEW burst \in Nat, NEW t \in Nat
    PROVE  SiteOK(Bucket(rate, burst, t), <<>>, 0, t)
<1> DEFINE b == Bucket(rate, burst, t)
<1>1. burst * One \in Nat
  BY PartsAssumption
<1>2. b \in Buckets /\ b.tokens = burst * One /\ b.burst = burst /\ b.last = t /\ b.until = 0
  BY <1>1 DEF Buckets, Bucket
<1>3. BucketOK(b, t)
  BY <1>1, <1>2, PartsAssumption DEF BucketOK
<1> HIDE DEF b
<1>4. <<>> \in Seq(Nat) /\ DOMAIN <<>> = {}
  OBVIOUS
<1>5. TimesOK(b, <<>>, 0, t)
  BY <1>4 DEF TimesOK
<1> QED
  BY <1>3, <1>4, <1>5 DEF SiteOK, Earned, Paced, Penalised, b

\* Time passes.
LEMMA SiteLater ==
    ASSUME NEW b, NEW times, NEW from, NEW t \in Nat, SiteOK(b, times, from, t)
    PROVE  SiteOK(b, times, from, t + 1)
<1>1. BucketOK(b, t + 1)
  BY PartsAssumption DEF SiteOK, BucketOK, Buckets
<1>2. t + 1 < b.until => t < b.until
  BY DEF SiteOK, BucketOK, Buckets
<1>3. TimesOK(b, times, from, t + 1)
  BY DEF SiteOK, TimesOK
<1> QED
  BY <1>1, <1>2, <1>3 DEF SiteOK

LEMMA TimeIsTyped ==
    ASSUME NEW b, NEW times, NEW from, NEW t \in Nat, BucketOK(b, t), TimesOK(b, times, from, t),
           NEW i \in DOMAIN times
    PROVE  /\ times[i] \in Nat /\ b.last \in Nat /\ times[i] <= b.last /\ b.last <= t
           /\ Len(times) \in Nat /\ i \in 1..Len(times) /\ DOMAIN times = 1..Len(times)
           /\ Len(times) - i + 1 \in Nat /\ (Len(times) - i + 1) * One \in Nat
<1>1. times \in Seq(Nat) /\ times[i] <= b.last
  BY DEF TimesOK
<1>2. times[i] \in Nat /\ Len(times) \in Nat /\ i \in 1..Len(times) /\ DOMAIN times = 1..Len(times)
  BY <1>1
<1>3. b.last \in Nat /\ b.last <= t
  BY DEF BucketOK, Buckets
<1>4. Len(times) - i + 1 \in Nat
  BY <1>2
<1> QED
  BY <1>1, <1>2, <1>3, <1>4, Products, PartsAssumption

\* What a refill at a rate adds was earned since the last one.
LEMMA RefillEarns ==
    ASSUME NEW b, NEW times, NEW from, NEW t \in Nat, NEW rate \in Nat, NEW refilled,
           BucketOK(b, t), TimesOK(b, times, from, t), NEW lo, Earned(times, lo, b, rate),
           BucketOK(refilled, t), refilled.last = t, refilled.burst = b.burst,
           refilled.tokens <= b.tokens + rate * (t - b.last)
    PROVE  Earned(times, lo, refilled, rate)
<1> SUFFICES ASSUME NEW i \in DOMAIN times, lo <= times[i]
             PROVE  (Len(times) - i + 1) * One + refilled.tokens
                        <= b.burst * One + rate * (t - times[i])
  BY DEF Earned
<1>1. /\ times[i] \in Nat /\ b.last \in Nat /\ times[i] <= b.last /\ b.last <= t
      /\ (Len(times) - i + 1) * One \in Nat
  BY TimeIsTyped
<1>2. (Len(times) - i + 1) * One + b.tokens <= b.burst * One + rate * (b.last - times[i])
  BY DEF Earned
<1>3. PICK a \in Nat, l \in Nat : a = times[i] /\ l = b.last
  BY <1>1
<1>4. /\ rate * (t - a) = rate * (l - a) + rate * (t - l)
      /\ rate * (t - a) \in Nat /\ rate * (l - a) \in Nat /\ rate * (t - l) \in Nat
  <2>1. a <= l /\ l <= t
    BY <1>1, <1>3
  <2> HIDE <1>3
  <2> QED
    BY <2>1, EarnedInParts
<1>5. b.burst * One \in Nat /\ b.tokens \in Nat /\ refilled.tokens \in Nat
  BY PartsAssumption, Products DEF BucketOK, Buckets
<1> DEFINE whole == rate * (t - a)
           part  == rate * (l - a)
           rest  == rate * (t - l)
           used  == (Len(times) - i + 1) * One
           cap   == b.burst * One
<1>6. used + b.tokens <= cap + part /\ refilled.tokens <= b.tokens + rest
  BY <1>2, <1>3
<1>7. whole = part + rest /\ whole \in Nat /\ part \in Nat /\ rest \in Nat /\ used \in Nat
      /\ cap \in Nat
  BY <1>1, <1>4, <1>5
<1> HIDE DEF whole, part, rest, used, cap
<1>8. used + refilled.tokens <= cap + whole
  BY <1>5, <1>6, <1>7
<1> QED
  BY <1>3, <1>8 DEF whole, used, cap

\* The refill of acquire.
LEMMA RefilledFacts ==
    ASSUME NEW b, NEW t \in Nat, BucketOK(b, t)
    PROVE  LET c == Refilled(b, t)
           IN  /\ BucketOK(c, t) /\ c.last = t /\ c.until = b.until
               /\ c.rate = b.rate /\ c.burst = b.burst
               /\ c.tokens <= b.tokens + b.rate * (t - b.last)
               /\ t < b.until => c.tokens <= b.tokens + (b.rate \div 2) * (t - b.last)
<1> DEFINE c     == Refilled(b, t)
           rate  == EffectiveRate(b, t)
           since_last == t - b.last
           added == since_last * rate
           cap   == b.burst * One
<1>1. /\ b.rate \in Nat /\ b.burst \in Nat /\ b.tokens \in Nat /\ b.last \in Nat
      /\ b.until \in Nat /\ b.halved \in BOOLEAN /\ b.last <= t
      /\ b.tokens <= cap /\ b.until <= t + PenaltyTicks /\ (t < b.until => b.halved)
  BY DEF BucketOK, Buckets
<1>2. /\ rate \in Nat /\ rate <= b.rate /\ (t < b.until => rate = b.rate \div 2)
      /\ since_last \in Nat
  BY <1>1, HalfRate DEF EffectiveRate
<1>3. cap \in Nat /\ added \in Nat
  BY <1>1, <1>2, Products, PartsAssumption
<1>4. added <= b.rate * (t - b.last)
  <2> HIDE DEF rate, since_last
  <2>1. rate * since_last <= b.rate * since_last
    BY <1>1, <1>2, ProductsGrow
  <2>2. added = rate * since_last
    BY <1>2
  <2> QED
    BY <2>1, <2>2 DEF since_last
<1>5. t < b.until => added = (b.rate \div 2) * (t - b.last)
  <2> HIDE DEF rate, since_last
  <2>1. added = rate * since_last
    BY <1>2
  <2> QED
    BY <1>2, <2>1 DEF since_last
<1> DEFINE held   == Min({cap, b.tokens + added})
           halved == b.halved /\ t < b.until
<1>6. c = [b EXCEPT !.tokens = held, !.last = t, !.halved = halved]
  BY DEF Refilled
<1> HIDE DEF c, rate, since_last, added, cap
<1>7. held \in Nat /\ held <= cap /\ held <= b.tokens + added
  <2>1. PICK x \in Nat, y \in Nat : x = cap /\ y = b.tokens + added
    BY <1>1, <1>3
  <2>2. Min({x, y}) \in Int /\ Min({x, y}) <= x /\ Min({x, y}) <= y
        /\ (Min({x, y}) = x \/ Min({x, y}) = y)
    BY MinOfTwo
  <2> QED
    BY <2>1, <2>2
<1> HIDE DEF held
<1>8. b \in Buckets /\ halved \in BOOLEAN /\ (t < b.until => halved)
  BY <1>1 DEF BucketOK
<1> HIDE DEF halved
<1>9. /\ c.tokens = held /\ c.last = t /\ c.until = b.until /\ c.halved = halved
       /\ c.rate = b.rate /\ c.burst = b.burst /\ c \in Buckets
  BY <1>6, <1>7, <1>8 DEF Buckets
<1>10. c.tokens \in Nat /\ c.tokens <= cap /\ c.tokens <= b.tokens + added
  BY <1>7, <1>9
<1>11. BucketOK(c, t)
  BY <1>1, <1>10, <1>8, <1>9 DEF BucketOK, cap
<1>12. c.tokens <= b.tokens + b.rate * (t - b.last)
  <2>1. b.rate * (t - b.last) \in Nat
    <3>1. t - b.last \in Nat
      BY <1>1
    <3> QED
      BY <1>1, <3>1, Products
  <2> QED
    BY <1>1, <1>3, <1>4, <1>10, <2>1
<1>13. t < b.until => c.tokens <= b.tokens + (b.rate \div 2) * (t - b.last)
  BY <1>5, <1>10
<1> QED
  BY <1>9, <1>11, <1>12, <1>13 DEF c

LEMMA SiteRefilled ==
    ASSUME NEW b, NEW times, NEW from, NEW t \in Nat, SiteOK(b, times, from, t)
    PROVE  SiteOK(Refilled(b, t), times, from, t)
<1>1. PICK c : c = Refilled(b, t)
  OBVIOUS
<1>2. /\ BucketOK(c, t) /\ c.last = t /\ c.until = b.until
      /\ c.rate = b.rate /\ c.burst = b.burst
      /\ c.tokens <= b.tokens + b.rate * (t - b.last)
      /\ t < b.until => c.tokens <= b.tokens + (b.rate \div 2) * (t - b.last)
  BY <1>1, RefilledFacts DEF SiteOK
<1>3. /\ BucketOK(b, t) /\ TimesOK(b, times, from, t) /\ b.rate \in Nat
      /\ b.last <= t /\ b.last \in Nat
  BY DEF SiteOK, BucketOK, Buckets
<1>4. Earned(times, 0, c, c.rate)
  BY <1>2, <1>3, RefillEarns DEF SiteOK
<1>5. ASSUME t < b.until PROVE Earned(times, from, c, c.rate \div 2)
  BY <1>2, <1>3, <1>5, HalfRate, RefillEarns DEF SiteOK
<1>6. TimesOK(c, times, from, t)
  <2>1. \A i \in DOMAIN times : times[i] \in Nat
    BY <1>3 DEF TimesOK
  <2>2. \A i \in DOMAIN times : times[i] <= b.last
    BY <1>3 DEF TimesOK
  <2>3. \A i \in DOMAIN times : times[i] <= t
    BY <1>3, <2>1, <2>2
  <2> QED
    BY <1>2, <1>3, <2>3 DEF TimesOK
<1> QED
  BY <1>1, <1>2, <1>4, <1>5, <1>6 DEF SiteOK

\* One token fewer pays for one request more.
LEMMA ConsumeEarns ==
    ASSUME NEW b, NEW times, NEW from, NEW t \in Nat, NEW rate \in Nat,
           BucketOK(b, t), TimesOK(b, times, from, t), b.last = t, HasToken(b),
           NEW lo \in Nat, Earned(times, lo, b, rate)
    PROVE  Earned(Append(times, t), lo, Consumed(b), rate)
<1> DEFINE c     == Consumed(b)
           later == Append(times, t)
           n     == Len(times)
           cap   == b.burst * One
<1>1. /\ times \in Seq(Nat) /\ n \in Nat /\ DOMAIN times = 1..n
      /\ later \in Seq(Nat) /\ Len(later) = n + 1 /\ DOMAIN later = 1..(n + 1)
      /\ later[n + 1] = t /\ \A i \in 1..n : later[i] = times[i]
  BY DEF TimesOK
<1>2. /\ b.tokens \in Nat /\ b.tokens >= One /\ b.tokens <= cap /\ b.burst \in Nat
      /\ c.tokens = b.tokens - One /\ c.burst = b.burst /\ c.last = t /\ One \in Nat
  BY PartsAssumption DEF BucketOK, Buckets, HasToken, Consumed
<1>3. cap \in Nat
  BY <1>2, Products
<1> HIDE DEF c, later, n, cap
<1> SUFFICES ASSUME NEW i \in 1..(n + 1), lo <= later[i]
             PROVE  (n + 1 - i + 1) * One + c.tokens <= cap + rate * (t - later[i])
  BY <1>1, <1>2 DEF Earned, c, later, cap
<1>4. CASE i = n + 1
  <2>1. (n + 1 - i + 1) * One = One /\ rate * (t - later[i]) = 0
    <3>1. n + 1 - i + 1 = 1 /\ t - later[i] = 0
      BY <1>1, <1>4
    <3> QED
      BY <1>2, <3>1
  <2> QED
    BY <1>2, <1>3, <2>1
<1>5. CASE i \in 1..n
  <2>1. (n - i + 1) * One + b.tokens <= cap + rate * (t - later[i])
    BY <1>1, <1>5 DEF Earned, n, cap
  <2>2. PICK k \in Nat : k = n - i + 1
    BY <1>1, <1>5
  <2>3. n + 1 - i + 1 = k + 1
    BY <1>1, <1>5, <2>2
  <2>4. (k + 1) * One = k * One + One /\ k * One \in Nat
    BY <1>2, Products
  <2>5. rate * (t - later[i]) \in Nat
    <3>1. later[i] \in Nat /\ later[i] <= t
      BY <1>1, <1>5 DEF TimesOK
    <3>2. t - later[i] \in Nat
      BY <3>1
    <3> QED
      BY <3>2, Products
  <2> QED
    BY <1>2, <1>3, <2>1, <2>2, <2>3, <2>4, <2>5
<1> QED
  BY <1>1, <1>4, <1>5

\* Where every request was earned up to now, so was every stretch that ends now.
LEMMA PacedAppended ==
    ASSUME NEW times \in Seq(Nat), NEW t \in Nat, NEW rate \in Nat, NEW b, NEW lo \in Nat,
           b.tokens \in Nat, b.last = t, Earned(Append(times, t), lo, b, rate),
           b.burst * One \in Nat,
           NEW W \in SUBSET DOMAIN times, \A i \in W : lo <= times[i] /\ times[i] <= t, lo <= t,
           Paced(times, W, rate, b.burst)
    PROVE  Paced(Append(times, t), W \cup {Len(times) + 1}, rate, b.burst)
<1> DEFINE later == Append(times, t)
           n     == Len(times)
<1>1. /\ n \in Nat /\ DOMAIN times = 1..n /\ Len(later) = n + 1 /\ DOMAIN later = 1..(n + 1)
      /\ later[n + 1] = t /\ \A i \in 1..n : later[i] = times[i] /\ times[i] \in Nat
  OBVIOUS
<1>2. Earned(later, lo, b, rate)
  OBVIOUS
<1> HIDE DEF later, n
<1> SUFFICES ASSUME NEW i \in W \cup {n + 1}, NEW j \in W \cup {n + 1}, i <= j
             PROVE  (j - i + 1) * One <= b.burst * One + rate * (later[j] - later[i])
  BY DEF Paced, later, n
<1>3. CASE j \in W
  <2>1. i \in W /\ i \in 1..n /\ j \in 1..n
    BY <1>1, <1>3
  <2>2. (j - i + 1) * One <= b.burst * One + rate * (times[j] - times[i])
    BY <1>3, <2>1 DEF Paced
  <2> QED
    BY <1>1, <2>1, <2>2
<1>4. CASE j = n + 1
  <2>1. i \in 1..(n + 1) /\ lo <= later[i] /\ later[i] \in Nat /\ later[i] <= t
    BY <1>1
  <2>2. (n + 1 - i + 1) * One + b.tokens <= b.burst * One + rate * (t - later[i])
    <3>1. i \in DOMAIN later
      BY <1>1, <2>1
    <3>2. (Len(later) - i + 1) * One + b.tokens <= b.burst * One + rate * (b.last - later[i])
      BY <1>2, <2>1, <3>1 DEF Earned
    <3>3. Len(later) = n + 1
      BY <1>1
    <3> QED
      BY <1>1, <2>1, <3>2, <3>3, PartsAssumption
  <2>3. n + 1 - i + 1 = j - i + 1 /\ j - i + 1 \in Nat /\ later[j] = t
    BY <1>1, <1>4, <2>1
  <2>4. (j - i + 1) * One \in Nat
    BY <2>3, Products, PartsAssumption
  <2>5. rate * (t - later[i]) \in Nat
    <3>1. t - later[i] \in Nat
      BY <2>1
    <3> QED
      BY <3>1, Products
  <2> QED
    BY <2>2, <2>3, <2>4, <2>5
<1> QED
  BY <1>3, <1>4

LEMMA SiteConsumed ==
    ASSUME NEW b, NEW times, NEW from, NEW t \in Nat, SiteOK(b, times, from, t),
           b.last = t, HasToken(b)
    PROVE  SiteOK(Consumed(b), Append(times, t), from, t)
<1> DEFINE later == Append(times, t)
<1>1. /\ BucketOK(b, t) /\ TimesOK(b, times, from, t) /\ times \in Seq(Nat) /\ from \in Nat
      /\ from <= t /\ b.rate \in Nat /\ b.rate \div 2 \in Nat /\ b.burst \in Nat
      /\ b.burst * One \in Nat /\ b.until \in Nat
      /\ \A i \in DOMAIN times : times[i] \in Nat /\ times[i] <= t
  BY HalfRate, Products, PartsAssumption DEF SiteOK, BucketOK, Buckets, TimesOK
<1>2. PICK c : c = Consumed(b)
  OBVIOUS
<1>3. /\ BucketOK(c, t) /\ c.last = t /\ c.rate = b.rate /\ c.burst = b.burst
      /\ c.until = b.until /\ c.tokens \in Nat
  <2>1. /\ b \in Buckets /\ b.tokens \in Nat /\ b.tokens - One \in Nat
        /\ b.tokens - One <= b.burst * One
    BY <1>1, PartsAssumption DEF HasToken, BucketOK, Buckets
  <2> QED
    BY <1>1, <1>2, <2>1 DEF Consumed, BucketOK, Buckets
<1>4. /\ Earned(later, 0, c, b.rate)
      /\ t < b.until => Earned(later, from, c, b.rate \div 2)
  BY <1>1, <1>2, ConsumeEarns DEF SiteOK
<1>5. /\ DOMAIN later = DOMAIN times \cup {Len(times) + 1} /\ later \in Seq(Nat)
      /\ later[Len(times) + 1] = t /\ \A i \in DOMAIN times : later[i] = times[i]
      /\ Len(times) + 1 \notin DOMAIN times
  BY <1>1
<1> HIDE DEF later
<1>6. TimesOK(c, later, from, t)
  BY <1>1, <1>3, <1>5 DEF TimesOK
<1>7. Paced(later, DOMAIN later, b.rate, b.burst)
  <2>1. Paced(times, DOMAIN times, b.rate, c.burst)
    BY <1>3 DEF SiteOK
  <2>2. \A i \in DOMAIN times : 0 <= times[i] /\ times[i] <= t
    BY <1>1
  <2>3. PICK W : W = DOMAIN times
    OBVIOUS
  <2>4. W \in SUBSET DOMAIN times /\ 0 \in Nat /\ 0 <= t
    BY <2>3
  <2>5. Paced(later, W \cup {Len(times) + 1}, b.rate, c.burst)
    BY <1>1, <1>3, <1>4, <2>1, <2>2, <2>3, <2>4, PacedAppended DEF later
  <2> QED
    BY <1>3, <1>5, <2>3, <2>5
<1>8. Paced(later, Penalised(later, from, b.until), b.rate \div 2, b.burst)
  <2> DEFINE W == Penalised(times, from, b.until)
  <2>1. W \in SUBSET DOMAIN times /\ \A i \in W : from <= times[i] /\ times[i] <= t
    BY <1>1 DEF Penalised
  <2>2. Paced(times, W, b.rate \div 2, b.burst)
    BY DEF SiteOK
  <2>3. CASE t < b.until
    <3>1. Penalised(later, from, b.until) = W \cup {Len(times) + 1}
      BY <1>1, <1>5, <2>3 DEF Penalised
    <3> HIDE DEF W
    <3> QED
      BY <1>1, <1>3, <1>4, <2>1, <2>2, <2>3, <3>1, PacedAppended DEF later
  <2>4. CASE ~(t < b.until)
    <3>1. Penalised(later, from, b.until) = W
      BY <1>1, <1>5, <2>4 DEF Penalised
    <3>2. \A i \in W : later[i] = times[i]
      BY <1>5, <2>1
    <3> HIDE DEF W
    <3> QED
      BY <2>2, <3>1, <3>2 DEF Paced
  <2> QED
    BY <2>3, <2>4
<1> QED
  BY <1>2, <1>3, <1>4, <1>6, <1>7, <1>8 DEF SiteOK, later

\* A penalty, or one more while it lasts.
LEMMA SitePenalized ==
    ASSUME NEW b, NEW times, NEW from, NEW t \in Nat, SiteOK(b, times, from, t)
    PROVE  SiteOK(Penalized(b, t), times, IF t < b.until THEN from ELSE t, t)
<1> DEFINE start == IF t < b.until THEN from ELSE t
<1>1. /\ BucketOK(b, t) /\ TimesOK(b, times, from, t) /\ times \in Seq(Nat) /\ from \in Nat
      /\ from <= t /\ b.rate \in Nat /\ b.burst \in Nat /\ b.tokens \in Nat /\ b.last \in Nat
      /\ b.burst * One \in Nat /\ b.until \in Nat /\ b.until <= t + PenaltyTicks
      /\ b.last <= t
      /\ b.rate \div 2 \in Nat /\ PenaltyTicks \in Nat /\ PenaltyTicks > 0
  BY Products, HalfRate, PartsAssumption DEF SiteOK, BucketOK, Buckets, TimesOK
<1>2. Max({b.until, t + PenaltyTicks}) = t + PenaltyTicks
  <2>1. PICK x \in Nat, y \in Nat : x = b.until /\ y = t + PenaltyTicks /\ x <= y
    BY <1>1
  <2>2. Max({x, y}) \in Int /\ Max({x, y}) >= x /\ Max({x, y}) >= y
        /\ (Max({x, y}) = x \/ Max({x, y}) = y)
    BY MaxOfTwo
  <2> QED
    BY <2>1, <2>2
<1>3. PICK c : c = Penalized(b, t)
  OBVIOUS
<1>4. /\ BucketOK(c, t) /\ c.last = b.last /\ c.rate = b.rate /\ c.burst = b.burst
      /\ c.tokens = b.tokens /\ c.until = t + PenaltyTicks /\ t < c.until
  <2>1. c = [b EXCEPT !.until = t + PenaltyTicks, !.halved = TRUE]
    BY <1>2, <1>3 DEF Penalized
  <2>2. b \in Buckets /\ t + PenaltyTicks \in Nat /\ t < t + PenaltyTicks
    BY <1>1 DEF BucketOK
  <2>3. /\ c \in Buckets /\ c.last = b.last /\ c.rate = b.rate /\ c.burst = b.burst
        /\ c.tokens = b.tokens /\ c.until = t + PenaltyTicks /\ c.halved = TRUE
    BY <2>1, <2>2 DEF Buckets
  <2>4. b.tokens <= b.burst * One
    BY <1>1 DEF BucketOK
  <2> QED
    BY <1>1, <2>2, <2>3, <2>4 DEF BucketOK
<1>5. start \in Nat /\ start <= t
  BY <1>1
<1>6. TimesOK(c, times, start, t)
  BY <1>1, <1>4, <1>5 DEF TimesOK
<1>7. \A i \in DOMAIN times : times[i] \in Nat /\ times[i] <= b.last /\ times[i] <= t
  BY <1>1 DEF TimesOK
<1>8. Earned(times, 0, c, c.rate)
  BY <1>4 DEF SiteOK, Earned
<1>9. Earned(times, start, c, c.rate \div 2)
  <2>1. CASE t < b.until
    BY <1>4, <2>1 DEF SiteOK, Earned
  <2>2. CASE ~(t < b.until)
    <3> SUFFICES ASSUME NEW i \in DOMAIN times, t <= times[i]
                 PROVE  (Len(times) - i + 1) * One + b.tokens
                            <= b.burst * One + (b.rate \div 2) * (b.last - times[i])
      BY <1>4, <2>2 DEF Earned
    <3>1. b.last - times[i] = 0 /\ times[i] \in Nat /\ 0 <= times[i]
      BY <1>1, <1>7
    <3>2. (Len(times) - i + 1) * One + b.tokens
              <= b.burst * One + b.rate * (b.last - times[i])
      BY <3>1 DEF SiteOK, Earned
    <3>3. b.rate * 0 = 0 /\ (b.rate \div 2) * 0 = 0
      BY <1>1
    <3> QED
      BY <3>1, <3>2, <3>3
  <2> QED
    BY <2>1, <2>2
<1>10. Paced(times, Penalised(times, start, c.until), b.rate \div 2, b.burst)
  <2>1. CASE t < b.until
    <3>1. Penalised(times, start, c.until) = Penalised(times, from, b.until)
      BY <1>1, <1>4, <1>7, <2>1 DEF Penalised
    <3> QED
      BY <3>1 DEF SiteOK
  <2>2. CASE ~(t < b.until)
    <3> SUFFICES ASSUME NEW i \in DOMAIN times, NEW j \in DOMAIN times, i <= j,
                        t <= times[i], t <= times[j]
                 PROVE  (j - i + 1) * One <= b.burst * One + (b.rate \div 2) * (times[j] - times[i])
      BY <2>2 DEF Paced, Penalised
    <3>1. times[j] - times[i] = 0
      BY <1>7
    <3>2. (j - i + 1) * One <= b.burst * One + b.rate * (times[j] - times[i])
      BY DEF SiteOK, Paced
    <3>3. b.rate * 0 = 0 /\ (b.rate \div 2) * 0 = 0
      BY <1>1
    <3> QED
      BY <3>1, <3>2, <3>3
  <2> QED
    BY <2>1, <2>2
<1> QED
  BY <1>3, <1>4, <1>6, <1>8, <1>9, <1>10 DEF SiteOK

-----------------------------------------------------------------------------
(* The buckets of all runs and sites.                                      *)

LimitInv ==
    /\ now \in Nat
    /\ buckets \in [Runs -> [Sites -> Buckets]]
    /\ granted \in [Runs -> [Sites -> Seq(Nat)]]
    /\ since \in [Runs -> [Sites -> Nat]]
    /\ \A r \in Runs, s \in Sites :
        /\ buckets[r][s].rate = Rate[s] /\ buckets[r][s].burst = Burst[s]
        /\ SiteOK(buckets[r][s], granted[r][s], since[r][s], now)

LEMMA FreshLimits ==
    ASSUME NEW t \in Nat, now' = t, buckets' = FreshBuckets(t),
           granted' = [r \in Runs |-> [s \in Sites |-> <<>>]],
           since' = [r \in Runs |-> [s \in Sites |-> 0]]
    PROVE  LimitInv'
<1>1. ASSUME NEW s \in Sites
      PROVE  /\ Bucket(Rate[s], Burst[s], t) \in Buckets
             /\ Bucket(Rate[s], Burst[s], t).rate = Rate[s]
             /\ Bucket(Rate[s], Burst[s], t).burst = Burst[s]
             /\ SiteOK(Bucket(Rate[s], Burst[s], t), <<>>, 0, t)
  <2>1. Rate[s] \in Nat /\ Burst[s] \in Nat
    BY SitesAssumption
  <2>2. SiteOK(Bucket(Rate[s], Burst[s], t), <<>>, 0, t)
    BY <2>1, FreshSite
  <2> QED
    BY <2>2 DEF SiteOK, BucketOK, Bucket
<1>2. <<>> \in Seq(Nat)
  OBVIOUS
<1> QED
  BY <1>1, <1>2 DEF LimitInv, FreshBuckets

LEMMA LimitsUntouched ==
    ASSUME LimitInv, UNCHANGED limits, now' = now \/ now' = now + 1
    PROVE  LimitInv'
<1>1. /\ now \in Nat /\ now' \in Nat /\ buckets' = buckets /\ granted' = granted /\ since' = since
  BY DEF LimitInv, limits
<1>2. ASSUME NEW r \in Runs, NEW s \in Sites
      PROVE  SiteOK(buckets[r][s], granted[r][s], since[r][s], now')
  <2>1. SiteOK(buckets[r][s], granted[r][s], since[r][s], now)
    BY DEF LimitInv
  <2> QED
    BY <1>1, <2>1, SiteLater
<1> QED
  BY <1>1, <1>2 DEF LimitInv

\* What a step changes is the limit of one run and site.
LEMMA LimitOfASite ==
    ASSUME LimitInv, now' = now, NEW r \in Runs, NEW s \in Sites, NEW c, NEW times, NEW from,
           buckets' = [buckets EXCEPT ![r][s] = c], granted' = [granted EXCEPT ![r][s] = times],
           since' = [since EXCEPT ![r][s] = from],
           c.rate = Rate[s], c.burst = Burst[s], SiteOK(c, times, from, now)
    PROVE  LimitInv'
<1>1. c \in Buckets /\ times \in Seq(Nat) /\ from \in Nat
  BY DEF SiteOK, BucketOK, TimesOK
<1>2. /\ buckets' \in [Runs -> [Sites -> Buckets]]
      /\ granted' \in [Runs -> [Sites -> Seq(Nat)]]
      /\ since' \in [Runs -> [Sites -> Nat]]
  BY <1>1 DEF LimitInv
<1>3. ASSUME NEW q \in Runs, NEW z \in Sites
      PROVE  /\ buckets'[q][z] = IF q = r /\ z = s THEN c ELSE buckets[q][z]
             /\ granted'[q][z] = IF q = r /\ z = s THEN times ELSE granted[q][z]
             /\ since'[q][z] = IF q = r /\ z = s THEN from ELSE since[q][z]
  BY DEF LimitInv
<1>4. ASSUME NEW q \in Runs, NEW z \in Sites
      PROVE  /\ buckets'[q][z].rate = Rate[z] /\ buckets'[q][z].burst = Burst[z]
             /\ SiteOK(buckets'[q][z], granted'[q][z], since'[q][z], now)
  BY <1>3 DEF LimitInv
<1> QED
  BY <1>2, <1>4 DEF LimitInv

\* Leaving a function as it is, is setting one of its values to what it was.
LEMMA SetToItself ==
    ASSUME NEW A, NEW B, NEW C, NEW f \in [A -> [B -> C]], NEW a \in A, NEW b \in B
    PROVE  f = [f EXCEPT ![a][b] = f[a][b]]
OBVIOUS

-----------------------------------------------------------------------------
(* The threads, and the files they share.                                  *)

Steps == [at : {"idle", "acquire", "asleep", "request", "text", "write text", "payload",
                "write payload"},
          site : Sites \cup {None}, url : Urls \cup {None}, page : Pages \cup {None},
          engine : Nat, endpoint : Nat, wake : Int]

Asks(at)    == at \in {"acquire", "asleep", "request"}
Saves(at)   == at \in {"text", "write text", "payload", "write payload"}
Caches(at)  == at \in {"payload", "write payload"}

ThreadOK(t) ==
    /\ t \in Steps
    /\ Asks(t.at) => t.site \in Sites
    /\ Saves(t.at) => t.url \in Urls /\ t.page \in Pages

ThreadInv ==
    /\ step \in [Runs -> Steps]
    /\ \A r \in Runs : ThreadOK(step[r])

FileInv ==
    /\ cache \in [Urls -> {None, Torn} \cup [page : Pages, ref : BOOLEAN]]
    /\ content \in [Urls \X Pages -> {"none", "torn", "whole"}]

CountInv == now \in 0..MaxTime /\ crashes \in 0..MaxCrashes /\ calls \in 0..MaxCalls

\* The text of a page is there, or someone who writes the same text has just emptied it.
Kept(text) ==
    \/ content[text] = "whole"
    \/ /\ content[text] = "torn"
       /\ crashes > 0 \/ \E r \in Runs : step[r].at = "write text" /\ Text(r) = text

\* A page with text is written to the cache only once its text is there.
RefInv ==
    /\ \A u \in Urls : cache[u] \notin {None, Torn} /\ cache[u].ref => Kept(<<u, cache[u].page>>)
    /\ \A r \in Runs :
        Caches(step[r].at) /\ step[r].page # Blank => Kept(Text(r))

WebInv == CountInv /\ LimitInv /\ ThreadInv /\ FileInv /\ RefInv

LEMMA WebInvInit == Init => WebInv
<1> SUFFICES ASSUME Init PROVE WebInv
  OBVIOUS
<1>1. CountInv
  BY BoundsAssumption DEF Init, CountInv
<1>2. LimitInv
  <2>1. ASSUME NEW s \in Sites
        PROVE  /\ Bucket(Rate[s], Burst[s], 0) \in Buckets
               /\ Bucket(Rate[s], Burst[s], 0).rate = Rate[s]
               /\ Bucket(Rate[s], Burst[s], 0).burst = Burst[s]
               /\ SiteOK(Bucket(Rate[s], Burst[s], 0), <<>>, 0, 0)
    <3>1. Rate[s] \in Nat /\ Burst[s] \in Nat /\ 0 \in Nat
      BY SitesAssumption
    <3>2. SiteOK(Bucket(Rate[s], Burst[s], 0), <<>>, 0, 0)
      BY <3>1, FreshSite
    <3> QED
      BY <3>2 DEF SiteOK, BucketOK, Bucket
  <2>2. <<>> \in Seq(Nat) /\ 0 \in Nat
    OBVIOUS
  <2> QED
    BY <2>1, <2>2 DEF LimitInv, FreshBuckets, Init
<1>3. Idle \in Steps /\ Idle.at = "idle"
  BY DEF Idle, Steps
<1>4. ThreadInv
  BY <1>3 DEF Init, ThreadInv, ThreadOK, Asks, Saves
<1>5. \A p \in Pages : OldEntry(p) \in [page : Pages, ref : BOOLEAN] /\ OldEntry(p).ref = FALSE
  BY DEF OldEntry
<1>6. FileInv
  BY <1>5 DEF Init, FileInv
<1>7. RefInv
  <2>1. \A r \in Runs : step[r].at = "idle"
    BY <1>3 DEF Init
  <2>2. \A u \in Urls : cache[u] \notin {None, Torn} => cache[u].ref = FALSE
    BY <1>5 DEF Init
  <2> QED
    BY <2>1, <2>2 DEF RefInv, Caches
<1> QED
  BY <1>1, <1>2, <1>4, <1>6, <1>7 DEF WebInv

\* A text stays kept when its writers go on writing.
LEMMA KeptLater ==
    ASSUME NEW text, Kept(text), content' = content, crashes > 0 => crashes' > 0,
           \/ crashes' > 0
           \/ \A r \in Runs : step[r].at = "write text" => step'[r] = step[r]
    PROVE  Kept(text)'
<1>1. CASE content[text] = "whole"
  BY <1>1 DEF Kept
<1>2. CASE content[text] = "torn" /\ crashes > 0
  BY <1>2 DEF Kept
<1>3. CASE content[text] = "torn" /\ crashes' > 0
  BY <1>3 DEF Kept
<1>4. ASSUME content[text] = "torn", NEW r \in Runs, step[r].at = "write text", Text(r) = text,
             step'[r] = step[r]
      PROVE  Kept(text)'
  <2>1. content'[text] = "torn" /\ step'[r].at = "write text" /\ Text(r)' = text
    BY <1>4 DEF Text
  <2> QED
    BY <2>1 DEF Kept
<1> QED
  BY <1>1, <1>2, <1>3, <1>4 DEF Kept

\* A thread that writes no file goes on.
LEMMA ThreadMoves ==
    ASSUME WebInv, NEW r \in Runs, NEW t, ThreadOK(t), step' = [step EXCEPT ![r] = t],
           UNCHANGED <<files, crashes>>, step[r].at # "write text",
           Caches(t.at) => t.page = Blank \/ (Caches(step[r].at) /\ t.url = step[r].url
                                              /\ t.page = step[r].page)
    PROVE  ThreadInv' /\ FileInv' /\ RefInv'
<1>1. ThreadInv'
  <2>1. t \in Steps
    BY DEF ThreadOK
  <2> QED
    BY <2>1 DEF WebInv, ThreadInv
<1>2. FileInv'
  BY DEF WebInv, FileInv, files
<1>3. /\ step \in [Runs -> Steps] /\ content' = content /\ cache' = cache
      /\ \A q \in Runs : step'[q] = IF q = r THEN t ELSE step[q]
  BY DEF WebInv, ThreadInv, files
<1>4. \A q \in Runs : step[q].at = "write text" => step'[q] = step[q]
  BY <1>3
<1>5. crashes > 0 => crashes' > 0
  OBVIOUS
<1>6. ASSUME NEW text, Kept(text) PROVE Kept(text)'
  BY <1>3, <1>4, <1>5, <1>6, KeptLater
<1>7. ASSUME NEW u \in Urls, cache'[u] \notin {None, Torn}, cache'[u].ref
      PROVE  Kept(<<u, cache[u].page>>)'
  <2>1. PICK text : text = <<u, cache[u].page>>
    OBVIOUS
  <2>2. Kept(text)
    BY <1>3, <1>7, <2>1 DEF WebInv, RefInv
  <2>3. text = <<u, cache[u].page>>'
    BY <1>3, <2>1
  <2> QED
    BY <1>6, <2>2, <2>3
<1>8. ASSUME NEW q \in Runs, Caches(step'[q].at), step'[q].page # Blank
      PROVE  Kept(Text(q))'
  <2>1. Caches(step[q].at) /\ step[q].page # Blank /\ Text(q)' = Text(q)
    BY <1>3, <1>8 DEF Text
  <2>2. PICK text : text = Text(q)
    OBVIOUS
  <2>3. Kept(text)
    BY <2>1, <2>2 DEF WebInv, RefInv
  <2> QED
    BY <1>6, <2>1, <2>2, <2>3
<1> QED
  BY <1>1, <1>2, <1>3, <1>7, <1>8 DEF RefInv

-----------------------------------------------------------------------------
(* Every step keeps the invariant.                                         *)

\* What the steps of a thread make of it.
LEMMA ThreadFacts ==
    ASSUME WebInv, NEW r \in Runs
    PROVE  /\ step[r] \in Steps /\ step \in [Runs -> Steps] /\ ThreadOK(step[r])
           /\ \A at : [step EXCEPT ![r].at = at] = [step EXCEPT ![r] = [step[r] EXCEPT !.at = at]]
BY DEF WebInv, ThreadInv

LEMMA IdleIsOK == ThreadOK(Idle) /\ Idle.at = "idle"
BY DEF Idle, ThreadOK, Steps, Asks, Saves

LEMMA AcquireKeeps ==
    ASSUME WebInv, NEW r \in Runs, Acquire(r)
    PROVE  WebInv'
<1> DEFINE s == step[r].site
           b == Refilled(buckets[r][s], now)
<1>1. /\ step[r].at \in {"acquire", "asleep"} /\ step \in [Runs -> Steps] /\ step[r] \in Steps
      /\ UNCHANGED <<now, cache, content, files, crashes, calls, since>>
  BY ThreadFacts DEF Acquire, files
<1>2. s \in Sites
  BY <1>1, ThreadFacts DEF ThreadOK, Asks
<1>3. /\ LimitInv /\ now \in Nat /\ SiteOK(buckets[r][s], granted[r][s], since[r][s], now)
      /\ buckets[r][s].rate = Rate[s] /\ buckets[r][s].burst = Burst[s]
  BY <1>2 DEF WebInv, LimitInv
<1>4. /\ SiteOK(b, granted[r][s], since[r][s], now) /\ b.last = now
      /\ b.rate = Rate[s] /\ b.burst = Burst[s] /\ b \in Buckets
  <2>1. PICK c : c = buckets[r][s]
    OBVIOUS
  <2>2. BucketOK(c, now) /\ SiteOK(c, granted[r][s], since[r][s], now)
    BY <1>3, <2>1 DEF SiteOK
  <2>3. PICK d : d = Refilled(c, now)
    OBVIOUS
  <2>4. d.last = now /\ d.rate = c.rate /\ d.burst = c.burst /\ BucketOK(d, now)
    BY <1>3, <2>2, <2>3, RefilledFacts
  <2>5. SiteOK(d, granted[r][s], since[r][s], now)
    BY <1>3, <2>2, <2>3, SiteRefilled
  <2> QED
    BY <1>3, <2>1, <2>3, <2>4, <2>5 DEF BucketOK
<1> HIDE DEF s, b
<1>5. since' = [since EXCEPT ![r][s] = since[r][s]]
  BY <1>1, <1>2, <1>3, SetToItself DEF LimitInv
<1>6. CASE HasToken(b)
  <2>1. /\ buckets' = [buckets EXCEPT ![r][s] = Consumed(b)]
        /\ granted' = [granted EXCEPT ![r][s] = Append(granted[r][s], now)]
        /\ step' = [step EXCEPT ![r].at = "request"]
    BY <1>6 DEF Acquire, GoTo, s, b
  <2>2. SiteOK(Consumed(b), Append(granted[r][s], now), since[r][s], now)
    BY <1>3, <1>4, <1>6, SiteConsumed
  <2>3. Consumed(b).rate = Rate[s] /\ Consumed(b).burst = Burst[s]
    BY <1>4 DEF Consumed, Buckets
  <2>4. LimitInv'
    BY <1>1, <1>2, <1>3, <1>5, <2>1, <2>2, <2>3, LimitOfASite
  <2>5. PICK t : t = [step[r] EXCEPT !.at = "request"]
    OBVIOUS
  <2>6. step' = [step EXCEPT ![r] = t] /\ ThreadOK(t) /\ t.at = "request"
    BY <1>1, <1>2, <2>1, <2>5 DEF ThreadOK, Asks, Saves, Steps, s
  <2>7. ThreadInv' /\ FileInv' /\ RefInv'
    BY <1>1, <2>6, ThreadMoves DEF Caches
  <2> QED
    BY <1>1, <2>4, <2>7 DEF WebInv, CountInv
<1>7. CASE ~HasToken(b)
  <2>1. /\ buckets' = [buckets EXCEPT ![r][s] = b]
        /\ step' = [step EXCEPT ![r].at = "asleep", ![r].wake = now + Wait(b, now)]
        /\ granted' = granted
    BY <1>7 DEF Acquire, s, b
  <2>2. granted' = [granted EXCEPT ![r][s] = granted[r][s]]
    BY <1>2, <1>3, <2>1, SetToItself DEF LimitInv
  <2>3. LimitInv'
    BY <1>1, <1>2, <1>3, <1>4, <1>5, <2>1, <2>2, LimitOfASite
  <2>4. now + Wait(b, now) \in Int
    <3>1. /\ b.rate \in Nat /\ b.tokens \in Nat /\ One \in Nat
      BY <1>4, PartsAssumption DEF Buckets
    <3>2. EffectiveRate(b, now) \in Nat
      BY <3>1, HalfRate DEF EffectiveRate
    <3>3. PICK e : e = EffectiveRate(b, now)
      OBVIOUS
    <3>4. e \in Nat
      BY <3>2, <3>3
    <3>5. PICK x : x = Max({1, e})
      OBVIOUS
    <3>6. x \in Int /\ x >= 1
      BY <3>4, <3>5, MaxOfTwo
    <3>7. Wait(b, now) = (One - b.tokens + x - 1) \div x
      BY <3>3, <3>5 DEF Wait
    <3>8. Wait(b, now) \in Int
      BY <3>1, <3>6, <3>7
    <3> QED
      BY <1>3, <3>8
  <2>5. PICK t : t = [step[r] EXCEPT !.at = "asleep", !.wake = now + Wait(b, now)]
    OBVIOUS
  <2>6. step' = [step EXCEPT ![r] = t] /\ ThreadOK(t) /\ t.at = "asleep"
    BY <1>1, <1>2, <2>1, <2>4, <2>5 DEF ThreadOK, Asks, Saves, Steps, s
  <2>7. ThreadInv' /\ FileInv' /\ RefInv'
    BY <1>1, <2>6, ThreadMoves DEF Caches
  <2> QED
    BY <1>1, <2>3, <2>7 DEF WebInv, CountInv
<1> QED
  BY <1>6, <1>7

LEMMA RefusedKeeps ==
    ASSUME WebInv, NEW r \in Runs, Refused(r), step[r].at = "request", now' = now
    PROVE  LimitInv'
<1>1. CASE UNCHANGED limits
  BY <1>1, LimitsUntouched DEF WebInv
<1>2. CASE Penalize(r)
  <2> DEFINE s == step[r].site
             b == buckets[r][s]
             f == IF now < b.until THEN since[r][s] ELSE now
  <2>1. s \in Sites
    BY ThreadFacts DEF ThreadOK, Asks
  <2>2. /\ LimitInv /\ now \in Nat /\ SiteOK(b, granted[r][s], since[r][s], now)
        /\ b.rate = Rate[s] /\ b.burst = Burst[s] /\ b \in Buckets
    BY <2>1 DEF WebInv, LimitInv
  <2>3. /\ buckets' = [buckets EXCEPT ![r][s] = Penalized(b, now)]
        /\ since' = [since EXCEPT ![r][s] = f] /\ granted' = granted
    BY <1>2 DEF Penalize
  <2>4. granted' = [granted EXCEPT ![r][s] = granted[r][s]]
    <3> HIDE DEF s
    <3> QED
      BY <2>1, <2>2, <2>3, SetToItself DEF LimitInv
  <2>5. SiteOK(Penalized(b, now), granted[r][s], f, now)
    BY <2>2, SitePenalized
  <2>6. Penalized(b, now).rate = Rate[s] /\ Penalized(b, now).burst = Burst[s]
    BY <2>2 DEF Penalized, Buckets
  <2> HIDE DEF s, b, f
  <2> QED
    BY <2>1, <2>2, <2>3, <2>4, <2>5, <2>6, LimitOfASite
<1> QED
  BY <1>1, <1>2 DEF Refused

LEMMA StartFacts == Start \in Steps /\ Start.at = "acquire" /\ Start.site = None
BY DEF Start, Steps

\* A thread that starts to ask a site, and one that has a page to save.
LEMMA AskingIsOK ==
    ASSUME NEW s \in Sites, NEW t,
           \/ \E i \in Nat : t = [Start EXCEPT !.engine = i, !.site = s]
           \/ \E u \in Urls : t = [Start EXCEPT !.url = u, !.site = s]
    PROVE  ThreadOK(t) /\ ~Caches(t.at)
<1>1. t \in Steps /\ t.at = "acquire" /\ t.site = s
  BY StartFacts DEF Steps
<1> QED
  BY <1>1 DEF ThreadOK, Asks, Saves, Caches

LEMMA SavingIsOK ==
    ASSUME NEW u \in Urls, NEW p \in Pages, NEW t,
           t = [Start EXCEPT !.at = AfterPage(p), !.url = u, !.page = p]
    PROVE  ThreadOK(t) /\ (Caches(t.at) => t.page = Blank)
<1>1. AfterPage(p) \in {"text", "payload"} /\ (AfterPage(p) = "payload" => p = Blank)
  BY DEF AfterPage
<1>2. t \in Steps /\ t.at = AfterPage(p) /\ t.url = u /\ t.page = p
  BY <1>1, StartFacts DEF Steps
<1> QED
  BY <1>1, <1>2 DEF ThreadOK, Asks, Saves, Caches

\* The thread of a search goes to an engine, if there is one left.
LEMMA EngineFacts ==
    ASSUME NEW i \in Nat \ {0}, NEW r \in Runs, NextEngine(r, i)
    PROVE  \E t : ThreadOK(t) /\ ~Caches(t.at) /\ step' = [step EXCEPT ![r] = t]
<1>1. CASE i > Len(Engines)
  BY <1>1, IdleIsOK DEF NextEngine, Caches
<1>2. CASE ~(i > Len(Engines))
  <2>1. Engines[i] \in Range(Engines)
    <3>1. i \in 1..Len(Engines) /\ DOMAIN Engines = 1..Len(Engines)
      BY <1>2, EnginesAssumption
    <3> QED
      BY <3>1 DEF Range
  <2>2. PICK t : t = [Start EXCEPT !.engine = i, !.site = Engines[i]]
    OBVIOUS
  <2>3. ThreadOK(t) /\ ~Caches(t.at)
    <3>1. Engines[i] \in Sites /\ i \in Nat
      BY <2>1 DEF Sites
    <3> QED
      BY <2>2, <3>1, AskingIsOK
  <2>4. step' = [step EXCEPT ![r] = t]
    BY <1>2, <2>2 DEF NextEngine
  <2> QED
    BY <2>3, <2>4
<1> QED
  BY <1>1, <1>2

LEMMA CallsKeepCounts ==
    ASSUME CountInv, calls < MaxCalls, calls' = calls + 1, UNCHANGED <<now, crashes>>
    PROVE  CountInv'
BY BoundsAssumption DEF CountInv

LEMMA SearchKeeps ==
    ASSUME WebInv, NEW r \in Runs, Search(r)
    PROVE  WebInv'
<1>1. PICK t : ThreadOK(t) /\ ~Caches(t.at) /\ step' = [step EXCEPT ![r] = t]
  BY EngineFacts DEF Search
<1>2. ThreadInv' /\ FileInv' /\ RefInv'
  BY <1>1, ThreadMoves DEF Search
<1>3. LimitInv'
  BY LimitsUntouched DEF Search, WebInv
<1> QED
  BY <1>2, <1>3, CallsKeepCounts DEF WebInv, Search

LEMMA EngineAnswersKeeps ==
    ASSUME WebInv, NEW r \in Runs, EngineAnswers(r)
    PROVE  WebInv'
<1>1. /\ step[r].at = "request" /\ step[r].engine > 0 /\ UNCHANGED <<now, files, crashes, calls>>
      /\ step[r] \in Steps /\ step[r].engine \in Nat /\ step[r].endpoint \in Nat
  BY ThreadFacts DEF EngineAnswers, Steps
<1>2. step[r].engine + 1 \in Nat \ {0}
  BY <1>1
<1>3. LimitInv'
  <2>1. CASE UNCHANGED limits
    BY <1>1, <2>1, LimitsUntouched DEF WebInv
  <2>2. CASE Refused(r)
    BY <1>1, <2>2, RefusedKeeps
  <2> QED
    BY <2>1, <2>2 DEF EngineAnswers
<1>4. \E t : ThreadOK(t) /\ ~Caches(t.at) /\ step' = [step EXCEPT ![r] = t]
  <2>1. CASE NextEngine(r, step[r].engine + 1)
    BY <1>2, <2>1, EngineFacts
  <2>2. CASE step' = [step EXCEPT ![r].endpoint = @ + 1]
    <3>1. PICK t : t = [step[r] EXCEPT !.endpoint = step[r].endpoint + 1]
      OBVIOUS
    <3>2. t \in Steps /\ t.at = "request" /\ t.site = step[r].site
      <4>1. PICK n \in Nat : n = step[r].endpoint + 1
        BY <1>1
      <4> QED
        BY <1>1, <3>1, <4>1 DEF Steps
    <3>3. step' = [step EXCEPT ![r] = t]
      BY <2>2, <3>1, ThreadFacts
    <3>4. step[r].site \in Sites
      BY <1>1, ThreadFacts DEF ThreadOK, Asks
    <3> QED
      BY <3>2, <3>3, <3>4 DEF ThreadOK, Asks, Saves, Caches
  <2> QED
    BY <2>1, <2>2 DEF EngineAnswers
<1>5. ThreadInv' /\ FileInv' /\ RefInv'
  BY <1>1, <1>4, ThreadMoves
<1> QED
  BY <1>1, <1>3, <1>5 DEF WebInv, CountInv

LEMMA FetchKeeps ==
    ASSUME WebInv, NEW r \in Runs, NEW u \in Urls, Fetch(r, u)
    PROVE  WebInv'
<1>1. /\ step[r].at = "idle" /\ calls < MaxCalls /\ calls' = calls + 1
      /\ UNCHANGED <<now, limits, files, crashes>>
  BY DEF Fetch
<1>2. \E t : ThreadOK(t) /\ step' = [step EXCEPT ![r] = t] /\ (Caches(t.at) => t.page = Blank)
  <2>1. CASE cache[u] = None
    <3>1. HostOf[u] \in Sites
      BY DEF Sites
    <3>2. PICK t : t = [Start EXCEPT !.url = u, !.site = HostOf[u]]
      OBVIOUS
    <3>3. ThreadOK(t) /\ ~Caches(t.at)
      BY <3>1, <3>2, AskingIsOK
    <3>4. step' = [step EXCEPT ![r] = t]
      BY <2>1, <3>2 DEF Fetch
    <3> QED
      BY <3>3, <3>4
  <2>2. CASE cache[u] # None
    <3>1. cache[u] # Torn /\ cache[u].page \in Pages
      BY <2>2 DEF Fetch, WebInv, FileInv
    <3>2. PICK p \in Pages : p = cache[u].page
      BY <3>1
    <3>3. PICK t : t = [Start EXCEPT !.at = AfterPage(p), !.url = u, !.page = p]
      OBVIOUS
    <3>4. step' = [step EXCEPT ![r] = t]
      BY <2>2, <3>2, <3>3 DEF Fetch
    <3> QED
      BY <3>3, <3>4, SavingIsOK
  <2> QED
    BY <2>1, <2>2
<1>3. ThreadInv' /\ FileInv' /\ RefInv'
  BY <1>1, <1>2, ThreadMoves
<1>4. LimitInv'
  BY <1>1, LimitsUntouched DEF WebInv
<1> QED
  BY <1>1, <1>3, <1>4, CallsKeepCounts DEF WebInv

LEMMA PageArrivesKeeps ==
    ASSUME WebInv, NEW r \in Runs, NEW p \in Pages, PageArrives(r, p)
    PROVE  WebInv'
<1>1. /\ step[r].at = "request" /\ step[r].url # None /\ step[r] \in Steps
      /\ UNCHANGED <<now, limits, files, crashes, calls>>
  BY ThreadFacts DEF PageArrives
<1>2. step[r].url \in Urls
  BY <1>1 DEF Steps
<1>3. PICK t : t = [step[r] EXCEPT !.page = p, !.at = AfterPage(p)]
  OBVIOUS
<1>4. AfterPage(p) \in {"text", "payload"} /\ (AfterPage(p) = "payload" => p = Blank)
  BY DEF AfterPage
<1>5. /\ t \in Steps /\ t.page = p /\ t.url = step[r].url /\ t.at = AfterPage(p)
      /\ step' = [step EXCEPT ![r] = t]
  <2>1. t \in Steps /\ t.page = p /\ t.url = step[r].url /\ t.at = AfterPage(p)
    BY <1>1, <1>3, <1>4 DEF Steps
  <2>2. step' = [step EXCEPT ![r] = t]
    BY <1>3, ThreadFacts DEF PageArrives
  <2> QED
    BY <2>1, <2>2
<1>6. ThreadOK(t) /\ (Caches(t.at) => t.page = Blank)
  BY <1>2, <1>4, <1>5 DEF ThreadOK, Asks, Saves, Caches
<1>7. ThreadInv' /\ FileInv' /\ RefInv'
  BY <1>1, <1>5, <1>6, ThreadMoves
<1>8. LimitInv'
  BY <1>1, LimitsUntouched DEF WebInv
<1> QED
  BY <1>1, <1>7, <1>8 DEF WebInv, CountInv

LEMMA PageRefusedKeeps ==
    ASSUME WebInv, NEW r \in Runs, PageRefused(r)
    PROVE  WebInv'
<1>1. /\ step[r].at = "request" /\ UNCHANGED <<now, files, crashes, calls>> /\ Refused(r)
      /\ step' = [step EXCEPT ![r] = Idle]
  BY DEF PageRefused, Return
<1>2. ThreadInv' /\ FileInv' /\ RefInv'
  BY <1>1, IdleIsOK, ThreadMoves DEF Caches
<1>3. LimitInv'
  BY <1>1, RefusedKeeps
<1> QED
  BY <1>1, <1>2, <1>3 DEF WebInv, CountInv

\* A thread takes the next step of saving a page.
LEMMA SavingMoves ==
    ASSUME WebInv, NEW r \in Runs, NEW at \in {"text", "write text", "payload", "write payload"},
           Saves(step[r].at), step' = [step EXCEPT ![r].at = at]
    PROVE  /\ ThreadInv'
           /\ step'[r].at = at /\ step'[r].url = step[r].url /\ step'[r].page = step[r].page
           /\ Text(r)' = Text(r) /\ \A q \in Runs \ {r} : step'[q] = step[q]
<1>1. /\ step[r] \in Steps /\ step[r].url \in Urls /\ step[r].page \in Pages
      /\ step \in [Runs -> Steps] /\ \A q \in Runs : ThreadOK(step[q])
  BY DEF WebInv, ThreadInv, ThreadOK
<1>2. PICK t : t = [step[r] EXCEPT !.at = at]
  OBVIOUS
<1>3. t \in Steps /\ t.at = at /\ t.url = step[r].url /\ t.page = step[r].page
  BY <1>1, <1>2 DEF Steps
<1>4. ThreadOK(t)
  BY <1>1, <1>3 DEF ThreadOK, Asks, Saves
<1>5. step' = [step EXCEPT ![r] = t]
  BY <1>2, ThreadFacts
<1>6. step'[r] = t /\ (\A q \in Runs \ {r} : step'[q] = step[q]) /\ step' \in [Runs -> Steps]
  BY <1>1, <1>3, <1>5
<1>7. ThreadInv'
  BY <1>1, <1>4, <1>6 DEF ThreadInv
<1> QED
  BY <1>3, <1>6, <1>7 DEF Text

\* Nothing changes for the others that refer to a text, if it stays kept.
LEMMA ReferencesStay ==
    ASSUME WebInv, NEW r \in Runs, \A q \in Runs \ {r} : step'[q] = step[q],
           \A text \in Urls \X Pages : Kept(text) => Kept(text)'
    PROVE  /\ \A q \in Runs \ {r} :
                Caches(step'[q].at) /\ step'[q].page # Blank => Kept(Text(q))'
           /\ \A u \in Urls :
                cache'[u] = cache[u] =>
                    (cache'[u] \notin {None, Torn} /\ cache'[u].ref
                        => Kept(<<u, cache[u].page>>)')
<1>1. ASSUME NEW q \in Runs \ {r}, Caches(step'[q].at), step'[q].page # Blank
      PROVE  Kept(Text(q))'
  <2>1. PICK text : text = Text(q)
    OBVIOUS
  <2>2. Caches(step[q].at) /\ step[q].page # Blank /\ Text(q)' = text
    BY <1>1, <2>1 DEF Text
  <2>3. Kept(text)
    BY <2>1, <2>2 DEF WebInv, RefInv
  <2>4. text \in Urls \X Pages
    <3>1. ThreadOK(step[q]) /\ Saves(step[q].at)
      BY <2>2 DEF WebInv, ThreadInv, Caches, Saves
    <3> QED
      BY <2>1, <3>1 DEF ThreadOK, Text
  <2> QED
    BY <2>2, <2>3, <2>4
<1>2. ASSUME NEW u \in Urls, cache'[u] = cache[u], cache'[u] \notin {None, Torn}, cache'[u].ref
      PROVE  Kept(<<u, cache[u].page>>)'
  <2>1. PICK text : text = <<u, cache[u].page>>
    OBVIOUS
  <2>2. Kept(text) /\ text \in Urls \X Pages
    BY <1>2, <2>1 DEF WebInv, RefInv, FileInv
  <2>3. text = <<u, cache[u].page>>'
    BY <1>2, <2>1
  <2> QED
    BY <2>2, <2>3
<1> QED
  BY <1>1, <1>2

LEMMA OpenTextKeeps ==
    ASSUME WebInv, NEW r \in Runs, OpenText(r)
    PROVE  WebInv'
<1>1. /\ step[r].at = "text" /\ Saves(step[r].at)
      /\ content' = [content EXCEPT ![Text(r)] = "torn"]
      /\ step' = [step EXCEPT ![r].at = "write text"]
      /\ UNCHANGED <<now, limits, cache, crashes, calls>>
  BY DEF OpenText, GoTo, Saves
<1>2. /\ ThreadInv' /\ step'[r].at = "write text" /\ Text(r)' = Text(r)
      /\ \A q \in Runs \ {r} : step'[q] = step[q]
  BY <1>1, SavingMoves
<1>3. Text(r) \in Urls \X Pages /\ content \in [Urls \X Pages -> {"none", "torn", "whole"}]
  BY <1>1 DEF WebInv, ThreadInv, ThreadOK, Text, FileInv
<1>4. FileInv'
  BY <1>1, <1>3 DEF WebInv, FileInv
<1>5. ASSUME NEW text \in Urls \X Pages, Kept(text) PROVE Kept(text)'
  <2>1. CASE text = Text(r)
    <3>1. content'[text] = "torn" /\ step'[r].at = "write text" /\ Text(r)' = text
      BY <1>1, <1>2, <1>3, <2>1
    <3> QED
      BY <3>1 DEF Kept
  <2>2. CASE text # Text(r)
    <3>1. content'[text] = content[text]
      BY <1>1, <1>3, <2>2
    <3>2. \A q \in Runs : step[q].at = "write text" => q # r
      BY <1>1
    <3>3. \A q \in Runs \ {r} : step'[q] = step[q] /\ Text(q)' = Text(q)
      BY <1>2 DEF Text
    <3> QED
      BY <1>1, <1>5, <3>1, <3>2, <3>3 DEF Kept
  <2> QED
    BY <2>1, <2>2
<1>6. RefInv'
  <2>1. cache' = cache /\ ~Caches(step'[r].at)
    BY <1>1, <1>2 DEF Caches
  <2> QED
    BY <1>2, <1>5, <2>1, ReferencesStay DEF RefInv
<1>7. LimitInv'
  BY <1>1, LimitsUntouched DEF WebInv
<1> QED
  BY <1>1, <1>2, <1>4, <1>6, <1>7 DEF WebInv, CountInv

LEMMA WriteTextKeeps ==
    ASSUME WebInv, NEW r \in Runs, WriteText(r)
    PROVE  WebInv'
<1>1. /\ step[r].at = "write text" /\ Saves(step[r].at)
      /\ content' = [content EXCEPT ![Text(r)] = "whole"]
      /\ step' = [step EXCEPT ![r].at = "payload"]
      /\ UNCHANGED <<now, limits, cache, crashes, calls>>
  BY DEF WriteText, GoTo, Saves
<1>2. /\ ThreadInv' /\ step'[r].at = "payload" /\ Text(r)' = Text(r)
      /\ \A q \in Runs \ {r} : step'[q] = step[q]
  BY <1>1, SavingMoves
<1>3. Text(r) \in Urls \X Pages /\ content \in [Urls \X Pages -> {"none", "torn", "whole"}]
  BY <1>1 DEF WebInv, ThreadInv, ThreadOK, Text, FileInv
<1>4. FileInv'
  BY <1>1, <1>3 DEF WebInv, FileInv
<1>5. /\ content'[Text(r)] = "whole"
      /\ \A text \in Urls \X Pages : text # Text(r) => content'[text] = content[text]
  BY <1>1, <1>3
<1>6. ASSUME NEW text \in Urls \X Pages, Kept(text) PROVE Kept(text)'
  <2>1. CASE text = Text(r)
    BY <1>5, <2>1 DEF Kept
  <2>2. CASE text # Text(r)
    <3>1. \A q \in Runs : Text(q) = text => q # r
      BY <2>2
    <3>2. \A q \in Runs \ {r} : step'[q] = step[q] /\ Text(q)' = Text(q)
      BY <1>2 DEF Text
    <3> QED
      BY <1>1, <1>5, <1>6, <2>2, <3>1, <3>2 DEF Kept
  <2> QED
    BY <2>1, <2>2
<1>7. RefInv'
  <2>1. Kept(Text(r))'
    BY <1>2, <1>5 DEF Kept
  <2>2. cache' = cache
    BY <1>1
  <2> QED
    BY <1>2, <1>6, <2>1, <2>2, ReferencesStay DEF RefInv
<1>8. LimitInv'
  BY <1>1, LimitsUntouched DEF WebInv
<1> QED
  BY <1>1, <1>2, <1>4, <1>7, <1>8 DEF WebInv, CountInv

LEMMA OpenPayloadKeeps ==
    ASSUME WebInv, NEW r \in Runs, OpenPayload(r)
    PROVE  WebInv'
<1>1. /\ step[r].at = "payload" /\ Saves(step[r].at) /\ Caches(step[r].at)
      /\ cache' = [cache EXCEPT ![step[r].url] = Torn]
      /\ step' = [step EXCEPT ![r].at = "write payload"]
      /\ UNCHANGED <<now, limits, content, crashes, calls>>
  BY DEF OpenPayload, GoTo, Saves, Caches
<1>2. /\ ThreadInv' /\ step'[r].at = "write payload" /\ Text(r)' = Text(r)
      /\ step'[r].page = step[r].page /\ \A q \in Runs \ {r} : step'[q] = step[q]
  BY <1>1, SavingMoves
<1>3. /\ step[r].url \in Urls /\ cache \in [Urls -> {None, Torn} \cup [page : Pages, ref : BOOLEAN]]
      /\ FileInv
  BY <1>1 DEF WebInv, ThreadInv, ThreadOK, FileInv
<1>4. FileInv'
  BY <1>1, <1>3 DEF FileInv
<1>5. ASSUME NEW text \in Urls \X Pages, Kept(text) PROVE Kept(text)'
  <2>1. \A q \in Runs : step[q].at = "write text" => step'[q] = step[q]
    BY <1>1, <1>2
  <2> QED
    BY <1>1, <1>5, <2>1, KeptLater
<1>6. RefInv'
  <2>1. step[r].page # Blank => Kept(Text(r))
    BY <1>1 DEF WebInv, RefInv
  <2>2. step'[r].page # Blank => Kept(Text(r))'
    <3>1. PICK text : text = Text(r)
      OBVIOUS
    <3>2. text \in Urls \X Pages
      BY <1>1, <3>1 DEF WebInv, ThreadInv, ThreadOK, Text
    <3> QED
      BY <1>2, <1>5, <2>1, <3>1, <3>2
  <2>3. \A u \in Urls : cache'[u] = Torn \/ cache'[u] = cache[u]
    BY <1>1, <1>3
  <2>4. ASSUME NEW u \in Urls, cache'[u] \notin {None, Torn}, cache'[u].ref
        PROVE  Kept(<<u, cache[u].page>>)'
    BY <1>2, <1>5, <2>3, <2>4, ReferencesStay
  <2> QED
    BY <1>2, <1>5, <2>2, <2>4, ReferencesStay DEF RefInv
<1>7. LimitInv'
  BY <1>1, LimitsUntouched DEF WebInv
<1> QED
  BY <1>1, <1>2, <1>4, <1>6, <1>7 DEF WebInv, CountInv

LEMMA WritePayloadKeeps ==
    ASSUME WebInv, NEW r \in Runs, WritePayload(r)
    PROVE  WebInv'
<1> DEFINE u == step[r].url
           p == step[r].page
<1>1. PICK entry \in {Cached(p), Torn} : cache' = [cache EXCEPT ![u] = entry]
  BY DEF WritePayload
<1>2. /\ step[r].at = "write payload" /\ Saves(step[r].at) /\ Caches(step[r].at)
      /\ step' = [step EXCEPT ![r] = Idle]
      /\ UNCHANGED <<now, limits, content, crashes, calls>>
  BY DEF WritePayload, Return, Saves, Caches
<1>3. /\ u \in Urls /\ p \in Pages /\ step \in [Runs -> Steps] /\ FileInv /\ ThreadInv
      /\ cache \in [Urls -> {None, Torn} \cup [page : Pages, ref : BOOLEAN]]
  BY <1>2 DEF WebInv, ThreadInv, ThreadOK, FileInv
<1>4. step'[r] = Idle /\ \A q \in Runs \ {r} : step'[q] = step[q]
  BY <1>2, <1>3
<1>5. ThreadInv'
  BY <1>2, <1>3, <1>4, IdleIsOK DEF ThreadInv, ThreadOK
<1>6. Cached(p) \in [page : Pages, ref : BOOLEAN] /\ Cached(p).page = p
      /\ (Cached(p).ref => p # Blank)
  BY <1>3 DEF Cached
<1>7. FileInv'
  <2>1. entry \in {None, Torn} \cup [page : Pages, ref : BOOLEAN]
    BY <1>6
  <2> QED
    BY <1>1, <1>2, <1>3, <2>1 DEF FileInv
<1>8. ASSUME NEW text \in Urls \X Pages, Kept(text) PROVE Kept(text)'
  <2>1. \A q \in Runs : step[q].at = "write text" => step'[q] = step[q]
    BY <1>2, <1>4
  <2> QED
    BY <1>2, <1>8, <2>1, KeptLater
<1>9. RefInv'
  <2>1. ASSUME NEW v \in Urls, cache'[v] \notin {None, Torn}, cache'[v].ref
        PROVE  Kept(<<v, cache[v].page>>)'
    <3>1. CASE v = u
      <4>1. cache'[v] = Cached(p)
        BY <1>1, <1>3, <2>1, <3>1
      <4>2. PICK text \in Urls \X Pages : text = <<u, p>>
        BY <1>3
      <4>3. text = Text(r) /\ p # Blank
        BY <1>6, <2>1, <4>1, <4>2 DEF Text
      <4>4. Kept(text)
        BY <1>2, <4>3 DEF WebInv, RefInv
      <4>5. text = <<v, cache[v].page>>'
        BY <1>6, <3>1, <4>1, <4>2
      <4> QED
        BY <1>8, <4>4, <4>5
    <3>2. CASE v # u
      <4>1. cache'[v] = cache[v]
        BY <1>1, <1>3, <3>2
      <4> QED
        BY <1>4, <1>8, <2>1, <4>1, ReferencesStay
    <3> QED
      BY <3>1, <3>2
  <2>2. ~Caches(step'[r].at)
    BY <1>4, IdleIsOK DEF Caches
  <2> QED
    BY <1>4, <1>8, <2>1, <2>2, ReferencesStay DEF RefInv
<1>10. LimitInv'
  BY <1>2, LimitsUntouched DEF WebInv
<1> QED
  BY <1>2, <1>5, <1>7, <1>9, <1>10 DEF WebInv, CountInv

LEMMA FilesUntouched ==
    ASSUME WebInv, UNCHANGED <<step, cache, content, crashes>>
    PROVE  ThreadInv' /\ FileInv' /\ RefInv'
<1>1. step' = step /\ cache' = cache /\ content' = content /\ crashes' = crashes
  OBVIOUS
<1>2. \A text : Kept(text)' = Kept(text)
  BY <1>1 DEF Kept, Text
<1>3. \A r \in Runs : Text(r)' = Text(r)
  BY <1>1 DEF Text
<1>4. RefInv'
  <2>1. ASSUME NEW u \in Urls, cache'[u] \notin {None, Torn}, cache'[u].ref
        PROVE  Kept(<<u, cache[u].page>>)'
    <3>1. PICK text : text = <<u, cache[u].page>>
      OBVIOUS
    <3>2. Kept(text) /\ text = <<u, cache[u].page>>'
      BY <1>1, <2>1, <3>1 DEF WebInv, RefInv
    <3> QED
      BY <1>2, <3>2
  <2>2. ASSUME NEW r \in Runs, Caches(step'[r].at), step'[r].page # Blank
        PROVE  Kept(Text(r))'
    <3>1. PICK text : text = Text(r)
      OBVIOUS
    <3>2. Kept(text) /\ text = Text(r)'
      BY <1>1, <1>3, <2>2, <3>1 DEF WebInv, RefInv
    <3> QED
      BY <1>2, <3>2
  <2> QED
    BY <2>1, <2>2 DEF RefInv
<1>5. ThreadInv' /\ FileInv'
  BY <1>1 DEF WebInv, ThreadInv, FileInv
<1> QED
  BY <1>4, <1>5

LEMMA TickKeeps ==
    ASSUME WebInv, Tick
    PROVE  WebInv'
<1>1. now < MaxTime /\ now' = now + 1 /\ UNCHANGED <<limits, step, files, crashes, calls>>
  BY DEF Tick
<1>2. CountInv'
  BY <1>1, BoundsAssumption DEF WebInv, CountInv
<1>3. LimitInv'
  BY <1>1, LimitsUntouched DEF WebInv
<1>4. ThreadInv' /\ FileInv' /\ RefInv'
  BY <1>1, FilesUntouched DEF files
<1> QED
  BY <1>2, <1>3, <1>4 DEF WebInv

LEMMA RestartKeeps ==
    ASSUME WebInv, ServerRestarts
    PROVE  WebInv'
<1>1. /\ crashes < MaxCrashes /\ crashes' = crashes + 1 /\ buckets' = FreshBuckets(now)
      /\ step' = [r \in Runs |-> Idle] /\ UNCHANGED <<now, cache, content, calls>>
      /\ granted' = [r \in Runs |-> [s \in Sites |-> <<>>]]
      /\ since' = [r \in Runs |-> [s \in Sites |-> 0]]
  BY DEF ServerRestarts, files
<1>2. CountInv' /\ crashes' > 0
  BY <1>1, BoundsAssumption DEF WebInv, CountInv
<1>3. LimitInv'
  <2>1. now \in Nat /\ now' = now
    BY <1>1 DEF WebInv, LimitInv
  <2>2. PICK t \in Nat : t = now
    BY <2>1
  <2> QED
    BY <1>1, <2>1, <2>2, FreshLimits
<1>4. ThreadInv'
  BY <1>1, IdleIsOK DEF ThreadInv, ThreadOK
<1>5. FileInv'
  BY <1>1 DEF WebInv, FileInv
<1>6. RefInv'
  <2>1. ASSUME NEW text, Kept(text) PROVE Kept(text)'
    BY <1>1, <1>2, <2>1, KeptLater
  <2>2. ASSUME NEW u \in Urls, cache'[u] \notin {None, Torn}, cache'[u].ref
        PROVE  Kept(<<u, cache[u].page>>)'
    <3>1. PICK text : text = <<u, cache[u].page>>
      OBVIOUS
    <3>2. Kept(text) /\ text = <<u, cache[u].page>>'
      BY <1>1, <2>2, <3>1 DEF WebInv, RefInv
    <3> QED
      BY <2>1, <3>2
  <2>3. \A r \in Runs : ~Caches(step'[r].at)
    BY <1>1, IdleIsOK DEF Caches
  <2> QED
    BY <2>2, <2>3 DEF RefInv
<1> QED
  BY <1>2, <1>3, <1>4, <1>5, <1>6 DEF WebInv

LEMMA WebInvStep == WebInv /\ [Next]_vars => WebInv'
<1> SUFFICES ASSUME WebInv, [Next]_vars PROVE WebInv'
  OBVIOUS
<1>1. ASSUME NEW r \in Runs, Step(r) PROVE WebInv'
  BY <1>1, AcquireKeeps, SearchKeeps, EngineAnswersKeeps, FetchKeeps, PageArrivesKeeps,
     PageRefusedKeeps, OpenTextKeeps, WriteTextKeeps, OpenPayloadKeeps, WritePayloadKeeps
     DEF Step
<1>2. CASE UNCHANGED vars
  <2>1. UNCHANGED limits /\ now' = now
    BY <1>2 DEF vars, limits
  <2>2. LimitInv'
    BY <2>1, LimitsUntouched DEF WebInv
  <2> QED
    BY <1>2, <2>2, FilesUntouched DEF vars, WebInv, CountInv
<1> QED
  BY <1>1, <1>2, TickKeeps, RestartKeeps DEF Next

LEMMA WebInvariant == Spec => []WebInv
BY WebInvInit, WebInvStep, PTL DEF Spec

-----------------------------------------------------------------------------
(* The properties.                                                         *)

\* The state of the threads of the runs, their buckets and the files they share keeps its
\* types, for any runs, pages, engines and bounds: no bucket holds more than its burst or
\* was filled in the future.
THEOREM TypeCorrect == Spec => []TypeOK
<1>1. ASSUME WebInv PROVE TypeOK
  <2>1. ASSUME NEW r \in Runs, NEW s \in Sites
        PROVE  LET b == buckets[r][s]
               IN  /\ b.tokens \in 0..(Burst[s] * One) /\ b.last \in 0..now
                   /\ b.until \in 0..(now + PenaltyTicks) /\ b.halved \in BOOLEAN
    <3>1. /\ buckets[r][s] \in Buckets /\ BucketOK(buckets[r][s], now) /\ now \in Nat
          /\ buckets[r][s].burst = Burst[s] /\ Burst[s] \in Nat
      BY <1>1, SitesAssumption DEF WebInv, LimitInv, SiteOK
    <3>2. Burst[s] * One \in Nat /\ now + PenaltyTicks \in Nat
      BY <3>1, Products, PartsAssumption
    <3> QED
      BY <3>1, <3>2 DEF BucketOK, Buckets
  <2>2. \A r \in Runs : step[r].site \in Sites \cup {None} /\ step[r].url \in Urls \cup {None}
    BY <1>1 DEF WebInv, ThreadInv, Steps
  <2> QED
    BY <1>1, <2>1, <2>2 DEF TypeOK, WebInv, CountInv, FileInv
<1> QED
  BY <1>1, WebInvariant, PTL

\* TokenBucket.acquire and penalize: for every rate, burst and duration of a penalty, and
\* however searches and fetches, waits, penalties and restarts follow each other, no stretch
\* of a run sees more granted requests than its rate and burst allow, and none within a
\* penalty more than half the rate allows.
THEOREM RateIsKept == Spec => []RateKept
<1>1. WebInv => RateKept
  BY DEF WebInv, LimitInv, SiteOK, RateKept
<1> QED
  BY <1>1, WebInvariant, PTL

\* PersistedContentTool: for any number of runs and pages a cached page's content_ref leads
\* to its text, unless the server died or another thread is writing that very text.
THEOREM ReferencesAreKept == Spec => []ReferencesKept
<1>1. WebInv => ReferencesKept
  BY DEF WebInv, RefInv, Kept, ReferencesKept
<1> QED
  BY <1>1, WebInvariant, PTL
=============================================================================
