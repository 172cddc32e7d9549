----------------------------- MODULE NaturalSets -----------------------------
(***************************************************************************)
(* Smallest and greatest elements of sets of natural numbers, from the     *)
(* well-foundedness of <.  A smallest counterexample stands in for an      *)
(* induction in the proofs that cite these facts.                          *)
(***************************************************************************)
EXTENDS Integers, WellFoundedInduction, TLAPS

\* A set of natural numbers that is not empty has a smallest element.
LEMMA Smallest ==
    ASSUME NEW T \in SUBSET Nat, T # {}
    PROVE  \E x \in T : \A y \in T : x <= y
<1> DEFINE R == {ss \in Nat \X Nat : ss[1] < ss[2]}
<1>1. IsWellFoundedOn(R, Nat)
  BY NatLessThanWellFounded DEF OpToRel
<1> HIDE DEF R
<1>2. PICK x \in T : \A y \in T : ~(<<y, x>> \in R)
  BY <1>1, WFMin
<1>3. \A y \in T : ~(y < x)
  BY <1>2 DEF R
<1> QED
  BY <1>3

\* And a greatest one, if it is bounded: the smallest of its bounds.
LEMMA Greatest ==
    ASSUME NEW T \in SUBSET Nat, T # {}, NEW b \in Nat, \A x \in T : x <= b
    PROVE  \E x \in T : \A y \in T : y <= x
<1> DEFINE Bounds == {n \in Nat : \A y \in T : y <= n}
<1>1. PICK m \in Bounds : \A n \in Bounds : m <= n
  <2>1. Bounds \in SUBSET Nat /\ b \in Bounds
    OBVIOUS
  <2> QED
    BY <2>1, Smallest
<1>2. m \in T
  <2>1. SUFFICES ASSUME m \notin T PROVE FALSE
    OBVIOUS
  <2>2. \A y \in T : y <= m - 1
    BY <2>1
  <2>3. m - 1 \in Nat
    <3>1. PICK y \in T : TRUE
      OBVIOUS
    <3>2. y \in Nat /\ m \in Nat /\ y <= m - 1
      BY <2>2
    <3> QED
      BY <3>2
  <2>4. m - 1 \in Bounds
    BY <2>2, <2>3
  <2> QED
    BY <1>1, <2>4
<1> QED
  BY <1>2

\* Two numbers have a common bound.
LEMMA CommonBound ==
    ASSUME NEW x \in Nat, NEW y \in Nat
    PROVE  \E c \in Nat : x <= c /\ y <= c /\ \A z \in Nat : z <= x => z <= c
<1>1. x + y \in Nat /\ x <= x + y /\ y <= x + y /\ \A z \in Nat : z <= x => z <= x + y
  OBVIOUS
<1> QED
  BY <1>1

\* Finitely many numbers have a bound: the shortest prefix without one would have the
\* bound of the prefix before it, or its last number.
LEMMA BoundOfSequence ==
    ASSUME NEW m \in Nat, NEW f \in [1..m -> Nat]
    PROVE  \E b \in Nat : \A i \in 1..m : f[i] <= b
<1> DEFINE BoundedTo(n) == \E b \in Nat : \A i \in 1..n : f[i] <= b
           Bad == {n \in 0..m : ~BoundedTo(n)}
<1>1. SUFFICES ASSUME Bad # {} PROVE FALSE
  <2>1. m \in Bad \/ BoundedTo(m)
    OBVIOUS
  <2> QED
    BY <1>1, <2>1
<1>2. PICK n \in Bad : \A k \in Bad : n <= k
  <2>1. Bad \in SUBSET Nat
    OBVIOUS
  <2> HIDE DEF Bad
  <2> QED
    BY <1>1, <2>1, Smallest
<1>3. n # 0
  <2>1. 0 \in Nat /\ \A i \in 1..0 : f[i] <= 0
    OBVIOUS
  <2> QED
    BY <1>2, <2>1
<1>4. n - 1 \in 0..m /\ n \in 1..m
  BY <1>2, <1>3
<1>5. PICK b \in Nat : \A i \in 1..(n - 1) : f[i] <= b
  <2>1. n \in Nat /\ n - 1 \in Nat /\ ~(n <= n - 1)
    BY <1>4
  <2>2. n - 1 \notin Bad
    BY <1>2, <2>1
  <2> QED
    BY <1>4, <2>2
<1>6. f[n] \in Nat
  BY <1>4
<1>7. PICK c \in Nat : f[n] <= c /\ \A z \in Nat : z <= b => z <= c
  BY <1>6, CommonBound
<1>8. \A i \in 1..n : f[i] <= c
  <2>1. \A i \in 1..n : i = n \/ i \in 1..(n - 1)
    BY <1>4
  <2>2. \A i \in 1..(n - 1) : f[i] \in Nat
    BY <1>4
  <2> HIDE DEF Bad, BoundedTo
  <2> QED
    BY <1>5, <1>7, <2>1, <2>2
<1> QED
  BY <1>2, <1>8

\* Induction over the positions of f: T says of each what may be there.
LEMMA Inductively ==
    ASSUME NEW n \in Nat, NEW f, NEW T, f[0] \in T[0],
           \A i \in 1..n : f[i - 1] \in T[i - 1] => f[i] \in T[i]
    PROVE  \A i \in 0..n : f[i] \in T[i]
<1> DEFINE Bad == {i \in 0..n : f[i] \notin T[i]}
<1>1. SUFFICES ASSUME Bad # {} PROVE FALSE
  OBVIOUS
<1>2. PICK k \in Bad : \A l \in Bad : k <= l
  <2>1. Bad \in SUBSET Nat
    OBVIOUS
  <2> HIDE DEF Bad
  <2> QED
    BY <1>1, <2>1, Smallest
<1>3. k \in 1..n /\ k - 1 \in 0..n /\ ~(k <= k - 1)
  BY <1>2
<1>4. f[k - 1] \in T[k - 1]
  BY <1>2, <1>3
<1> QED
  BY <1>2, <1>3, <1>4

\* What step makes of base, 0 to n times; T[i] is where it is after i times.
Iterated(n, base, step, f) == f = [i \in 0..n |-> IF i = 0 THEN base ELSE step[i][f[i - 1]]]

LEMMA IterationExists ==
    ASSUME NEW n \in Nat, NEW base, NEW step
    PROVE  \E f : Iterated(n, base, step, f)
<1> DEFINE Bad == {k \in 0..n : ~\E f : Iterated(k, base, step, f)}
<1>1. SUFFICES ASSUME Bad # {} PROVE FALSE
  <2>1. n \in Bad \/ \E f : Iterated(n, base, step, f)
    OBVIOUS
  <2> QED
    BY <1>1, <2>1
<1>2. PICK k \in Bad : \A l \in Bad : k <= l
  <2>1. Bad \in SUBSET Nat
    OBVIOUS
  <2> HIDE DEF Bad
  <2> QED
    BY <1>1, <2>1, Smallest
<1>3. k # 0
  <2>1. Iterated(0, base, step, [i \in 0..0 |-> base])
    BY DEF Iterated
  <2> QED
    BY <1>2, <2>1
<1>4. k \in Nat /\ k - 1 \in 0..n /\ k - 1 \in Nat /\ ~(k <= k - 1)
  BY <1>2, <1>3
<1>5. PICK f : Iterated(k - 1, base, step, f)
  BY <1>2, <1>4
<1> DEFINE next == [i \in 0..k |-> IF i = k THEN step[k][f[k - 1]] ELSE f[i]]
<1>6. Iterated(k, base, step, next)
  <2>1. \A i \in 0..k : i = k \/ i \in 0..(k - 1)
    BY <1>4
  <2>2. \A i \in 0..(k - 1) : next[i] = IF i = 0 THEN base ELSE step[i][next[i - 1]]
    <3>1. \A i \in 0..(k - 1) : i \in 0..k /\ i # k /\ (i # 0 => i - 1 \in 0..k /\ i - 1 # k)
      BY <1>4
    <3>2. \A i \in 0..(k - 1) : f[i] = IF i = 0 THEN base ELSE step[i][f[i - 1]]
      BY <1>4, <1>5, Zenon DEF Iterated
    <3> QED
      BY <3>1, <3>2
  <2>3. next[k] = step[k][next[k - 1]]
    BY <1>3, <1>4
  <2>4. \A i \in 0..k : next[i] = IF i = 0 THEN base ELSE step[i][next[i - 1]]
    BY <1>3, <2>1, <2>2, <2>3, Zenon
  <2>5. next = [i \in 0..k |-> next[i]]
    OBVIOUS
  <2> HIDE DEF next
  <2> QED
    BY <2>4, <2>5, Zenon DEF Iterated
<1> QED
  BY <1>2, <1>6

LEMMA IterationSteps ==
    ASSUME NEW n \in Nat, NEW base, NEW step, NEW f, Iterated(n, base, step, f)
    PROVE  f = [i \in 0..n |-> f[i]] /\ f[0] = base /\ \A i \in 1..n : f[i] = step[i][f[i - 1]]
<1>1. 0 \in 0..n /\ \A i \in 1..n : i \in 0..n /\ i # 0
  OBVIOUS
<1>2. \A i \in 0..n : f[i] = IF i = 0 THEN base ELSE step[i][f[i - 1]]
  BY Zenon DEF Iterated
<1> QED
  BY <1>1, <1>2, Zenon DEF Iterated
=============================================================================
