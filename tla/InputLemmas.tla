----------------------------- MODULE InputLemmas ----------------------------
(***************************************************************************)
(* What the operators behind the inputs compute, for every input: the      *)
(* lemmas that the theorems of InputsProofs rest on.                       *)
(*                                                                         *)
(* Induction is stated of a set of numbers and of the order on them, and   *)
(* a recursive function is shown to exist by Recursion, before its values  *)
(* are followed through Induction.  A fact that a lemma assumes or returns *)
(* as a whole has a name of its own.                                       *)
(***************************************************************************)
EXTENDS Inputs, SequenceTheorems, FiniteSetTheorems, WellFoundedInduction, TLAPS

-----------------------------------------------------------------------------
(* Induction over the naturals, sequences and sets                        *)

\* The order of the naturals, as a relation.
Less == {p \in Nat \X Nat : p[1] < p[2]}

\* The order of the naturals is well founded.
LEMMA LessIsWellFounded == IsWellFoundedOn(Less, Nat)
<1>1. OpToRel(<, Nat) = Less
  BY Zenon DEF OpToRel, Less
<1>2. QED
  BY <1>1, NatLessThanWellFounded, Zenon

\* Induction, with the set of the numbers that have the property.
LEMMA Induction ==
  ASSUME NEW S, 0 \in S, \A n \in Nat : n \in S => n + 1 \in S
  PROVE  Nat \subseteq S
<1> SUFFICES ASSUME ~ (Nat \subseteq S) PROVE FALSE
  OBVIOUS
<1> DEFINE T == Nat \ S
<1>1. T # {} /\ T \subseteq Nat
  OBVIOUS
<1>2. PICK x \in T : \A y \in T : <<y, x>> \notin Less
  BY <1>1, LessIsWellFounded, WFMin, Zenon
<1>3. x \in Nat /\ x # 0
  OBVIOUS
<1>4. x - 1 \in Nat /\ <<x - 1, x>> \in Less
  BY <1>3 DEF Less
<1>5. x - 1 \in S
  BY <1>4, <1>2
<1>6. QED
  BY <1>5, <1>4, <1>3

\* A set of naturals that is not empty has a least one.
LEMMA Least ==
  ASSUME NEW S, S \subseteq Nat, S # {}
  PROVE  Min(S) \in S /\ \A y \in S : Min(S) <= y
<1>1. PICK x \in S : \A y \in S : <<y, x>> \notin Less
  BY LessIsWellFounded, WFMin, Zenon
<1>2. \A y \in S : x <= y
  <2> SUFFICES ASSUME NEW y \in S PROVE ~ (y < x)
    BY DEF Less
  <2>1. x \in Nat /\ y \in Nat /\ <<y, x>> \notin Less
    BY <1>1
  <2>2. QED
    BY <2>1 DEF Less
<1>3. QED
  BY <1>2 DEF Min

\* A set of numbers up to n that is not empty has a largest.
LEMMA Largest ==
  ASSUME NEW n \in Nat, NEW T \in SUBSET (1..n), T # {}
  PROVE  \E i \in T : \A j \in T : j <= i
<1> DEFINE Bounded == {k \in Nat : \A U \in SUBSET (1..n) :
              U # {} /\ (\A j \in U : j <= k) => \E i \in U : \A j \in U : j <= i}
<1>1. 0 \in Bounded
  <2> SUFFICES ASSUME NEW U \in SUBSET (1..n), U # {}, \A j \in U : j <= 0
               PROVE  FALSE
    OBVIOUS
  <2>1. PICK j \in U : TRUE
    OBVIOUS
  <2>2. j \in 1..n /\ j <= 0
    OBVIOUS
  <2>3. QED
    BY <2>2
<1>2. ASSUME NEW k \in Nat, k \in Bounded
      PROVE  k + 1 \in Bounded
  <2> SUFFICES ASSUME NEW U \in SUBSET (1..n), U # {}, \A j \in U : j <= k + 1
               PROVE  \E i \in U : \A j \in U : j <= i
    OBVIOUS
  <2>1. CASE k + 1 \in U
    BY <2>1
  <2>2. CASE k + 1 \notin U
    <3>1. \A j \in U : j <= k
      BY <2>2
    <3>2. QED
      BY <3>1, <1>2
  <2>3. QED
    BY <2>1, <2>2
<1>3. Nat \subseteq Bounded
  <2> HIDE DEF Bounded
  <2>1. QED
    BY <1>1, <1>2, Induction
<1>4. n \in Bounded /\ \A j \in T : j <= n
  <2> HIDE DEF Bounded
  <2>1. QED
    BY <1>3
<1>5. QED
  BY <1>4

(* A function on 0..n may be defined by its first value and a step: there  *)
(* is one.                                                                 *)
Iterations(n, S, start, step) ==
  {f \in [0..n -> S] : f[0] = start /\ \A i \in 1..n : f[i] = step[<<i, f[i - 1]>>]}

\* Such a function exists, whatever the first value and the step.
LEMMA Recursion ==
  ASSUME NEW n \in Nat, NEW S, NEW start \in S, NEW step \in [(1..n) \X S -> S]
  PROVE  Iterations(n, S, start, step) # {}
<1> DEFINE Upto(k, f) ==
      /\ f \in [0..k -> S]
      /\ f[0] = start
      /\ \A i \in 1..k : f[i] = step[<<i, f[i - 1]>>]
    Defined == {k \in Nat : k <= n => \E f : Upto(k, f)}
<1>1. 0 \in Defined
  <2>1. Upto(0, [i \in 0..0 |-> start])
    OBVIOUS
  <2>2. QED
    BY <2>1
<1>2. ASSUME NEW k \in Nat, k \in Defined
      PROVE  k + 1 \in Defined
  <2> SUFFICES ASSUME k + 1 <= n
               PROVE  \E f : Upto(k + 1, f)
    OBVIOUS
  <2>1. PICK f : Upto(k, f)
    BY <1>2
  <2> DEFINE g == [i \in 0..k + 1 |-> IF i = k + 1 THEN step[<<i, f[i - 1]>>] ELSE f[i]]
  <2>2. /\ k + 1 \in 1..n
        /\ f[k] \in S
    BY <2>1
  <2>3. step[<<k + 1, f[k]>>] \in S
    BY <2>2
  <2>4. g \in [0..k + 1 -> S]
    BY <2>1, <2>3
  <2>5. g[0] = start
    BY <2>1
  <2>6. \A i \in 1..k + 1 : g[i] = step[<<i, g[i - 1]>>]
    BY <2>1
  <2>7. QED
    BY <2>4, <2>5, <2>6
<1> HIDE DEF Upto
<1>3. Nat \subseteq Defined
  <2> HIDE DEF Defined
  <2>1. QED
    BY <1>1, <1>2, Induction
<1>4. PICK f : Upto(n, f)
  BY <1>3
<1>5. QED
  BY <1>4 DEF Upto, Iterations

\* A sequence over a set is one over a larger set.
LEMMA Widened ==
  ASSUME NEW S, NEW T, S \subseteq T
  PROVE  Seq(S) \subseteq Seq(T)
OBVIOUS

\* Joining sequences is associative.
LEMMA Associative ==
  ASSUME NEW S, NEW a \in Seq(S), NEW b \in Seq(S), NEW c \in Seq(S)
  PROVE  (a \o b) \o c = a \o (b \o c)
OBVIOUS

\* Facts about joined sequences, their order and their fronts.
LEMMA Concatenation ==
  ASSUME NEW S, NEW a \in Seq(S), NEW b \in Seq(S), NEW c \in Seq(S)
  PROVE  /\ a \o b \in Seq(S)
         /\ (a \o b) \o c = a \o (b \o c)
         /\ a \o <<>> = a /\ <<>> \o a = a
         /\ b # <<>> => Front(a \o b) = a \o Front(b)
         /\ Front(b) \in Seq(S)
         /\ a \o b = <<>> <=> a = <<>> /\ b = <<>>
         /\ a \o b = a <=> b = <<>>
<1>1. a \o b \in Seq(S) /\ (a \o b) \o c = a \o (b \o c)
  OBVIOUS
<1>2. a \o <<>> = a /\ <<>> \o a = a
  OBVIOUS
<1>3. Front(b) \in Seq(S)
  BY DEF Front
<1>4. b # <<>> => Front(a \o b) = a \o Front(b)
  BY DEF Front
<1>5. a \o b = <<>> <=> a = <<>> /\ b = <<>>
  OBVIOUS
<1>6. a \o b = a <=> b = <<>>
  OBVIOUS
<1>7. QED
  BY <1>1, <1>2, <1>3, <1>4, <1>5, <1>6

\* What is before the last of several elements is not empty.
LEMMA FrontOfSome ==
  ASSUME NEW S, NEW s \in Seq(S), s # <<>>, Len(s) # 1
  PROVE  Front(s) # <<>>
<1>1. Len(s) \in Nat /\ Len(s) # 0
  OBVIOUS
<1> DEFINE n == Len(s) - 1
<1>2. n \in Nat /\ n # 0 /\ \A i \in 1..n : s[i] \in S
  BY <1>1
<1> HIDE DEF n
<1>3. Len(SubSeq(s, 1, n)) = n
  BY <1>2, SubSeqProperties
<1>4. Len(<<>>) = 0
  OBVIOUS
<1>5. Front(s) = SubSeq(s, 1, n)
  BY DEF Front, n
<1>6. QED
  BY <1>2, <1>3, <1>4, <1>5, Zenon

-----------------------------------------------------------------------------
(* policy.go: durations, and the standing of a secret                     *)

\* The sums of the first numbers of a sequence, and the number of terms in each.
Partial(terms, f) == f = [i \in 0..Len(terms) |-> IF i = 0 THEN 0 ELSE f[i - 1] + terms[i]]

\* The partial sums of natural terms: the last is their sum.
LEMMA SumIs ==
  ASSUME NEW terms \in Seq(Nat)
  PROVE  \E f \in [0..Len(terms) -> Nat] : Partial(terms, f) /\ Sum(terms) = f[Len(terms)]
<1> DEFINE n == Len(terms)
           step == [p \in (1..n) \X Nat |-> p[2] + terms[p[1]]]
           f == CHOOSE f : f = [i \in 0..n |-> IF i = 0 THEN 0 ELSE f[i - 1] + terms[i]]
<1>1. n \in Nat /\ terms \in [1..n -> Nat]
  OBVIOUS
<1>2. step \in [(1..n) \X Nat -> Nat]
  BY <1>1
<1>3. PICK g \in Iterations(n, Nat, 0, step) : TRUE
  <2>1. n \in Nat /\ 0 \in Nat
    BY <1>1
  <2> HIDE DEF step, n
  <2>2. Iterations(n, Nat, 0, step) # {}
    BY <1>2, <2>1, Recursion, Zenon
  <2>3. QED
    BY <2>2
<1>4. g = [i \in 0..n |-> IF i = 0 THEN 0 ELSE g[i - 1] + terms[i]]
  <2> HIDE DEF n
  <2>0. /\ g \in [0..n -> Nat] /\ g[0] = 0
        /\ \A i \in 1..n : g[i] = step[<<i, g[i - 1]>>]
    BY <1>3 DEF Iterations
  <2>1. \A i \in 1..n : step[<<i, g[i - 1]>>] = g[i - 1] + terms[i]
    <3> TAKE i \in 1..n
    <3>1. i - 1 \in 0..n /\ g[i - 1] \in Nat
      BY <1>1, <2>0
    <3>2. QED
      BY <3>1
  <2>2. \A i \in 0..n : i # 0 => i \in 1..n
    BY <1>1
  <2> HIDE DEF step
  <2>3. QED
    BY <2>0, <2>1, <2>2
<1>5. f = [i \in 0..n |-> IF i = 0 THEN 0 ELSE f[i - 1] + terms[i]]
  BY <1>4
<1>6. Sum(terms) = f[n]
  BY DEF Sum
<1>7. f \in [0..n -> Nat]
  <2> DEFINE Known == {k \in Nat : k <= n => f[k] \in Nat}
  <2> HIDE DEF f
  <2>1. 0 \in Known
    BY <1>1, <1>5
  <2>2. ASSUME NEW k \in Nat, k \in Known
        PROVE  k + 1 \in Known
    <3>1. k + 1 <= n => f[k + 1] = f[k] + terms[k + 1]
      BY <1>1, <1>5
    <3>2. QED
      BY <3>1, <2>2, <1>1
  <2>3. Nat \subseteq Known
    <3> HIDE DEF Known
    <3>1. QED
      BY <2>1, <2>2, Induction
  <2>4. QED
    BY <2>3, <1>1, <1>5
<1>8. QED
  BY <1>5, <1>6, <1>7 DEF Partial

\* Partial sums of natural numbers grow.
LEMMA PartialSums ==
  ASSUME NEW terms \in Seq(Nat), NEW f \in [0..Len(terms) -> Nat], Partial(terms, f)
  PROVE  /\ f[0] = 0
         /\ \A i \in 1..Len(terms) : f[i] = f[i - 1] + terms[i]
         /\ \A i, j \in 0..Len(terms) : i <= j => f[i] <= f[j]
<1> DEFINE n == Len(terms)
<1>1. n \in Nat /\ f[0] = 0
  BY DEF Partial
<1>2. \A i \in 1..n : f[i] = f[i - 1] + terms[i]
  BY <1>1 DEF Partial
<1>3. ASSUME NEW i \in 0..n
      PROVE  \A j \in 0..n : i <= j => f[i] <= f[j]
  <2> DEFINE Known == {k \in Nat : i + k <= n => f[i] <= f[i + k]}
  <2>1. 0 \in Known
    BY <1>1
  <2>2. ASSUME NEW k \in Nat, k \in Known
        PROVE  k + 1 \in Known
    <3> SUFFICES ASSUME i + (k + 1) <= n
                 PROVE  f[i] <= f[i + (k + 1)]
      OBVIOUS
    <3>1. i + k + 1 \in 1..n /\ i + k \in 0..n /\ i + k + 1 = i + (k + 1)
      OBVIOUS
    <3>2. f[i + k + 1] = f[i + k] + terms[i + k + 1] /\ terms[i + k + 1] \in Nat
      BY <3>1, <1>2
    <3>3. f[i] <= f[i + k]
      BY <2>2, <3>1
    <3>4. f[i] \in Nat /\ f[i + k] \in Nat
      BY <3>1
    <3>5. QED
      BY <3>1, <3>2, <3>3, <3>4
  <2>3. Nat \subseteq Known
    <3> HIDE DEF Known
    <3>1. QED
      BY <2>1, <2>2, Induction
  <2>4. \A j \in 0..n : i <= j => j - i \in Known /\ i + (j - i) = j
    <3> HIDE DEF Known
    <3>1. QED
      BY <2>3
  <2>5. QED
    BY <2>4
<1>4. QED
  BY <1>1, <1>2, <1>3

\* The sum of no numbers.
LEMMA SumOfNone == Sum(<<>>) = 0
<1>1. PICK f \in [0..Len(<<>>) -> Nat] : Partial(<<>>, f) /\ Sum(<<>>) = f[Len(<<>>)]
  BY SumIs, <<>> \in Seq(Nat)
<1>2. QED
  BY <1>1, PartialSums, <<>> \in Seq(Nat)

\* A sum is a natural number, and no term is larger.
LEMMA SumBounds ==
  ASSUME NEW terms \in Seq(Nat)
  PROVE  Sum(terms) \in Nat /\ \A i \in DOMAIN terms : terms[i] <= Sum(terms)
<1>1. PICK f \in [0..Len(terms) -> Nat] : Partial(terms, f) /\ Sum(terms) = f[Len(terms)]
  BY SumIs
<1>2. \A i \in 1..Len(terms) : f[i] = f[i - 1] + terms[i] /\ f[i] <= f[Len(terms)]
  <2>1. /\ \A i \in 1..Len(terms) : f[i] = f[i - 1] + terms[i]
        /\ \A i, j \in 0..Len(terms) : i <= j => f[i] <= f[j]
    BY <1>1, PartialSums, Zenon
  <2>2. \A i \in 1..Len(terms) : i \in 0..Len(terms) /\ Len(terms) \in 0..Len(terms)
                                 /\ i <= Len(terms)
    OBVIOUS
  <2>3. QED
    BY <2>1, <2>2, Zenon
<1>3. \A i \in 1..Len(terms) : f[i - 1] \in Nat /\ f[i] \in Nat
  OBVIOUS
<1>4. DOMAIN terms = 1..Len(terms) /\ \A i \in DOMAIN terms : terms[i] \in Nat
  OBVIOUS
<1>5. f[Len(terms)] \in Nat
  OBVIOUS
<1>6. QED
  BY <1>1, <1>2, <1>3, <1>4, <1>5

\* The sum of a sequence is the sums of its two parts.
LEMMA SumSplits ==
  ASSUME NEW terms \in Seq(Nat), NEW e \in 0..Len(terms)
  PROVE  Sum(terms) = Sum(SubSeq(terms, 1, e)) + Sum(SubSeq(terms, e + 1, Len(terms)))
<1> DEFINE n == Len(terms)
           a == SubSeq(terms, 1, e)
           b == SubSeq(terms, e + 1, n)
<1>1. /\ a \in Seq(Nat) /\ Len(a) = e /\ \A i \in 1..e : a[i] = terms[i]
      /\ b \in Seq(Nat) /\ Len(b) = n - e /\ \A i \in 1..n - e : b[i] = terms[e + i]
      /\ n \in Nat /\ terms \in [1..n -> Nat]
  OBVIOUS
<1> HIDE DEF a, b
<1>2. PICK f \in [0..n -> Nat] : Partial(terms, f) /\ Sum(terms) = f[n]
  BY SumIs
<1>3. PICK g \in [0..e -> Nat] : Partial(a, g) /\ Sum(a) = g[e]
  <2>1. \E g \in [0..Len(a) -> Nat] : Partial(a, g) /\ Sum(a) = g[Len(a)]
    BY SumIs, <1>1, Zenon
  <2>2. Len(a) = e
    BY <1>1
  <2>3. QED
    BY <2>1, <2>2, Zenon
<1>4. PICK h \in [0..n - e -> Nat] : Partial(b, h) /\ Sum(b) = h[n - e]
  <2>1. \E h \in [0..Len(b) -> Nat] : Partial(b, h) /\ Sum(b) = h[Len(b)]
    BY SumIs, <1>1, Zenon
  <2>2. Len(b) = n - e
    BY <1>1
  <2>3. QED
    BY <2>1, <2>2, Zenon
<1>5. f[0] = 0 /\ \A i \in 1..n : f[i] = f[i - 1] + terms[i]
  BY <1>2, PartialSums
<1>6. g[0] = 0 /\ \A i \in 1..e : g[i] = g[i - 1] + a[i]
  BY <1>3, <1>1, PartialSums
<1>7. h[0] = 0 /\ \A i \in 1..n - e : h[i] = h[i - 1] + b[i]
  <2> DEFINE m == n - e
  <2>1. h \in [0..m -> Nat] /\ Len(b) = m /\ Partial(b, h)
    BY <1>4, <1>1
  <2> HIDE DEF m, n
  <2>2. h[0] = 0 /\ \A i \in 1..m : h[i] = h[i - 1] + b[i]
    BY <2>1, <1>1, PartialSums
  <2>3. QED
    BY <2>2 DEF m
<1>8. f[e] = g[e]
  <2> DEFINE Known == {k \in Nat : k <= e => f[k] = g[k]}
  <2>1. 0 \in Known
    BY <1>5, <1>6
  <2>2. ASSUME NEW k \in Nat, k \in Known
        PROVE  k + 1 \in Known
    <3> SUFFICES ASSUME k + 1 <= e PROVE f[k + 1] = g[k + 1]
      OBVIOUS
    <3>1. k + 1 \in 1..e /\ k + 1 \in 1..n /\ (k + 1) - 1 = k
      BY <1>1
    <3>2. QED
      BY <3>1, <2>2, <1>1, <1>5, <1>6
  <2>3. Nat \subseteq Known
    <3> HIDE DEF Known
    <3>1. QED
      BY <2>1, <2>2, Induction
  <2>4. QED
    BY <2>3
<1>9. f[n] = f[e] + h[n - e]
  <2> DEFINE Known == {k \in Nat : k <= n - e => f[e + k] = f[e] + h[k]}
  <2>1. 0 \in Known
    <3>1. e + 0 = e /\ f[e] \in Nat
      BY <1>1
    <3>2. QED
      BY <1>5, <1>7, <3>1
  <2>2. ASSUME NEW k \in Nat, k \in Known
        PROVE  k + 1 \in Known
    <3> SUFFICES ASSUME k + 1 <= n - e PROVE f[e + (k + 1)] = f[e] + h[k + 1]
      OBVIOUS
    <3>1. k + 1 \in 1..n - e /\ e + (k + 1) \in 1..n /\ (k + 1) - 1 = k
          /\ e + (k + 1) - 1 = e + k /\ e + k \in 0..n /\ k \in 0..n - e
      BY <1>1
    <3> HIDE DEF n
    <3>2. f[e + (k + 1)] = f[e + k] + terms[e + (k + 1)]
      BY <3>1, <1>5
    <3>5. h[k + 1] = h[k] + terms[e + (k + 1)]
      BY <3>1, <1>1, <1>7
    <3>6. f[e + k] = f[e] + h[k]
      BY <3>1, <2>2
    <3> HIDE DEF Known
    <3>3. f[e] \in Nat
      BY <1>1
    <3>7. h[k] \in Nat
      BY <3>1
    <3>8. terms[e + (k + 1)] \in Nat
      BY <3>1, <1>1
    <3>4. (f[e] + h[k]) + terms[e + (k + 1)] = f[e] + (h[k] + terms[e + (k + 1)])
      <4>1. \A x, y, z \in Nat : (x + y) + z = x + (y + z)
        OBVIOUS
      <4>2. QED
        BY <3>3, <3>7, <3>8, <4>1, Zenon
    <3>9. QED
      BY <3>2, <3>4, <3>5, <3>6, Zenon
  <2>3. Nat \subseteq Known
    <3> HIDE DEF Known
    <3>1. QED
      BY <2>1, <2>2, Induction
  <2>4. n - e \in Known /\ e + (n - e) = n
    <3> HIDE DEF Known
    <3>1. QED
      BY <2>3, <1>1
  <2>5. QED
    BY <2>4
<1>10. QED
  BY <1>2, <1>3, <1>4, <1>8, <1>9 DEF a, b

\* What fits in a duration does not wrap.
LEMMA WrapKeeps == \A n \in 0..MaxDuration : Wrap(n) = n
<1>1. SUFFICES ASSUME NEW n \in 0..MaxDuration PROVE n % (2 * (MaxDuration + 1)) = n
  BY DurationAssumption DEF Wrap
<1>2. QED
  BY DurationAssumption

\* Nothing wraps in a sum that fits in a duration.
LEMMA WrappedSumIsSum ==
  ASSUME NEW terms \in Seq(Nat), Sum(terms) <= MaxDuration
  PROVE  WrappedSum(terms) = Sum(terms)
<1> DEFINE n == Len(terms)
           w == CHOOSE w : w = [i \in 0..n |-> IF i = 0 THEN 0 ELSE Wrap(w[i - 1] + Wrap(terms[i]))]
<1>1. n \in Nat /\ terms \in [1..n -> Nat]
  OBVIOUS
<1>2. PICK f \in [0..n -> Nat] : Partial(terms, f) /\ Sum(terms) = f[n]
  BY SumIs
<1>3. /\ f[0] = 0 /\ \A i \in 1..n : f[i] = f[i - 1] + terms[i]
      /\ \A i \in 0..n : f[i] <= f[n]
  <2>1. n \in 0..n /\ \A i \in 0..n : i <= n
    BY <1>1
  <2>2. QED
    BY <1>1, <1>2, <2>1, PartialSums
<1>4. \A i \in 1..n : Wrap(f[i - 1] + Wrap(terms[i])) = f[i]
  <2> TAKE i \in 1..n
  <2>1. f[i - 1] \in Nat /\ f[i] \in Nat /\ terms[i] \in Nat /\ f[n] \in Nat
    <3> HIDE DEF n
    <3>1. i - 1 \in 0..n /\ i \in 0..n /\ n \in 0..n
      BY <1>1
    <3>2. QED
      BY <1>1, <3>1
  <2>2. f[i] = f[i - 1] + terms[i] /\ f[i] <= f[n] /\ f[n] <= MaxDuration
    BY <1>1, <1>2, <1>3
  <2>3. terms[i] \in 0..MaxDuration /\ f[i] \in 0..MaxDuration
    BY <2>1, <2>2, DurationAssumption
  <2>4. QED
    BY <2>2, <2>3, WrapKeeps
<1>5. f = [i \in 0..n |-> IF i = 0 THEN 0 ELSE Wrap(f[i - 1] + Wrap(terms[i]))]
  BY <1>1, <1>3, <1>4
<1>6. w = [i \in 0..n |-> IF i = 0 THEN 0 ELSE Wrap(w[i - 1] + Wrap(terms[i]))]
  BY <1>5
<1>7. WrappedSum(terms) = w[n]
  BY DEF WrappedSum
<1>8. w[n] = f[n]
  <2> HIDE DEF w
  <2> DEFINE Known == {k \in Nat : k <= n => w[k] = f[k]}
  <2>1. 0 \in Known
    BY <1>1, <1>3, <1>6
  <2>2. ASSUME NEW k \in Nat, k \in Known
        PROVE  k + 1 \in Known
    <3> SUFFICES ASSUME k + 1 <= n PROVE w[k + 1] = f[k + 1]
      OBVIOUS
    <3>1. k + 1 \in 1..n /\ (k + 1) - 1 = k
      BY <1>1
    <3>2. w[k + 1] = Wrap(w[k] + Wrap(terms[k + 1]))
      BY <3>1, <1>6
    <3>3. QED
      BY <3>1, <3>2, <2>2, <1>4
  <2>3. Nat \subseteq Known
    <3> HIDE DEF Known
    <3>1. QED
      BY <2>1, <2>2, Induction
  <2>4. QED
    BY <2>3, <1>1
<1>9. QED
  BY <1>2, <1>7, <1>8

\* The groups of a max_age, and the hours each one stands for.
LEMMA GroupTypes ==
  ASSUME NEW groups \in Seq(Group)
  PROVE  /\ Hours(groups) \in Seq(Nat) /\ Len(Hours(groups)) = Len(groups)
         /\ DOMAIN groups = 1..Len(groups) /\ Len(groups) \in Nat
         /\ \A i \in DOMAIN groups :
              /\ groups[i].number \in Nat /\ groups[i].unit \in {"h", "d", "w"}
              /\ Hours(groups)[i] \in Nat
              /\ groups[i].number <= Hours(groups)[i]
              /\ groups[i].unit = "h" => Hours(groups)[i] = groups[i].number
<1>1. DOMAIN groups = 1..Len(groups) /\ Len(groups) \in Nat
  OBVIOUS
<1>2. ASSUME NEW i \in DOMAIN groups
      PROVE  /\ groups[i].number \in Nat /\ groups[i].unit \in {"h", "d", "w"}
             /\ Hours(groups)[i] \in Nat
             /\ groups[i].number <= Hours(groups)[i]
             /\ groups[i].unit = "h" => Hours(groups)[i] = groups[i].number
  <2>1. groups[i] \in Group
    OBVIOUS
  <2>2. groups[i].number \in Nat /\ groups[i].unit \in {"h", "d", "w"}
    BY <2>1 DEF Group, UnitsInHours
  <2>3. Hours(groups)[i] = groups[i].number * UnitsInHours[groups[i].unit]
    BY DEF Hours
  <2>4. UnitsInHours["h"] = 1 /\ UnitsInHours["d"] = 24 /\ UnitsInHours["w"] = 168
    BY DEF UnitsInHours
  <2>5. CASE groups[i].unit = "h"
    BY <2>2, <2>3, <2>4, <2>5
  <2>6. CASE groups[i].unit = "d"
    BY <2>2, <2>3, <2>4, <2>6
  <2>7. CASE groups[i].unit = "w"
    BY <2>2, <2>3, <2>4, <2>7
  <2>8. QED
    BY <2>2, <2>5, <2>6, <2>7
<1>3. Hours(groups) \in [1..Len(groups) -> Nat]
  BY <1>1, <1>2 DEF Hours
<1>4. Hours(groups) \in Seq(Nat) /\ Len(Hours(groups)) = Len(groups)
  BY <1>1, <1>3
<1>5. QED
  BY <1>1, <1>2, <1>4

(* What consumeExtendedUnits takes: the days and weeks before the first    *)
(* group in hours.                                                         *)
LEMMA ExtendedIs ==
  ASSUME NEW groups \in Seq(Group)
  PROVE  /\ Extended(groups) \in 0..Len(groups)
         /\ \A i \in 1..Extended(groups) : groups[i].unit \in ExtendedUnits
         /\ Extended(groups) < Len(groups) => groups[Extended(groups) + 1].unit = "h"
<1> DEFINE First(i) == /\ groups[i].unit \notin ExtendedUnits
                       /\ \A j \in 1..i - 1 : groups[j].unit \in ExtendedUnits
           e == CHOOSE i \in DOMAIN groups : First(i)
<1>1. DOMAIN groups = 1..Len(groups) /\ Len(groups) \in Nat
      /\ \A i \in DOMAIN groups : groups[i].unit \in {"h", "d", "w"}
  BY GroupTypes
<1>2. CASE \A i \in DOMAIN groups : groups[i].unit \in ExtendedUnits
  BY <1>1, <1>2 DEF Extended
<1>3. CASE ~ \A i \in DOMAIN groups : groups[i].unit \in ExtendedUnits
  <2>1. \E i \in DOMAIN groups : First(i)
    <3> DEFINE Late == {k \in Nat : \A j \in 1..k : j <= Len(groups) => groups[j].unit \in ExtendedUnits}
    <3> SUFFICES ASSUME ~ \E i \in DOMAIN groups : First(i)
                 PROVE  FALSE
      OBVIOUS
    <3>1. 0 \in Late
      OBVIOUS
    <3>2. ASSUME NEW k \in Nat, k \in Late
          PROVE  k + 1 \in Late
      <4>1. CASE k + 1 <= Len(groups)
        <5>1. k + 1 \in DOMAIN groups /\ \A j \in 1..(k + 1) - 1 : groups[j].unit \in ExtendedUnits
          BY <1>1, <3>2, <4>1
        <5>2. groups[k + 1].unit \in ExtendedUnits
          BY <5>1
        <5>3. \A j \in 1..k + 1 : j \in 1..k \/ j = k + 1
          OBVIOUS
        <5>4. QED
          BY <5>2, <5>3, <3>2
      <4>2. CASE ~ (k + 1 <= Len(groups))
        <5>1. \A j \in 1..k + 1 : j <= Len(groups) => j \in 1..k
          BY <1>1, <4>2
        <5>2. QED
          BY <5>1, <3>2
      <4>3. QED
        BY <4>1, <4>2
    <3>3. Nat \subseteq Late
      <4> HIDE DEF Late
      <4>1. QED
        BY <3>1, <3>2, Induction
    <3>4. Len(groups) \in Late
      BY <3>3, <1>1
    <3>5. QED
      BY <3>4, <1>1, <1>3
  <2>2. e \in DOMAIN groups /\ First(e)
    BY <2>1
  <2>3. Extended(groups) = e - 1
    BY <1>3 DEF Extended
  <2> HIDE DEF e
  <2>4. groups[e].unit = "h"
    BY <2>2, <1>1 DEF ExtendedUnits
  <2>5. e \in 1..Len(groups) /\ (e - 1) + 1 = e
    BY <2>2, <1>1
  <2>6. QED
    BY <2>2, <2>3, <2>4, <2>5, <1>1
<1>4. QED
  BY <1>2, <1>3

\* Hours come last exactly where nothing but hours follows the days and weeks.
LEMMA WellFormedIs ==
  ASSUME NEW groups \in Seq(Group)
  PROVE  WellFormed(groups) <=>
           \A i \in DOMAIN groups : i > Extended(groups) => groups[i].unit = "h"
<1> DEFINE e == Extended(groups)
<1>1. /\ DOMAIN groups = 1..Len(groups) /\ Len(groups) \in Nat
      /\ e \in 0..Len(groups)
      /\ \A i \in 1..e : groups[i].unit # "h"
      /\ e < Len(groups) => groups[e + 1].unit = "h"
  BY GroupTypes, ExtendedIs DEF ExtendedUnits
<1> HIDE DEF e
<1>2. ASSUME WellFormed(groups), NEW i \in DOMAIN groups, i > e
      PROVE  groups[i].unit = "h"
  <2>1. CASE i = e + 1
    BY <2>1, <1>1, <1>2
  <2>2. CASE i # e + 1
    <3>1. e + 1 \in DOMAIN groups /\ e + 1 < i /\ groups[e + 1].unit = "h"
      BY <1>1, <1>2, <2>2
    <3>2. QED
      BY <3>1, <1>2 DEF WellFormed
  <2>3. QED
    BY <2>1, <2>2
<1>3. ASSUME \A i \in DOMAIN groups : i > e => groups[i].unit = "h"
      PROVE  WellFormed(groups)
  <2> SUFFICES ASSUME NEW i \in DOMAIN groups, NEW j \in DOMAIN groups,
                      i < j, groups[i].unit = "h"
               PROVE  groups[j].unit = "h"
    BY DEF WellFormed
  <2>1. ~ (i <= e)
    BY <1>1
  <2>2. j > e
    BY <2>1, <1>1
  <2>3. QED
    BY <2>2, <1>3
<1>4. QED
  BY <1>2, <1>3 DEF e

(* A max_age whose hours fit in a duration: it is read as their number,    *)
(* and refused where that is zero or hours do not come last.               *)
LEMMA ParseMaxAgeIs ==
  ASSUME NEW groups \in Seq(Group), Written(groups) <= MaxDuration
  PROVE  ParseMaxAge(groups) =
           IF groups = <<>> THEN Accepted(NoMaxAge)
           ELSE IF WellFormed(groups) /\ Written(groups) > 0
                  THEN Accepted(Written(groups)) ELSE Rejected
<1> DEFINE n == Len(groups)
           e == Extended(groups)
           leading == SubSeq(groups, 1, e)
           rest == SubSeq(groups, e + 1, n)
           numbers == [i \in DOMAIN rest |-> rest[i].number]
<1>1. /\ Hours(groups) \in Seq(Nat) /\ Len(Hours(groups)) = n
      /\ DOMAIN groups = 1..n /\ n \in Nat
      /\ \A i \in DOMAIN groups :
              /\ groups[i].number \in Nat /\ groups[i].unit \in {"h", "d", "w"}
              /\ Hours(groups)[i] \in Nat
              /\ groups[i].number <= Hours(groups)[i]
              /\ groups[i].unit = "h" => Hours(groups)[i] = groups[i].number
  BY GroupTypes
<1>2. e \in 0..n
  BY ExtendedIs
<1>3. /\ leading \in Seq(Group) /\ Len(leading) = e /\ \A i \in 1..e : leading[i] = groups[i]
      /\ rest \in Seq(Group) /\ Len(rest) = n - e /\ \A i \in 1..n - e : rest[i] = groups[e + i]
  <2>1. groups \in Seq(Group) /\ e \in 0..Len(groups) /\ Len(groups) = n
    BY <1>2
  <2> HIDE DEF e, n
  <2>2. /\ leading \in Seq(Group) /\ Len(leading) = e
        /\ \A i \in 1..e : leading[i] = groups[i]
    BY <2>1
  <2>3. /\ rest \in Seq(Group) /\ Len(rest) = n - e
        /\ \A i \in 1..n - e : rest[i] = groups[e + i]
    BY <2>1
  <2>4. QED
    BY <2>2, <2>3
<1>4. Hours(leading) = SubSeq(Hours(groups), 1, e)
  <2>1. DOMAIN Hours(leading) = 1..e /\ DOMAIN SubSeq(Hours(groups), 1, e) = 1..e
    BY <1>1, <1>2, <1>3 DEF Hours
  <2>2. \A i \in 1..e : Hours(leading)[i] = Hours(groups)[i]
    BY <1>1, <1>2, <1>3 DEF Hours
  <2>3. QED
    BY <2>1, <2>2, <1>1, <1>2, <1>3 DEF Hours
<1>5. Hours(rest) = SubSeq(Hours(groups), e + 1, n)
  <2>1. Hours(rest) \in Seq(Nat) /\ Len(Hours(rest)) = n - e
    <3> HIDE DEF rest, e, n
    <3>1. /\ rest \in Seq(Group) /\ Len(rest) = n - e
      BY <1>3, Zenon
    <3>2. Hours(rest) \in Seq(Nat) /\ Len(Hours(rest)) = Len(rest)
      BY <3>1, GroupTypes, Zenon
    <3>3. QED
      BY <3>1, <3>2, Zenon
  <2>2. \A i \in 1..n - e : Hours(rest)[i] = Hours(groups)[e + i]
    <3> HIDE DEF rest, e, n
    <3>1. \A i \in 1..n - e : i \in DOMAIN rest /\ e + i \in DOMAIN groups
      BY <1>1, <1>2, <1>3
    <3>2. \A i \in 1..n - e : rest[i] = groups[e + i]
      BY <1>3, Zenon
    <3>3. QED
      BY <3>1, <3>2, Zenon DEF Hours
  <2> DEFINE all == Hours(groups)
             part == SubSeq(all, e + 1, n)
  <2>3. all \in Seq(Nat) /\ Len(all) = n /\ n \in Nat /\ e \in 0..n
    BY <1>1, <1>2
  <2> HIDE DEF all, e, n
  <2>4. part \in Seq(Nat) /\ Len(part) = n - e /\ \A i \in 1..n - e : part[i] = all[e + i]
    BY <2>3, SMTT(30)
  <2> HIDE DEF part
  <2>5. Hours(rest) = part
    BY <2>1, <2>2, <2>3, <2>4 DEF all
  <2>6. QED
    BY <2>5 DEF part, all
<1>6. Written(groups) = Sum(Hours(leading)) + Sum(Hours(rest))
  BY <1>1, <1>2, <1>4, <1>5, SumSplits DEF Written
<1>7. /\ Sum(Hours(leading)) \in Nat /\ Sum(Hours(rest)) \in Nat /\ Written(groups) \in Nat
      /\ Hours(leading) \in Seq(Nat) /\ Hours(rest) \in Seq(Nat)
      /\ \A i \in DOMAIN groups : Hours(groups)[i] <= Written(groups)
  <2>1. Hours(leading) \in Seq(Nat) /\ Hours(rest) \in Seq(Nat)
    BY <1>3, GroupTypes
  <2>2. DOMAIN Hours(groups) = DOMAIN groups
    BY <1>1
  <2>3. QED
    BY <2>1, <2>2, <1>1, SumBounds DEF Written
<1> HIDE DEF leading, rest, e
<1>8. WrappedSum(Hours(leading)) = Sum(Hours(leading))
  BY <1>6, <1>7, WrappedSumIsSum, DurationAssumption
<1>9. \A i \in DOMAIN leading : leading[i].number <= MaxDuration
  <2> TAKE i \in DOMAIN leading
  <2>1. i \in 1..e /\ i \in 1..n
    BY <1>2, <1>3
  <2>2. /\ leading[i] = groups[i] /\ groups[i].number \in Nat /\ Hours(groups)[i] \in Nat
        /\ groups[i].number <= Hours(groups)[i] /\ Hours(groups)[i] <= Written(groups)
    BY <2>1, <1>1, <1>3, <1>7
  <2>3. QED
    BY <2>2, <1>7, DurationAssumption
<1>10. ConsumeExtendedUnits(groups) =
         [readable |-> TRUE, total |-> Sum(Hours(leading)), remainder |-> rest]
  BY <1>8, <1>9 DEF ConsumeExtendedUnits, leading, rest, e
<1>11. WellFormed(groups) <=> \A i \in DOMAIN rest : rest[i].unit = "h"
  <2>1. WellFormed(groups) <=> \A i \in 1..n : i > e => groups[i].unit = "h"
    BY <1>1, WellFormedIs DEF e
  <2>2. \A i \in 1..n : i > e => i - e \in 1..n - e /\ groups[i] = rest[i - e]
    BY <1>1, <1>2, <1>3
  <2>3. \A i \in 1..n - e : e + i \in 1..n /\ e + i > e /\ rest[i] = groups[e + i]
    BY <1>1, <1>2, <1>3
  <2>4. DOMAIN rest = 1..n - e
    BY <1>1, <1>2, <1>3
  <2>5. QED
    BY <2>1, <2>2, <2>3, <2>4
<1>12. CASE ~ WellFormed(groups)
  <2>1. groups # <<>>
    BY <1>12 DEF WellFormed
  <2>2. ~ ParseDuration(rest).readable
    BY <1>11, <1>12 DEF ParseDuration
  <2>3. QED
    BY <1>10, <1>12, <2>1, <2>2 DEF ParseMaxAge
<1>13. CASE WellFormed(groups)
  <2>1. Hours(rest) = numbers
    <3>1. \A i \in DOMAIN rest : Hours(rest)[i] = rest[i].number
      BY <1>3, <1>11, <1>13, GroupTypes
    <3>2. QED
      BY <3>1 DEF Hours
  <2>2. ParseDuration(rest) = [readable |-> TRUE, hours |-> Sum(Hours(rest))]
    <3>1. Sum(numbers) = Sum(Hours(rest)) /\ Sum(Hours(rest)) <= MaxDuration
      BY <2>1, <1>6, <1>7, DurationAssumption
    <3> HIDE DEF numbers
    <3>2. ParseDuration(rest) = [readable |-> /\ \A i \in DOMAIN rest : rest[i].unit = "h"
                                             /\ Sum(numbers) <= MaxDuration,
                                 hours |-> Sum(numbers)]
      BY DEF ParseDuration, numbers
    <3>3. QED
      BY <3>1, <3>2, <1>11, <1>13
  <2>3. Wrap(Sum(Hours(leading)) + Sum(Hours(rest))) = Written(groups)
    <3>1. Written(groups) \in 0..MaxDuration
      BY <1>7, DurationAssumption
    <3>2. QED
      BY <3>1, <1>6, WrapKeeps
  <2>4. CASE groups = <<>>
    BY <2>4 DEF ParseMaxAge
  <2>5. CASE groups # <<>> /\ Written(groups) > 0
    BY <2>5, <2>2, <2>3, <1>10, <1>13 DEF ParseMaxAge
  <2>6. CASE groups # <<>> /\ ~ (Written(groups) > 0)
    BY <2>6, <2>2, <2>3, <1>10, <1>13 DEF ParseMaxAge
  <2>7. QED
    BY <2>4, <2>5, <2>6
<1>14. QED
  BY <1>12, <1>13

\* What status shows of an age reads back as the same age.
LEMMA RenderReadsBack ==
  ASSUME NEW age \in 1..MaxDuration
  PROVE  ParseMaxAge(Render(age)) = Accepted(age)
<1>1. age \in Nat /\ age > 0 /\ age <= MaxDuration
  BY DurationAssumption
<1>2. \E group \in Group : Render(age) = <<group>> /\ group.number * UnitsInHours[group.unit] = age
  <2>1. UnitsInHours["h"] = 1 /\ UnitsInHours["d"] = 24 /\ UnitsInHours["w"] = 168
        /\ {"h", "d", "w"} = DOMAIN UnitsInHours
    BY DEF UnitsInHours
  <2>2. CASE age % 168 = 0
    <3>1. age \div 168 \in Nat /\ (age \div 168) * 168 = age
      BY <1>1, <2>2
    <3> DEFINE g == [number |-> age \div 168, unit |-> "w"]
    <3>2. g \in Group /\ g.number * UnitsInHours[g.unit] = age
      BY <3>1, <2>1 DEF Group
    <3>3. Render(age) = <<g>>
      BY <2>1, <2>2 DEF Render
    <3>4. QED
      BY <3>2, <3>3
  <2>3. CASE age % 168 # 0 /\ age % 24 = 0
    <3>1. age \div 24 \in Nat /\ (age \div 24) * 24 = age
      BY <1>1, <2>3
    <3> DEFINE g == [number |-> age \div 24, unit |-> "d"]
    <3>2. g \in Group /\ g.number * UnitsInHours[g.unit] = age
      BY <3>1, <2>1 DEF Group
    <3>3. Render(age) = <<g>>
      BY <2>1, <2>3 DEF Render
    <3>4. QED
      BY <3>2, <3>3
  <2>4. CASE age % 168 # 0 /\ age % 24 # 0
    <3> DEFINE g == [number |-> age, unit |-> "h"]
    <3>1. g \in Group /\ g.number * UnitsInHours[g.unit] = age
      BY <1>1, <2>1 DEF Group
    <3>2. Render(age) = <<g>>
      BY <2>1, <2>4 DEF Render
    <3>3. QED
      BY <3>1, <3>2
  <2>5. QED
    BY <2>2, <2>3, <2>4
<1>3. PICK group \in Group : Render(age) = <<group>> /\ group.number * UnitsInHours[group.unit] = age
  BY <1>2
<1> DEFINE groups == <<group>>
<1>4. groups \in Seq(Group) /\ groups # <<>> /\ Len(groups) = 1 /\ groups[1] = group
  OBVIOUS
<1>5. Hours(groups) = <<age>>
  <2>1. Hours(groups) \in Seq(Nat) /\ Len(Hours(groups)) = 1
    BY <1>4, GroupTypes
  <2>2. Hours(groups)[1] = age
    BY <1>3, <1>4 DEF Hours
  <2>3. QED
    BY <2>1, <2>2, <1>1
<1>6. Sum(<<age>>) = age
  <2> DEFINE terms == <<age>>
  <2>1. terms \in Seq(Nat) /\ Len(terms) = 1 /\ terms[1] = age
    BY <1>1
  <2> HIDE DEF terms
  <2>2. PICK f \in [0..Len(terms) -> Nat] : Partial(terms, f) /\ Sum(terms) = f[Len(terms)]
    BY <2>1, SumIs
  <2>3. f[0] = 0 /\ f[1] = f[0] + terms[1]
    <3>1. 1 \in 1..Len(terms) /\ 1 - 1 = 0
      BY <2>1
    <3>2. QED
      BY <3>1, <2>1, <2>2, PartialSums
  <2>4. QED
    BY <2>1, <2>2, <2>3, <1>1 DEF terms
<1>7. Written(groups) = age /\ WellFormed(groups)
  BY <1>4, <1>5, <1>6 DEF Written, WellFormed
<1>8. QED
  BY <1>1, <1>3, <1>4, <1>7, ParseMaxAgeIs

\* How the report judges one that is asked about.
LEMMA StandingIs ==
  ASSUME NEW i, PolicyInput(i), NEW s \in DOMAIN i.maxAge
  PROVE  LET compliance ==
               Report(i.maxAge, i.hasHistory, i.answers, i.now).standings[s].compliance
             proven == /\ i.hasHistory
                       /\ i.answers[s].kind = "success"
                       /\ i.now - i.answers[s].time <= i.maxAge[s]
         IN  IF ~ IsSet(i.maxAge[s]) THEN compliance = "no policy"
             ELSE IF ~ i.hasHistory \/ i.answers[s].kind = "error" THEN compliance = "unknown"
             ELSE IF proven THEN compliance = "ok"
             ELSE compliance \in {"never rotated", "overdue"}
<1> DEFINE answered == IF i.hasHistory THEN i.answers[s] ELSE NeverRotated
           present == answered.kind = "success"
           last == IF present THEN answered.time ELSE i.now
           readable == i.hasHistory /\ answered.kind # "error"
           judged == Evaluate(i.maxAge[s], present, last, readable, i.now)
<1>1. Report(i.maxAge, i.hasHistory, i.answers, i.now).standings[s] = judged
  BY DEF Report
<1>2. /\ i.now \in Nat /\ i.maxAge[s] \in Nat /\ i.hasHistory \in BOOLEAN
      /\ \/ i.answers[s].kind \in {"error", "none"}
         \/ i.answers[s].kind = "success" /\ i.answers[s].time \in Nat
  BY DEF PolicyInput, Unreadable, NeverRotated
<1>3. NeverRotated.kind = "none"
  BY DEF NeverRotated
<1>4. present \in BOOLEAN /\ readable \in BOOLEAN /\ last \in Nat
  BY <1>2, <1>3
<1>5. readable <=> i.hasHistory /\ i.answers[s].kind # "error"
  BY <1>3
<1>6. i.hasHistory => (present <=> i.answers[s].kind = "success")
                      /\ (present => last = i.answers[s].time)
  OBVIOUS
<1> HIDE DEF present, last, readable
<1>7. LET maxAge == i.maxAge[s]
      IN  /\ ~ IsSet(maxAge) => judged.compliance = "no policy"
          /\ IsSet(maxAge) /\ ~ readable => judged.compliance = "unknown"
          /\ IsSet(maxAge) /\ readable /\ ~ present => judged.compliance = "never rotated"
          /\ IsSet(maxAge) /\ readable /\ present =>
               judged.compliance = IF i.now - last > maxAge THEN "overdue" ELSE "ok"
  <2> DEFINE age == IF present /\ i.now > last THEN i.now - last ELSE 0
  <2>1. judged.compliance =
          CASE ~ IsSet(i.maxAge[s])               -> "no policy"
            [] IsSet(i.maxAge[s]) /\ ~ readable -> "unknown"
            [] IsSet(i.maxAge[s]) /\ readable /\ ~ present -> "never rotated"
            [] IsSet(i.maxAge[s]) /\ readable /\ present ->
                 IF age > i.maxAge[s] THEN "overdue" ELSE "ok"
    BY <1>4 DEF Evaluate
  <2>2. present => (age > i.maxAge[s] <=> i.now - last > i.maxAge[s])
    BY <1>2, <1>4
  <2> HIDE DEF judged, age
  <2>3. QED
    BY <2>1, <2>2, <1>4
<1> HIDE DEF judged
<1>8. CASE ~ readable
  BY <1>1, <1>5, <1>7, <1>8
<1>9. CASE readable /\ ~ present
  BY <1>1, <1>2, <1>5, <1>6, <1>7, <1>9
<1>10. CASE readable /\ present
  <2>1. i.now - last > i.maxAge[s] <=> ~ (i.now - i.answers[s].time <= i.maxAge[s])
    BY <1>2, <1>4, <1>5, <1>6, <1>10
  <2>2. QED
    BY <1>1, <1>5, <1>6, <1>7, <1>10, <2>1
<1>11. QED
  BY <1>4, <1>8, <1>9, <1>10

-----------------------------------------------------------------------------
(* envstore: the file and the steps of a write                            *)

\* The permissions a file can have, and what a disk holds in the two places.
Modes == {"none", "0600", "0640"}
File == [lines : Seq(Line), mode : Modes, synced : BOOLEAN]
Disk == [path : File, temp : File]

\* The absent file, and what a file that is created starts with.
LEMMA NoFileIs ==
  /\ NoFile \in File /\ DefaultMode \in Modes /\ <<>> \in Seq(Line)
  /\ NoFile.lines = <<>> /\ NoFile.mode = "none" /\ NoFile.synced = FALSE
<1>1. <<>> \in Seq(Line) /\ DefaultMode \in Modes /\ "none" \in Modes /\ FALSE \in BOOLEAN
  BY DEF DefaultMode, Modes
<1>2. \A none, mode, synced :
        LET file == [lines |-> none, mode |-> mode, synced |-> synced]
        IN  /\ none \in Seq(Line) /\ mode \in Modes /\ synced \in BOOLEAN => file \in File
            /\ file.lines = none /\ file.mode = mode /\ file.synced = synced
  BY DEF File
<1>3. QED
  BY <1>1, <1>2, Zenon DEF NoFile

\* A disk with the path of another, and a temporary file of this content.
WithTemp(after, path, ls, mode, synced) ==
  /\ after \in Disk /\ after.path = path
  /\ after.temp.lines = ls /\ after.temp.mode = mode /\ after.temp.synced = synced

\* What each step does to a disk.
StepsDo(disk, lines) ==
  /\ Perform("stat", disk, lines) = disk /\ Perform("close", disk, lines) = disk
  /\ WithTemp(Perform("create", disk, lines), disk.path, NoFile.lines, DefaultMode, NoFile.synced)
  /\ WithTemp(Perform("write", disk, lines), disk.path, lines, disk.temp.mode, disk.temp.synced)
  /\ WithTemp(Perform("sync", disk, lines), disk.path, disk.temp.lines, disk.temp.mode, TRUE)
  /\ WithTemp(Perform("chmod", disk, lines), disk.path,
              disk.temp.lines, disk.path.mode, disk.temp.synced)
  /\ Perform("rename", disk, lines) \in Disk
  /\ Perform("rename", disk, lines) = [path |-> disk.temp, temp |-> NoFile]

\* The steps of writeAtomic, each on any disk.
LEMMA PerformIs ==
  ASSUME NEW disk \in Disk, NEW lines \in Seq(Line)
  PROVE  StepsDo(disk, lines)
<1>1. /\ disk.path \in File /\ disk.temp \in File
      /\ disk.path.mode \in Modes /\ disk.temp.mode \in Modes
      /\ disk.temp.lines \in Seq(Line) /\ disk.temp.synced \in BOOLEAN
  BY DEF Disk, File
<1>2. ASSUME NEW file \in File
      PROVE  WithTemp([disk EXCEPT !.temp = file], disk.path, file.lines, file.mode, file.synced)
  BY DEF Disk, WithTemp
<1>3. ASSUME NEW file \in File, NEW ls \in Seq(Line), NEW mode \in Modes, NEW synced \in BOOLEAN
      PROVE  /\ WithTemp([disk EXCEPT !.temp = [file EXCEPT !.lines = ls]], disk.path,
                         ls, file.mode, file.synced)
             /\ WithTemp([disk EXCEPT !.temp = [file EXCEPT !.mode = mode]], disk.path,
                         file.lines, mode, file.synced)
             /\ WithTemp([disk EXCEPT !.temp = [file EXCEPT !.synced = synced]], disk.path,
                         file.lines, file.mode, synced)
  <2>1. LET new == [file EXCEPT !.lines = ls]
        IN  new \in File /\ new.lines = ls /\ new.mode = file.mode /\ new.synced = file.synced
    BY DEF File
  <2>2. LET new == [file EXCEPT !.mode = mode]
        IN  new \in File /\ new.lines = file.lines /\ new.mode = mode /\ new.synced = file.synced
    BY DEF File
  <2>3. LET new == [file EXCEPT !.synced = synced]
        IN  new \in File /\ new.lines = file.lines /\ new.mode = file.mode /\ new.synced = synced
    BY DEF File
  <2>4. QED
    BY <2>1, <2>2, <2>3, <1>2
<1>4. Perform("stat", disk, lines) = disk /\ Perform("close", disk, lines) = disk
  BY DEF Perform
<1>5. WithTemp(Perform("create", disk, lines), disk.path, NoFile.lines, DefaultMode, NoFile.synced)
  <2>1. Perform("create", disk, lines) = [disk EXCEPT !.temp = [NoFile EXCEPT !.mode = DefaultMode]]
    BY DEF Perform
  <2>2. NoFile \in File /\ DefaultMode \in Modes /\ NoFile.lines \in Seq(Line) /\ NoFile.synced \in BOOLEAN
    BY NoFileIs DEF File
  <2>3. QED
    BY <2>1, <2>2, <1>3
<1>6. WithTemp(Perform("write", disk, lines), disk.path, lines, disk.temp.mode, disk.temp.synced)
  <2>1. Perform("write", disk, lines) = [disk EXCEPT !.temp = [disk.temp EXCEPT !.lines = lines]]
    BY DEF Perform, Disk
  <2>2. QED
    BY <2>1, <1>1, <1>3
<1>7. WithTemp(Perform("sync", disk, lines), disk.path, disk.temp.lines, disk.temp.mode, TRUE)
  <2> DEFINE yes == TRUE
  <2>1. Perform("sync", disk, lines) = [disk EXCEPT !.temp = [disk.temp EXCEPT !.synced = yes]]
    BY DEF Perform, Disk
  <2>2. yes \in BOOLEAN
    OBVIOUS
  <2> HIDE DEF yes
  <2>3. WithTemp(Perform("sync", disk, lines), disk.path, disk.temp.lines, disk.temp.mode, yes)
    BY <2>1, <2>2, <1>1, <1>3
  <2>4. QED
    BY <2>3 DEF yes
<1>8. WithTemp(Perform("chmod", disk, lines), disk.path,
               disk.temp.lines, disk.path.mode, disk.temp.synced)
  <2>1. Perform("chmod", disk, lines)
          = [disk EXCEPT !.temp = [disk.temp EXCEPT !.mode = disk.path.mode]]
    BY DEF Perform, Disk
  <2>2. QED
    BY <2>1, <1>1, <1>3
<1>9. /\ Perform("rename", disk, lines) \in Disk
      /\ Perform("rename", disk, lines) = [path |-> disk.temp, temp |-> NoFile]
  <2>1. Perform("rename", disk, lines) = [path |-> disk.temp, temp |-> NoFile]
    BY DEF Perform
  <2>2. QED
    BY <2>1, <1>1, NoFileIs DEF Disk
<1>10. QED
  BY <1>4, <1>5, <1>6, <1>7, <1>8, <1>9 DEF StepsDo

\* A step leaves a disk.
LEMMA StepTypes ==
  ASSUME NEW k \in 1..7, NEW disk \in Disk, NEW lines \in Seq(Line)
  PROVE  Perform(WriteSteps[k], disk, lines) \in Disk
<1>1. WriteSteps[k] \in {"stat", "create", "write", "sync", "close", "chmod", "rename"}
  BY DEF WriteSteps
<1>2. StepsDo(disk, lines)
  BY PerformIs
<1>3. QED
  BY <1>1, <1>2 DEF StepsDo, WithTemp

\* The disks that the first n steps of writeAtomic leave, from the first.
Steps(f, n, disk, lines) ==
  /\ After(n, disk, lines) = f[n]
  /\ f[0] = disk
  /\ \A k \in 1..n : f[k] = Perform(WriteSteps[k], f[k - 1], lines)

\* The steps of writeAtomic, one after the other.
LEMMA AfterIs ==
  ASSUME NEW n \in 0..7, NEW disk \in Disk, NEW lines \in Seq(Line)
  PROVE  \E f : Steps(f, n, disk, lines)
<1> DEFINE step == [p \in (1..n) \X Disk |-> Perform(WriteSteps[p[1]], p[2], lines)]
           f == CHOOSE f : f = [k \in 0..n |->
                  IF k = 0 THEN disk ELSE Perform(WriteSteps[k], f[k - 1], lines)]
<1>1. step \in [(1..n) \X Disk -> Disk]
  <2>1. \A k \in 1..n : k \in 1..7
    OBVIOUS
  <2>2. QED
    BY <2>1, StepTypes
<1>2. PICK g \in Iterations(n, Disk, disk, step) : TRUE
  <2> HIDE DEF step
  <2>1. n \in Nat
    OBVIOUS
  <2>2. QED
    BY <1>1, <2>1, Recursion
<1>3. g = [k \in 0..n |-> IF k = 0 THEN disk ELSE Perform(WriteSteps[k], g[k - 1], lines)]
  <2>1. /\ g \in [0..n -> Disk] /\ g[0] = disk
        /\ \A k \in 1..n : g[k] = step[<<k, g[k - 1]>>]
    BY <1>2 DEF Iterations
  <2>2. \A k \in 1..n : step[<<k, g[k - 1]>>] = Perform(WriteSteps[k], g[k - 1], lines)
    <3> TAKE k \in 1..n
    <3>1. k - 1 \in 0..n /\ g[k - 1] \in Disk
      BY <2>1
    <3>2. QED
      BY <3>1
  <2>3. \A k \in 0..n : k # 0 => k \in 1..n
    OBVIOUS
  <2> HIDE DEF step
  <2>4. QED
    BY <2>1, <2>2, <2>3
<1>4. f = [k \in 0..n |-> IF k = 0 THEN disk ELSE Perform(WriteSteps[k], f[k - 1], lines)]
  BY <1>3
<1>5. After(n, disk, lines) = f[n]
  BY DEF After
<1> HIDE DEF f
<1>6. f[0] = disk
  BY <1>4
<1>7. \A k \in 1..n : f[k] = Perform(WriteSteps[k], f[k - 1], lines)
  <2>1. \A k \in 1..n : k \in 0..n /\ k # 0
    OBVIOUS
  <2>2. QED
    BY <2>1, <1>4
<1>8. QED
  BY <1>5, <1>6, <1>7 DEF Steps

\* The result of a write: the new file whole, or the old one.
NewOrOld(written, disk, lines, call) ==
  /\ written.ok <=> call.done = 7
  /\ call.done = 7 =>
       written.disk = [path |-> [lines |-> lines, mode |-> disk.path.mode, synced |-> TRUE],
                       temp |-> NoFile]
  /\ call.done # 7 => written.disk.path = disk.path
  /\ call.stop = "return" => written.disk.temp = NoFile

(* writeAtomic on a disk without a temporary file: the path is replaced by *)
(* the rename, the last of its steps, and by nothing else.                 *)
LEMMA WriteAtomicIs ==
  ASSUME NEW disk \in Disk, disk.temp = NoFile, NEW lines \in Seq(Line), NEW call \in Calls
  PROVE  NewOrOld(WriteAtomic(disk, lines, call), disk, lines, call)
<1> DEFINE n == call.done
           after == After(n, disk, lines)
           file == [lines |-> lines, mode |-> disk.path.mode, synced |-> TRUE]
<1>1. Len(WriteSteps) = 7 /\ n \in 0..7 /\ (n = 7 => call.stop = "return")
      /\ call.stop \in {"return", "crash"}
  BY DEF Calls, WriteSteps
<1>2. PICK f : /\ after = f[n] /\ f[0] = disk
               /\ \A k \in 1..n : f[k] = Perform(WriteSteps[k], f[k - 1], lines)
  <2>1. n \in 0..7
    BY <1>1
  <2> HIDE DEF n
  <2>2. \E f : Steps(f, n, disk, lines)
    BY <2>1, AfterIs
  <2>3. QED
    BY <2>2, Zenon DEF Steps
<1>3. /\ WriteSteps[1] = "stat" /\ WriteSteps[2] = "create" /\ WriteSteps[3] = "write"
      /\ WriteSteps[4] = "sync" /\ WriteSteps[5] = "close" /\ WriteSteps[6] = "chmod"
      /\ WriteSteps[7] = "rename"
  BY DEF WriteSteps
<1> DEFINE path == disk.path
<1>4. n >= 1 => f[1] = disk
  <2>1. n >= 1 => f[1] = Perform(WriteSteps[1], f[0], lines)
    BY <1>1, <1>2
  <2>2. StepsDo(disk, lines)
    BY PerformIs
  <2>3. QED
    BY <2>1, <2>2, <1>2, <1>3 DEF StepsDo
<1>5. n >= 2 => WithTemp(f[2], path, NoFile.lines, DefaultMode, NoFile.synced)
  <2> SUFFICES ASSUME n >= 2 PROVE WithTemp(f[2], path, NoFile.lines, DefaultMode, NoFile.synced)
    OBVIOUS
  <2>1. f[2] = Perform(WriteSteps[2], f[1], lines) /\ n >= 1
    BY <1>1, <1>2
  <2>2. f[1] \in Disk /\ StepsDo(f[1], lines)
    BY <2>1, <1>4, PerformIs DEF WithTemp
  <2>3. QED
    BY <2>1, <2>2, <1>3, <1>4 DEF StepsDo, WithTemp
<1>6. n >= 3 => WithTemp(f[3], path, lines, DefaultMode, NoFile.synced)
  <2> SUFFICES ASSUME n >= 3 PROVE WithTemp(f[3], path, lines, DefaultMode, NoFile.synced)
    OBVIOUS
  <2>1. f[3] = Perform(WriteSteps[3], f[2], lines) /\ n >= 2
    BY <1>1, <1>2
  <2>2. f[2] \in Disk /\ StepsDo(f[2], lines)
    BY <2>1, <1>5, PerformIs DEF WithTemp
  <2>3. QED
    BY <2>1, <2>2, <1>3, <1>5 DEF StepsDo, WithTemp
<1>7. n >= 4 => WithTemp(f[4], path, lines, DefaultMode, TRUE)
  <2> SUFFICES ASSUME n >= 4 PROVE WithTemp(f[4], path, lines, DefaultMode, TRUE)
    OBVIOUS
  <2>1. f[4] = Perform(WriteSteps[4], f[3], lines) /\ n >= 3
    BY <1>1, <1>2
  <2>2. f[3] \in Disk /\ StepsDo(f[3], lines)
    BY <2>1, <1>6, PerformIs DEF WithTemp
  <2>3. QED
    BY <2>1, <2>2, <1>3, <1>6 DEF StepsDo, WithTemp
<1>8. n >= 5 => WithTemp(f[5], path, lines, DefaultMode, TRUE)
  <2> SUFFICES ASSUME n >= 5 PROVE WithTemp(f[5], path, lines, DefaultMode, TRUE)
    OBVIOUS
  <2>1. f[5] = Perform(WriteSteps[5], f[4], lines) /\ n >= 4
    BY <1>1, <1>2
  <2>2. f[4] \in Disk /\ StepsDo(f[4], lines)
    BY <2>1, <1>7, PerformIs DEF WithTemp
  <2>3. QED
    BY <2>1, <2>2, <1>3, <1>7 DEF StepsDo, WithTemp
<1>9. n >= 6 => WithTemp(f[6], path, lines, path.mode, TRUE)
  <2> SUFFICES ASSUME n >= 6 PROVE WithTemp(f[6], path, lines, path.mode, TRUE)
    OBVIOUS
  <2>1. f[6] = Perform(WriteSteps[6], f[5], lines) /\ n >= 5
    BY <1>1, <1>2
  <2>2. f[5] \in Disk /\ StepsDo(f[5], lines)
    BY <2>1, <1>8, PerformIs DEF WithTemp
  <2>3. QED
    BY <2>1, <2>2, <1>3, <1>8 DEF StepsDo, WithTemp
<1>10. n >= 7 => f[7] = [path |-> f[6].temp, temp |-> NoFile] /\ f[6].temp = file
  <2> SUFFICES ASSUME n >= 7 PROVE f[7] = [path |-> f[6].temp, temp |-> NoFile] /\ f[6].temp = file
    OBVIOUS
  <2>1. f[7] = Perform(WriteSteps[7], f[6], lines) /\ n >= 6
    BY <1>1, <1>2
  <2>2. f[6] \in Disk /\ StepsDo(f[6], lines)
    BY <2>1, <1>9, PerformIs DEF WithTemp
  <2>3. f[7] = [path |-> f[6].temp, temp |-> NoFile]
    BY <2>1, <2>2, <1>3, <1>9 DEF StepsDo, WithTemp
  <2>4. \A x \in File : x = [lines |-> x.lines, mode |-> x.mode, synced |-> x.synced]
    BY DEF File
  <2>5. f[6].temp \in File
    BY <2>2 DEF Disk
  <2>6. f[6].temp = file
    BY <2>1, <2>4, <2>5, <1>9, Zenon DEF WithTemp
  <2>7. QED
    BY <2>3, <2>6
<1>11. CASE n = 7
  <2>1. after = [path |-> file, temp |-> NoFile]
    <3>1. f[7] = [path |-> f[6].temp, temp |-> NoFile] /\ f[6].temp = file /\ after = f[7]
      BY <1>2, <1>10, <1>11
    <3> HIDE DEF after, file
    <3>2. QED
      BY <3>1
  <2> HIDE DEF after, file
  <2>2. WriteAtomic(disk, lines, call).ok = TRUE
    BY <1>1, <1>11 DEF WriteAtomic
  <2>3. WriteAtomic(disk, lines, call).disk = [path |-> file, temp |-> NoFile]
    <3>1. WriteAtomic(disk, lines, call).disk =
            IF call.stop = "crash" THEN after ELSE [after EXCEPT !.temp = NoFile]
      BY DEF WriteAtomic, after
    <3>2. [after EXCEPT !.temp = NoFile] = after
      BY <2>1
    <3>3. QED
      BY <3>1, <3>2, <2>1
  <2>4. QED
    BY <2>2, <2>3, <1>11 DEF file, NewOrOld
<1>12. CASE n # 7
  <2>1. after \in Disk /\ after.path = path
    <3>1. n \in {0, 1} \/ n = 2 \/ n = 3 \/ n = 4 \/ n = 5 \/ n = 6
      BY <1>1, <1>12
    <3>2. CASE n \in {0, 1}
      BY <3>2, <1>2, <1>4
    <3>3. CASE n = 2
      BY <3>3, <1>2, <1>5 DEF WithTemp
    <3>4. CASE n = 3
      BY <3>4, <1>2, <1>6 DEF WithTemp
    <3>5. CASE n = 4
      BY <3>5, <1>2, <1>7 DEF WithTemp
    <3>6. CASE n = 5
      BY <3>6, <1>2, <1>8 DEF WithTemp
    <3>7. CASE n = 6
      BY <3>7, <1>2, <1>9 DEF WithTemp
    <3>8. QED
      BY <3>1, <3>2, <3>3, <3>4, <3>5, <3>6, <3>7
  <2> HIDE DEF after
  <2>2. /\ [after EXCEPT !.temp = NoFile].path = path
        /\ [after EXCEPT !.temp = NoFile].temp = NoFile
    BY <2>1 DEF Disk
  <2>3. WriteAtomic(disk, lines, call).ok = FALSE
    BY <1>1, <1>12 DEF WriteAtomic
  <2>4. WriteAtomic(disk, lines, call).disk =
          IF call.stop = "crash" THEN after ELSE [after EXCEPT !.temp = NoFile]
    BY DEF WriteAtomic, after
  <2>5. QED
    BY <2>1, <2>2, <2>3, <2>4, <1>1, <1>12 DEF NewOrOld
<1>13. QED
  BY <1>11, <1>12

(* One line changed: the last that has the key.  Every other line and      *)
(* every key is as it was.                                                 *)
ChangedLast(after, lines, key, value) ==
  LET last == Index(lines, key)
  IN  /\ after \in Seq(Line) /\ Len(after) = Len(lines) /\ DOMAIN after = DOMAIN lines
      /\ last \in DOMAIN lines /\ lines[last].key = key
      /\ after[last].value = value
      /\ \A i \in DOMAIN lines : after[i].key = lines[i].key
      /\ \A i \in DOMAIN lines \ {last} : after[i] = lines[i]
      /\ \A k : (Has(after, k) <=> Has(lines, k)) /\ Index(after, k) = Index(lines, k)

\* Set changes the line that a reader takes, and nothing else.
LEMMA SetIs ==
  ASSUME NEW lines \in Seq(Line), NEW key, NEW value \in STRING, Has(lines, key)
  PROVE  ChangedLast(Set(lines, key, value), lines, key, value)
<1> DEFINE after == Set(lines, key, value)
           last == Index(lines, key)
           at == {i \in DOMAIN lines : lines[i].key = key}
<1>1. last \in at
  <2>1. at \in SUBSET (1..Len(lines)) /\ at # {} /\ Len(lines) \in Nat
    BY DEF Has
  <2> HIDE DEF at
  <2>2. \E i \in at : \A j \in at : j <= i
    BY <2>1, Largest
  <2>3. last = CHOOSE i \in at : \A j \in at : j <= i
    BY DEF Index, at
  <2>4. QED
    BY <2>2, <2>3
<1>2. last \in DOMAIN lines /\ lines[last].key = key
  BY <1>1
<1> HIDE DEF last
<1> DEFINE line == [lines[last] EXCEPT !.value = value, !.dressing = "none"]
<1>3. lines[last] \in Line /\ line \in Line /\ line.value = value /\ line.key = lines[last].key
  <2>1. lines[last] \in Line
    BY <1>2
  <2>2. QED
    BY <2>1 DEF Line
<1>4. after = [lines EXCEPT ![last] = line]
  BY DEF Set, SetLine, last
<1> HIDE DEF line, after
<1>5. /\ after \in Seq(Line) /\ Len(after) = Len(lines) /\ DOMAIN after = DOMAIN lines
      /\ after[last] = line
      /\ \A i \in DOMAIN lines \ {last} : after[i] = lines[i]
  BY <1>2, <1>3, <1>4
<1>6. \A i \in DOMAIN lines : after[i].key = lines[i].key
  BY <1>3, <1>5
<1>7. \A k : (Has(after, k) <=> Has(lines, k)) /\ Index(after, k) = Index(lines, k)
  <2> TAKE k
  <2>1. {i \in DOMAIN after : after[i].key = k} = {i \in DOMAIN lines : lines[i].key = k}
    BY <1>5, <1>6
  <2>2. QED
    BY <2>1, <1>5, <1>6 DEF Has, Index
<1>8. QED
  BY <1>2, <1>3, <1>5, <1>6, <1>7 DEF after, last, ChangedLast

\* Lines with the same keys in the same places have the same list of keys.
LEMMA KeysAreTheKeys ==
  ASSUME NEW before, NEW after, DOMAIN after = DOMAIN before,
         \A i \in DOMAIN before : after[i].key = before[i].key
  PROVE  Keys(after) = Keys(before)
<1> DEFINE keys(lines) == [i \in DOMAIN lines |-> lines[i].key]
<1>1. keys(after) = keys(before)
  OBVIOUS
<1>2. QED
  BY <1>1 DEF Keys

\* The last line that has a key.
LEMMA IndexIs ==
  ASSUME NEW lines \in Seq(Line), NEW key, Has(lines, key)
  PROVE  Index(lines, key) \in DOMAIN lines /\ lines[Index(lines, key)].key = key
<1> DEFINE at == {i \in DOMAIN lines : lines[i].key = key}
<1>1. at \in SUBSET (1..Len(lines)) /\ at # {} /\ Len(lines) \in Nat
  BY DEF Has
<1> HIDE DEF at
<1>2. \E i \in at : \A j \in at : j <= i
  BY <1>1, Largest
<1>3. Index(lines, key) = CHOOSE i \in at : \A j \in at : j <= i
  BY DEF Index, at
<1>4. Index(lines, key) \in at
  BY <1>2, <1>3
<1>5. QED
  BY <1>4 DEF at

-----------------------------------------------------------------------------
(* compose.go, resolve.go: the order of a restart                         *)

\* A list of distinct services, each after those that it depends on.
InOrder(project, order) ==
  /\ order \in Seq(DOMAIN project)
  /\ IsInjective(order)
  /\ \A i \in DOMAIN order : \A m \in project[order[i]] :
       \E j \in DOMAIN order : j < i /\ order[j] = m

\* A pop of Kahn's algorithm keeps the order, and makes it longer while a service is ready.
LEMMA PopIs ==
  ASSUME NEW project, DOMAIN project \subseteq Nat, NEW order, InOrder(project, order)
  PROVE  /\ InOrder(project, Pop(project, order))
         /\ IF Ready(project, ToSet(order)) = {}
              THEN Pop(project, order) = order
              ELSE Len(Pop(project, order)) = Len(order) + 1
<1> DEFINE ready == Ready(project, ToSet(order))
           least == Min(ready)
           longer == Append(order, least)
<1>1. order \in Seq(DOMAIN project) /\ Len(order) \in Nat /\ DOMAIN order = 1..Len(order)
  BY DEF InOrder
<1>2. CASE ready = {}
  BY <1>2 DEF Pop
<1>3. CASE ready # {}
  <2>1. ready \subseteq Nat
    BY DEF Ready
  <2>2. least \in ready
    BY <1>3, <2>1, Least
  <2>3. least \in DOMAIN project /\ least \notin ToSet(order) /\ project[least] \subseteq ToSet(order)
    BY <2>2 DEF Ready
  <2>4. Pop(project, order) = longer
    BY <1>3 DEF Pop
  <2> HIDE DEF least, ready
  <2>5. /\ longer \in Seq(DOMAIN project) /\ Len(longer) = Len(order) + 1
        /\ DOMAIN longer = 1..Len(order) + 1
        /\ longer[Len(order) + 1] = least
        /\ \A i \in 1..Len(order) : longer[i] = order[i]
    BY <1>1, <2>3
  <2> HIDE DEF longer
  <2>6. IsInjective(longer)
    <3>1. \A i \in 1..Len(order) : longer[i] # least
      BY <1>1, <2>3, <2>5 DEF ToSet
    <3>2. \A i \in 1..Len(order) + 1 : i = Len(order) + 1 \/ i \in 1..Len(order)
      BY <1>1
    <3>3. \A i, j \in 1..Len(order) : longer[i] = longer[j] => i = j
      BY <1>1, <2>5 DEF InOrder, IsInjective
    <3>4. QED
      BY <2>5, <3>1, <3>2, <3>3 DEF IsInjective
  <2>7. ASSUME NEW i \in DOMAIN longer, NEW m \in project[longer[i]]
        PROVE  \E j \in DOMAIN longer : j < i /\ longer[j] = m
    <3>1. CASE i = Len(order) + 1
      <4>1. m \in ToSet(order)
        BY <2>3, <2>5, <2>7, <3>1
      <4>2. PICK j \in 1..Len(order) : order[j] = m
        BY <4>1, <1>1 DEF ToSet
      <4>3. j \in DOMAIN longer /\ j < i /\ longer[j] = m
        BY <4>2, <1>1, <2>5, <3>1
      <4>4. QED
        BY <4>3
    <3>2. CASE i # Len(order) + 1
      <4>1. i \in 1..Len(order) /\ longer[i] = order[i]
        BY <1>1, <2>5, <3>2
      <4>2. PICK j \in 1..Len(order) : j < i /\ order[j] = m
        BY <4>1, <1>1, <2>7 DEF InOrder
      <4>3. j \in DOMAIN longer /\ longer[j] = m
        BY <4>2, <1>1, <2>5
      <4>4. QED
        BY <4>2, <4>3
    <3>3. QED
      BY <3>1, <3>2
  <2>8. QED
    BY <1>3, <2>4, <2>5, <2>6, <2>7 DEF InOrder, ready
<1>4. QED
  BY <1>2, <1>3

\* What Kahn's algorithm leaves: an order, of every service or of as many as become ready.
LEMMA TopoSortIs ==
  ASSUME NEW project, DOMAIN project \subseteq Nat, IsFiniteSet(DOMAIN project)
  PROVE  \E order :
           /\ InOrder(project, order)
           /\ TopoSort(project) =
                IF Len(order) = Cardinality(DOMAIN project) THEN Returns(order) ELSE Failed
           /\ \/ Len(order) = Cardinality(DOMAIN project)
              \/ Ready(project, ToSet(order)) = {}
<1> DEFINE n == Cardinality(DOMAIN project)
           S == {order \in Seq(DOMAIN project) : InOrder(project, order)}
           step == [p \in (1..n) \X S |-> Pop(project, p[2])]
           popped == CHOOSE f : f = [k \in 0..n |-> IF k = 0 THEN <<>> ELSE Pop(project, f[k - 1])]
<1>1. n \in Nat
  BY FS_CardinalityType
<1>2. <<>> \in S
  <2>1. <<>> \in Seq(DOMAIN project) /\ DOMAIN <<>> = {}
    OBVIOUS
  <2>2. QED
    BY <2>1 DEF InOrder, IsInjective
<1>3. \A order \in S : Pop(project, order) \in S
  BY PopIs DEF InOrder
<1>4. step \in [(1..n) \X S -> S]
  BY <1>3
<1>5. PICK g \in Iterations(n, S, <<>>, step) : TRUE
  <2> HIDE DEF step, n, S
  <2>1. QED
    BY <1>1, <1>2, <1>4, Recursion
<1>6. g = [k \in 0..n |-> IF k = 0 THEN <<>> ELSE Pop(project, g[k - 1])]
  <2>1. /\ g \in [0..n -> S] /\ g[0] = <<>>
        /\ \A i \in 1..n : g[i] = step[<<i, g[i - 1]>>]
    BY <1>5 DEF Iterations
  <2>2. \A i \in 1..n : step[<<i, g[i - 1]>>] = Pop(project, g[i - 1])
    <3> TAKE i \in 1..n
    <3>1. i - 1 \in 0..n
      BY <1>1
    <3>2. g[i - 1] \in S
      BY <2>1, <3>1
    <3> HIDE DEF S, n
    <3>3. QED
      BY <3>2
  <2>3. \A i \in 0..n : i # 0 => i \in 1..n
    BY <1>1
  <2> HIDE DEF step, S, n
  <2>4. QED
    BY <2>1, <2>2, <2>3
<1>7. popped = [k \in 0..n |-> IF k = 0 THEN <<>> ELSE Pop(project, popped[k - 1])]
  BY <1>6
<1>8. TopoSort(project) = IF Len(popped[n]) = n THEN Returns(popped[n]) ELSE Failed
  BY Zenon DEF TopoSort
<1> HIDE DEF popped, n, step
<1>9. popped[0] = <<>> /\ \A k \in Nat : k + 1 <= n => popped[k + 1] = Pop(project, popped[k])
  <2>1. 0 \in 0..n /\ \A k \in Nat : k + 1 <= n => k + 1 \in 0..n /\ k + 1 # 0 /\ (k + 1) - 1 = k
    BY <1>1
  <2>2. QED
    BY <1>7, <2>1
<1> DEFINE Reached == {k \in Nat : k <= n =>
                       /\ popped[k] \in S
                       /\ Len(popped[k]) = k \/ Ready(project, ToSet(popped[k])) = {}}
<1>10. 0 \in Reached
  BY <1>2, <1>9
<1>11. ASSUME NEW k \in Nat, k \in Reached
       PROVE  k + 1 \in Reached
  <2> SUFFICES ASSUME k + 1 <= n
               PROVE  /\ popped[k + 1] \in S
                      /\ \/ Len(popped[k + 1]) = k + 1
                         \/ Ready(project, ToSet(popped[k + 1])) = {}
    OBVIOUS
  <2>1. /\ popped[k] \in S /\ popped[k + 1] = Pop(project, popped[k])
        /\ Len(popped[k]) = k \/ Ready(project, ToSet(popped[k])) = {}
    BY <1>1, <1>9, <1>11
  <2>2. popped[k + 1] \in S
    BY <2>1, <1>3
  <2>3. CASE Ready(project, ToSet(popped[k])) = {}
    BY <2>1, <2>2, <2>3, PopIs
  <2>4. CASE Ready(project, ToSet(popped[k])) # {}
    BY <2>1, <2>2, <2>4, PopIs
  <2>5. QED
    BY <2>3, <2>4
<1>12. Nat \subseteq Reached
  <2> HIDE DEF Reached
  <2>1. QED
    BY <1>10, <1>11, Induction
<1>13. popped[n] \in S /\ (Len(popped[n]) = n \/ Ready(project, ToSet(popped[n])) = {})
  <2>1. n \in Reached /\ n <= n
    <3> HIDE DEF Reached
    <3>1. QED
      BY <1>1, <1>12
  <2> HIDE DEF S
  <2>2. QED
    BY <2>1
<1>14. QED
  BY <1>8, <1>13 DEF n

\* What a service needs is the least set with its own dependencies and theirs.
LEMMA NeedsIs ==
  ASSUME NEW project, NEW n \in DOMAIN project
  PROVE  /\ project[n] \subseteq Needs(project, n)
         /\ \A k \in Needs(project, n) \cap DOMAIN project :
              /\ project[k] \subseteq Needs(project, n)
              /\ Needs(project, k) \subseteq Needs(project, n)
         /\ \A closed :
              /\ project[n] \subseteq closed
              /\ \A k \in closed \cap DOMAIN project : project[k] \subseteq closed
              => Needs(project, n) \subseteq closed
<1>1. \A k \in DOMAIN project : project[k] \subseteq Names(project)
  BY DEF Names, Range
<1>2. ASSUME NEW k \in DOMAIN project
      PROVE  /\ project[k] \subseteq Needs(project, k)
             /\ Needs(project, k) \subseteq Names(project)
             /\ \A l \in Needs(project, k) \cap DOMAIN project :
                  project[l] \subseteq Needs(project, k)
  BY <1>1 DEF Needs
<1>3. ASSUME NEW k \in DOMAIN project, NEW closed, project[k] \subseteq closed,
             \A l \in closed \cap DOMAIN project : project[l] \subseteq closed
      PROVE  Needs(project, k) \subseteq closed
  <2> DEFINE known == closed \cap Names(project)
  <2>1. known \in SUBSET Names(project) /\ project[k] \subseteq known
    BY <1>1, <1>3
  <2>2. \A l \in known \cap DOMAIN project : project[l] \subseteq known
    BY <1>1, <1>3
  <2> HIDE DEF known
  <2>3. Needs(project, k) \subseteq known
    BY <2>1, <2>2 DEF Needs
  <2>4. QED
    BY <2>3 DEF known
<1>4. QED
  BY <1>2, <1>3

\* In an order, what a service needs comes before it.
LEMMA NeededFirst ==
  ASSUME NEW project, NEW order, InOrder(project, order), NEW i \in DOMAIN order,
         NEW m \in Needs(project, order[i])
  PROVE  \E j \in DOMAIN order : j < i /\ order[j] = m
<1> DEFINE earlier == {order[j] : j \in {j \in DOMAIN order : j < i}}
<1>1. DOMAIN order = 1..Len(order) /\ Len(order) \in Nat /\ order[i] \in DOMAIN project
  BY DEF InOrder
<1>2. project[order[i]] \subseteq earlier
  BY DEF InOrder
<1>3. ASSUME NEW k \in earlier \cap DOMAIN project, NEW l \in project[k]
      PROVE  l \in earlier
  <2>1. PICK j \in DOMAIN order : j < i /\ order[j] = k
    BY <1>3
  <2>2. PICK h \in DOMAIN order : h < j /\ order[h] = l
    BY <1>3, <2>1 DEF InOrder
  <2>3. h < i
    BY <1>1, <2>1, <2>2
  <2>4. QED
    BY <2>2, <2>3
<1>4. Needs(project, order[i]) \subseteq earlier
  <2>1. \A k \in earlier \cap DOMAIN project : project[k] \subseteq earlier
    BY <1>3
  <2> HIDE DEF earlier
  <2>2. QED
    BY <1>1, <1>2, <2>1, NeedsIs
<1>5. QED
  BY <1>4

\* An order of as many services as there are has every one.
LEMMA WholeOrder ==
  ASSUME NEW project, IsFiniteSet(DOMAIN project), NEW order, InOrder(project, order)
  PROVE  Len(order) = Cardinality(DOMAIN project) <=> ToSet(order) = DOMAIN project
<1>1. /\ order \in Injection(1..Len(order), DOMAIN project)
      /\ Len(order) \in Nat /\ DOMAIN order = 1..Len(order)
  BY DEF InOrder, IsInjective, Injection
<1>2. Cardinality(1..Len(order)) = Len(order)
  BY <1>1, FS_Interval
<1>3. Len(order) = Cardinality(DOMAIN project)
        <=> order \in Surjection(1..Len(order), DOMAIN project)
  BY <1>1, <1>2, FS_Injection
<1>4. order \in Surjection(1..Len(order), DOMAIN project) <=> ToSet(order) = DOMAIN project
  BY <1>1 DEF Surjection, Injection, ToSet
<1>5. QED
  BY <1>3, <1>4

\* Kahn's algorithm sorts exactly the projects that can be sorted: where it stops short,
\* a service that is left and needs the fewest would need one that is left and needs fewer.
LEMMA SortsWhatHasAnOrder ==
  ASSUME NEW project, DOMAIN project \subseteq Nat, IsFiniteSet(DOMAIN project)
  PROVE  TopoSort(project).ok <=> HasOrder(project)
<1>1. PICK order : /\ InOrder(project, order)
                   /\ TopoSort(project) = IF Len(order) = Cardinality(DOMAIN project)
                                            THEN Returns(order) ELSE Failed
                   /\ \/ Len(order) = Cardinality(DOMAIN project)
                      \/ Ready(project, ToSet(order)) = {}
  BY TopoSortIs
<1>2. TopoSort(project).ok <=> ToSet(order) = DOMAIN project
  <2>1. Returns(order).ok /\ ~ Failed.ok
    BY DEF Returns, Failed
  <2>2. QED
    BY <1>1, <2>1, WholeOrder
<1>3. ASSUME ToSet(order) = DOMAIN project
      PROVE  HasOrder(project)
  <2> SUFFICES ASSUME NEW n \in DOMAIN project, NEW m \in Needs(project, n)
               PROVE  m \in DOMAIN project \ {n}
    BY DEF HasOrder
  <2>1. PICK i \in DOMAIN order : order[i] = n
    BY <1>3 DEF ToSet
  <2>2. PICK j \in DOMAIN order : j < i /\ order[j] = m
    BY <1>1, <2>1, NeededFirst
  <2>3. order \in Seq(DOMAIN project) /\ IsInjective(order)
    BY <1>1 DEF InOrder
  <2>4. order[j] \in DOMAIN project /\ i # j
    BY <2>2, <2>3
  <2>5. QED
    BY <2>1, <2>2, <2>3, <2>4 DEF IsInjective
<1>4. ASSUME HasOrder(project), ToSet(order) # DOMAIN project
      PROVE  FALSE
  <2> DEFINE left == DOMAIN project \ ToSet(order)
             Count(u) == Cardinality(Needs(project, u))
             counts == {Count(u) : u \in left}
  <2>1. ToSet(order) \subseteq DOMAIN project
    BY <1>1 DEF InOrder, ToSet
  <2>2. left # {}
    BY <1>4, <2>1
  <2>3. \A u \in DOMAIN project :
          IsFiniteSet(Needs(project, u)) /\ Needs(project, u) \subseteq DOMAIN project \ {u}
    BY <1>4, FS_Subset DEF HasOrder
  <2>4. \A u \in DOMAIN project : Count(u) \in Nat
    BY <2>3, FS_CardinalityType
  <2>5. PICK u \in left : \A v \in left : Count(u) <= Count(v)
    <3>1. counts \subseteq Nat /\ counts # {}
      BY <2>2, <2>4
    <3>2. PICK least \in counts : \A y \in counts : least <= y
      <4> HIDE DEF counts
      <4>1. QED
        BY <3>1, Least
    <3>3. QED
      BY <3>2
  <2>6. Ready(project, ToSet(order)) = {}
    BY <1>1, <1>4, WholeOrder
  <2>7. PICK v \in project[u] : v \notin ToSet(order)
    BY <2>5, <2>6 DEF Ready
  <2>8. v \in Needs(project, u) /\ v \in left /\ Needs(project, v) \subseteq Needs(project, u)
    BY <2>3, <2>5, <2>7, NeedsIs
  <2>9. v \notin Needs(project, v)
    BY <2>3, <2>8
  <2>10. Count(v) <= Count(u) /\ Count(v) # Count(u)
    BY <2>3, <2>5, <2>8, <2>9, FS_Subset
  <2>11. QED
    BY <2>4, <2>5, <2>8, <2>10
<1>5. QED
  BY <1>2, <1>3, <1>4

\* A part of a list: its positions in the list, and every one that is chosen.
IsPart(part, names, chosen, from) ==
  /\ from \in [DOMAIN part -> DOMAIN names]
  /\ \A i \in DOMAIN part : part[i] = names[from[i]] /\ part[i] \in chosen
  /\ \A i, j \in DOMAIN part : i < j => from[i] < from[j]
  /\ \A k \in DOMAIN names : names[k] \in chosen => \E i \in DOMAIN part : from[i] = k

\* The same up to a position of the list.
PartUpto(k, part, names, chosen, from) ==
  /\ from \in [DOMAIN part -> 1..k]
  /\ \A i \in DOMAIN part : part[i] = names[from[i]] /\ part[i] \in chosen
  /\ \A i, j \in DOMAIN part : i < j => from[i] < from[j]
  /\ \A l \in 1..k : names[l] \in chosen => \E i \in DOMAIN part : from[i] = l

\* One more name of the list is taken or passed over.
LEMMA PartGrows ==
  ASSUME NEW S, NEW names, NEW chosen, NEW k \in Nat, names[k + 1] \in S,
         NEW part \in Seq(S), NEW from, PartUpto(k, part, names, chosen, from)
  PROVE  IF names[k + 1] \in chosen
           THEN \E upto : PartUpto(k + 1, Append(part, names[k + 1]), names, chosen, upto)
           ELSE PartUpto(k + 1, part, names, chosen, from)
<1>1. DOMAIN part = 1..Len(part) /\ Len(part) \in Nat
  OBVIOUS
<1>2. \A l \in 1..k + 1 : l = k + 1 \/ l \in 1..k
  OBVIOUS
<1>3. CASE names[k + 1] \notin chosen
  <2>1. 1..k \subseteq 1..k + 1
    OBVIOUS
  <2>2. QED
    BY <1>2, <1>3, <2>1 DEF PartUpto
<1>4. CASE names[k + 1] \in chosen
  <2> DEFINE longer == Append(part, names[k + 1])
             upto == [i \in 1..Len(part) + 1 |-> IF i = Len(part) + 1 THEN k + 1 ELSE from[i]]
  <2>1. /\ DOMAIN longer = 1..Len(part) + 1
        /\ longer[Len(part) + 1] = names[k + 1]
        /\ \A i \in 1..Len(part) : longer[i] = part[i]
    BY <1>1
  <2>2. /\ upto[Len(part) + 1] = k + 1
        /\ \A i \in 1..Len(part) : upto[i] = from[i] /\ upto[i] \in 1..k
    BY <1>1 DEF PartUpto
  <2>3. \A i \in 1..Len(part) + 1 : i = Len(part) + 1 \/ i \in 1..Len(part)
    BY <1>1
  <2>4. upto \in [DOMAIN longer -> 1..k + 1]
    <3>1. 1..k \subseteq 1..k + 1 /\ k + 1 \in 1..k + 1
      OBVIOUS
    <3>2. \A i \in 1..Len(part) + 1 : upto[i] \in 1..k + 1
      <4> HIDE DEF upto
      <4>1. QED
        BY <2>2, <2>3, <3>1
    <3>3. QED
      BY <2>1, <3>2
  <2> HIDE DEF longer, upto
  <2>5. \A i \in DOMAIN longer : longer[i] = names[upto[i]] /\ longer[i] \in chosen
    BY <1>1, <1>4, <2>1, <2>2, <2>3 DEF PartUpto
  <2>6. \A i, j \in DOMAIN longer : i < j => upto[i] < upto[j]
    <3> SUFFICES ASSUME NEW i \in DOMAIN longer, NEW j \in DOMAIN longer, i < j
                 PROVE  upto[i] < upto[j]
      OBVIOUS
    <3>1. i \in 1..Len(part)
      BY <1>1, <2>1
    <3>2. CASE j = Len(part) + 1
      BY <2>2, <3>1, <3>2
    <3>3. CASE j \in 1..Len(part)
      BY <1>1, <2>2, <3>1, <3>3 DEF PartUpto
    <3>4. QED
      BY <2>1, <2>3, <3>2, <3>3
  <2>7. \A l \in 1..k + 1 : names[l] \in chosen => \E i \in DOMAIN longer : upto[i] = l
    <3> TAKE l \in 1..k + 1
    <3> HAVE names[l] \in chosen
    <3>1. CASE l = k + 1
      <4>1. Len(part) + 1 \in DOMAIN longer
        BY <1>1, <2>1
      <4>2. QED
        BY <2>2, <3>1, <4>1
    <3>2. CASE l \in 1..k
      <4>1. PICK i \in DOMAIN part : from[i] = l
        BY <3>2 DEF PartUpto
      <4>2. i \in DOMAIN longer
        BY <1>1, <2>1
      <4>3. QED
        BY <1>1, <2>2, <4>1, <4>2
    <3>3. QED
      BY <1>2, <3>1, <3>2
  <2>8. PartUpto(k + 1, longer, names, chosen, upto)
    BY <2>4, <2>5, <2>6, <2>7 DEF PartUpto
  <2>9. QED
    BY <1>4, <2>8 DEF longer
<1>5. QED
  BY <1>3, <1>4

\* The chosen names of a list are a part of it, in its order.
LEMMA ThoseIs ==
  ASSUME NEW S, NEW names \in Seq(S), NEW chosen
  PROVE  /\ Those(names, chosen) \in Seq(S)
         /\ \E from : IsPart(Those(names, chosen), names, chosen, from)
<1> DEFINE n == Len(names)
           step == [p \in (1..n) \X Seq(S) |->
                      IF names[p[1]] \in chosen THEN Append(p[2], names[p[1]]) ELSE p[2]]
           kept == CHOOSE f : f = [i \in 0..n |->
                     IF i = 0 THEN <<>>
                     ELSE IF names[i] \in chosen THEN Append(f[i - 1], names[i]) ELSE f[i - 1]]
<1>1. n \in Nat /\ DOMAIN names = 1..n /\ \A i \in 1..n : names[i] \in S
  OBVIOUS
<1>2. <<>> \in Seq(S)
  OBVIOUS
<1>3. step \in [(1..n) \X Seq(S) -> Seq(S)]
  BY <1>1
<1>4. PICK g \in Iterations(n, Seq(S), <<>>, step) : TRUE
  <2> HIDE DEF step, n
  <2>1. QED
    BY <1>1, <1>2, <1>3, Recursion
<1>5. g = [i \in 0..n |-> IF i = 0 THEN <<>>
             ELSE IF names[i] \in chosen THEN Append(g[i - 1], names[i]) ELSE g[i - 1]]
  <2>1. /\ g \in [0..n -> Seq(S)] /\ g[0] = <<>>
        /\ \A i \in 1..n : g[i] = step[<<i, g[i - 1]>>]
    BY <1>4 DEF Iterations
  <2>2. \A i \in 1..n : step[<<i, g[i - 1]>>] =
           IF names[i] \in chosen THEN Append(g[i - 1], names[i]) ELSE g[i - 1]
    <3> TAKE i \in 1..n
    <3>1. i - 1 \in 0..n
      BY <1>1
    <3>2. g[i - 1] \in Seq(S)
      BY <2>1, <3>1
    <3> HIDE DEF n
    <3>3. QED
      BY <3>2
  <2>3. \A i \in 0..n : i # 0 => i \in 1..n
    BY <1>1
  <2> HIDE DEF step, n
  <2>4. QED
    BY <2>1, <2>2, <2>3
<1>6. kept = [i \in 0..n |-> IF i = 0 THEN <<>>
                ELSE IF names[i] \in chosen THEN Append(kept[i - 1], names[i]) ELSE kept[i - 1]]
  BY <1>5
<1>7. Those(names, chosen) = kept[n]
  BY Zenon DEF Those
<1> HIDE DEF kept, n, step
<1>8. /\ kept[0] = <<>>
      /\ \A k \in Nat : k + 1 <= n =>
           kept[k + 1] = IF names[k + 1] \in chosen THEN Append(kept[k], names[k + 1]) ELSE kept[k]
  <2>1. 0 \in 0..n /\ \A k \in Nat : k + 1 <= n => k + 1 \in 0..n /\ k + 1 # 0 /\ (k + 1) - 1 = k
    BY <1>1
  <2>2. QED
    BY <1>6, <2>1
<1> DEFINE Reached == {k \in Nat : k <= n =>
                         /\ kept[k] \in Seq(S)
                         /\ \E from : PartUpto(k, kept[k], names, chosen, from)}
<1>9. 0 \in Reached
  <2>1. PartUpto(0, <<>>, names, chosen, <<>>)
    <3>1. DOMAIN <<>> = {} /\ 1..0 = {} /\ <<>> \in [{} -> {}]
      OBVIOUS
    <3>2. QED
      BY <3>1 DEF PartUpto
  <2>2. kept[0] \in Seq(S) /\ PartUpto(0, kept[0], names, chosen, <<>>)
    BY <1>2, <1>8, <2>1
  <2>3. QED
    BY <2>2
<1>10. ASSUME NEW k \in Nat, k \in Reached
       PROVE  k + 1 \in Reached
  <2> SUFFICES ASSUME k + 1 <= n
               PROVE  /\ kept[k + 1] \in Seq(S)
                      /\ \E from : PartUpto(k + 1, kept[k + 1], names, chosen, from)
    OBVIOUS
  <2>1. k <= n /\ k + 1 \in 1..n
    BY <1>1
  <2>2. kept[k] \in Seq(S)
    BY <1>10, <2>1
  <2>3. PICK from : PartUpto(k, kept[k], names, chosen, from)
    BY <1>10, <2>1
  <2>4. names[k + 1] \in S
    BY <1>1, <2>1
  <2>5. kept[k + 1] = IF names[k + 1] \in chosen THEN Append(kept[k], names[k + 1]) ELSE kept[k]
    BY <1>8
  <2>6. kept[k + 1] \in Seq(S)
    BY <2>2, <2>4, <2>5
  <2>7. IF names[k + 1] \in chosen
          THEN \E upto : PartUpto(k + 1, Append(kept[k], names[k + 1]), names, chosen, upto)
          ELSE PartUpto(k + 1, kept[k], names, chosen, from)
    BY <2>2, <2>3, <2>4, PartGrows
  <2>8. QED
    BY <2>5, <2>6, <2>7
<1>11. Nat \subseteq Reached
  <2> HIDE DEF Reached
  <2>1. QED
    BY <1>9, <1>10, Induction
<1>12. kept[n] \in Seq(S) /\ \E from : PartUpto(n, kept[n], names, chosen, from)
  <2>1. n \in Reached /\ n <= n
    <3> HIDE DEF Reached
    <3>1. QED
      BY <1>1, <1>11
  <2>2. QED
    BY <2>1
<1>13. QED
  BY <1>1, <1>7, <1>12 DEF PartUpto, IsPart

\* They are the names of the list that are chosen.
LEMMA ThoseNames ==
  ASSUME NEW S, NEW names \in Seq(S), NEW chosen
  PROVE  /\ Those(names, chosen) \in Seq(S)
         /\ ToSet(Those(names, chosen)) = ToSet(names) \cap chosen
<1>1. PICK from : IsPart(Those(names, chosen), names, chosen, from)
  BY ThoseIs
<1> DEFINE part == Those(names, chosen)
<1>2. part \in Seq(S)
  BY ThoseIs
<1> HIDE DEF part
<1>3. IsPart(part, names, chosen, from)
  BY <1>1 DEF part
<1>4. \A x : x \in ToSet(part) <=> x \in ToSet(names) /\ x \in chosen
  <2>1. ASSUME NEW i \in DOMAIN part
        PROVE  part[i] \in ToSet(names) /\ part[i] \in chosen
    BY <1>3 DEF IsPart, ToSet
  <2>2. ASSUME NEW k \in DOMAIN names, names[k] \in chosen
        PROVE  names[k] \in ToSet(part)
    BY <1>3, <2>2 DEF IsPart, ToSet
  <2>3. QED
    BY <2>1, <2>2 DEF ToSet
<1>5. ToSet(part) = ToSet(names) \cap chosen
  BY <1>4
<1>6. QED
  BY <1>2, <1>5 DEF part

(* A flattened list: which of the lists each element comes from, in their  *)
(* order, and every element of every one.                                  *)
IsFlat(flat, seqs, n, from) ==
  /\ from \in [DOMAIN flat -> 1..n]
  /\ \A i \in DOMAIN flat : flat[i] \in ToSet(seqs[from[i]])
  /\ \A i, j \in DOMAIN flat : i <= j => from[i] <= from[j]
  /\ \A k \in 1..n : ToSet(seqs[k]) \subseteq ToSet(flat)

\* One more list is appended.
LEMMA FlatGrows ==
  ASSUME NEW S, NEW k \in Nat, NEW seqs, NEW more \in Seq(S), seqs[k + 1] = more,
         NEW flat \in Seq(S), NEW from, IsFlat(flat, seqs, k, from)
  PROVE  \E upto : IsFlat(flat \o more, seqs, k + 1, upto)
<1> DEFINE longer == flat \o more
           a == Len(flat)
           b == Len(more)
           upto == [i \in 1..a + b |-> IF i <= a THEN from[i] ELSE k + 1]
<1>1. a \in Nat /\ b \in Nat /\ DOMAIN flat = 1..a /\ DOMAIN more = 1..b
  OBVIOUS
<1>2. /\ DOMAIN longer = 1..a + b
      /\ \A i \in 1..a : longer[i] = flat[i]
      /\ \A i \in 1..b : longer[a + i] = more[i]
  OBVIOUS
<1>3. /\ \A i \in 1..a : i \in 1..a + b /\ i <= a
      /\ \A i \in 1..b : a + i \in 1..a + b /\ ~ (a + i <= a)
      /\ \A i \in 1..a + b : i \in 1..a \/ \E l \in 1..b : i = a + l
  <2>1. \A i \in 1..a + b : i \in 1..a \/ (i - a \in 1..b /\ i = a + (i - a))
    BY <1>1
  <2>2. /\ \A i \in 1..a : i \in 1..a + b /\ i <= a
        /\ \A i \in 1..b : a + i \in 1..a + b /\ ~ (a + i <= a)
    BY <1>1
  <2> HIDE DEF a, b
  <2>3. QED
    BY <2>1, <2>2
<1>4. /\ \A i \in 1..a : upto[i] = from[i] /\ upto[i] \in 1..k
      /\ \A i \in 1..b : upto[a + i] = k + 1
  BY <1>1, <1>3 DEF IsFlat
<1>5. DOMAIN upto = 1..a + b /\ upto = [i \in 1..a + b |-> upto[i]]
  OBVIOUS
<1>6. \A l \in 1..k + 1 : l = k + 1 \/ l \in 1..k
  OBVIOUS
<1> HIDE DEF longer, upto, a, b
<1>7. upto \in [DOMAIN longer -> 1..k + 1]
  <2>1. \A i \in 1..a + b : upto[i] \in 1..k + 1
    <3>1. 1..k \subseteq 1..k + 1 /\ k + 1 \in 1..k + 1
      OBVIOUS
    <3>2. QED
      BY <1>3, <1>4, <3>1
  <2>2. QED
    BY <1>2, <1>5, <2>1
<1>8. \A i \in DOMAIN longer : longer[i] \in ToSet(seqs[upto[i]])
  <2> SUFFICES ASSUME NEW i \in 1..a + b PROVE longer[i] \in ToSet(seqs[upto[i]])
    BY <1>2
  <2>1. CASE i \in 1..a
    BY <1>1, <1>2, <1>4, <2>1 DEF IsFlat
  <2>2. CASE \E l \in 1..b : i = a + l
    <3>1. PICK l \in 1..b : i = a + l
      BY <2>2
    <3>2. longer[i] = more[l] /\ upto[i] = k + 1
      BY <1>2, <1>4, <3>1
    <3>3. QED
      BY <1>1, <3>2 DEF ToSet
  <2>3. QED
    BY <1>3, <2>1, <2>2
<1>9. \A i, j \in DOMAIN longer : i <= j => upto[i] <= upto[j]
  <2> SUFFICES ASSUME NEW i \in 1..a + b, NEW j \in 1..a + b, i <= j
               PROVE  upto[i] <= upto[j]
    BY <1>2
  <2>1. CASE j \in 1..a
    <3>1. i \in 1..a
      BY <1>1, <2>1
    <3>2. QED
      BY <1>1, <1>4, <2>1, <3>1 DEF IsFlat
  <2>2. CASE \E l \in 1..b : j = a + l
    <3>1. upto[j] = k + 1
      BY <1>4, <2>2
    <3>2. upto[i] \in 1..k + 1
      BY <1>2, <1>7
    <3>3. QED
      BY <3>1, <3>2
  <2>3. QED
    BY <1>3, <2>1, <2>2
<1>10. \A l \in 1..k + 1 : ToSet(seqs[l]) \subseteq ToSet(longer)
  <2>1. ToSet(flat) \subseteq ToSet(longer)
    <3>1. ASSUME NEW i \in 1..a PROVE flat[i] \in ToSet(longer)
      <4>1. i \in DOMAIN longer /\ longer[i] = flat[i]
        BY <1>2, <1>3
      <4>2. QED
        BY <4>1 DEF ToSet
    <3>2. QED
      BY <1>1, <3>1 DEF ToSet
  <2>2. ToSet(more) \subseteq ToSet(longer)
    <3>1. ASSUME NEW i \in 1..b PROVE more[i] \in ToSet(longer)
      <4>1. a + i \in DOMAIN longer /\ longer[a + i] = more[i]
        BY <1>2, <1>3
      <4>2. QED
        BY <4>1 DEF ToSet
    <3>2. QED
      BY <1>1, <3>1 DEF ToSet
  <2>3. \A l \in 1..k : ToSet(seqs[l]) \subseteq ToSet(flat)
    BY DEF IsFlat
  <2>4. QED
    BY <1>6, <2>1, <2>2, <2>3
<1>11. IsFlat(longer, seqs, k + 1, upto)
  BY <1>7, <1>8, <1>9, <1>10 DEF IsFlat
<1>12. QED
  BY <1>11 DEF longer

\* What FlattenSeq returns is the lists, one behind the other.
LEMMA FlatIs ==
  ASSUME NEW S, NEW seqs \in Seq(Seq(S))
  PROVE  /\ FlattenSeq(seqs) \in Seq(S)
         /\ \E from : IsFlat(FlattenSeq(seqs), seqs, Len(seqs), from)
<1> DEFINE n == Len(seqs)
           m == n - 1
           step == [p \in (1..m) \X Seq(S) |-> p[2] \o seqs[p[1] + 1]]
           flatten == CHOOSE f : f = [i \in 1..n |->
                        IF i = 1 THEN seqs[i] ELSE f[i - 1] \o seqs[i]]
<1>1. n \in Nat /\ DOMAIN seqs = 1..n /\ \A i \in 1..n : seqs[i] \in Seq(S)
  OBVIOUS
<1>2. CASE n = 0
  <2>1. seqs = <<>> /\ FlattenSeq(seqs) = seqs
    BY <1>2 DEF FlattenSeq
  <2>2. <<>> \in Seq(S) /\ DOMAIN <<>> = {} /\ <<>> \in [{} -> {}] /\ 1..0 = {}
    OBVIOUS
  <2>3. IsFlat(<<>>, seqs, 0, <<>>)
    BY <2>2 DEF IsFlat
  <2>4. QED
    BY <1>2, <2>1, <2>2, <2>3
<1>3. CASE n # 0
  <2>1. m \in Nat /\ m + 1 = n /\ 1 \in 1..n /\ \A i \in 1..m : i + 1 \in 1..n
    BY <1>1, <1>3
  <2>2. step \in [(1..m) \X Seq(S) -> Seq(S)]
    BY <1>1, <2>1
  <2>3. PICK g \in Iterations(m, Seq(S), seqs[1], step) : TRUE
    <3>1. seqs[1] \in Seq(S)
      BY <1>1, <2>1
    <3> HIDE DEF step, m, n
    <3>2. QED
      BY <2>1, <2>2, <3>1, Recursion
  <2>4. /\ g \in [0..m -> Seq(S)] /\ g[0] = seqs[1]
        /\ \A i \in 1..m : g[i] = g[i - 1] \o seqs[i + 1]
    <3>1. /\ g \in [0..m -> Seq(S)] /\ g[0] = seqs[1]
          /\ \A i \in 1..m : g[i] = step[<<i, g[i - 1]>>]
      BY <2>3 DEF Iterations
    <3>2. \A i \in 1..m : step[<<i, g[i - 1]>>] = g[i - 1] \o seqs[i + 1]
      <4> TAKE i \in 1..m
      <4>1. i - 1 \in 0..m
        BY <2>1
      <4>2. g[i - 1] \in Seq(S)
        BY <3>1, <4>1
      <4> HIDE DEF m, n
      <4>3. QED
        BY <4>2
    <3> HIDE DEF step
    <3>3. QED
      BY <3>1, <3>2
  <2> DEFINE f == [i \in 1..n |-> g[i - 1]]
  <2>5. f = [i \in 1..n |-> IF i = 1 THEN seqs[i] ELSE f[i - 1] \o seqs[i]]
    <3>1. ASSUME NEW i \in 1..n, i # 1
          PROVE  f[i] = f[i - 1] \o seqs[i]
      <4>1. i - 1 \in 1..m /\ i - 1 \in 1..n /\ (i - 1) + 1 = i
        BY <2>1, <3>1
      <4>2. g[i - 1] = g[(i - 1) - 1] \o seqs[i]
        BY <2>4, <4>1
      <4> HIDE DEF n, m
      <4>3. QED
        BY <4>1, <4>2, <3>1
    <3>2. f[1] = seqs[1]
      BY <2>1, <2>4
    <3>3. f = [i \in 1..n |-> f[i]]
      OBVIOUS
    <3> HIDE DEF f, n, m
    <3>4. QED
      BY <3>1, <3>2, <3>3
  <2>6. flatten = [i \in 1..n |-> IF i = 1 THEN seqs[i] ELSE flatten[i - 1] \o seqs[i]]
    <3> HIDE DEF f
    <3>1. QED
      BY <2>5
  <2>7. FlattenSeq(seqs) = flatten[n]
    BY <1>3, Zenon DEF FlattenSeq
  <2> HIDE DEF flatten, n, m, f
  <2>8. /\ flatten[1] = seqs[1]
        /\ \A k \in Nat : k # 0 /\ k + 1 <= n => flatten[k + 1] = flatten[k] \o seqs[k + 1]
    <3>1. \A k \in Nat : k # 0 /\ k + 1 <= n => k + 1 \in 1..n /\ k + 1 # 1 /\ (k + 1) - 1 = k
      BY <1>1
    <3>2. QED
      BY <2>1, <2>6, <3>1
  <2> DEFINE Reached == {k \in Nat : k # 0 /\ k <= n =>
                           /\ flatten[k] \in Seq(S)
                           /\ \E from : IsFlat(flatten[k], seqs, k, from)}
  <2>9. 0 \in Reached
    OBVIOUS
  <2>10. ASSUME NEW k \in Nat, k \in Reached
         PROVE  k + 1 \in Reached
    <3> SUFFICES ASSUME k + 1 <= n
                 PROVE  /\ flatten[k + 1] \in Seq(S)
                        /\ \E from : IsFlat(flatten[k + 1], seqs, k + 1, from)
      OBVIOUS
    <3>1. CASE k = 0
      <4>1. flatten[k + 1] = seqs[1] /\ seqs[1] \in Seq(S)
        BY <1>1, <2>1, <2>8, <3>1
      <4> DEFINE from == [i \in DOMAIN seqs[1] |-> 1]
      <4>2. IsFlat(seqs[1], seqs, 1, from)
        <5>1. 1..1 = {1} /\ from \in [DOMAIN seqs[1] -> {1}]
          OBVIOUS
        <5> HIDE DEF from
        <5>2. QED
          BY <5>1 DEF IsFlat, ToSet
      <4> HIDE DEF from
      <4>3. QED
        BY <3>1, <4>1, <4>2
    <3>2. CASE k # 0
      <4>1. k <= n /\ k + 1 \in 1..n
        BY <1>1
      <4>2. flatten[k] \in Seq(S)
        BY <2>10, <3>2, <4>1
      <4>3. PICK from : IsFlat(flatten[k], seqs, k, from)
        BY <2>10, <3>2, <4>1
      <4>4. seqs[k + 1] \in Seq(S)
        BY <1>1, <4>1
      <4>5. flatten[k + 1] = flatten[k] \o seqs[k + 1]
        BY <2>8, <3>2
      <4>6. \E upto : IsFlat(flatten[k] \o seqs[k + 1], seqs, k + 1, upto)
        BY <4>2, <4>3, <4>4, FlatGrows
      <4>7. flatten[k] \o seqs[k + 1] \in Seq(S)
        BY <4>2, <4>4
      <4>8. QED
        BY <4>5, <4>6, <4>7
    <3>3. QED
      BY <3>1, <3>2
  <2>11. Nat \subseteq Reached
    <3> HIDE DEF Reached
    <3>1. QED
      BY <2>9, <2>10, Induction
  <2>12. n \in Reached /\ n <= n
    <3> HIDE DEF Reached
    <3>1. QED
      BY <1>1, <2>11
  <2>13. flatten[n] \in Seq(S) /\ \E from : IsFlat(flatten[n], seqs, n, from)
    BY <1>3, <2>12
  <2>14. QED
    BY <2>7, <2>13 DEF n
<1>4. QED
  BY <1>2, <1>3

\* The replicas of a service are sorted: each once.
LEMMA SortedReplicas ==
  ASSUME NEW matches, IsFiniteSet(matches)
  PROVE  /\ SortByReplica(matches) \in Seq(matches)
         /\ ToSet(SortByReplica(matches)) = matches
<1> DEFINE n == Cardinality(matches)
           orders == {s \in [1..n -> matches] : IsInjective(s)}
           sorted == SortByReplica(matches)
<1>1. n \in Nat /\ orders # {}
  <2>1. n \in Nat /\ ExistsBijection(1..n, matches)
    BY FS_CardinalityType
  <2>2. PICK s : s \in Bijection(1..n, matches)
    BY <2>1 DEF ExistsBijection
  <2>3. s \in orders
    BY <2>2 DEF Bijection, Injection, IsInjective
  <2>4. QED
    BY <2>1, <2>3
<1>2. sorted \in orders
  <2> DEFINE Before(c, d) ==
               IF c.number # d.number /\ NoLabel \notin {c.number, d.number}
                 THEN c.number < d.number
                 ELSE c.name < d.name
             Sorted(s) == \A i, j \in DOMAIN s : i < j => ~ Before(s[j], s[i])
  <2>1. sorted = CHOOSE s \in orders : (\E t \in orders : Sorted(t)) => Sorted(s)
    BY Zenon DEF SortByReplica
  <2> HIDE DEF sorted, orders, Sorted
  <2>2. \E s \in orders : (\E t \in orders : Sorted(t)) => Sorted(s)
    BY <1>1
  <2>3. QED
    BY <2>1, <2>2
<1>3. /\ sorted \in Injection(1..n, matches)
      /\ sorted \in [1..n -> matches]
  BY <1>2 DEF IsInjective, Injection
<1> HIDE DEF sorted, n
<1>4. Cardinality(1..n) = n
  BY <1>1, FS_Interval
<1>5. sorted \in Surjection(1..n, matches)
  BY <1>3, <1>4, FS_Injection DEF n
<1>6. sorted \in Seq(matches)
  BY <1>1, <1>3
<1>7. ToSet(sorted) = matches
  BY <1>3, <1>5 DEF Surjection, ToSet
<1>8. QED
  BY <1>6, <1>7 DEF sorted

\* The names of containers.
Called(containers) == {c.name : c \in containers}

\* An entry that resolves gives the names of the containers it denotes.
LEMMA EntryIs ==
  ASSUME NEW entry \in Nat, NEW fleet, IsFiniteSet(fleet), fleet \subseteq Container,
         ResolveEntry(entry, fleet).ok
  PROVE  /\ ResolveEntry(entry, fleet).names \in Seq(Nat)
         /\ ToSet(ResolveEntry(entry, fleet).names) = Called(Denoted(entry, fleet))
<1> DEFINE resolved == ResolveEntry(entry, fleet)
           matches == {c \in fleet : c.service = entry}
           sorted == SortByReplica(matches)
           names == [i \in DOMAIN sorted |-> sorted[i].name]
<1>1. CASE \E c \in fleet : c.name = entry
  <2>1. resolved.names = <<entry>>
    BY <1>1 DEF ResolveEntry, Returns
  <2>2. Called(Denoted(entry, fleet)) = {entry}
    BY <1>1 DEF Called, Denoted
  <2>3. ToSet(<<entry>>) = {entry} /\ <<entry>> \in Seq(Nat)
    <3>1. DOMAIN <<entry>> = {1} /\ <<entry>>[1] = entry
      OBVIOUS
    <3>2. QED
      BY <3>1 DEF ToSet
  <2>4. QED
    BY <2>1, <2>2, <2>3
<1>2. CASE ~ \E c \in fleet : c.name = entry
  <2>1. IsFiniteSet(matches)
    BY FS_Subset
  <2>2. resolved = IF Cardinality(DistinctProjects(matches)) # 1 THEN Failed ELSE Returns(names)
    BY <1>2, Zenon DEF ResolveEntry
  <2> HIDE DEF names
  <2>3. resolved.names = names
    BY <2>2 DEF Failed, Returns
  <2>4. sorted \in Seq(matches) /\ ToSet(sorted) = matches
    <3> HIDE DEF matches
    <3>1. QED
      BY <2>1, SortedReplicas
  <2>5. \A c \in matches : c.name \in Nat
    BY DEF Container
  <2>6. Denoted(entry, fleet) = matches
    BY <1>2 DEF Denoted
  <2> HIDE DEF sorted, matches
  <2>7. /\ DOMAIN sorted = 1..Len(sorted) /\ Len(sorted) \in Nat
        /\ \A i \in DOMAIN sorted : sorted[i] \in matches
    BY <2>4
  <2>8. /\ names \in Seq(Nat) /\ DOMAIN names = DOMAIN sorted
        /\ \A i \in DOMAIN sorted : names[i] = sorted[i].name
    BY <2>5, <2>7 DEF names
  <2>9. ToSet(names) = Called(matches)
    BY <2>4, <2>8 DEF ToSet, Called
  <2>10. QED
    BY <2>3, <2>6, <2>8, <2>9
<1>3. QED
  BY <1>1, <1>2

\* The dependency order of the entries has the entries that are configured.
LEMMA OrderedIs ==
  ASSUME NEW configured \in Seq(Nat), NEW compose \in ComposeStates,
         NEW project, DOMAIN project \subseteq Nat, IsFiniteSet(DOMAIN project),
         ApplyDependencyOrder(configured, compose, project).ok
  PROVE  /\ ApplyDependencyOrder(configured, compose, project).names \in Seq(Nat)
         /\ ToSet(ApplyDependencyOrder(configured, compose, project).names) = ToSet(configured)
<1> DEFINE sorted == TopoSort(project)
           ordered == FilterDependencyOrder(sorted.names, configured)
           unknown == Those(configured, ToSet(configured) \ ToSet(ordered))
           answered == ApplyDependencyOrder(configured, compose, project)
<1>1. sorted.names \in Seq(Nat)
  <2>1. PICK order : /\ InOrder(project, order)
                     /\ TopoSort(project) = IF Len(order) = Cardinality(DOMAIN project)
                                              THEN Returns(order) ELSE Failed
    BY TopoSortIs
  <2>2. order \in Seq(Nat)
    <3>1. order \in Seq(DOMAIN project)
      BY <2>1 DEF InOrder
    <3>2. QED
      BY <3>1, Widened
  <2>3. <<>> \in Seq(Nat)
    OBVIOUS
  <2>4. QED
    BY <2>1, <2>2, <2>3 DEF Returns, Failed
<1> HIDE DEF sorted
<1>2. ordered \in Seq(Nat) /\ ToSet(ordered) \subseteq ToSet(configured)
  BY <1>1, ThoseNames DEF FilterDependencyOrder
<1> HIDE DEF ordered
<1>3. unknown \in Seq(Nat) /\ ToSet(unknown) = ToSet(configured) \ ToSet(ordered)
  BY ThoseNames
<1> HIDE DEF unknown
<1>4. ordered \o unknown \in Seq(Nat) /\ ToSet(ordered \o unknown) = ToSet(configured)
  <2>1. ToSet(ordered \o unknown) = ToSet(ordered) \cup ToSet(unknown)
    <3>1. Range(ordered \o unknown) = Range(ordered) \cup Range(unknown)
      BY <1>2, <1>3, RangeConcatenation
    <3>2. QED
      BY <3>1, Zenon DEF ToSet, Range
  <2>2. QED
    BY <1>2, <1>3, <2>1
<1>5. answered = CASE Len(configured) < 2 -> Returns(configured)
                   [] Len(configured) >= 2 /\ compose = "missing" -> Failed
                   [] Len(configured) >= 2 /\ compose = "project" /\ sorted.ok ->
                        Returns(ordered \o unknown)
                   [] OTHER -> Returns(configured)
  BY Zenon DEF ApplyDependencyOrder, sorted, ordered, unknown
<1>6. answered \in {Returns(configured), Failed, Returns(ordered \o unknown)}
  <2> HIDE DEF answered
  <2>1. QED
    BY <1>5
<1>7. answered \in {Returns(configured), Returns(ordered \o unknown)}
  BY <1>6 DEF Failed
<1> HIDE DEF answered
<1>8. answered.names \in {configured, ordered \o unknown}
  BY <1>7 DEF Returns
<1>9. answered.names \in Seq(Nat) /\ ToSet(answered.names) = ToSet(configured)
  BY <1>4, <1>8
<1>10. QED
  BY <1>9 DEF answered

\* What a list of entries that resolve gives: which entry each name is from.
Resolves(names, requested, fleet, from) ==
  /\ names \in Seq(Nat)
  /\ from \in [DOMAIN names -> DOMAIN requested]
  /\ \A i \in DOMAIN names : names[i] \in Called(Denoted(requested[from[i]], fleet))
  /\ \A i, j \in DOMAIN names : i <= j => from[i] <= from[j]
  /\ \A k \in DOMAIN requested : Called(Denoted(requested[k], fleet)) \subseteq ToSet(names)

\* Entries that resolve give the containers they denote, in the order of the entries.
LEMMA ResolvedNames ==
  ASSUME NEW requested \in Seq(Nat), NEW listed \in BOOLEAN,
         NEW fleet, IsFiniteSet(fleet), fleet \subseteq Container,
         ResolveContainerNames(requested, listed, fleet).ok
  PROVE  LET names == ResolveContainerNames(requested, listed, fleet).names
         IN  IF listed /\ fleet # {}
               THEN \E from : Resolves(names, requested, fleet, from)
               ELSE names = requested
<1> DEFINE entries == [i \in DOMAIN requested |-> ResolveEntry(requested[i], fleet)]
           lists == [i \in DOMAIN entries |-> entries[i].names]
           flat == FlattenSeq(lists)
           resolved == ResolveContainerNames(requested, listed, fleet)
<1>1. resolved = IF requested = <<>> \/ ~ listed \/ fleet = {}
                   THEN Returns(requested)
                   ELSE IF \E i \in DOMAIN entries : ~ entries[i].ok
                          THEN Failed
                          ELSE Returns(flat)
  BY Zenon DEF ResolveContainerNames
<1>2. CASE ~ listed \/ fleet = {}
  BY <1>1, <1>2 DEF Returns
<1>3. CASE listed /\ fleet # {} /\ requested = <<>>
  <2>1. resolved.names = <<>>
    BY <1>1, <1>3 DEF Returns
  <2>2. DOMAIN requested = {} /\ DOMAIN <<>> = {} /\ <<>> \in [{} -> {}] /\ <<>> \in Seq(Nat)
    BY <1>3
  <2>3. Resolves(<<>>, requested, fleet, <<>>)
    BY <2>2 DEF Resolves
  <2> HIDE DEF resolved
  <2>4. \E from : Resolves(resolved.names, requested, fleet, from)
    BY <2>1, <2>3
  <2>5. QED
    BY <1>3, <2>4 DEF resolved
<1>4. CASE listed /\ fleet # {} /\ requested # <<>>
  <2>1. (\A i \in DOMAIN entries : entries[i].ok) /\ resolved.names = flat
    <3>1. resolved \in {Failed, Returns(flat)} /\ ~ Failed.ok /\ resolved.ok
      BY <1>1, <1>4 DEF Failed
    <3>2. resolved = Returns(flat)
      BY <3>1
    <3>3. \A i \in DOMAIN entries : entries[i].ok
      <4>1. (\E i \in DOMAIN entries : ~ entries[i].ok) => resolved = Failed
        <5> HIDE DEF entries, resolved, flat
        <5>1. QED
          BY <1>1, <1>4
      <4> HIDE DEF entries, resolved, flat
      <4>2. QED
        BY <3>1, <4>1
    <3> HIDE DEF resolved, flat
    <3>4. QED
      BY <3>2, <3>3 DEF Returns
  <2>2. \A i \in DOMAIN requested : requested[i] \in Nat /\ ResolveEntry(requested[i], fleet).ok
    BY <2>1
  <2>3. \A i \in DOMAIN requested :
          /\ lists[i] \in Seq(Nat)
          /\ ToSet(lists[i]) = Called(Denoted(requested[i], fleet))
    BY <2>2, EntryIs
  <2>4. /\ DOMAIN lists = DOMAIN requested /\ DOMAIN requested = 1..Len(requested)
        /\ Len(requested) \in Nat
    OBVIOUS
  <2>5. lists \in Seq(Seq(Nat)) /\ Len(lists) = Len(requested)
    <3>1. lists = [i \in 1..Len(requested) |-> lists[i]]
      BY <2>4
    <3> HIDE DEF lists
    <3>2. QED
      BY <2>3, <2>4, <3>1
  <2> HIDE DEF lists
  <2>6. PICK from : IsFlat(flat, lists, Len(lists), from)
    BY <2>5, FlatIs
  <2>7. flat \in Seq(Nat)
    BY <2>5, FlatIs
  <2> HIDE DEF flat
  <2>8. Resolves(flat, requested, fleet, from)
    BY <2>3, <2>4, <2>5, <2>6, <2>7 DEF Resolves, IsFlat
  <2> HIDE DEF resolved
  <2>9. \E upto : Resolves(resolved.names, requested, fleet, upto)
    BY <2>1, <2>8
  <2>10. QED
    BY <1>4, <2>9 DEF resolved
<1>5. QED
  BY <1>2, <1>3, <1>4

\* The entries that are services are ordered as they need one another.
LEMMA OrderedFirst ==
  ASSUME NEW configured \in Seq(Nat),
         NEW project, DOMAIN project \subseteq Nat, IsFiniteSet(DOMAIN project),
         HasOrder(project),
         NEW n \in ToSet(configured) \cap DOMAIN project,
         NEW m \in ToSet(configured) \cap DOMAIN project, m \in Needs(project, n)
  PROVE  LET names == ApplyDependencyOrder(configured, "project", project).names
         IN  \A i, j \in DOMAIN names : names[i] = m /\ names[j] = n => i < j
<1> DEFINE sorted == TopoSort(project)
           ordered == FilterDependencyOrder(sorted.names, configured)
           unknown == Those(configured, ToSet(configured) \ ToSet(ordered))
           answered == ApplyDependencyOrder(configured, "project", project)
<1>1. n # m
  BY DEF HasOrder
<1>2. Len(configured) \in Nat /\ Len(configured) >= 2
  <2>1. PICK a, b \in DOMAIN configured : configured[a] = n /\ configured[b] = m
    BY DEF ToSet
  <2>2. a # b /\ DOMAIN configured = 1..Len(configured) /\ Len(configured) \in Nat
    BY <1>1, <2>1
  <2>3. QED
    BY <2>2
<1>3. PICK order : /\ InOrder(project, order)
                   /\ TopoSort(project) = IF Len(order) = Cardinality(DOMAIN project)
                                            THEN Returns(order) ELSE Failed
  BY TopoSortIs
<1>4. sorted.ok /\ sorted.names = order /\ ToSet(order) = DOMAIN project
  <2>1. sorted.ok
    BY SortsWhatHasAnOrder
  <2>2. sorted = Returns(order) /\ Len(order) = Cardinality(DOMAIN project)
    BY <1>3, <2>1 DEF Failed
  <2> HIDE DEF sorted
  <2>3. QED
    BY <1>3, <2>1, <2>2, WholeOrder DEF Returns
<1> HIDE DEF sorted
<1>5. order \in Seq(DOMAIN project) /\ order \in Seq(Nat) /\ DOMAIN order = 1..Len(order)
  <2>1. order \in Seq(DOMAIN project)
    BY <1>3 DEF InOrder
  <2>2. QED
    BY <2>1, Widened
<1>6. /\ ordered \in Seq(Nat) /\ ToSet(ordered) = ToSet(order) \cap ToSet(configured)
      /\ \E from : IsPart(ordered, order, ToSet(configured), from)
  BY <1>4, <1>5, ThoseNames, ThoseIs DEF FilterDependencyOrder
<1> HIDE DEF ordered
<1>7. PICK from : IsPart(ordered, order, ToSet(configured), from)
  BY <1>6
<1>8. unknown \in Seq(Nat) /\ n \notin ToSet(unknown) /\ m \notin ToSet(unknown)
  <2>1. unknown \in Seq(Nat) /\ ToSet(unknown) = ToSet(configured) \cap (ToSet(configured) \ ToSet(ordered))
    BY ThoseNames
  <2> HIDE DEF unknown
  <2>2. n \in ToSet(ordered) /\ m \in ToSet(ordered)
    BY <1>4, <1>6
  <2>3. QED
    BY <2>1, <2>2
<1> HIDE DEF unknown
<1>9. answered.names = ordered \o unknown
  <2>1. answered = CASE Len(configured) < 2 -> Returns(configured)
                     [] Len(configured) >= 2 /\ "project" = "missing" -> Failed
                     [] Len(configured) >= 2 /\ "project" = "project" /\ sorted.ok ->
                          Returns(ordered \o unknown)
                     [] OTHER -> Returns(configured)
    BY Zenon DEF ApplyDependencyOrder, sorted, ordered, unknown
  <2> HIDE DEF answered
  <2>2. answered = Returns(ordered \o unknown)
    BY <1>2, <1>4, <2>1
  <2>3. QED
    BY <2>2 DEF Returns
<1> DEFINE names == ordered \o unknown
<1>10. ASSUME NEW i \in DOMAIN names, names[i] \in {n, m}
       PROVE  i \in DOMAIN ordered /\ ordered[i] = names[i]
  <2>1. /\ DOMAIN ordered = 1..Len(ordered) /\ Len(ordered) \in Nat
        /\ DOMAIN unknown = 1..Len(unknown) /\ Len(unknown) \in Nat
        /\ DOMAIN names = 1..Len(ordered) + Len(unknown)
        /\ \A k \in 1..Len(ordered) : names[k] = ordered[k]
        /\ \A k \in 1..Len(unknown) : names[Len(ordered) + k] = unknown[k]
    BY <1>6, <1>8
  <2> HIDE DEF names
  <2>2. i \in 1..Len(ordered) \/ \E k \in 1..Len(unknown) : i = Len(ordered) + k
    <3>1. i \in 1..Len(ordered) \/ (i - Len(ordered) \in 1..Len(unknown) /\ i = Len(ordered) + (i - Len(ordered)))
      BY <2>1
    <3>2. QED
      BY <3>1
  <2>3. \A k \in 1..Len(unknown) : unknown[k] \in ToSet(unknown)
    BY <2>1 DEF ToSet
  <2>4. i \in 1..Len(ordered)
    BY <1>8, <1>10, <2>1, <2>2, <2>3
  <2>5. QED
    BY <2>1, <2>4
<1>11. ASSUME NEW i \in DOMAIN names, NEW j \in DOMAIN names, names[i] = m, names[j] = n
       PROVE  i < j
  <2>1. i \in DOMAIN ordered /\ ordered[i] = m /\ j \in DOMAIN ordered /\ ordered[j] = n
    BY <1>10, <1>11
  <2> HIDE DEF names
  <2>2. /\ from[i] \in DOMAIN order /\ order[from[i]] = m
        /\ from[j] \in DOMAIN order /\ order[from[j]] = n
    BY <1>7, <2>1 DEF IsPart
  <2>3. PICK h \in DOMAIN order : h < from[j] /\ order[h] = m
    BY <1>3, <2>2, NeededFirst
  <2>4. h = from[i]
    BY <1>3, <2>2, <2>3 DEF InOrder, IsInjective
  <2>5. j < i => from[j] < from[i]
    BY <1>7, <2>1 DEF IsPart
  <2>6. i \in Nat /\ j \in Nat /\ from[i] \in Nat /\ from[j] \in Nat
    <3>1. DOMAIN ordered = 1..Len(ordered)
      BY <1>6
    <3>2. from[i] \in 1..Len(order) /\ from[j] \in 1..Len(order)
      BY <1>5, <2>2
    <3>3. QED
      BY <2>1, <3>1, <3>2
  <2>7. QED
    BY <2>3, <2>4, <2>5, <2>6
<1> HIDE DEF names, answered
<1>12. QED
  BY <1>9, <1>11 DEF names, answered

\* What is restarted is what the ordered entries resolve to.
LEMMA RestartedIs ==
  ASSUME NEW configured, NEW compose, NEW project, NEW listed, NEW fleet,
         RestartList(configured, compose, project, listed, fleet).ok
  PROVE  /\ ApplyDependencyOrder(configured, compose, project).ok
         /\ RestartList(configured, compose, project, listed, fleet)
              = ResolveContainerNames(ApplyDependencyOrder(configured, compose, project).names,
                                      listed, fleet)
  BY DEF RestartList, Failed

-----------------------------------------------------------------------------
(* configfile: paths, and what is found                                   *)

\* The components of the paths that the program knows, and any others.
Known == {"rotator.yml", "rotator.yaml", ".rotator.yml", "config", "etc", "rotator",
          ".rotator", "history.json",
          "compose.yaml", "compose.yml", "docker-compose.yaml", "docker-compose.yml"}
Component == STRING \cup Known
Paths == [abs : BOOLEAN, dot : BOOLEAN, at : Seq(Component)]

\* The paths of the inputs are such paths.
LEMMA PathsArePaths ==
  /\ Path \subseteq Paths
  /\ Seq(STRING) \subseteq Seq(Component)
<1>1. Seq(STRING) \subseteq Seq(Component)
  <2>1. STRING \subseteq Component
    BY DEF Component
  <2>2. QED
    BY <2>1, Widened
<1>2. QED
  BY <1>1 DEF Path, Paths

\* filepath.Join names the place of the second path below the first.
LEMMA JoinIs ==
  ASSUME NEW base \in Paths, NEW path \in Paths, NEW cwd \in Seq(Component)
  PROVE  /\ Join(base, path) \in Paths
         /\ ~ IsUnset(Join(base, path))
         /\ Located(Join(base, path), cwd) = Located(base, cwd) \o path.at
<1> DEFINE both == base.at \o path.at
<1>1. /\ base.at \in Seq(Component) /\ path.at \in Seq(Component)
      /\ base.abs \in BOOLEAN
  BY DEF Paths
<1>2. /\ both \in Seq(Component)
      /\ (cwd \o base.at) \o path.at = cwd \o both
      /\ cwd \o <<>> = cwd
      /\ <<>> \in Seq(Component)
  <2>1. <<>> \in Seq(Component)
    OBVIOUS
  <2>2. both \in Seq(Component)
    BY <1>1
  <2>3. (cwd \o base.at) \o path.at = cwd \o both
    <3>1. \A b, c \in Seq(Component) : (cwd \o b) \o c = cwd \o (b \o c)
      BY Associative
    <3>2. QED
      BY <3>1, <1>1, Zenon
  <2>4. cwd \o <<>> = cwd
    OBVIOUS
  <2>5. QED
    BY <2>1, <2>2, <2>3, <2>4
<1>3. Join(base, path) = IF both = <<>> /\ ~ base.abs THEN Here
                         ELSE [abs |-> base.abs, dot |-> FALSE, at |-> both]
  BY DEF Join
<1>4. CASE both = <<>> /\ ~ base.abs
  <2>1. Join(base, path) = Here
    BY <1>3, <1>4
  <2>2. Here \in Paths /\ ~ IsUnset(Here) /\ Located(Here, cwd) = cwd \o <<>>
    BY <1>2 DEF Here, Dotted, Paths, IsUnset, Unset, Rel, Located
  <2>3. Located(base, cwd) = cwd \o base.at
    BY <1>4 DEF Located
  <2> HIDE DEF both
  <2>4. QED
    BY <2>1, <2>2, <2>3, <1>2, <1>4
<1>5. CASE ~ (both = <<>> /\ ~ base.abs)
  <2>1. Join(base, path) = [abs |-> base.abs, dot |-> FALSE, at |-> both]
    BY <1>3, <1>5
  <2> HIDE DEF both
  <2>2. Join(base, path) \in Paths /\ ~ IsUnset(Join(base, path))
    BY <1>1, <1>2, <1>5, <2>1 DEF Paths, IsUnset, Unset, Rel
  <2>3. Located(Join(base, path), cwd) = IF base.abs THEN both ELSE cwd \o both
    BY <2>1 DEF Located
  <2>4. QED
    BY <2>2, <2>3, <1>2 DEF Located, both
<1>6. QED
  BY <1>4, <1>5

\* filepath.Dir names the directory that holds the file.
LEMMA DirIs ==
  ASSUME NEW path \in Paths, NEW cwd \in Seq(Component), path.at # <<>>
  PROVE  /\ Dir(path) \in Paths /\ ~ IsUnset(Dir(path))
         /\ Located(Dir(path), cwd) = Front(Located(path, cwd))
         /\ Dir(path).abs <=> path.abs
<1>1. /\ path.at \in Seq(Component) /\ path.abs \in BOOLEAN /\ path.dot \in BOOLEAN
      /\ path = [abs |-> path.abs, dot |-> path.dot, at |-> path.at]
  BY DEF Paths
<1>2. /\ Front(path.at) \in Seq(Component)
      /\ Front(cwd \o path.at) = cwd \o Front(path.at)
      /\ cwd \o <<>> = cwd
  BY <1>1, Concatenation
<1>3. CASE Len(path.at) = 1 /\ ~ path.abs
  <2>1. Dir(path) = Here
    BY <1>3 DEF Dir
  <2>2. Front(path.at) = <<>>
    BY <1>1, <1>3 DEF Front
  <2>3. Here \in Paths /\ ~ IsUnset(Here) /\ Located(Here, cwd) = cwd \o <<>> /\ ~ Here.abs
    BY <1>2 DEF Here, Dotted, Paths, IsUnset, Unset, Rel, Located
  <2>4. Located(path, cwd) = cwd \o path.at
    BY <1>3 DEF Located
  <2>5. QED
    BY <2>1, <2>2, <2>3, <2>4, <1>2, <1>3
<1>4. CASE ~ (Len(path.at) = 1 /\ ~ path.abs)
  <2>1. Dir(path) = [abs |-> path.abs, dot |-> FALSE, at |-> Front(path.at)]
    BY <1>1, <1>4 DEF Dir
  <2>2. path.abs \/ Front(path.at) # <<>>
    BY <1>1, <1>4, FrontOfSome
  <2>3. Dir(path) \in Paths /\ ~ IsUnset(Dir(path))
    BY <1>1, <1>2, <2>1, <2>2 DEF Paths, IsUnset, Unset, Rel
  <2>4. Located(Dir(path), cwd) = IF path.abs THEN Front(path.at) ELSE cwd \o Front(path.at)
    BY <2>1 DEF Located
  <2>5. Located(Dir(path), cwd) = Front(Located(path, cwd))
    BY <2>4, <1>2 DEF Located
  <2>6. Dir(path).abs = path.abs
    BY <2>1
  <2>7. QED
    BY <2>3, <2>5, <2>6
<1>5. QED
  BY <1>3, <1>4

\* A relative path is anchored below the base, an absolute one is kept.
LEMMA ResolvedIs ==
  ASSUME NEW base \in Paths, NEW path \in Paths, NEW cwd \in Seq(Component)
  PROVE  LET resolved == ResolveRelative(base, path)
         IN  /\ resolved \in Paths
             /\ IsUnset(resolved) <=> IsUnset(path)
             /\ ~ IsUnset(path) => Located(resolved, cwd) =
                  IF path.abs THEN path.at ELSE Located(base, cwd) \o path.at
<1>1. CASE IsUnset(path) \/ path.abs
  BY <1>1 DEF ResolveRelative, Located
<1>2. CASE ~ (IsUnset(path) \/ path.abs)
  BY <1>2, JoinIs DEF ResolveRelative
<1>3. QED
  BY <1>1, <1>2

(* What is probed for: the first of the paths that exists.                 *)
LEMMA SearchedIs ==
  ASSUME NEW place, IsUnset(NamedConfig(place))
  PROVE  \/ Discover(place).kind = "none"
         \/ \E i \in 1..7 : /\ Discover(place) = ConfigAt(Abs(Located(SearchPaths[i], place.cwd)))
                            /\ Exists(SearchPaths[i], place)
<1> DEFINE probed == {i \in 1..Len(SearchPaths) : Exists(SearchPaths[i], place)}
           first == SelectInSeq(SearchPaths, LAMBDA path : Exists(path, place))
<1>1. Len(SearchPaths) = 7
  BY DEF SearchPaths
<1>2. first = IF probed # {} THEN Min(probed) ELSE 0
  BY DEF SelectInSeq
<1>3. first = 0 \/ first \in probed
  <2>1. probed \subseteq Nat
    BY <1>1
  <2> HIDE DEF probed
  <2>2. QED
    BY <1>2, <2>1, Least
<1>4. Discover(place) = IF first # 0 THEN ConfigAt(Abs(Located(SearchPaths[first], place.cwd)))
                        ELSE NoConfig
  BY Zenon DEF Discover, NamedConfig
<1> HIDE DEF first
<1>5. CASE first = 0
  BY <1>4, <1>5 DEF NoConfig
<1>6. CASE first # 0
  BY <1>1, <1>3, <1>4, <1>6
<1>7. QED
  BY <1>5, <1>6

\* The paths that are searched.
LEMMA SearchPathsArePaths ==
  \A i \in 1..7 : SearchPaths[i] \in Paths /\ SearchPaths[i].at # <<>>
<1>1. \A a, b, c \in Component : <<a>> \in Seq(Component) /\ <<a, b>> \in Seq(Component)
                                 /\ <<a, b, c>> \in Seq(Component)
  OBVIOUS
<1>2. /\ "rotator.yml" \in Component /\ "rotator.yaml" \in Component
      /\ ".rotator.yml" \in Component /\ "config" \in Component
      /\ "etc" \in Component /\ "rotator" \in Component
  BY DEF Component, Known
<1>3. \A at \in Seq(Component) : Rel(at) \in Paths /\ Abs(at) \in Paths
                                 /\ Rel(at).at = at /\ Abs(at).at = at
  BY DEF Rel, Abs, Paths
<1>4. /\ SearchPaths[1] = Rel(<<"rotator.yml">>) /\ SearchPaths[2] = Rel(<<"rotator.yaml">>)
      /\ SearchPaths[3] = Rel(<<".rotator.yml">>)
      /\ SearchPaths[4] = Abs(<<"config", "rotator.yml">>)
      /\ SearchPaths[5] = Abs(<<"config", "rotator.yaml">>)
      /\ SearchPaths[6] = Abs(<<"etc", "rotator", "rotator.yml">>)
      /\ SearchPaths[7] = Abs(<<"etc", "rotator", "rotator.yaml">>)
  BY DEF SearchPaths
<1>5. \A i \in 1..7 : \E at \in Seq(Component) : at # <<>> /\ SearchPaths[i] \in {Rel(at), Abs(at)}
  <2>1. \A a, b, c \in Component : <<a>> # <<>> /\ <<a, b>> # <<>> /\ <<a, b, c>> # <<>>
    OBVIOUS
  <2>2. \A i \in 1..7 : i = 1 \/ i = 2 \/ i = 3 \/ i = 4 \/ i = 5 \/ i = 6 \/ i = 7
    OBVIOUS
  <2>3. QED
    BY <1>1, <1>2, <1>4, <2>1, <2>2, Zenon
<1>6. QED
  BY <1>3, <1>5

\* What is discovered exists, and is the named configuration if one is named.
LEMMA FoundIs ==
  ASSUME NEW place, PlaceOK(place), Discover(place).kind = "found"
  PROVE  LET path == Discover(place).path
         IN  /\ path \in Paths /\ path.at # <<>>
             /\ Exists(path, place)
             /\ ~ IsUnset(NamedConfig(place)) => path = NamedConfig(place)
             /\ IsUnset(NamedConfig(place)) => path.abs
<1> DEFINE named == NamedConfig(place)
           path == Discover(place).path
<1>1. named \in Paths /\ place.cwd \in Seq(Component)
  BY PathsArePaths DEF PlaceOK, NamedConfig
<1>2. \A p \in Paths : Exists(p, place) => p.at # <<>>
  <2>1. \A p \in Paths : p.at = <<>> => Located(p, place.cwd) \in {<<>>, place.cwd}
    BY <1>1, Concatenation DEF Located
  <2>2. QED
    BY <2>1 DEF Exists, PlaceOK
<1>3. CASE ~ IsUnset(named)
  <2>1. Discover(place) = IF Exists(named, place) THEN ConfigAt(named) ELSE ConfigMissing
    BY <1>3, Zenon DEF Discover, NamedConfig
  <2>2. Exists(named, place) /\ path = named
    BY <2>1 DEF ConfigAt, ConfigMissing
  <2>3. QED
    BY <1>1, <1>2, <1>3, <2>2
<1>4. CASE IsUnset(named)
  <2>1. PICK i \in 1..7 : /\ Discover(place) = ConfigAt(Abs(Located(SearchPaths[i], place.cwd)))
                          /\ Exists(SearchPaths[i], place)
    BY <1>4, SearchedIs
  <2> DEFINE at == Located(SearchPaths[i], place.cwd)
  <2>2. path = Abs(at)
    BY <2>1 DEF ConfigAt
  <2>3. at \in Seq(Component)
    BY <1>1, SearchPathsArePaths, Concatenation DEF Located, Paths
  <2> HIDE DEF at
  <2>4. Abs(at) \in Paths /\ Located(Abs(at), place.cwd) = at /\ Abs(at).abs
    BY <2>3 DEF Abs, Paths, Located
  <2>5. Exists(Abs(at), place)
    BY <2>1, <2>4 DEF Exists, at
  <2>6. QED
    BY <1>2, <1>4, <2>2, <2>4, <2>5
<1>5. QED
  BY <1>3, <1>4

\* The directory of the configuration, under the path that the program has.
LEMMA DirectoryIs ==
  ASSUME NEW place, PlaceOK(place), Discover(place).kind = "found"
  PROVE  LET base == ConfigDir(Discover(place))
         IN  /\ base \in Paths /\ ~ IsUnset(base)
             /\ Located(base, place.cwd) = Front(Located(Discover(place).path, place.cwd))
             /\ base.abs <=> Discover(place).path.abs
<1>1. place.cwd \in Seq(Component)
  BY PathsArePaths DEF PlaceOK
<1>2. ConfigDir(Discover(place)) = Dir(Discover(place).path)
  BY DEF ConfigDir
<1>3. QED
  BY <1>1, <1>2, FoundIs, DirIs

\* The file of a name in a directory.
LEMMA JoinName ==
  ASSUME NEW base \in Paths, NEW c \in Component, NEW cwd \in Seq(Component)
  PROVE  /\ Join(base, Rel(<<c>>)) \in Paths
         /\ Located(Join(base, Rel(<<c>>)), cwd) = Located(base, cwd) \o <<c>>
<1> DEFINE path == Rel(<<c>>)
<1>1. path \in Paths /\ path.at = <<c>>
  BY DEF Rel, Paths
<1> HIDE DEF path
<1>2. Join(base, path) \in Paths
      /\ Located(Join(base, path), cwd) = Located(base, cwd) \o path.at
  BY <1>1, JoinIs
<1>3. Located(Join(base, path), cwd) = Located(base, cwd) \o <<c>>
  BY <1>1, <1>2, Zenon
<1>4. QED
  BY <1>2, <1>3, Zenon DEF path

\* What the directory of the configuration may hold as a Compose file.
ComposeCandidate(found, i) == Join(ConfigDir(found), Rel(<<ComposeFileNames[i]>>))

\* Where each Compose file would be.
LEMMA CandidatesAre ==
  ASSUME NEW found, NEW cwd \in Seq(Component), ConfigDir(found) \in Paths, NEW i \in 1..4
  PROVE  Located(ComposeCandidate(found, i), cwd) =
           Located(ConfigDir(found), cwd) \o <<ComposeFileNames[i]>>
<1>1. ComposeFileNames[i] \in Component
  BY DEF ComposeFileNames, Component, Known
<1>2. QED
  BY <1>1, JoinName, Zenon DEF ComposeCandidate

\* The Compose file is one that exists beside the configuration, if there is one.
LEMMA ComposeIs ==
  ASSUME NEW found, NEW place
  PROVE  \/ /\ ResolveComposeFile(found, Unset, place).kind = "none"
            /\ \A i \in 1..4 : ~ Exists(ComposeCandidate(found, i), place)
         \/ \E i \in 1..4 :
              /\ ResolveComposeFile(found, Unset, place) = ConfigAt(ComposeCandidate(found, i))
              /\ Exists(ComposeCandidate(found, i), place)
<1> DEFINE candidate == [i \in DOMAIN ComposeFileNames |->
                           Join(ConfigDir(found), Rel(<<ComposeFileNames[i]>>))]
           first == SelectInSeq(candidate, LAMBDA path : Exists(path, place))
           there == {i \in 1..Len(candidate) : Exists(candidate[i], place)}
<1>1. Len(candidate) = 4 /\ \A i \in 1..4 : candidate[i] = ComposeCandidate(found, i)
  BY DEF ComposeFileNames, ComposeCandidate
<1>2. first = IF there # {} THEN Min(there) ELSE 0
  BY DEF SelectInSeq
<1>3. ResolveComposeFile(found, Unset, place) =
        IF first # 0 THEN ConfigAt(candidate[first]) ELSE NoCompose
  <2> DEFINE named == ResolveRelative(ConfigDir(found), Unset)
  <2>1. ResolveComposeFile(found, Unset, place) =
          CASE ~ IsUnset(Unset) /\ Exists(named, place) -> ConfigAt(named)
            [] ~ IsUnset(Unset) /\ ~ Exists(named, place) -> ConfigMissing
            [] IsUnset(Unset) /\ first # 0 -> ConfigAt(candidate[first])
            [] OTHER -> NoCompose
    BY Zenon DEF ResolveComposeFile
  <2>2. IsUnset(Unset)
    BY DEF IsUnset
  <2> HIDE DEF first, candidate, named
  <2>3. QED
    BY <2>1, <2>2
<1> HIDE DEF candidate, first
<1>4. there = {i \in 1..4 : Exists(ComposeCandidate(found, i), place)}
  BY <1>1
<1> HIDE DEF there
<1>5. there \subseteq Nat
  BY <1>4
<1>6. CASE there = {}
  BY <1>2, <1>3, <1>4, <1>6 DEF NoCompose
<1>7. CASE there # {}
  <2>1. first \in there
    BY <1>2, <1>5, <1>7, Least
  <2>2. first \in 1..4 /\ Exists(ComposeCandidate(found, first), place)
    BY <1>4, <2>1
  <2>3. ResolveComposeFile(found, Unset, place) = ConfigAt(ComposeCandidate(found, first))
    BY <1>1, <1>3, <2>2
  <2>4. QED
    BY <2>2, <2>3
<1>8. QED
  BY <1>6, <1>7

\* Where the history is.
LEMMA HistoryIs ==
  ASSUME NEW found, NEW cwd \in Seq(Component), ConfigDir(found) \in Paths
  PROVE  Located(HistoryPath(found, Unset, Unset), cwd) =
           Located(ConfigDir(found), cwd) \o <<".rotator", "history.json">>
<1> DEFINE base == ConfigDir(found)
<1>1. DataDir(found, Unset, Unset) = Join(base, Rel(<<".rotator">>))
  BY DEF DataDir, IsUnset
<1>2. ".rotator" \in Component /\ "history.json" \in Component
  BY DEF Component, Known
<1>3. Located(base, cwd) \in Seq(Component)
  BY Concatenation DEF Located, Paths
<1>4. Located(HistoryPath(found, Unset, Unset), cwd) =
        (Located(base, cwd) \o <<".rotator">>) \o <<"history.json">>
  <2>1. HistoryPath(found, Unset, Unset) =
          Join(Join(base, Rel(<<".rotator">>)), Rel(<<"history.json">>))
    BY <1>1 DEF HistoryPath
  <2>2. /\ Join(base, Rel(<<".rotator">>)) \in Paths
        /\ Located(Join(base, Rel(<<".rotator">>)), cwd) = Located(base, cwd) \o <<".rotator">>
    BY <1>2, JoinName, Zenon
  <2>3. Located(Join(Join(base, Rel(<<".rotator">>)), Rel(<<"history.json">>)), cwd) =
          Located(Join(base, Rel(<<".rotator">>)), cwd) \o <<"history.json">>
    BY <1>2, <2>2, JoinName, Zenon
  <2>4. QED
    BY <2>1, <2>2, <2>3, Zenon
<1> HIDE DEF base
<1>5. (Located(base, cwd) \o <<".rotator">>) \o <<"history.json">> =
        Located(base, cwd) \o <<".rotator", "history.json">>
  BY <1>3
<1>6. QED
  BY <1>4, <1>5 DEF base

\* The definition as the translation gets it.
Canonical(i, j) == Normalize(i.definitions[j], ConfigDir(Discover(i.place)))

\* What a load gives: the secret of every definition, under names that differ, or none.
LEMMA LoadedIs ==
  ASSUME NEW i, ConfigurationInput(i)
  PROVE  LET loaded == Loaded(i.definitions, i.place)
             base == ConfigDir(Discover(i.place))
         IN  /\ DOMAIN loaded.secrets \subseteq DOMAIN i.definitions
             /\ DOMAIN loaded.secrets # {} \/ loaded.ok =>
                  /\ Discover(i.place).kind = "found"
                  /\ DOMAIN loaded.secrets = DOMAIN i.definitions
                  /\ \A j \in DOMAIN i.definitions :
                       /\ Acceptable(Canonical(i, j), base)
                       /\ loaded.secrets[j] = NewSecret(Canonical(i, j), base)
                       /\ \A k \in DOMAIN i.definitions :
                            j < k => Canonical(i, j).name # Canonical(i, k).name
<1> DEFINE found == Discover(i.place)
           base == ConfigDir(found)
           d == [j \in DOMAIN i.definitions |-> Normalize(i.definitions[j], base)]
           loaded == Loaded(i.definitions, i.place)
           n == Len(i.definitions)
           bad == \E j \in DOMAIN d : \/ ~ Acceptable(d[j], base)
                                      \/ \E k \in 1..j - 1 : d[k].name = d[j].name
<1>1. DOMAIN i.definitions = 1..n /\ n \in Nat
  BY DEF ConfigurationInput
<1>2. LoadFailed.secrets = <<>> /\ ~ LoadFailed.ok
  BY DEF LoadFailed
<1>3. CASE found.kind # "found" \/ bad
  <2>1. loaded = LoadFailed
    BY <1>3, Zenon DEF Loaded, Load
  <2>2. DOMAIN <<>> = {}
    OBVIOUS
  <2>3. QED
    BY <2>1, <2>2, <1>2
<1>4. CASE found.kind = "found" /\ ~ bad
  <2>1. loaded = Load(i.definitions, found, i.place)
    BY <1>4, Zenon DEF Loaded
  <2>2. loaded.secrets = [j \in DOMAIN d |-> NewSecret(d[j], base)]
    BY <1>4, <2>1 DEF Load
  <2>3. \A j \in DOMAIN i.definitions : d[j] = Canonical(i, j)
    BY DEF Canonical
  <2>4. DOMAIN d = DOMAIN i.definitions
    OBVIOUS
  <2>5. \A j \in 1..n : Acceptable(d[j], base) /\ \A k \in 1..j - 1 : d[k].name # d[j].name
    BY <1>4, <1>1
  <2> HIDE DEF d, base, loaded, n, bad
  <2>6. \A j, k \in 1..n : j < k => d[j].name # d[k].name
    BY <2>5, <1>1
  <2>7. QED
    BY <2>2, <2>3, <2>4, <2>5, <2>6, <1>1, <1>4 DEF loaded, base
<1>5. QED
  BY <1>3, <1>4

\* The .env files of an entry, once their paths are anchored.
LEMMA AnchoredFiles ==
  ASSUME NEW i, ConfigurationInput(i), NEW j \in DOMAIN i.definitions,
         Discover(i.place).kind = "found"
  PROVE  LET written == EnvFilesOf(i.definitions[j])
             files == EnvFilesOf(Canonical(i, j))
             base == ConfigDir(Discover(i.place))
         IN  /\ written \in Seq(Paths) /\ Len(files) = Len(written)
             /\ DOMAIN files = DOMAIN written
             /\ \A k \in DOMAIN written : files[k] = ResolveRelative(base, written[k])
<1> DEFINE def == i.definitions[j]
           base == ConfigDir(Discover(i.place))
<1>1. DefinitionOK(def) /\ PlaceOK(i.place)
  BY DEF ConfigurationInput
<1>2. def.envFile \in Paths /\ def.envFiles \in Seq(Paths)
  <2>1. def.envFile \in Path /\ def.envFiles \in Seq(Path)
    BY <1>1 DEF DefinitionOK
  <2>2. Seq(Path) \subseteq Seq(Paths)
    BY PathsArePaths, Widened
  <2>3. QED
    BY <2>1, <2>2, PathsArePaths
<1>3. base \in Paths
  BY <1>1, DirectoryIs
<1>4. i.place.cwd \in Seq(Component)
  BY <1>1, PathsArePaths DEF PlaceOK
<1>5. /\ Canonical(i, j).envFile = ResolveRelative(base, def.envFile)
      /\ Canonical(i, j).envFiles = [k \in DOMAIN def.envFiles |-> ResolveRelative(base, def.envFiles[k])]
  BY <1>1 DEF Canonical, Normalize, DefinitionOK
<1>6. IsUnset(Canonical(i, j).envFile) <=> IsUnset(def.envFile)
  BY <1>2, <1>3, <1>4, <1>5, ResolvedIs
<1>7. CASE IsUnset(def.envFile)
  <2>1. EnvFilesOf(def) = def.envFiles /\ EnvFilesOf(Canonical(i, j)) = Canonical(i, j).envFiles
    BY <1>6, <1>7 DEF EnvFilesOf
  <2>2. DOMAIN def.envFiles = 1..Len(def.envFiles) /\ Len(def.envFiles) \in Nat
    BY <1>2
  <2> HIDE DEF def
  <2>3. QED
    BY <2>1, <2>2, <1>2, <1>5 DEF def
<1>8. CASE ~ IsUnset(def.envFile)
  <2>1. EnvFilesOf(def) = <<def.envFile>> /\ EnvFilesOf(Canonical(i, j)) = <<Canonical(i, j).envFile>>
    BY <1>6, <1>8 DEF EnvFilesOf
  <2>2. QED
    BY <2>1, <1>2, <1>5
<1>9. QED
  BY <1>7, <1>8

-----------------------------------------------------------------------------
(* configfile, secret.go: what a definition becomes                       *)

\* What becomes of the parts of a definition.
LEMMA SecretIs ==
  ASSUME NEW d, NEW base
  PROVE  /\ NewSecret(d, base).name = SecretName(d.name)
         /\ NewSecret(d, base).kind = d.kind
         /\ NewSecret(d, base).envFiles = EnvFilesOf(d)
         /\ NewSecret(d, base).target = TargetFor(d, base)
         /\ NewSecret(d, base).maxAge = ParseMaxAge(d.maxAge).age
         /\ NewSecret(d, base).length = PasswordLength(LengthFor(d))
         /\ Acceptable(d, base) => /\ Translatable(d) /\ ValidName(d.name)
                                  /\ ValidEnvFiles(EnvFilesOf(d))
                                  /\ ParseMaxAge(d.maxAge).ok
                                  /\ ValidTarget(d.kind, TargetFor(d, base))
<1>1. /\ NewSecret(d, base).name = SecretName(d.name)
      /\ NewSecret(d, base).kind = d.kind
      /\ NewSecret(d, base).envFiles = EnvFilesOf(d)
      /\ NewSecret(d, base).target = TargetFor(d, base)
      /\ NewSecret(d, base).maxAge = ParseMaxAge(d.maxAge).age
      /\ NewSecret(d, base).length = PasswordLength(LengthFor(d))
  BY DEF NewSecret
<1>2. Acceptable(d, base) => /\ Translatable(d) /\ ValidName(d.name)
                             /\ ValidEnvFiles(EnvFilesOf(d))
                             /\ ParseMaxAge(d.maxAge).ok
                             /\ ValidTarget(d.kind, TargetFor(d, base))
  BY Zenon DEF Acceptable
<1>3. QED
  BY <1>1, <1>2, Zenon

\* Where the path is absolute under which the configuration is found, so is its directory.
LEMMA BaseIsAbsolute ==
  ASSUME NEW i, ConfigurationInput(i),
         Discover(i.place).kind = "found", Discover(i.place).path.abs
  PROVE  /\ ConfigDir(Discover(i.place)) \in Paths /\ ConfigDir(Discover(i.place)).abs
<1>1. PlaceOK(i.place)
  BY DEF ConfigurationInput
<1>2. QED
  BY <1>1, DirectoryIs

\* What is below an absolute path.
LEMMA JoinFromRoot ==
  ASSUME NEW base \in Paths, base.abs, NEW path \in Paths
  PROVE  Join(base, path).abs /\ Join(base, path).at = base.at \o path.at
<1> DEFINE both == base.at \o path.at
<1>1. Join(base, path) = [abs |-> base.abs, dot |-> FALSE, at |-> both]
  BY DEF Join
<1> HIDE DEF both
<1>2. Join(base, path).abs = base.abs
  BY <1>1
<1>3. Join(base, path).at = both
  BY <1>1
<1>4. QED
  BY <1>2, <1>3, Zenon DEF both

\* A program that is named by a path is anchored at the directory of the configuration.
LEMMA CommandIs ==
  ASSUME NEW i, ConfigurationInput(i), Discover(i.place).kind = "found",
         Discover(i.place).path.abs, NEW j \in DOMAIN i.definitions
  PROVE  LET base == ConfigDir(Discover(i.place))
             command == TargetFor(Canonical(i, j), base).command
             written == i.definitions[j].command.apply
         IN  HasSeparator(written) =>
               /\ command.apply.abs
               /\ command.apply.at = IF written.abs THEN written.at ELSE base.at \o written.at
<1> DEFINE base == ConfigDir(Discover(i.place))
           def == i.definitions[j]
           written == def.command.apply
<1>1. DefinitionOK(def)
  BY DEF ConfigurationInput
<1>2. Canonical(i, j).command = def.command /\ written \in Paths
  BY <1>1, PathsArePaths DEF Canonical, Normalize, DefinitionOK
<1>3. TargetFor(Canonical(i, j), base).command = CommandFor(def.command, base)
  BY <1>2, Zenon DEF TargetFor
<1>4. base.abs
  BY BaseIsAbsolute
<1>5. CASE HasSeparator(written)
  <2>1. def.command # NoCommand
    <3>1. ~ HasSeparator(NoCommand.apply)
      BY DEF HasSeparator, NoCommand, Unset, Rel
    <3>2. QED
      BY <3>1, <1>5
  <2>2. CommandFor(def.command, base).apply = AnchorProgram(base, written)
    BY <2>1 DEF CommandFor
  <2> HIDE DEF base, def
  <2>3. AnchorProgram(base, written) = IF written.abs THEN written ELSE Join(base, written)
    BY <1>5 DEF AnchorProgram
  <2>4. base \in Paths
    BY BaseIsAbsolute DEF base
  <2>5. Join(base, written).abs /\ Join(base, written).at = base.at \o written.at
    BY <1>2, <1>4, <2>4, JoinFromRoot
  <2>6. QED
    BY <1>3, <1>5, <2>2, <2>3, <2>5 DEF base, def
<1>6. QED
  BY <1>5

\* An age that is written down and accepted is in force.
LEMMA AcceptedAgeIsSet ==
  ASSUME NEW groups, groups # <<>>, ParseMaxAge(groups).ok
  PROVE  IsSet(ParseMaxAge(groups).age)
<1> DEFINE leading == ConsumeExtendedUnits(groups)
           rest == ParseDuration(leading.remainder)
           total == Wrap(leading.total + rest.hours)
           accepted == leading.readable /\ rest.readable /\ total > 0
<1>1. ParseMaxAge(groups) =
        CASE groups = <<>> -> Accepted(NoMaxAge)
          [] groups # <<>> /\ leading.readable /\ rest.readable /\ total > 0 -> Accepted(total)
          [] OTHER -> Rejected
  BY Zenon DEF ParseMaxAge
<1> HIDE DEF leading, rest, total
<1>2. ParseMaxAge(groups) = IF accepted THEN Accepted(total) ELSE Rejected
  BY <1>1
<1>3. ~ Rejected.ok
  BY DEF Rejected
<1>4. accepted
  BY <1>2, <1>3, Zenon
<1>5. ParseMaxAge(groups) = Accepted(total) /\ total > 0
  BY <1>2, <1>4, Zenon
<1>6. Accepted(total).age = total
  BY DEF Accepted
<1>7. QED
  BY <1>5, <1>6 DEF IsSet

\* If it fits in a duration, it is the age in force.
LEMMA AcceptedAgeIsWritten ==
  ASSUME NEW groups \in Seq(Group), groups # <<>>, ParseMaxAge(groups).ok,
         Written(groups) <= MaxDuration
  PROVE  ParseMaxAge(groups).age = Written(groups)
<1>1. ParseMaxAge(groups) = IF WellFormed(groups) /\ Written(groups) > 0
                              THEN Accepted(Written(groups)) ELSE Rejected
  BY ParseMaxAgeIs
<1>2. ~ Rejected.ok
  BY DEF Rejected
<1>3. Accepted(Written(groups)).age = Written(groups)
  BY Zenon DEF Accepted
<1>4. QED
  BY <1>1, <1>2, <1>3

\* What is in front of two equal concatenations can be taken off.
LEMMA Cancelled ==
  ASSUME NEW S, NEW a \in Seq(S), NEW b \in Seq(S), NEW c \in Seq(S), a \o b = a \o c
  PROVE  b = c
<1>1. Len(a \o b) = Len(a) + Len(b) /\ Len(a \o c) = Len(a) + Len(c)
  OBVIOUS
<1>2. Len(b) = Len(c)
  BY <1>1
<1>3. ASSUME NEW n \in 1..Len(b)
      PROVE  b[n] = c[n]
  <2>1. (a \o b)[Len(a) + n] = b[n] /\ (a \o c)[Len(a) + n] = c[n]
    BY <1>2
  <2>2. QED
    BY <2>1
<1>4. b = [n \in 1..Len(b) |-> b[n]] /\ c = [n \in 1..Len(c) |-> c[n]]
  OBVIOUS
<1>5. QED
  BY <1>2, <1>3, <1>4, Zenon

\* A relative path is anchored without a redundant part, but for the directory itself.
LEMMA AnchoredIsClean ==
  ASSUME NEW base \in Paths, NEW path \in Paths,
         ~ IsUnset(path), ~ ResolveRelative(base, path).abs
  PROVE  LET resolved == ResolveRelative(base, path)
         IN  resolved.dot <=> resolved.at = <<>>
<1>1. ResolveRelative(base, path) = Join(base, path)
  BY DEF ResolveRelative
<1> DEFINE at == base.at \o path.at
<1>2. Join(base, path) = IF at = <<>> /\ ~ base.abs THEN Here
                         ELSE [abs |-> base.abs, dot |-> FALSE, at |-> at]
  BY DEF Join
<1> HIDE DEF at
<1>3. Here.dot /\ Here.at = <<>>
  BY DEF Here, Dotted
<1>4. CASE at = <<>> /\ ~ base.abs
  BY <1>1, <1>2, <1>3, <1>4
<1>5. CASE ~ (at = <<>> /\ ~ base.abs)
  BY <1>1, <1>2, <1>5
<1>6. QED
  BY <1>4, <1>5

\* Of the files of a secret, only a missed alias is another one's file.
LEMMA AnchoredApart ==
  ASSUME NEW i, ConfigurationInput(i),
         Discover(i.place).kind = "found", NEW n \in DOMAIN i.definitions,
         ValidEnvFiles(EnvFilesOf(Canonical(i, n)))
  PROVE  LET files == EnvFilesOf(Canonical(i, n))
         IN  /\ files # <<>>
             /\ \A j, k \in DOMAIN files :
                  /\ j # k
                  /\ Located(files[j], i.place.cwd) = Located(files[k], i.place.cwd)
                  => MissedAlias(files[j], files[k])
<1> DEFINE files == EnvFilesOf(Canonical(i, n))
           written == EnvFilesOf(i.definitions[n])
           base == ConfigDir(Discover(i.place))
           Clean(p) == ~ p.abs => (p.dot <=> p.at = <<>>)
<1>1. files # <<>> /\ IsInjective(files) /\ \A j \in DOMAIN files : ~ IsUnset(files[j])
  BY DEF ValidEnvFiles
<1>2. i.place.cwd \in Seq(Component) /\ base \in Paths
  BY DirectoryIs, PathsArePaths DEF ConfigurationInput, PlaceOK
<1>3. \A j \in DOMAIN files : files[j] \in Paths /\ Clean(files[j])
  <2> SUFFICES ASSUME NEW j \in DOMAIN files
               PROVE  files[j] \in Paths /\ Clean(files[j])
    OBVIOUS
  <2>1. /\ written \in Seq(Paths)
        /\ j \in DOMAIN written
        /\ files[j] = ResolveRelative(base, written[j])
    BY AnchoredFiles
  <2>2. written[j] \in Paths
    BY <2>1
  <2>3. ~ IsUnset(files[j])
    BY <1>1
  <2> HIDE DEF files, written, base
  <2>4. files[j] \in Paths /\ ~ IsUnset(written[j])
    BY <1>2, <2>1, <2>2, <2>3, ResolvedIs
  <2>5. QED
    BY <1>2, <2>1, <2>2, <2>4, AnchoredIsClean
<1> HIDE DEF files, base
<1>4. ASSUME NEW p \in Paths, NEW q \in Paths, Clean(p), Clean(q), ~ MissedAlias(p, q),
             Located(p, i.place.cwd) = Located(q, i.place.cwd)
      PROVE  p = q
  <2>1. /\ p.at \in Seq(Component) /\ q.at \in Seq(Component)
        /\ p.dot \in BOOLEAN /\ q.dot \in BOOLEAN
        /\ p = [abs |-> p.abs, dot |-> p.dot, at |-> p.at]
        /\ q = [abs |-> q.abs, dot |-> q.dot, at |-> q.at]
    BY DEF Paths
  <2>2. p.abs = q.abs /\ (p.abs => p.dot = q.dot)
    BY <1>4, Zenon DEF MissedAlias
  <2>3. p.at = q.at
    <3>1. CASE p.abs
      BY <1>4, <2>2, <3>1, Zenon DEF Located
    <3>2. CASE ~ p.abs
      <4>1. i.place.cwd \o p.at = i.place.cwd \o q.at
        BY <1>4, <2>2, <3>2, Zenon DEF Located
      <4>2. QED
        BY <1>2, <2>1, <4>1, Cancelled
    <3>3. QED
      BY <3>1, <3>2
  <2>4. p.dot = q.dot
    BY <1>4, <2>1, <2>2, <2>3
  <2>5. QED
    BY <2>1, <2>2, <2>3, <2>4
<1>5. \A j, k \in DOMAIN files :
        /\ j # k
        /\ Located(files[j], i.place.cwd) = Located(files[k], i.place.cwd)
        => MissedAlias(files[j], files[k])
  BY <1>1, <1>3, <1>4 DEF IsInjective
<1>6. QED
  BY <1>1, <1>5 DEF files

\* What NewSecret has checked of the target.
LEMMA TargetIsSound ==
  ASSUME NEW d, NEW base, Translatable(d), ValidTarget(d.kind, TargetFor(d, base))
  PROVE  LET target == TargetFor(d, base)
         IN  /\ "TODO" \notin {target.host, target.adminUser, target.adminPassword}
             /\ d.kind \in {"mysql", "postgres"} => "" \notin {target.host, target.adminUser}
             /\ d.kind = "command" => ~ IsUnset(target.command.apply)
<1> DEFINE target == TargetFor(d, base)
           p == d.provider
<1>1. /\ target.host = Value(p, "host") /\ target.adminUser = Value(p, "username")
      /\ target.adminPassword = Value(p, "password")
  BY Zenon DEF TargetFor
<1>2. \A key : Value(p, key) # "TODO"
  BY DEF Translatable, Placeholders, Value
<1>3. d.kind = "command" => ~ IsUnset(target.command.apply)
  BY DEF ValidTarget
<1>4. d.kind \in {"mysql", "postgres"} => Kinds[d.kind].admin
  BY DEF Kinds
<1>5. d.kind \in {"mysql", "postgres"} => target.host # "" /\ target.adminUser # ""
  BY <1>4 DEF ValidTarget
<1> HIDE DEF target
<1>6. QED
  BY <1>1, <1>2, <1>3, <1>5 DEF target

\* What a load says about one definition, d once it is brought into its shape.
WarningsAbout(provider, d, base, place) ==
  DeprecationWarnings(provider)
    \cup UnknownKeyWarnings(d.provider)
    \cup AbsentProgramWarnings(CommandFor(d.command, base), place)
    \cup {<<"target", w>> : w \in TargetWarnings(d.kind, TargetFor(d, base))}

\* A load of one definition.
LEMMA LoadOne ==
  ASSUME NEW definitions, DOMAIN definitions = 1..1, NEW place
  PROVE  LET base == ConfigDir(Discover(place))
             d == Normalize(definitions[1], base)
             loaded == Loaded(definitions, place)
         IN  IF Discover(place).kind = "found" /\ Acceptable(d, base)
               THEN /\ loaded.ok = TRUE
                    /\ loaded.secrets = [i \in 1..1 |-> NewSecret(d, base)]
                    /\ loaded.warnings = WarningsAbout(definitions[1].provider, d, base, place)
               ELSE loaded.ok = FALSE /\ loaded.secrets = <<>>
<1> DEFINE found == Discover(place)
           base == ConfigDir(found)
           ds == [i \in DOMAIN definitions |-> Normalize(definitions[i], base)]
           d == Normalize(definitions[1], base)
           loaded == Loaded(definitions, place)
           bad == \E i \in DOMAIN ds : \/ ~ Acceptable(ds[i], base)
                                       \/ \E j \in 1..i - 1 : ds[j].name = ds[i].name
           secrets == [i \in DOMAIN ds |-> NewSecret(ds[i], base)]
           About(i) == WarningsAbout(definitions[i].provider, ds[i], base, place)
           warnings == UNION {About(i) : i \in DOMAIN ds}
           yes == TRUE
<1>1. DOMAIN ds = 1..1 /\ ds[1] = d
  OBVIOUS
<1>2. loaded = IF found.kind = "found" /\ ~ bad
                 THEN [ok |-> yes, secrets |-> secrets, warnings |-> warnings]
                 ELSE LoadFailed
  BY Zenon DEF Loaded, Load, WarningsAbout
<1>3. bad <=> ~ Acceptable(d, base)
  <2> HIDE DEF ds, d
  <2>1. \A i \in 1..1 : i = 1 /\ 1..i - 1 = {}
    OBVIOUS
  <2>2. 1 \in 1..1
    OBVIOUS
  <2>3. QED
    BY <1>1, <2>1, <2>2, Zenon
<1>4. secrets = [i \in 1..1 |-> NewSecret(d, base)]
  <2> HIDE DEF ds, d
  <2>1. \A i \in 1..1 : ds[i] = d
    BY <1>1
  <2>2. QED
    BY <1>1, <2>1
<1>5. warnings = WarningsAbout(definitions[1].provider, d, base, place)
  <2> HIDE DEF ds, d
  <2>1. DOMAIN ds = {1}
    BY <1>1
  <2>2. About(1) = WarningsAbout(definitions[1].provider, d, base, place)
    BY <1>1, Zenon
  <2> HIDE DEF About
  <2>3. warnings = About(1)
    BY <2>1
  <2>4. QED
    BY <2>2, <2>3, Zenon
<1>6. LoadFailed.ok = FALSE /\ LoadFailed.secrets = <<>>
  BY DEF LoadFailed
<1> HIDE DEF bad, secrets, warnings, loaded, d, yes
<1>7. CASE found.kind = "found" /\ Acceptable(d, base)
  <2>1. loaded = [ok |-> yes, secrets |-> secrets, warnings |-> warnings]
    BY <1>2, <1>3, <1>7, Zenon
  <2>2. loaded.ok = yes /\ loaded.secrets = secrets /\ loaded.warnings = warnings
    BY <2>1
  <2>3. QED
    BY <1>4, <1>5, <1>7, <2>2 DEF yes, loaded, d
<1>8. CASE ~ (found.kind = "found" /\ Acceptable(d, base))
  <2>1. loaded = LoadFailed
    BY <1>2, <1>3, <1>8, Zenon
  <2>2. QED
    BY <1>6, <1>8, <2>1 DEF loaded, d
<1>9. QED
  BY <1>7, <1>8

\* The deprecated keys that are set, and those whose value moves.
Moved(p) == {o \in DOMAIN CanonicalKey : Value(p, o) # ""}
Taken(p) == {o \in Moved(p) : Value(p, CanonicalKey[o]) = ""}

\* The provider block in its canonical shape, key by key.
CanonicalKeys(p) == (DOMAIN p \ Moved(p)) \cup {CanonicalKey[o] : o \in Taken(p)}
CanonicalValue(p, key) ==
  IF \E o \in Taken(p) : CanonicalKey[o] = key
    THEN p[CHOOSE o \in Taken(p) : CanonicalKey[o] = key]
    ELSE p[key]

\* That is what normalize computes.
LEMMA CanonicalIs ==
  ASSUME NEW p
  PROVE  /\ CanonicalProvider(p) = [key \in CanonicalKeys(p) |-> CanonicalValue(p, key)]
         /\ \A o \in Taken(p) : CanonicalValue(p, CanonicalKey[o]) = p[o]
         /\ \A key : (\A o \in Taken(p) : CanonicalKey[o] # key) => CanonicalValue(p, key) = p[key]
<1>1. CanonicalProvider(p) = [key \in CanonicalKeys(p) |-> CanonicalValue(p, key)]
  BY Zenon DEF CanonicalProvider, CanonicalKeys, CanonicalValue, Moved, Taken
<1>2. \A o, q \in Taken(p) : CanonicalKey[o] = CanonicalKey[q] => o = q
  <2>1. \A o, q \in DOMAIN CanonicalKey : CanonicalKey[o] = CanonicalKey[q] => o = q
    BY DEF CanonicalKey
  <2>2. Taken(p) \subseteq DOMAIN CanonicalKey
    BY DEF Taken, Moved
  <2>3. QED
    BY <2>1, <2>2
<1>3. \A o \in Taken(p) : CanonicalValue(p, CanonicalKey[o]) = p[o]
  BY <1>2 DEF CanonicalValue
<1>4. \A key : (\A o \in Taken(p) : CanonicalKey[o] # key) => CanonicalValue(p, key) = p[key]
  BY Zenon DEF CanonicalValue
<1>5. QED
  BY <1>1, <1>3, <1>4

\* A deprecated key under its current name gives the same block, and fewer warnings.
LEMMA CanonicalRenamed ==
  ASSUME NEW block, NEW old \in DOMAIN CanonicalKey,
         Value(block, old) # "", Value(block, CanonicalKey[old]) = ""
  PROVE  LET renamed == Renamed(block, old, CanonicalKey[old])
         IN  /\ CanonicalProvider(renamed) = CanonicalProvider(block)
             /\ DeprecationWarnings(renamed) \subseteq DeprecationWarnings(block)
             /\ DeprecationWarnings(block) # {}
<1> DEFINE new == CanonicalKey[old]
           renamed == Renamed(block, old, new)
<1>1. /\ DOMAIN CanonicalKey = {"user", "pass"}
      /\ CanonicalKey["user"] = "username" /\ CanonicalKey["pass"] = "password"
  BY DEF CanonicalKey
<1>2. new # old /\ new \notin DOMAIN CanonicalKey
      /\ \A o \in DOMAIN CanonicalKey : (CanonicalKey[o] = new <=> o = old) /\ CanonicalKey[o] # old
  BY <1>1
<1>3. old \in DOMAIN block
  BY DEF Value
<1>4. DOMAIN renamed = (DOMAIN block \ {old}) \cup {new}
      /\ \A key \in DOMAIN renamed : renamed[key] = IF key = new THEN block[old] ELSE block[key]
  BY DEF Renamed
<1> HIDE DEF new, renamed
<1>5. \A key : key # old /\ key # new => Value(renamed, key) = Value(block, key)
  BY <1>4 DEF Value
<1>6. Value(renamed, old) = "" /\ Value(renamed, new) = Value(block, old)
  BY <1>2, <1>3, <1>4 DEF Value
<1>7. Moved(renamed) = Moved(block) \ {old} /\ old \in Moved(block)
  BY <1>2, <1>5, <1>6 DEF Moved
<1>8. \A o \in Moved(block) \ {old} :
        /\ CanonicalKey[o] # new /\ CanonicalKey[o] # old
        /\ Value(renamed, CanonicalKey[o]) = Value(block, CanonicalKey[o])
  BY <1>2, <1>5 DEF Moved
<1>12. Taken(renamed) = Taken(block) \ {old} /\ old \in Taken(block)
  BY <1>7, <1>8 DEF Taken
<1>9. CanonicalProvider(renamed) = CanonicalProvider(block)
  <2>1. CanonicalKeys(renamed) = CanonicalKeys(block)
    <3>1. CanonicalKeys(renamed) =
            (((DOMAIN block \ {old}) \cup {new}) \ (Moved(block) \ {old}))
              \cup {CanonicalKey[o] : o \in Taken(block) \ {old}}
      BY <1>4, <1>7, <1>12, Zenon DEF CanonicalKeys
    <3>2. new \notin Moved(block)
      BY <1>2 DEF Moved
    <3>3. QED
      BY <3>1, <3>2, <1>7, <1>12 DEF CanonicalKeys, new
  <2>2. ASSUME NEW key \in CanonicalKeys(block)
        PROVE  CanonicalValue(renamed, key) = CanonicalValue(block, key)
    <3>1. CASE key = new
      <4>1. CanonicalValue(block, key) = block[old]
        BY <3>1, <1>12, CanonicalIs DEF new
      <4>2. \A o \in Taken(renamed) : CanonicalKey[o] # key
        BY <3>1, <1>8, <1>12 DEF Taken
      <4>3. CanonicalValue(renamed, key) = renamed[new]
        BY <3>1, <4>2, CanonicalIs
      <4>4. renamed[new] = block[old]
        BY <1>4
      <4>5. QED
        BY <4>1, <4>3, <4>4
    <3>2. CASE key # new /\ \E o \in Taken(renamed) : CanonicalKey[o] = key
      <4>1. PICK o \in Taken(renamed) : CanonicalKey[o] = key
        BY <3>2
      <4>2. CanonicalValue(renamed, key) = renamed[o] /\ CanonicalValue(block, key) = block[o]
        BY <4>1, <1>12, CanonicalIs
      <4>3. o # new /\ o # old /\ o \in DOMAIN block
        BY <4>1, <1>2, <1>12 DEF Taken, Moved, Value
      <4>4. renamed[o] = block[o]
        BY <4>3, <1>4
      <4>5. QED
        BY <4>2, <4>4
    <3>3. CASE key # new /\ \A o \in Taken(renamed) : CanonicalKey[o] # key
      <4>1. \A o \in Taken(block) : CanonicalKey[o] # key
        BY <3>3, <1>12 DEF new
      <4>2. CanonicalValue(renamed, key) = renamed[key] /\ CanonicalValue(block, key) = block[key]
        BY <3>3, <4>1, CanonicalIs
      <4>3. key \in DOMAIN block /\ key # old
        BY <4>1, <1>7 DEF CanonicalKeys
      <4>4. renamed[key] = block[key]
        BY <4>3, <3>3, <1>4
      <4>5. QED
        BY <4>2, <4>4
    <3>4. QED
      BY <3>1, <3>2, <3>3
  <2>3. QED
    BY <2>1, <2>2, CanonicalIs
<1>10. DeprecationWarnings(renamed) \subseteq DeprecationWarnings(block)
       /\ DeprecationWarnings(block) # {}
  <2>1. \A o \in Moved(renamed) : /\ o \in Moved(block) /\ o # old /\ CanonicalKey[o] # new
                                  /\ Value(renamed, CanonicalKey[o]) = Value(block, CanonicalKey[o])
    BY <1>7, <1>8
  <2>2. QED
    BY <1>7, <2>1 DEF DeprecationWarnings, Moved
<1>11. QED
  BY <1>9, <1>10 DEF renamed, new

\* A definition with another provider block.
Replaced(def, block) == [def EXCEPT !.provider = block]

\* What depends on the provider block, and what does not.
LEMMA ReplacedIs ==
  ASSUME NEW def, DefinitionOK(def), NEW block, NEW base
  PROVE  LET d == Normalize(Replaced(def, block), base)
             e == Normalize(def, base)
         IN  /\ Replaced(def, block).provider = block
             /\ CanonicalProvider(block) = CanonicalProvider(def.provider) => d = e
             /\ d.provider = CanonicalProvider(block)
             /\ e.provider = CanonicalProvider(def.provider)
             /\ d.command = e.command /\ d.kind = e.kind /\ d.length = e.length
             /\ e.length = def.length
<1> DEFINE d == Normalize(Replaced(def, block), base)
           e == Normalize(def, base)
<1>1. DOMAIN def = {"name", "kind", "envKey", "envFile", "envFiles", "containers",
                    "provider", "command", "maxAge", "length"}
  BY DEF DefinitionOK
<1>2. Replaced(def, block).provider = block
  BY <1>1 DEF Replaced
<1>3. CanonicalProvider(block) = CanonicalProvider(def.provider) => d = e
  BY <1>1 DEF Replaced, Normalize
<1>4. d.provider = CanonicalProvider(block) /\ e.provider = CanonicalProvider(def.provider)
  BY <1>1 DEF Replaced, Normalize
<1>5. /\ d.command = e.command /\ d.kind = e.kind /\ d.length = e.length
      /\ e.length = def.length
  BY <1>1 DEF Replaced, Normalize
<1>6. QED
  BY <1>2, <1>3, <1>4, <1>5

\* A deprecated key that is set, and not under its current name.
Deprecated(block, old) ==
  old \in DOMAIN CanonicalKey /\ Value(block, old) # "" /\ Value(block, CanonicalKey[old]) = ""

\* An upgrade of a deprecated key changes nothing that is loaded.
LEMMA UpgradedLoad ==
  ASSUME NEW i, ConfigurationInput(i), Len(i.definitions) = 1,
         NEW old, Deprecated(i.definitions[1].provider, old)
  PROVE  LET upgraded == Replaced(i.definitions[1],
                            Renamed(i.definitions[1].provider, old, CanonicalKey[old]))
             modern == Loaded(<<upgraded>>, i.place)
             loaded == Loaded(i.definitions, i.place)
         IN  /\ modern.ok = loaded.ok
             /\ modern.secrets = loaded.secrets
             /\ modern.ok => loaded.warnings # {} /\ modern.warnings \subseteq loaded.warnings
<1> DEFINE def == i.definitions[1]
           renamed == Renamed(def.provider, old, CanonicalKey[old])
           upgraded == Replaced(def, renamed)
           base == ConfigDir(Discover(i.place))
           d == Normalize(def, base)
           modern == Loaded(<<upgraded>>, i.place)
           loaded == Loaded(i.definitions, i.place)
<1>1. DOMAIN i.definitions = 1..1 /\ DefinitionOK(def)
  <2>1. DOMAIN i.definitions = 1..1
    BY DEF ConfigurationInput
  <2>2. 1 \in 1..1
    OBVIOUS
  <2>3. QED
    BY <2>1, <2>2, Zenon DEF ConfigurationInput
<1>2. /\ CanonicalProvider(renamed) = CanonicalProvider(def.provider)
      /\ DeprecationWarnings(renamed) \subseteq DeprecationWarnings(def.provider)
      /\ DeprecationWarnings(def.provider) # {}
  BY CanonicalRenamed DEF Deprecated
<1>3. upgraded.provider = renamed
  BY <1>1, ReplacedIs
<1>4. Normalize(upgraded, base) = d
  BY <1>1, <1>2, ReplacedIs
<1>5. DOMAIN <<upgraded>> = 1..1 /\ <<upgraded>>[1] = upgraded
  OBVIOUS
<1> DEFINE single == <<upgraded>>
<1> HIDE DEF d, base, renamed, upgraded
<1>6. IF Discover(i.place).kind = "found" /\ Acceptable(d, base)
        THEN /\ loaded.ok = TRUE
             /\ loaded.secrets = [k \in 1..1 |-> NewSecret(d, base)]
             /\ loaded.warnings = WarningsAbout(def.provider, d, base, i.place)
        ELSE loaded.ok = FALSE /\ loaded.secrets = <<>>
  BY <1>1, LoadOne, Zenon DEF d, base
<1>7. IF Discover(i.place).kind = "found" /\ Acceptable(d, base)
        THEN /\ modern.ok = TRUE
             /\ modern.secrets = [k \in 1..1 |-> NewSecret(d, base)]
             /\ modern.warnings = WarningsAbout(renamed, d, base, i.place)
        ELSE modern.ok = FALSE /\ modern.secrets = <<>>
  <2> HIDE DEF single
  <2>1. DOMAIN single = 1..1 /\ single[1] = upgraded
    BY <1>5, Zenon DEF single
  <2>2. Normalize(single[1], base) = d /\ single[1].provider = renamed
    BY <1>3, <1>4, <2>1, Zenon
  <2>3. modern = Loaded(single, i.place)
    BY Zenon DEF single
  <2> HIDE DEF modern
  <2>4. QED
    BY <2>1, <2>2, <2>3, LoadOne, Zenon DEF base
<1>8. WarningsAbout(renamed, d, base, i.place) \subseteq WarningsAbout(def.provider, d, base, i.place)
      /\ WarningsAbout(def.provider, d, base, i.place) # {}
  BY <1>2 DEF WarningsAbout
<1> HIDE DEF modern, loaded
<1>9. /\ modern.ok = loaded.ok
      /\ modern.secrets = loaded.secrets
      /\ modern.ok => loaded.warnings # {} /\ modern.warnings \subseteq loaded.warnings
  <2>1. CASE Discover(i.place).kind = "found" /\ Acceptable(d, base)
    BY <1>6, <1>7, <1>8, <2>1, Zenon
  <2>2. CASE ~ (Discover(i.place).kind = "found" /\ Acceptable(d, base))
    BY <1>6, <1>7, <2>2, Zenon
  <2>3. QED
    BY <2>1, <2>2, Zenon
<1>10. QED
  BY <1>9 DEF modern, loaded, single, upgraded, renamed

\* A key is in the block with a value.
Given(p, key) == Value(p, key) # ""

\* A block without one of its keys.
Without(p, key) == [k \in DOMAIN p \ {key} |-> p[k]]

\* What it has instead.
LEMMA WithoutIs ==
  ASSUME NEW p, NEW key
  PROVE  /\ DOMAIN Without(p, key) = DOMAIN p \ {key}
         /\ Value(Without(p, key), key) = ""
         /\ \A k : k # key => Value(Without(p, key), k) = Value(p, k)
BY DEF Without, Value

\* A key that takes no value from a deprecated one keeps its own.
LEMMA CanonicalKeeps ==
  ASSUME NEW p, NEW key, key \notin DOMAIN CanonicalKey,
         \A o \in Taken(p) : CanonicalKey[o] # key
  PROVE  /\ Value(CanonicalProvider(p), key) = Value(p, key)
         /\ key \in DOMAIN CanonicalProvider(p) <=> key \in DOMAIN p
<1>1. DOMAIN CanonicalProvider(p) = CanonicalKeys(p)
      /\ \A k \in CanonicalKeys(p) : CanonicalProvider(p)[k] = CanonicalValue(p, k)
  BY CanonicalIs
<1>2. CanonicalValue(p, key) = p[key]
  BY CanonicalIs
<1>3. key \in CanonicalKeys(p) <=> key \in DOMAIN p
  BY DEF CanonicalKeys, Moved
<1>4. QED
  BY <1>1, <1>2, <1>3 DEF Value

\* The deprecated keys and their current names.
LEMMA DeprecatedKeys ==
  /\ DOMAIN CanonicalKey = {"user", "pass"}
  /\ CanonicalKey["user"] = "username" /\ CanonicalKey["pass"] = "password"
BY DEF CanonicalKey

\* A deprecated key that is set is warned about.
LEMMA DeprecatedIsWarned ==
  ASSUME NEW p, NEW q, NEW d, NEW e, NEW base, NEW place, NEW old \in DOMAIN CanonicalKey,
         Given(p, old), ~ Given(q, old)
  PROVE  WarningsAbout(p, d, base, place) # WarningsAbout(q, e, base, place)
<1> DEFINE tag == IF Value(p, CanonicalKey[old]) = "" THEN "deprecated" ELSE "both set"
           w == <<tag, old>>
<1>1. w \in DeprecationWarnings(p)
  BY DEF DeprecationWarnings, Given
<1>2. tag \in {"deprecated", "both set"}
  OBVIOUS
<1> HIDE DEF tag
<1>3. w \notin DeprecationWarnings(q)
  BY DEF DeprecationWarnings, Given
<1>4. /\ w \notin UnknownKeyWarnings(e.provider)
      /\ w \notin AbsentProgramWarnings(CommandFor(e.command, base), place)
      /\ w \notin {<<"target", x>> : x \in TargetWarnings(e.kind, TargetFor(e, base))}
  BY <1>2 DEF UnknownKeyWarnings, AbsentProgramWarnings
<1>5. QED
  BY <1>1, <1>3, <1>4 DEF WarningsAbout

\* So is one that is set beside its current name.
LEMMA BothAreWarned ==
  ASSUME NEW p, NEW q, NEW d, NEW e, NEW base, NEW place, NEW old \in DOMAIN CanonicalKey,
         Given(p, old), Given(p, CanonicalKey[old]), ~ Given(q, CanonicalKey[old])
  PROVE  WarningsAbout(p, d, base, place) # WarningsAbout(q, e, base, place)
<1> DEFINE w == <<"both set", old>>
<1>1. w \in DeprecationWarnings(p)
  BY DEF DeprecationWarnings, Given
<1>3. w \notin DeprecationWarnings(q)
  BY DEF DeprecationWarnings, Given
<1>4. /\ w \notin UnknownKeyWarnings(e.provider)
      /\ w \notin AbsentProgramWarnings(CommandFor(e.command, base), place)
      /\ w \notin {<<"target", x>> : x \in TargetWarnings(e.kind, TargetFor(e, base))}
  BY DEF UnknownKeyWarnings, AbsentProgramWarnings
<1>5. QED
  BY <1>1, <1>3, <1>4 DEF WarningsAbout

\* And one that the program does not know.
LEMMA UnknownIsWarned ==
  ASSUME NEW p, NEW q, NEW d, NEW e, NEW base, NEW place, NEW key, key \notin ProviderKeys,
         key \in DOMAIN d.provider, key \notin DOMAIN e.provider
  PROVE  WarningsAbout(p, d, base, place) # WarningsAbout(q, e, base, place)
<1> DEFINE w == <<"unrecognised", key>>
<1>1. w \in UnknownKeyWarnings(d.provider) /\ w \notin UnknownKeyWarnings(e.provider)
  BY DEF UnknownKeyWarnings
<1>2. /\ w \notin DeprecationWarnings(q)
      /\ w \notin AbsentProgramWarnings(CommandFor(e.command, base), place)
      /\ w \notin {<<"target", x>> : x \in TargetWarnings(e.kind, TargetFor(e, base))}
  BY DEF DeprecationWarnings, AbsentProgramWarnings
<1>3. QED
  BY <1>1, <1>2 DEF WarningsAbout

\* The parts of a target, and the key each one comes from.
LEMMA TargetKeys ==
  ASSUME NEW d, NEW base
  PROVE  /\ TargetFor(d, base).host = Value(d.provider, "host")
         /\ TargetFor(d, base).port = NumberOr(Value(d.provider, "port"), 0)
         /\ TargetFor(d, base).adminUser = Value(d.provider, "username")
         /\ TargetFor(d, base).adminPassword = Value(d.provider, "password")
         /\ TargetFor(d, base).adminPasswordEnv = Value(d.provider, "password_env")
         /\ TargetFor(d, base).database = Value(d.provider, "database")
         /\ TargetFor(d, base).targetUser = Value(d.provider, "target_user")
         /\ TargetFor(d, base).targetUserHost = Value(d.provider, "target_user_host")
BY Zenon DEF TargetFor

\* A text that is a number stands for one that is not zero.
LEMMA NumbersArePositive ==
  ASSUME NEW text, IsNumber(text)
  PROVE  Numbers[text] # 0
<1>1. text = "5" \/ text = "64" \/ text = "5433"
  BY DEF IsNumber, Numbers
<1>2. QED
  BY <1>1 DEF Numbers

\* A provider key that the program knows is part of the secret.
LEMMA KnownKeyCounts ==
  ASSUME NEW d, NEW e, NEW base, Translatable(d), NEW key \in ProviderKeys,
         Given(d.provider, key), ~ Given(e.provider, key),
         key = "length" => PasswordLength(LengthFor(d)) # PasswordLength(e.length)
  PROVE  NewSecret(d, base) # NewSecret(e, base)
<1> DEFINE s == NewSecret(d, base)
           t == NewSecret(e, base)
<1> SUFFICES ASSUME s = t
             PROVE  FALSE
  OBVIOUS
<1>1. /\ s.target = TargetFor(d, base) /\ t.target = TargetFor(e, base)
      /\ s.length = PasswordLength(LengthFor(d)) /\ t.length = PasswordLength(LengthFor(e))
  BY SecretIs, Zenon
<1> HIDE DEF s, t
<1>2. TargetFor(d, base) = TargetFor(e, base)
      /\ PasswordLength(LengthFor(d)) = PasswordLength(LengthFor(e))
  BY <1>1, Zenon
<1>3. Value(d.provider, key) # "" /\ Value(e.provider, key) = ""
  BY Zenon DEF Given
<1>4. CASE key \in {"host", "username", "password", "password_env", "database",
                    "target_user", "target_user_host"}
  <2>1. /\ Value(d.provider, "host") = Value(e.provider, "host")
        /\ Value(d.provider, "username") = Value(e.provider, "username")
        /\ Value(d.provider, "password") = Value(e.provider, "password")
        /\ Value(d.provider, "password_env") = Value(e.provider, "password_env")
        /\ Value(d.provider, "database") = Value(e.provider, "database")
        /\ Value(d.provider, "target_user") = Value(e.provider, "target_user")
        /\ Value(d.provider, "target_user_host") = Value(e.provider, "target_user_host")
    <3>1. /\ TargetFor(d, base).host = Value(d.provider, "host")
          /\ TargetFor(d, base).adminUser = Value(d.provider, "username")
          /\ TargetFor(d, base).adminPassword = Value(d.provider, "password")
          /\ TargetFor(d, base).adminPasswordEnv = Value(d.provider, "password_env")
          /\ TargetFor(d, base).database = Value(d.provider, "database")
          /\ TargetFor(d, base).targetUser = Value(d.provider, "target_user")
          /\ TargetFor(d, base).targetUserHost = Value(d.provider, "target_user_host")
      BY TargetKeys, Zenon
    <3>2. /\ TargetFor(e, base).host = Value(e.provider, "host")
          /\ TargetFor(e, base).adminUser = Value(e.provider, "username")
          /\ TargetFor(e, base).adminPassword = Value(e.provider, "password")
          /\ TargetFor(e, base).adminPasswordEnv = Value(e.provider, "password_env")
          /\ TargetFor(e, base).database = Value(e.provider, "database")
          /\ TargetFor(e, base).targetUser = Value(e.provider, "target_user")
          /\ TargetFor(e, base).targetUserHost = Value(e.provider, "target_user_host")
      BY TargetKeys, Zenon
    <3>3. QED
      BY <1>2, <3>1, <3>2
  <2>2. QED
    BY <1>3, <1>4, <2>1, Zenon
<1>5. CASE key = "port"
  <2> DEFINE text == Value(d.provider, "port")
  <2>1. text # "" /\ Value(e.provider, "port") = ""
    BY <1>3, <1>5, Zenon
  <2>2. IsNumber(text)
    BY <2>1, Zenon DEF Translatable
  <2>3. TargetFor(d, base).port = NumberOr(text, 0)
        /\ TargetFor(e, base).port = NumberOr(Value(e.provider, "port"), 0)
    BY TargetKeys, Zenon
  <2>4. NumberOr(text, 0) = Numbers[text] /\ NumberOr(Value(e.provider, "port"), 0) = 0
    BY <2>1, Zenon DEF NumberOr
  <2>5. Numbers[text] # 0
    BY <2>2, NumbersArePositive, Zenon
  <2>6. QED
    BY <1>2, <2>3, <2>4, <2>5, Zenon
<1>6. CASE key = "length"
  <2>1. LengthFor(e) = e.length
    BY <1>3, <1>6, Zenon DEF LengthFor, NumberOr
  <2>2. QED
    BY <1>2, <1>6, <2>1, Zenon
<1>7. key \in {"host", "username", "password", "password_env", "database",
               "target_user", "target_user_host"} \/ key = "port" \/ key = "length"
  BY DEF ProviderKeys
<1>8. QED
  BY <1>4, <1>5, <1>6, <1>7, Zenon

\* Every key that is set counts.
LEMMA KeysCount ==
  ASSUME NEW def, DefinitionOK(def), NEW base, NEW place, NEW key \in DOMAIN def.provider,
         Given(def.provider, key), key = "length" => ~ SameLength(def),
         Acceptable(Normalize(def, base), base)
  PROVE  LET p == def.provider
             q == Without(p, key)
             d == Normalize(def, base)
             e == Normalize(Replaced(def, q), base)
         IN  \/ NewSecret(d, base) # NewSecret(e, base)
             \/ WarningsAbout(p, d, base, place) # WarningsAbout(q, e, base, place)
<1> DEFINE p == def.provider
           q == Without(p, key)
           d == Normalize(def, base)
           e == Normalize(Replaced(def, q), base)
<1>1. /\ d.provider = CanonicalProvider(p) /\ e.provider = CanonicalProvider(q)
      /\ d.length = def.length /\ e.length = def.length
  BY ReplacedIs
<1>2. Given(p, key) /\ ~ Given(q, key) /\ key \in DOMAIN p /\ key \notin DOMAIN q
      /\ \A k : k # key => Value(q, k) = Value(p, k)
  BY WithoutIs DEF Given
<1>3. Translatable(d)
  BY SecretIs
<1> HIDE DEF p, q, d, e
<1>4. CASE key \in DOMAIN CanonicalKey
  <2>1. WarningsAbout(p, d, base, place) # WarningsAbout(q, e, base, place)
    BY <1>2, <1>4, DeprecatedIsWarned
  <2>2. QED
    BY <2>1 DEF p, q, d, e
<1>5. CASE \E o \in DOMAIN CanonicalKey : CanonicalKey[o] = key /\ Given(p, o)
  <2>1. PICK o \in DOMAIN CanonicalKey : CanonicalKey[o] = key /\ Given(p, o)
    BY <1>5
  <2>2. WarningsAbout(p, d, base, place) # WarningsAbout(q, e, base, place)
    BY <1>2, <2>1, BothAreWarned
  <2>3. QED
    BY <2>2 DEF p, q, d, e
<1>6. CASE /\ key \notin DOMAIN CanonicalKey
           /\ \A o \in DOMAIN CanonicalKey : CanonicalKey[o] = key => ~ Given(p, o)
  <2>1. \A o \in DOMAIN CanonicalKey : CanonicalKey[o] = key => ~ Given(q, o)
    BY <1>2, <1>6, DeprecatedKeys DEF Given
  <2>2. /\ \A o \in Taken(p) : CanonicalKey[o] # key
        /\ \A o \in Taken(q) : CanonicalKey[o] # key
    BY <1>6, <2>1, Zenon DEF Taken, Moved, Given
  <2>3. /\ Value(d.provider, key) = Value(p, key) /\ (key \in DOMAIN d.provider <=> key \in DOMAIN p)
        /\ Value(e.provider, key) = Value(q, key) /\ (key \in DOMAIN e.provider <=> key \in DOMAIN q)
    <3>1. Value(CanonicalProvider(p), key) = Value(p, key)
          /\ (key \in DOMAIN CanonicalProvider(p) <=> key \in DOMAIN p)
      BY <1>6, <2>2, CanonicalKeeps
    <3>2. Value(CanonicalProvider(q), key) = Value(q, key)
          /\ (key \in DOMAIN CanonicalProvider(q) <=> key \in DOMAIN q)
      BY <1>6, <2>2, CanonicalKeeps
    <3>3. QED
      BY <1>1, <3>1, <3>2
  <2>4. Given(d.provider, key) /\ ~ Given(e.provider, key)
    BY <1>2, <2>3, Zenon DEF Given
  <2>5. CASE key \in ProviderKeys
    <3>1. key = "length" => PasswordLength(LengthFor(d)) # PasswordLength(e.length)
      <4>1. key = "length" => LengthFor(d) = LengthFor(def)
        BY <1>1, <2>3, Zenon DEF LengthFor, p
      <4>2. QED
        BY <1>1, <4>1, Zenon DEF SameLength
    <3>2. NewSecret(d, base) # NewSecret(e, base)
      BY <1>3, <2>4, <2>5, <3>1, KnownKeyCounts, Zenon
    <3>3. QED
      BY <3>2 DEF p, q, d, e
  <2>6. CASE key \notin ProviderKeys
    <3>1. key \in DOMAIN d.provider /\ key \notin DOMAIN e.provider
      BY <1>2, <2>3, Zenon
    <3>2. WarningsAbout(p, d, base, place) # WarningsAbout(q, e, base, place)
      BY <2>6, <3>1, UnknownIsWarned, Zenon
    <3>3. QED
      BY <3>2 DEF p, q, d, e
  <2>7. QED
    BY <2>5, <2>6
<1>7. QED
  BY <1>4, <1>5, <1>6

\* So a load without the key is another load.
LEMMA KeyCountsForLoad ==
  ASSUME NEW i, ConfigurationInput(i), Len(i.definitions) = 1,
         Loaded(i.definitions, i.place).ok,
         NEW key \in DOMAIN i.definitions[1].provider,
         Given(i.definitions[1].provider, key),
         key = "length" => ~ SameLength(i.definitions[1])
  PROVE  Loaded(i.definitions, i.place) #
           Loaded(<<Replaced(i.definitions[1], Without(i.definitions[1].provider, key))>>, i.place)
<1> DEFINE def == i.definitions[1]
           base == ConfigDir(Discover(i.place))
           p == def.provider
           q == Without(p, key)
           reduced == Replaced(def, q)
           single == <<reduced>>
           d == Normalize(def, base)
           e == Normalize(reduced, base)
           loaded == Loaded(i.definitions, i.place)
           other == Loaded(single, i.place)
           found == Discover(i.place).kind = "found"
<1>1. DOMAIN i.definitions = 1..1 /\ DefinitionOK(def)
  <2>1. DOMAIN i.definitions = 1..1
    BY DEF ConfigurationInput
  <2>2. 1 \in 1..1
    OBVIOUS
  <2>3. QED
    BY <2>1, <2>2, Zenon DEF ConfigurationInput
<1>2. IF found /\ Acceptable(d, base)
        THEN /\ loaded.ok = TRUE
             /\ loaded.secrets = [k \in 1..1 |-> NewSecret(d, base)]
             /\ loaded.warnings = WarningsAbout(p, d, base, i.place)
        ELSE loaded.ok = FALSE /\ loaded.secrets = <<>>
  BY <1>1, LoadOne, Zenon
<1>3. found /\ Acceptable(d, base)
  <2> HIDE DEF loaded, d, found
  <2>1. loaded.ok
    BY DEF loaded
  <2>2. QED
    BY <1>2, <2>1, Zenon
<1>4. \/ NewSecret(d, base) # NewSecret(e, base)
      \/ WarningsAbout(p, d, base, i.place) # WarningsAbout(q, e, base, i.place)
  BY <1>1, <1>3, KeysCount
<1>5. reduced.provider = q
  BY <1>1, ReplacedIs
<1> HIDE DEF q, d, e, loaded, other, reduced, found, base
<1>6. DOMAIN single = 1..1 /\ single[1] = reduced
  OBVIOUS
<1> HIDE DEF single
<1>7. IF found /\ Acceptable(e, base)
        THEN /\ other.ok = TRUE
             /\ other.secrets = [k \in 1..1 |-> NewSecret(e, base)]
             /\ other.warnings = WarningsAbout(q, e, base, i.place)
        ELSE other.ok = FALSE /\ other.secrets = <<>>
  <2>1. Normalize(single[1], base) = e /\ single[1].provider = q
    BY <1>5, <1>6, Zenon DEF e
  <2>2. QED
    BY <1>6, <2>1, LoadOne, ZenonT(60) DEF other, found, base
<1>8. loaded # other
  <2> SUFFICES ASSUME loaded = other PROVE FALSE
    OBVIOUS
  <2>1. found /\ Acceptable(e, base)
    BY <1>2, <1>3, <1>7, Zenon
  <2>2. /\ [k \in 1..1 |-> NewSecret(d, base)] = [k \in 1..1 |-> NewSecret(e, base)]
        /\ WarningsAbout(p, d, base, i.place) = WarningsAbout(q, e, base, i.place)
    BY <1>2, <1>3, <1>7, <2>1, Zenon
  <2>3. \A x, y : [k \in 1..1 |-> x] = [k \in 1..1 |-> y] => x = y
    <3> SUFFICES ASSUME NEW x, NEW y, [k \in 1..1 |-> x] = [k \in 1..1 |-> y]
                 PROVE  x = y
      OBVIOUS
    <3>1. 1 \in 1..1
      OBVIOUS
    <3>2. [k \in 1..1 |-> x][1] = x /\ [k \in 1..1 |-> y][1] = y
      BY <3>1, Zenon
    <3>3. QED
      BY <3>2, Zenon
  <2>4. NewSecret(d, base) = NewSecret(e, base)
    BY <2>2, <2>3, Zenon
  <2>5. QED
    BY <1>4, <2>2, <2>4, Zenon
<1>9. QED
  BY <1>8, Zenon DEF loaded, other, single, reduced, q

=============================================================================
