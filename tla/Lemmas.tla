-------------------------------- MODULE Lemmas -------------------------------
(***************************************************************************)
(* Lemmas several proofs use: induction on a set instead of a predicate,   *)
(* recursion over a finite set, folds seen as runs, and the clockwise      *)
(* order of seats, for every table size.                                   *)
(***************************************************************************)
EXTENDS Seats, FiniteSetsExt, FiniteSetTheorems, WellFoundedInduction, TLAPS

-----------------------------------------------------------------------------
(* Induction, on a set instead of a predicate *)

\* A non-empty set of naturals has a least element.
LEMMA LeastNumber ==
  ASSUME NEW S \in SUBSET Nat, S # {}
  PROVE  \E n \in S : \A m \in S : n <= m
<1> DEFINE Less == {p \in Nat \X Nat : p[1] < p[2]}
<1>1. IsWellFoundedOn(Less, Nat)
  BY NatLessThanWellFounded, Zenon DEF OpToRel
<1>2. \E n \in S : \A m \in S : ~(<<m, n>> \in Less)
  <2> HIDE DEF Less
  <2> QED BY <1>1, WFMin, Zenon
<1>3. \A m, n \in Nat : <<m, n>> \notin Less => n <= m
  OBVIOUS
<1> HIDE DEF Less
<1> QED
  BY <1>2, <1>3

\* What holds of 0, and of n + 1 when it holds of n, holds of every natural.
LEMMA CountingUp ==
  ASSUME NEW P \in SUBSET Nat, 0 \in P, \A n \in P : n + 1 \in P
  PROVE  P = Nat
<1>1. SUFFICES ASSUME P # Nat PROVE FALSE
  OBVIOUS
<1>2. PICK n \in Nat \ P : \A m \in Nat \ P : n <= m
  BY <1>1, LeastNumber
<1>3. n - 1 \in P
  BY <1>2
<1> QED
  BY <1>2, <1>3

-----------------------------------------------------------------------------
(* Recursion over a finite set, which is what the folds are made of *)

\* g takes a subset of S apart, the element pick chooses first, and puts its value
\* in V together with step.
Iteration(g, S, V, base, pick, step) ==
  /\ g \in [SUBSET S -> V]
  /\ g[{}] = base
  /\ \A s \in SUBSET S : s # {} => g[s] = step[<<pick[s], g[s \ {pick[s]}]>>]

\* Such a function exists.
LEMMA Iterates ==
  ASSUME NEW S, IsFiniteSet(S), NEW V, NEW base \in V,
         NEW pick, \A s \in SUBSET S : s # {} => pick[s] \in s,
         NEW step, \A x \in S, v \in V : step[<<x, v>>] \in V
  PROVE  \E g : Iteration(g, S, V, base, pick, step)
<1> DEFINE Next(g, s) == IF s = {} THEN base ELSE step[<<pick[s], g[s \ {pick[s]}]>>]
           Right(g, n) == \A s \in SUBSET S : Cardinality(s) <= n => g[s] = Next(g, s)
           P == {n \in Nat : \E g \in [SUBSET S -> V] : Right(g, n)}
<1>1. \A s \in SUBSET S : IsFiniteSet(s) /\ Cardinality(s) \in Nat
  BY FS_Subset, FS_CardinalityType
<1>2. \A s \in SUBSET S : s # {} =>
        /\ pick[s] \in S /\ s \ {pick[s]} \in SUBSET S
        /\ Cardinality(s \ {pick[s]}) = Cardinality(s) - 1
  BY <1>1, FS_RemoveElement
<1>3. 0 \in P
  <2>1. [s \in SUBSET S |-> base] \in [SUBSET S -> V]
    OBVIOUS
  <2>2. \A s \in SUBSET S : Cardinality(s) <= 0 => s = {}
    BY <1>1, FS_EmptySet
  <2>3. Right([s \in SUBSET S |-> base], 0)
    BY <2>2
  <2> QED BY <2>1, <2>3
<1>4. ASSUME NEW n \in P PROVE n + 1 \in P
  <2>1. PICK g \in [SUBSET S -> V] : Right(g, n)
    OBVIOUS
  <2> DEFINE h == [s \in SUBSET S |-> Next(g, s)]
  <2>2. h \in [SUBSET S -> V]
    BY <1>2
  <2>3. ASSUME NEW s \in SUBSET S, Cardinality(s) <= n + 1
        PROVE  h[s] = Next(h, s)
    <3>1. CASE s = {}
      BY <3>1
    <3>2. CASE s # {}
      <4> DEFINE t == s \ {pick[s]}
      <4>1. t \in SUBSET S /\ Cardinality(t) <= n
        BY <1>1, <1>2, <2>3, <3>2
      <4>2. h[t] = g[t]
        <5> HIDE DEF t
        <5> QED BY <2>1, <4>1
      <4> QED BY <3>2, <4>2
    <3> QED BY <3>1, <3>2
  <2>4. Right(h, n + 1)
    BY <2>3
  <2> QED
    <3> HIDE DEF h, Right
    <3> QED BY <2>2, <2>4
<1>5. P = Nat
  <2> HIDE DEF P
  <2>1. P \in SUBSET Nat
    BY DEF P
  <2> QED BY <1>3, <1>4, <2>1, CountingUp
<1>6. PICK g \in [SUBSET S -> V] : Right(g, Cardinality(S))
  BY <1>1, <1>5
<1>7. \A s \in SUBSET S : Cardinality(s) <= Cardinality(S)
  BY FS_Subset
<1> QED
  BY <1>6, <1>7 DEF Iteration

\* What holds of the empty set, and of a set when it holds without the element
\* pick chooses, holds of every subset.
LEMMA TakingApart ==
  ASSUME NEW S, IsFiniteSet(S),
         NEW pick, \A s \in SUBSET S : s # {} => pick[s] \in s,
         NEW P \in SUBSET SUBSET S, {} \in P,
         \A s \in SUBSET S : s # {} /\ s \ {pick[s]} \in P => s \in P
  PROVE  P = SUBSET S
<1>1. \A s \in SUBSET S : IsFiniteSet(s) /\ Cardinality(s) \in Nat
  BY FS_Subset, FS_CardinalityType
<1>2. SUFFICES ASSUME P # SUBSET S PROVE FALSE
  OBVIOUS
<1> DEFINE Sizes == {Cardinality(s) : s \in (SUBSET S) \ P}
<1>3. Sizes \in SUBSET Nat /\ Sizes # {}
  BY <1>1, <1>2
<1>4. PICK n \in Sizes : \A m \in Sizes : n <= m
  <2> HIDE DEF Sizes
  <2> QED BY <1>3, LeastNumber
<1>5. PICK s \in (SUBSET S) \ P : n = Cardinality(s)
  OBVIOUS
<1> DEFINE t == s \ {pick[s]}
<1>6. t \in SUBSET S /\ t \notin P
  BY <1>5
<1>7. Cardinality(t) = Cardinality(s) - 1
  BY <1>1, <1>5, FS_RemoveElement
<1> QED
  BY <1>1, <1>4, <1>5, <1>6, <1>7

-----------------------------------------------------------------------------
(* Folding a sequence from the left, seen as a run through its elements *)

\* acc[k] is what the fold has made of the first k of n elements, in the end result.
Run(acc, n, V, base, step, result) ==
  /\ acc \in [0 .. n -> V]
  /\ acc[0] = base
  /\ \A k \in 1 .. n : acc[k] = step[<<k, acc[k - 1]>>]
  /\ acc[n] = result

\* The element FoldLeft takes off next: the last one.
Latest == [s \in SUBSET Nat |-> Max(s)]

\* It is one of the elements left, and the k-th of the first k.
LEMMA LatestOf ==
  ASSUME NEW n \in Nat
  PROVE  /\ IsFiniteSet(1 .. n)
         /\ \A s \in SUBSET (1 .. n) : s # {} => Max(s) \in s /\ Latest[s] = Max(s)
         /\ \A k \in 1 .. n : Max(1 .. k) = k /\ (1 .. k) \ {k} = 1 .. k - 1
<1>1. IsFiniteSet(1 .. n)
  BY FS_Interval
<1>2. ASSUME NEW s \in SUBSET (1 .. n), s # {} PROVE Max(s) \in s /\ Latest[s] = Max(s)
  <2> DEFINE gaps == {n - k : k \in s}
  <2>1. gaps \in SUBSET Nat /\ gaps # {}
    <3>1. \A k \in s : n - k \in Nat
      OBVIOUS
    <3> QED BY <1>2, <3>1
  <2>2. \E g \in gaps : \A h \in gaps : g <= h
    <3> HIDE DEF gaps
    <3> QED BY <2>1, LeastNumber
  <2>3. \E k \in s : \A m \in s : k >= m
    BY <2>2
  <2>4. s \in SUBSET Nat
    OBVIOUS
  <2> QED BY <2>3, <2>4 DEF Max, Latest
<1>3. ASSUME NEW k \in 1 .. n PROVE Max(1 .. k) = k /\ (1 .. k) \ {k} = 1 .. k - 1
  <2>1. \A m \in 1 .. k : (\A y \in 1 .. k : m >= y) => m = k
    OBVIOUS
  <2>2. k \in 1 .. k /\ \A y \in 1 .. k : k >= y
    OBVIOUS
  <2> QED BY <2>1, <2>2 DEF Max
<1> QED
  BY <1>1, <1>2, <1>3

\* The fold of a step function exists.
LEMMA FoldExists ==
  ASSUME NEW n \in Nat, NEW V, NEW base \in V,
         NEW step, \A k \in 1 .. n, v \in V : step[<<k, v>>] \in V
  PROVE  \E g : Iteration(g, 1 .. n, V, base, Latest, step)
<1>1. IsFiniteSet(1 .. n)
  BY LatestOf
<1>2. \A s \in SUBSET (1 .. n) : s # {} => Latest[s] \in s
  BY LatestOf
<1> QED
  BY <1>1, <1>2, Iterates

\* The recursion of FoldLeft, as long as it stays in V.
Folds(g, n, V, base, step) ==
  /\ g[{}] = base
  /\ \A s \in SUBSET (1 .. n) :
       s # {} /\ g[s \ {Max(s)}] \in V => g[s] = step[<<Max(s), g[s \ {Max(s)}]>>]

\* And every function that folds, as its recursion says, goes through a run.
LEMMA FoldRuns ==
  ASSUME NEW n \in Nat, NEW V, NEW base \in V,
         NEW step, \A k \in 1 .. n, v \in V : step[<<k, v>>] \in V,
         NEW g, Folds(g, n, V, base, step)
  PROVE  \E acc : Run(acc, n, V, base, step, g[1 .. n])
<1> DEFINE P == {k \in Nat : k <= n => g[1 .. k] \in V}
           acc == [k \in 0 .. n |-> g[1 .. k]]
<1>1. \A k \in 1 .. n : g[1 .. k - 1] \in V => g[1 .. k] = step[<<k, g[1 .. k - 1]>>]
  <2> TAKE k \in 1 .. n
  <2>1. (1 .. k) \in SUBSET (1 .. n) /\ (1 .. k) # {}
    OBVIOUS
  <2>2. Max(1 .. k) = k /\ (1 .. k) \ {k} = 1 .. k - 1
    BY LatestOf
  <2> QED BY <2>1, <2>2 DEF Folds
<1>2. 1 .. 0 = {}
  OBVIOUS
<1>3. 0 \in P
  BY <1>2 DEF Folds
<1>4. ASSUME NEW k \in P PROVE k + 1 \in P
  <2>1. k \in Nat /\ (k + 1) - 1 = k
    OBVIOUS
  <2>2. CASE k + 1 <= n
    <3>1. g[1 .. k] \in V /\ k + 1 \in 1 .. n
      BY <2>2
    <3>2. g[1 .. k + 1] = step[<<k + 1, g[1 .. k]>>]
      BY <1>1, <2>1, <3>1
    <3> QED BY <3>1, <3>2
  <2> QED BY <2>1, <2>2
<1>5. P = Nat
  <2>1. P \in SUBSET Nat
    OBVIOUS
  <2> HIDE DEF P
  <2> QED BY <1>3, <1>4, <2>1, CountingUp
<1>6. \A k \in 0 .. n : g[1 .. k] \in V
  BY <1>5
<1>7. Run(acc, n, V, base, step, g[1 .. n])
  <2>1. acc \in [0 .. n -> V]
    BY <1>6
  <2>2. acc[0] = base
    BY <1>2 DEF Folds
  <2>3. ASSUME NEW k \in 1 .. n PROVE acc[k] = step[<<k, acc[k - 1]>>]
    <3>1. k - 1 \in 0 .. n /\ k \in 0 .. n
      OBVIOUS
    <3> QED BY <1>1, <1>6, <3>1
  <2>4. acc[n] = g[1 .. n]
    OBVIOUS
  <2> HIDE DEF acc
  <2> QED BY <2>1, <2>2, <2>3, <2>4 DEF Run
<1> HIDE DEF acc
<1> QED
  BY <1>7

\* What a step function says of each number up to n, some function does.
LEMMA RunExists ==
  ASSUME NEW n \in Nat, NEW V, NEW base \in V,
         NEW step, \A k \in 1 .. n, v \in V : step[<<k, v>>] \in V
  PROVE  \E acc : Run(acc, n, V, base, step, acc[n])
<1>1. PICK g : Iteration(g, 1 .. n, V, base, Latest, step)
  BY FoldExists
<1>2. \A s \in SUBSET (1 .. n) : s # {} => Latest[s] = Max(s)
  BY LatestOf
<1>3. Folds(g, n, V, base, step)
  BY <1>1, <1>2 DEF Iteration, Folds
<1>4. PICK acc : Run(acc, n, V, base, step, g[1 .. n])
  BY <1>3, FoldRuns
<1> QED
  BY <1>4 DEF Run

-----------------------------------------------------------------------------
(* The clockwise order *)

\* Going once round the table from any seat takes fewer steps than there are seats.
LEMMA DistanceType ==
  ASSUME NEW from \in Seat, NEW i \in Seat
  PROVE  Distance(from, i) \in Nat
BY SeatCount DEF Seat, Distance

\* The neighbour of a seat is a seat.
LEMMA NextSeatType == \A i \in Seat : NextSeat(i) \in Seat
BY SeatCount DEF Seat, NextSeat

\* The clockwise search finds a seat of a non-empty set and NoSeat otherwise.
LEMMA FirstOfFinds ==
  ASSUME NEW S, S \subseteq Seat, NEW from \in Seat
  PROVE  /\ S = {} => FirstOf(S, from) = NoSeat
         /\ S # {} => FirstOf(S, from) \in S
<1>1. ASSUME S # {} PROVE FirstOf(S, from) \in S
  <2> DEFINE D == {Distance(from, i) : i \in S}
  <2>1. D \in SUBSET Nat /\ D # {}
    BY <1>1, DistanceType
  <2>2. \E d \in D : \A e \in D : d <= e
    <3> HIDE DEF D
    <3> QED BY <2>1, LeastNumber
  <2>3. \E i \in S : \A j \in S : Distance(from, i) <= Distance(from, j)
    BY <2>2
  <2>4. QED
    BY <1>1, <2>3 DEF FirstOf
<1>2. QED
  BY <1>1 DEF FirstOf
=============================================================================
