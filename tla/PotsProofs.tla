------------------------------ MODULE PotsProofs ------------------------------
(***************************************************************************)
(* No chip is lost or made when the chips of a hand are split into pots    *)
(* and the pots are paid out: lemmas about Pots, for every table size and  *)
(* every amount.                                                           *)
(***************************************************************************)
EXTENDS Pots, Lemmas

-----------------------------------------------------------------------------
(* Chips of all seats *)

\* The chips a table of seats holds in all.
Chips(f) == FoldFunction(+, 0, f)

\* There are finitely many seats.
LEMMA SeatsFinite == IsFiniteSet(Seat)
BY SeatCount, FS_Interval DEF Seat

\* Some seat of a set of seats.
One(s) == CHOOSE i \in s : TRUE

\* Induction over the sets of seats, one seat at a time.
LEMMA SeatBySeat ==
  ASSUME NEW P \in SUBSET SUBSET Seat, {} \in P,
         \A s \in SUBSET Seat : s # {} /\ s \ {One(s)} \in P => s \in P
  PROVE  P = SUBSET Seat
<1> DEFINE pick == [s \in SUBSET Seat |-> One(s)]
<1>1. \A s \in SUBSET Seat : s # {} => pick[s] \in s
  BY DEF One
<1>2. ASSUME NEW s \in SUBSET Seat, s # {}, s \ {pick[s]} \in P PROVE s \in P
  BY <1>2
<1> HIDE DEF pick
<1>3. P \in SUBSET SUBSET Seat /\ {} \in P
  OBVIOUS
<1> QED
  BY ONLY <1>1, <1>2, <1>3, SeatsFinite, TakingApart, SMTT(30)

\* The sum is built by taking one seat after the other out of the table.
LEMMA ChipsTable ==
  ASSUME NEW f \in [Seat -> Int]
  PROVE  \E sum \in [SUBSET Seat -> Int] :
           /\ Chips(f) = sum[Seat]
           /\ sum[{}] = 0
           /\ \A s \in SUBSET Seat : s # {} => sum[s] = f[One(s)] + sum[s \ {One(s)}]
<1> DEFINE pick == [s \in SUBSET Seat |-> One(s)]
           step == [p \in Seat \X Int |-> f[p[1]] + p[2]]
           Sums(g) == g = [s \in SUBSET Seat |->
                             IF s = {} THEN 0
                             ELSE LET x == CHOOSE x \in s : TRUE IN f[x] + g[s \ {x}]]
           sum == CHOOSE g : Sums(g)
<1>1. \A s \in SUBSET Seat : s # {} => One(s) \in s /\ One(s) \in Seat
  BY DEF One
<1>2. PICK g : Iteration(g, Seat, Int, 0, pick, step)
  <2>2. \A s \in SUBSET Seat : s # {} => pick[s] \in s
    BY <1>1
  <2>3. \A x \in Seat, v \in Int : step[<<x, v>>] \in Int
    OBVIOUS
  <2>4. 0 \in Int
    OBVIOUS
  <2> HIDE DEF pick, step
  <2> QED BY <2>2, <2>3, <2>4, SeatsFinite, Iterates
<1>3. \A s \in SUBSET Seat : g[s] = IF s = {} THEN 0 ELSE f[One(s)] + g[s \ {One(s)}]
  <2> TAKE s \in SUBSET Seat
  <2>1. s # {} => g[s \ {One(s)}] \in Int
    BY <1>2 DEF Iteration
  <2> QED BY <1>1, <1>2, <2>1 DEF Iteration
<1>4. Sums(g)
  BY <1>2, <1>3 DEF One, Iteration
<1>5. Sums(sum)
  BY <1>4
<1>6. Chips(f) = sum[DOMAIN f]
  BY DEF Chips, FoldFunction, FoldFunctionOnSet, MapThenFoldSet
<1>7. sum = [s \in SUBSET Seat |-> IF s = {} THEN 0 ELSE f[One(s)] + sum[s \ {One(s)}]]
  <2> HIDE DEF sum
  <2> QED BY <1>5 DEF One
<1> HIDE DEF sum
<1>8. /\ DOMAIN sum = SUBSET Seat
      /\ sum[{}] = 0
      /\ \A s \in SUBSET Seat : s # {} => sum[s] = f[One(s)] + sum[s \ {One(s)}]
  BY <1>7
<1>9. \A s \in SUBSET Seat : sum[s] \in Int
  <2> DEFINE P == {s \in SUBSET Seat : sum[s] \in Int}
  <2>1. P \in SUBSET SUBSET Seat
    OBVIOUS
  <2>2. {} \in P
    BY <1>8
  <2>3. ASSUME NEW s \in SUBSET Seat, s # {}, s \ {One(s)} \in P PROVE s \in P
    <3>1. s \ {One(s)} \in SUBSET Seat /\ One(s) \in Seat
      BY <1>1, <2>3
    <3> QED BY <1>8, <2>3, <3>1
  <2>4. P = SUBSET Seat
    <3> HIDE DEF P
    <3> QED BY <2>1, <2>2, <2>3, SeatBySeat
  <2> QED BY <2>4
<1>10. sum \in [SUBSET Seat -> Int]
  BY <1>7, <1>9
<1> QED
  BY <1>6, <1>8, <1>10

\* The chips of all seats are a number.
LEMMA ChipsInt == \A f \in [Seat -> Int] : Chips(f) \in Int
<1> TAKE f \in [Seat -> Int]
<1>1. PICK sum \in [SUBSET Seat -> Int] : Chips(f) = sum[Seat]
  BY ChipsTable
<1> QED
  BY <1>1

\* Sums of sums.
LEMMA ChipsAdd ==
  ASSUME NEW f \in [Seat -> Int], NEW g \in [Seat -> Int],
         NEW h \in [Seat -> Int], \A i \in Seat : h[i] = f[i] + g[i]
  PROVE  Chips(h) = Chips(f) + Chips(g)
<1>1. PICK F \in [SUBSET Seat -> Int] :
           /\ Chips(f) = F[Seat]
           /\ F[{}] = 0
           /\ \A s \in SUBSET Seat : s # {} => F[s] = f[One(s)] + F[s \ {One(s)}]
  BY ChipsTable
<1>2. PICK G \in [SUBSET Seat -> Int] :
           /\ Chips(g) = G[Seat]
           /\ G[{}] = 0
           /\ \A s \in SUBSET Seat : s # {} => G[s] = g[One(s)] + G[s \ {One(s)}]
  BY ChipsTable
<1>3. PICK H \in [SUBSET Seat -> Int] :
           /\ Chips(h) = H[Seat]
           /\ H[{}] = 0
           /\ \A s \in SUBSET Seat : s # {} => H[s] = h[One(s)] + H[s \ {One(s)}]
  BY ChipsTable
<1> DEFINE P == {s \in SUBSET Seat : H[s] = F[s] + G[s]}
<1>4. {} \in P
  BY <1>1, <1>2, <1>3
<1>5. ASSUME NEW s \in SUBSET Seat, s # {}, s \ {One(s)} \in P PROVE s \in P
  <2> DEFINE i == One(s)
             t == s \ {One(s)}
  <2>1. i \in Seat /\ t \in SUBSET Seat
    BY <1>5 DEF One
  <2>2. F[s] = f[i] + F[t] /\ G[s] = g[i] + G[t] /\ H[s] = h[i] + H[t] /\ H[t] = F[t] + G[t]
    BY <1>1, <1>2, <1>3, <1>5
  <2> HIDE DEF i, t
  <2>3. F[t] \in Int /\ G[t] \in Int /\ f[i] \in Int /\ g[i] \in Int /\ h[i] = f[i] + g[i]
    BY <1>1, <1>2, <2>1
  <2> QED BY <2>2, <2>3
<1>6. P = SUBSET Seat
  <2>1. P \in SUBSET SUBSET Seat
    OBVIOUS
  <2> HIDE DEF P
  <2> QED BY <1>4, <1>5, <2>1, SeatBySeat
<1> QED
  BY <1>1, <1>2, <1>3, <1>6

\* The same amount of some seats, nothing of the others.
LEMMA ChipsOfSome ==
  ASSUME NEW n \in Nat, NEW A \in SUBSET Seat,
         NEW f \in [Seat -> Int], \A i \in Seat : f[i] = IF i \in A THEN n ELSE 0
  PROVE  Chips(f) = n * Cardinality(A)
<1>1. PICK F \in [SUBSET Seat -> Int] :
           /\ Chips(f) = F[Seat]
           /\ F[{}] = 0
           /\ \A s \in SUBSET Seat : s # {} => F[s] = f[One(s)] + F[s \ {One(s)}]
  BY ChipsTable
<1>2. \A s \in SUBSET Seat : IsFiniteSet(s \cap A) /\ Cardinality(s \cap A) \in Nat
  BY SeatsFinite, FS_Subset, FS_CardinalityType
<1> DEFINE P == {s \in SUBSET Seat : F[s] = n * Cardinality(s \cap A)}
<1>3. {} \in P
  BY <1>1, FS_EmptySet
<1>4. ASSUME NEW s \in SUBSET Seat, s # {}, s \ {One(s)} \in P PROVE s \in P
  <2> DEFINE i == One(s)
             c == Cardinality((s \ {i}) \cap A)
  <2>1. i \in s /\ i \in Seat
    BY <1>4 DEF One
  <2>2. F[s] = f[i] + n * c
    BY <1>1, <1>4
  <2>3. c \in Nat
    BY <1>2
  <2>4. Cardinality(s \cap A) = IF i \in A THEN c + 1 ELSE c
    <3>1. (s \ {i}) \cap A = (s \cap A) \ {i}
      OBVIOUS
    <3>2. Cardinality((s \cap A) \ {i}) =
            IF i \in s \cap A THEN Cardinality(s \cap A) - 1 ELSE Cardinality(s \cap A)
      BY <1>2, FS_RemoveElement
    <3>3. Cardinality(s \cap A) \in Nat
      BY <1>2
    <3>4. c = Cardinality((s \cap A) \ {i}) /\ (i \in s \cap A <=> i \in A)
      BY <2>1, <3>1
    <3> HIDE DEF c, i
    <3> QED BY <3>2, <3>3, <3>4
  <2> HIDE DEF c, i
  <2>5. n * (c + 1) = n + n * c /\ 0 + n * c = n * c
    BY <2>3
  <2> QED BY <2>1, <2>2, <2>4, <2>5
<1>5. P = SUBSET Seat
  <2>1. P \in SUBSET SUBSET Seat
    OBVIOUS
  <2> HIDE DEF P
  <2> QED BY <1>3, <1>4, <2>1, SeatBySeat
<1>6. Seat \cap A = A
  OBVIOUS
<1> QED
  BY <1>1, <1>5, <1>6

-----------------------------------------------------------------------------
(* Splitting an amount evenly, odd chips first come first served *)

\* The seats of W before i in the order key, and the r foremost of them.
Ahead(W, key, i) == {k \in W : key[k] < key[i]}

Foremost(W, key, r) == {i \in W : Cardinality(Ahead(W, key, i)) < r}

\* As many seats of W as one likes are among its foremost ones.
LEMMA ForemostCount ==
  ASSUME NEW W \in SUBSET Seat, NEW key \in [Seat -> Nat],
         \A i, j \in W : key[i] = key[j] => i = j,
         NEW r \in 0 .. Cardinality(W)
  PROVE  Cardinality(Foremost(W, key, r)) = r
<1>1. IsFiniteSet(W) /\ Cardinality(W) \in Nat
  BY SeatsFinite, FS_Subset, FS_CardinalityType
<1>2. \A S \in SUBSET W : IsFiniteSet(S) /\ Cardinality(S) \in Nat
  BY <1>1, FS_Subset, FS_CardinalityType
<1> DEFINE T(n) == Foremost(W, key, n)
           B(i) == Ahead(W, key, i)
           P == {n \in Nat : n <= Cardinality(W) => Cardinality(T(n)) = n}
<1>3. \A n : T(n) \in SUBSET W /\ \A i \in W : i \in T(n) <=> Cardinality(B(i)) < n
  BY DEF Foremost
<1>4. \A i \in W : B(i) \in SUBSET W /\ \A k \in W : k \in B(i) <=> key[k] < key[i]
  BY DEF Ahead
<1>5. \A i \in W : key[i] \in Nat
  OBVIOUS
<1> HIDE DEF T, B
<1>6. 0 \in P
  <2>1. T(0) = {}
    BY <1>2, <1>3, <1>4
  <2> QED BY <2>1, FS_EmptySet
<1>7. ASSUME NEW n \in P, n + 1 <= Cardinality(W)
      PROVE  Cardinality(T(n + 1)) = n + 1
  <2>1. n \in Nat /\ Cardinality(T(n)) = n
    BY <1>1, <1>7
  <2>2. W \ T(n) # {}
    BY <1>1, <1>3, <1>7, <2>1
  <2>3. PICK i \in W \ T(n) : \A j \in W \ T(n) : key[i] <= key[j]
    <3> DEFINE K == {key[j] : j \in W \ T(n)}
    <3>1. K \in SUBSET Nat /\ K # {}
      BY <1>5, <2>2
    <3>2. \E k \in K : \A m \in K : k <= m
      <4> HIDE DEF K
      <4> QED BY <3>1, LeastNumber
    <3> QED BY <3>2
  <2>4. B(i) = T(n)
    <3>1. ASSUME NEW k \in W, k \in B(i) PROVE k \in T(n)
      BY <1>4, <1>5, <2>3, <3>1
    <3>2. ASSUME NEW k \in W, k \in T(n), k \notin B(i) PROVE FALSE
      <4>1. key[i] < key[k]
        BY <1>4, <1>5, <2>3, <3>2
      <4>2. B(i) \subseteq B(k)
        BY <1>4, <1>5, <2>3, <4>1
      <4>3. Cardinality(B(i)) <= Cardinality(B(k))
        BY <1>2, <1>4, <2>3, <4>2, FS_Subset
      <4>4. Cardinality(B(k)) < n
        BY <1>3, <3>2
      <4>5. Cardinality(B(i)) \in Nat /\ Cardinality(B(k)) \in Nat
        BY <1>2, <1>4, <2>3
      <4>6. Cardinality(B(i)) < n
        BY <2>1, <4>3, <4>4, <4>5
      <4> QED BY <1>3, <2>3, <4>6
    <3> QED BY <1>3, <1>4, <2>3, <3>1, <3>2
  <2>5. i \in T(n + 1)
    BY <1>3, <2>1, <2>3, <2>4
  <2>6. \A k \in W : k \in T(n) => k \in T(n + 1)
    BY <1>2, <1>3, <1>4, <2>1
  <2>7. ASSUME NEW j \in W, j \in T(n + 1), j \notin T(n), j # i PROVE FALSE
    <3>1. key[i] < key[j]
      BY <1>5, <2>3, <2>7
    <3>2. B(i) \union {i} \subseteq B(j)
      BY <1>4, <1>5, <2>3, <3>1
    <3>3. Cardinality(B(i) \union {i}) = n + 1
      BY <1>2, <1>4, <2>1, <2>3, <2>4, FS_AddElement
    <3>4. n + 1 <= Cardinality(B(j))
      BY <1>2, <1>4, <3>2, <3>3, FS_Subset
    <3>5. Cardinality(B(j)) \in Nat /\ Cardinality(B(j)) < n + 1
      BY <1>2, <1>3, <1>4, <2>7
    <3> QED BY <2>1, <3>4, <3>5
  <2>8. T(n + 1) = T(n) \union {i}
    BY <1>3, <2>3, <2>5, <2>6, <2>7
  <2> QED
    BY <1>2, <1>3, <2>1, <2>3, <2>8, FS_AddElement
<1>8. P = Nat
  <2>1. P \in SUBSET Nat
    OBVIOUS
  <2>2. ASSUME NEW n \in P PROVE n + 1 \in P
    BY <1>7
  <2> HIDE DEF P
  <2> QED BY <1>6, <2>1, <2>2, CountingUp
<1> QED
  BY <1>1, <1>8 DEF T

\* Every place in the order of W is taken.
LEMMA EveryPlaceTaken ==
  ASSUME NEW W \in SUBSET Seat, NEW key \in [Seat -> Nat],
         \A i, j \in W : key[i] = key[j] => i = j,
         NEW k \in 1 .. Cardinality(W)
  PROVE  \E i \in W : Cardinality(Ahead(W, key, i)) = k - 1
<1>1. IsFiniteSet(W) /\ Cardinality(W) \in Nat
  BY SeatsFinite, FS_Subset, FS_CardinalityType
<1>2. /\ Cardinality(Foremost(W, key, k)) = k
      /\ Cardinality(Foremost(W, key, k - 1)) = k - 1
  <2>1. k \in 0 .. Cardinality(W) /\ k - 1 \in 0 .. Cardinality(W)
    BY <1>1
  <2> QED BY <2>1, ForemostCount
<1>3. \A i \in W : Cardinality(Ahead(W, key, i)) \in Nat
  BY <1>1, FS_Subset, FS_CardinalityType DEF Ahead
<1>4. ASSUME \A i \in W : Cardinality(Ahead(W, key, i)) # k - 1 PROVE FALSE
  <2>1. \A i \in W : Cardinality(Ahead(W, key, i)) < k <=> Cardinality(Ahead(W, key, i)) < k - 1
    BY <1>1, <1>3, <1>4
  <2>2. Foremost(W, key, k) = Foremost(W, key, k - 1)
    BY <2>1 DEF Foremost
  <2> QED BY <1>1, <1>2, <2>2
<1> QED
  BY <1>4

\* Division with remainder.
LEMMA Division ==
  ASSUME NEW n \in Nat, NEW c \in Nat \ {0}
  PROVE  n \div c \in Nat /\ n % c \in 0 .. c /\ n = ((n \div c) * c) + (n % c)
OBVIOUS

\* The shares add up to the amount that is split.
LEMMA SharesAddUp ==
  ASSUME NEW W \in SUBSET Seat, W # {}, NEW key \in [Seat -> Nat],
         \A i, j \in W : key[i] = key[j] => i = j,
         NEW n \in Nat, NEW f \in [Seat -> Int],
         \A i \in Seat : f[i] = IF i \in W THEN EvenShare(n, W, Ahead(W, key, i)) ELSE 0
  PROVE  Chips(f) = n
<1> DEFINE c == Cardinality(W)
           q == n \div c
           r == n % c
           T == Foremost(W, key, r)
           g == [i \in Seat |-> IF i \in W THEN q ELSE 0]
           h == [i \in Seat |-> IF i \in T THEN 1 ELSE 0]
<1>1. IsFiniteSet(W) /\ c \in Nat \ {0}
  BY SeatsFinite, FS_Subset, FS_CardinalityType, FS_EmptySet
<1>2. q \in Nat /\ r \in 0 .. c /\ n = (q * c) + r
  <2> HIDE DEF c
  <2> QED BY <1>1, Division
<1>3. Cardinality(T) = r
  <2> HIDE DEF r
  <2> QED BY <1>2, ForemostCount
<1>4. T \in SUBSET Seat /\ \A i \in W : i \in T <=> Cardinality(Ahead(W, key, i)) < r
  BY DEF Foremost
<1>5. \A i \in Seat : f[i] = g[i] + h[i]
  <2>1. \A i \in Seat : i \in T => i \in W
    BY DEF Foremost
  <2>2. \A i \in W : f[i] = q + IF i \in T THEN 1 ELSE 0
    BY <1>4 DEF EvenShare
  <2> HIDE DEF T, q
  <2> QED BY <1>2, <2>1, <2>2
<1> HIDE DEF T, q, r, c
<1>6. g \in [Seat -> Int] /\ h \in [Seat -> Int]
  BY <1>2
<1>7. Chips(g) = q * Cardinality(W)
  <2>1. \A i \in Seat : g[i] = IF i \in W THEN q ELSE 0
    OBVIOUS
  <2> HIDE DEF g
  <2> QED BY <1>2, <1>6, <2>1, ChipsOfSome
<1>8. Chips(h) = 1 * Cardinality(T)
  <2>1. \A i \in Seat : h[i] = IF i \in T THEN 1 ELSE 0
    OBVIOUS
  <2> HIDE DEF h
  <2> QED BY <1>4, <1>6, <2>1, ChipsOfSome
<1>9. Chips(f) = Chips(g) + Chips(h)
  <2> HIDE DEF g, h
  <2> QED BY <1>5, <1>6, ChipsAdd
<1> QED
  BY <1>2, <1>3, <1>7, <1>8, <1>9 DEF c

-----------------------------------------------------------------------------
(* The worth of a sequence of pots or layers *)

\* The amounts of s added up.
Worth(s) == FoldLeft(LAMBDA sum, pot : sum + pot.amount, 0, s)

\* Adding up the amounts is a run through the sequence.
LEMMA WorthRuns ==
  ASSUME NEW s, NEW n \in Nat, DOMAIN s = 1 .. n, \A k \in 1 .. n : s[k].amount \in Nat
  PROVE  \E acc : Run(acc, n, Nat, 0, [p \in (1 .. n) \X Nat |-> p[2] + s[p[1]].amount],
                     Worth(s))
<1> DEFINE step == [p \in (1 .. n) \X Nat |-> p[2] + s[p[1]].amount]
           Recursive(g) == g = [t \in SUBSET (1 .. n) |->
                              IF t = {} THEN 0
                              ELSE LET x == Max(t) IN g[t \ {x}] + s[x].amount]
           it == CHOOSE g : Recursive(g)
<1>1. \A k \in 1 .. n, v \in Nat : step[<<k, v>>] \in Nat
  OBVIOUS
<1>2. PICK g : Iteration(g, 1 .. n, Nat, 0, Latest, step)
  <2> HIDE DEF step
  <2>1. 0 \in Nat
    OBVIOUS
  <2> QED BY <1>1, <2>1, FoldExists
<1>3. \A t \in SUBSET (1 .. n) : t # {} => Max(t) \in 1 .. n /\ Latest[t] = Max(t)
  BY LatestOf
<1>4. Recursive(g)
  <2>1. \A t \in SUBSET (1 .. n) :
          g[t] = IF t = {} THEN 0 ELSE g[t \ {Max(t)}] + s[Max(t)].amount
    BY <1>2, <1>3 DEF Iteration
  <2> QED BY <1>2, <2>1 DEF Iteration
<1>5. Recursive(it)
  BY <1>4
<1>6. Worth(s) = it[1 .. n]
  BY DEF Worth, FoldLeft, MapThenFoldSet
<1>7. \A t \in SUBSET (1 .. n) :
        it[t] = IF t = {} THEN 0 ELSE it[t \ {Max(t)}] + s[Max(t)].amount
  <2> HIDE DEF it
  <2> QED BY <1>5
<1> HIDE DEF it
<1>8. Folds(it, n, Nat, 0, step)
  BY <1>3, <1>7 DEF Folds
<1> HIDE DEF step
<1>9. \E acc : Run(acc, n, Nat, 0, step, it[1 .. n])
  <2> DEFINE V == Nat
  <2>1. 0 \in V /\ (\A k \in 1 .. n, v \in V : step[<<k, v>>] \in V) /\ Folds(it, n, V, 0, step)
    BY <1>1, <1>8
  <2>2. SUFFICES \E acc : Run(acc, n, V, 0, step, it[1 .. n])
    OBVIOUS
  <2> HIDE DEF V
  <2> QED BY <2>1, FoldRuns
<1> QED
  BY <1>6, <1>9 DEF step

\* tally[k] is the worth of the first k elements.
Tally(tally, s) ==
  /\ tally \in [0 .. Len(s) -> Nat]
  /\ tally[0] = 0
  /\ \A k \in 1 .. Len(s) : tally[k] = tally[k - 1] + s[k].amount

\* Every sequence of amounts has its tally.
LEMMA TallyExists ==
  ASSUME NEW T, \A x \in T : x.amount \in Nat, NEW s \in Seq(T)
  PROVE  \E tally : Tally(tally, s) /\ tally[Len(s)] = Worth(s)
<1> DEFINE n == Len(s)
           step == [p \in (1 .. n) \X Nat |-> p[2] + s[p[1]].amount]
<1>1. n \in Nat /\ DOMAIN s = 1 .. n /\ \A k \in 1 .. n : s[k].amount \in Nat
  OBVIOUS
<1>2. PICK acc : Run(acc, n, Nat, 0, step, Worth(s))
  <2> HIDE DEF n
  <2> QED BY <1>1, WorthRuns
<1>3. \A k \in 1 .. n, v \in Nat : step[<<k, v>>] = v + s[k].amount
  OBVIOUS
<1> HIDE DEF step
<1>4. acc \in [0 .. n -> Nat] /\ acc[0] = 0 /\ acc[n] = Worth(s)
  BY <1>2 DEF Run
<1>5. ASSUME NEW k \in 1 .. n PROVE acc[k] = acc[k - 1] + s[k].amount
  <2>1. acc[k - 1] \in Nat
    BY <1>4
  <2>2. acc[k] = step[<<k, acc[k - 1]>>]
    BY <1>2 DEF Run
  <2> QED BY <1>3, <2>1, <2>2
<1> QED
  BY <1>4, <1>5 DEF Tally

\* And a tally ends in the worth of the sequence.
LEMMA WorthIs ==
  ASSUME NEW T, \A x \in T : x.amount \in Nat, NEW s \in Seq(T),
         NEW tally, Tally(tally, s)
  PROVE  Worth(s) = tally[Len(s)] /\ Worth(s) \in Nat
<1>1. PICK acc : Tally(acc, s) /\ acc[Len(s)] = Worth(s)
  BY TallyExists
<1> DEFINE P == {k \in Nat : k <= Len(s) => acc[k] = tally[k]}
<1>2. 0 \in P
  BY <1>1 DEF Tally
<1>3. ASSUME NEW k \in P PROVE k + 1 \in P
  <2>1. k \in Nat /\ Len(s) \in Nat
    OBVIOUS
  <2>2. CASE k + 1 <= Len(s)
    <3>1. k + 1 \in 1 .. Len(s) /\ (k + 1) - 1 = k /\ acc[k] = tally[k]
      BY <2>1, <2>2
    <3>2. acc[k + 1] = acc[k] + s[k + 1].amount /\ tally[k + 1] = tally[k] + s[k + 1].amount
      BY <1>1, <3>1 DEF Tally
    <3> QED BY <2>1, <3>1, <3>2
  <2> QED BY <2>1, <2>2
<1>4. P = Nat
  <2>1. P \in SUBSET Nat
    OBVIOUS
  <2> HIDE DEF P
  <2> QED BY <1>2, <1>3, <2>1, CountingUp
<1>5. Len(s) \in P
  BY <1>4
<1> QED
  BY <1>1, <1>5 DEF Tally

\* Nothing is worth nothing.
LEMMA WorthOfNone == Worth(<<>>) = 0
<1> DEFINE tally == [k \in 0 .. 0 |-> 0]
<1>1. Tally(tally, <<>>) /\ tally[0] = 0
  BY DEF Tally
<1>2. <<>> \in Seq({}) /\ \A x \in {} : x.amount \in Nat
  OBVIOUS
<1> HIDE DEF tally
<1>3. Worth(<<>>) = tally[Len(<<>>)]
  BY <1>1, <1>2, WorthIs
<1> QED
  BY <1>1, <1>3

\* One sequence after the other is worth both.
LEMMA WorthOfBoth ==
  ASSUME NEW T, \A x \in T : x.amount \in Nat, NEW s \in Seq(T), NEW t \in Seq(T)
  PROVE  Worth(s \o t) = Worth(s) + Worth(t)
<1>1. PICK a : Tally(a, s) /\ a[Len(s)] = Worth(s)
  BY TallyExists
<1>2. PICK b : Tally(b, t) /\ b[Len(t)] = Worth(t)
  BY TallyExists
<1> DEFINE n == Len(s)
           m == Len(t)
           c == [k \in 0 .. n + m |-> IF k <= n THEN a[k] ELSE a[n] + b[k - n]]
<1>3. n \in Nat /\ m \in Nat /\ Len(s \o t) = n + m /\ s \o t \in Seq(T)
  OBVIOUS
<1>4. /\ \A k \in 0 .. n : a[k] \in Nat
      /\ \A k \in 0 .. m : b[k] \in Nat
      /\ a[0] = 0 /\ b[0] = 0
  BY <1>1, <1>2 DEF Tally
<1>5. c \in [0 .. n + m -> Nat] /\ c[0] = 0 /\ c[n + m] = a[n] + b[m]
  <2> HIDE DEF n, m
  <2>1. \A k \in 0 .. n + m : k <= n \/ k - n \in 0 .. m
    BY <1>3
  <2>2. c \in [0 .. n + m -> Nat]
    BY <1>3, <1>4, <2>1
  <2>3. c[0] = 0
    BY <1>3, <1>4
  <2>4. c[n + m] = a[n] + b[m]
    BY <1>3, <1>4
  <2> QED BY <2>2, <2>3, <2>4
<1>6. ASSUME NEW k \in 1 .. n + m PROVE c[k] = c[k - 1] + (s \o t)[k].amount
  <2>1. CASE k <= n
    <3>1. (s \o t)[k] = s[k] /\ a[k] = a[k - 1] + s[k].amount
      BY <1>1, <1>3, <2>1 DEF Tally
    <3> HIDE DEF n, m
    <3> QED BY <1>3, <2>1, <3>1
  <2>2. CASE k > n
    <3>1. (s \o t)[k] = t[k - n] /\ k - n \in 1 .. m
      BY <1>3, <2>2
    <3>2. b[k - n] = b[(k - n) - 1] + t[k - n].amount
      BY <1>2, <3>1 DEF Tally
    <3>3. t[k - n].amount \in Nat
      BY <3>1
    <3>4. b[(k - n) - 1] \in Nat
      BY <1>4, <3>1
    <3> HIDE DEF n, m
    <3>5. c[k] = a[n] + b[k - n]
      BY <1>3, <2>2
    <3>6. c[k - 1] = a[n] + b[(k - n) - 1]
      <4>1. CASE k - 1 = n
        <5>1. (k - n) - 1 = 0
          BY <1>3, <4>1
        <5> QED BY <1>3, <1>4, <4>1, <5>1
      <4>2. CASE k - 1 > n
        <5>1. (k - 1) - n = (k - n) - 1
          BY <1>3
        <5> QED BY <1>3, <4>2, <5>1
      <4> QED BY <1>3, <2>2, <4>1, <4>2
    <3>7. a[n] \in Nat
      BY <1>3, <1>4
    <3> HIDE DEF c
    <3> QED BY <3>1, <3>2, <3>3, <3>4, <3>5, <3>6, <3>7, SMTT(30)
  <2> QED BY <1>3, <2>1, <2>2
<1> HIDE DEF c
<1>7. Tally(c, s \o t)
  BY <1>3, <1>5, <1>6 DEF Tally
<1>8. Worth(s \o t) = c[n + m]
  <2>1. Worth(s \o t) = c[Len(s \o t)]
    BY <1>3, <1>7, WorthIs
  <2> QED BY <1>3, <2>1
<1> QED
  BY <1>1, <1>2, <1>5, <1>8

\* One more element adds its amount.
LEMMA WorthOfOneMore ==
  ASSUME NEW T, \A x \in T : x.amount \in Nat, NEW s \in Seq(T), NEW x \in T
  PROVE  Worth(Append(s, x)) = Worth(s) + x.amount
<1>1. Append(s, x) = s \o <<x>> /\ <<x>> \in Seq(T)
  OBVIOUS
<1> DEFINE a == [k \in 0 .. 1 |-> IF k = 0 THEN 0 ELSE x.amount]
<1>2. Tally(a, <<x>>) /\ a[Len(<<x>>)] = x.amount
  BY DEF Tally
<1> HIDE DEF a
<1>3. Worth(<<x>>) = x.amount
  BY <1>1, <1>2, WorthIs
<1>4. Worth(s \o <<x>>) = Worth(s) + Worth(<<x>>)
  BY <1>1, WorthOfBoth
<1> QED
  BY <1>1, <1>3, <1>4

\* A last element that grows makes the sequence worth that much more.
LEMMA WorthOfMore ==
  ASSUME NEW T, \A x \in T : x.amount \in Nat, NEW s \in Seq(T), s # <<>>, NEW n \in Nat,
         NEW r \in Seq(T), r = AddToLast(s, n), r[Len(s)].amount = s[Len(s)].amount + n
  PROVE  Worth(r) = Worth(s) + n
<1>1. PICK a : Tally(a, s) /\ a[Len(s)] = Worth(s)
  BY TallyExists
<1> DEFINE l == Len(s)
           b == [a EXCEPT ![l] = @ + n]
<1>2. l \in Nat \ {0} /\ Len(r) = l /\ \A k \in 1 .. l : k # l => r[k] = s[k]
  BY DEF AddToLast
<1>3. a \in [0 .. l -> Nat] /\ a[0] = 0 /\ \A k \in 1 .. l : a[k] = a[k - 1] + s[k].amount
  BY <1>1 DEF Tally
<1>4. \A k \in 1 .. l : s[k].amount \in Nat
  OBVIOUS
<1>5. r[l].amount = s[l].amount + n
  OBVIOUS
<1> HIDE DEF l
<1>6. Tally(b, r)
  <2>1. b \in [0 .. l -> Nat] /\ b[0] = 0
    BY <1>2, <1>3
  <2>2. ASSUME NEW k \in 1 .. l PROVE b[k] = b[k - 1] + r[k].amount
    <3>1. b[k - 1] = a[k - 1] /\ a[k - 1] \in Nat
      BY <1>2, <1>3
    <3>2. a[k] = a[k - 1] + s[k].amount /\ a[k] \in Nat /\ s[k].amount \in Nat
      BY <1>2, <1>3, <1>4
    <3>3. CASE k = l
      <4>1. b[k] = a[k] + n
        BY <1>2, <1>3, <3>3
      <4>2. r[k].amount = s[k].amount + n
        BY <1>5, <3>3
      <4> HIDE DEF b
      <4> QED BY <3>1, <3>2, <4>1, <4>2, SMTT(30)
    <3>4. CASE k # l
      <4>1. b[k] = a[k] /\ r[k] = s[k]
        BY <1>2, <1>3, <3>4
      <4> QED BY <3>1, <3>2, <4>1
    <3> QED BY <3>3, <3>4
  <2> HIDE DEF b
  <2> QED BY <1>2, <2>1, <2>2 DEF Tally
<1>7. b[l] = Worth(s) + n
  BY <1>1, <1>2, <1>3 DEF l
<1> HIDE DEF b
<1>8. Worth(r) = b[Len(r)]
  BY <1>6, WorthIs
<1> QED
  BY <1>2, <1>7, <1>8

\* An element before the others adds its amount.
LEMMA WorthOfOneBefore ==
  ASSUME NEW T, \A x \in T : x.amount \in Nat, NEW s \in Seq(T), NEW x \in T
  PROVE  Worth(<<x>> \o s) = x.amount + Worth(s)
<1>1. <<>> \in Seq(T) /\ <<x>> \in Seq(T) /\ <<x>> = Append(<<>>, x)
  OBVIOUS
<1>2. Worth(Append(<<>>, x)) = Worth(<<>>) + x.amount
  BY <1>1, WorthOfOneMore
<1>3. Worth(<<x>>) = x.amount
  BY <1>1, <1>2, WorthOfNone
<1> QED
  BY <1>1, <1>3, WorthOfBoth

-----------------------------------------------------------------------------
(* The part of a sequence of pots or layers that certain contestants are in for *)

\* What is left of a pot to somebody who looks at the amount alone: the amount if
\* the contestants are a set of the family G, nothing if they are not.
Amounts == [amount : Nat]
Part(G, pot) == [amount |-> IF pot.eligible \in G THEN pot.amount ELSE 0]
Parts(G, s) == [k \in DOMAIN s |-> Part(G, s[k])]

\* What s holds for the contestants of G; and for seat i, alone or with others.
Held(G, s) == Worth(Parts(G, s))
Contests(i) == {E \in SUBSET Seat : i \in E}
Reach(i, s) == Held(Contests(i), s)

\* The parts of a sequence are a sequence of amounts.
LEMMA PartsType ==
  ASSUME NEW G, NEW T, \A x \in T : x.amount \in Nat, NEW s \in Seq(T)
  PROVE  Parts(G, s) \in Seq(Amounts) /\ Len(Parts(G, s)) = Len(s) /\ Held(G, s) \in Nat
<1> DEFINE n == Len(s)
<1>1. n \in Nat /\ DOMAIN s = 1 .. n /\ \A k \in 1 .. n : s[k].amount \in Nat
  OBVIOUS
<1>2. ASSUME NEW k \in 1 .. n PROVE Part(G, s[k]) \in Amounts
  BY <1>1 DEF Part, Amounts
<1> HIDE DEF n
<1>3. Parts(G, s) \in [1 .. n -> Amounts]
  BY <1>1, <1>2 DEF Parts
<1>4. Parts(G, s) \in Seq(Amounts) /\ Len(Parts(G, s)) = n
  <2> DEFINE parts == Parts(G, s)
             X == Amounts
  <2>1. parts \in [1 .. n -> X] /\ n \in Nat
    BY <1>1, <1>3
  <2> HIDE DEF parts, X
  <2>2. parts \in Seq(X) /\ Len(parts) = n
    BY <2>1
  <2> QED BY <2>2 DEF parts, X
<1>5. \A x \in Amounts : x.amount \in Nat
  BY DEF Amounts
<1>6. Held(G, s) \in Nat
  <2>1. PICK tally : Tally(tally, Parts(G, s))
    BY <1>4, <1>5, TallyExists
  <2> QED BY <1>4, <1>5, <2>1, WorthIs DEF Held
<1> QED
  BY <1>4, <1>6 DEF n

\* Nothing holds nothing.
LEMMA HeldOfNone == \A G : Held(G, <<>>) = 0
<1> TAKE G
<1>1. Parts(G, <<>>) = <<>>
  BY DEF Parts
<1> QED
  BY <1>1, WorthOfNone DEF Held

\* Two sequences hold what each holds.
LEMMA HeldOfBoth ==
  ASSUME NEW G, NEW T, \A x \in T : x.amount \in Nat, NEW s \in Seq(T), NEW t \in Seq(T)
  PROVE  Held(G, s \o t) = Held(G, s) + Held(G, t)
<1> DEFINE n == Len(s)
           m == Len(t)
           a == Parts(G, s)
           b == Parts(G, t)
           c == Parts(G, s \o t)
<1>1. n \in Nat /\ m \in Nat /\ DOMAIN s = 1 .. n /\ DOMAIN t = 1 .. m /\ s \o t \in Seq(T)
  OBVIOUS
<1>2. /\ a \in Seq(Amounts) /\ Len(a) = n /\ b \in Seq(Amounts) /\ Len(b) = m
      /\ c \in Seq(Amounts) /\ Len(c) = n + m
  <2>1. Len(s \o t) = n + m
    OBVIOUS
  <2> HIDE DEF n, m
  <2> QED BY <1>1, <2>1, PartsType DEF n, m
<1>3. \A k \in 1 .. n + m : c[k] = Part(G, (s \o t)[k])
  BY DEF Parts
<1>4. \A k \in 1 .. n : a[k] = Part(G, s[k])
  BY DEF Parts
<1>5. \A k \in 1 .. m : b[k] = Part(G, t[k])
  BY DEF Parts
<1>6. ASSUME NEW k \in 1 .. n + m PROVE c[k] = (a \o b)[k]
  <2>1. CASE k <= n
    <3>1. (s \o t)[k] = s[k] /\ k \in 1 .. n
      BY <2>1
    <3> HIDE DEF a, b, c
    <3>2. (a \o b)[k] = a[k]
      BY <1>2, <3>1
    <3> QED BY <1>3, <1>4, <3>1, <3>2
  <2>2. CASE k > n
    <3>1. (s \o t)[k] = t[k - n] /\ k - n \in 1 .. m
      BY <2>2
    <3> HIDE DEF a, b, c
    <3>2. (a \o b)[k] = b[k - n]
      <4> HIDE DEF n, m
      <4> QED BY <1>1, <1>2, <2>2, SMTT(30)
    <3> QED BY <1>3, <1>5, <3>1, <3>2
  <2>3. k <= n \/ k > n
    <3> HIDE DEF n, m
    <3> QED BY <1>1
  <2> HIDE DEF a, b, c, n, m
  <2> QED BY ONLY <2>1, <2>2, <2>3
<1> HIDE DEF a, b, c, n, m
<1>7. c = a \o b
  BY <1>1, <1>2, <1>6
<1>8. \A x \in Amounts : x.amount \in Nat
  BY DEF Amounts
<1>9. Worth(c) = Worth(a) + Worth(b)
  BY <1>2, <1>7, <1>8, WorthOfBoth
<1> QED
  BY <1>9 DEF Held, a, b, c

\* What a single pot holds.
LEMMA HeldOfOne ==
  ASSUME NEW G, NEW x, x.amount \in Nat
  PROVE  Held(G, <<x>>) = IF x.eligible \in G THEN x.amount ELSE 0
<1> DEFINE part == Part(G, x)
<1>1. Parts(G, <<x>>) = <<part>>
  BY DEF Parts
<1>2. part \in Amounts /\ part.amount = IF x.eligible \in G THEN x.amount ELSE 0
  BY DEF Part, Amounts
<1> HIDE DEF part
<1>3. \A y \in Amounts : y.amount \in Nat
  BY DEF Amounts
<1>4. Worth(<<part>> \o <<>>) = part.amount + Worth(<<>>)
  <2>1. <<>> \in Seq(Amounts)
    OBVIOUS
  <2> QED BY <1>2, <1>3, <2>1, WorthOfOneBefore
<1>5. <<part>> \o <<>> = <<part>>
  <2>1. <<part>> \in Seq(Amounts)
    BY <1>2
  <2> QED BY <2>1
<1> QED
  BY <1>1, <1>2, <1>3, <1>4, <1>5, WorthOfNone DEF Held

\* One more pot holds its chips for those who contest it.
LEMMA HeldOfOneMore ==
  ASSUME NEW G, NEW T, \A x \in T : x.amount \in Nat, NEW s \in Seq(T), NEW x \in T
  PROVE  Held(G, Append(s, x)) = Held(G, s) + (IF x.eligible \in G THEN x.amount ELSE 0)
<1>1. Append(s, x) = s \o <<x>> /\ <<x>> \in Seq(T)
  OBVIOUS
<1>2. Held(G, s \o <<x>>) = Held(G, s) + Held(G, <<x>>)
  BY <1>1, HeldOfBoth
<1> QED
  BY <1>1, <1>2, HeldOfOne

\* The same before the others.
LEMMA HeldOfOneBefore ==
  ASSUME NEW G, NEW T, \A x \in T : x.amount \in Nat, NEW s \in Seq(T), NEW x \in T
  PROVE  Held(G, <<x>> \o s) = Held(G, s) + (IF x.eligible \in G THEN x.amount ELSE 0)
<1>1. <<x>> \in Seq(T)
  OBVIOUS
<1>2. Held(G, <<x>> \o s) = Held(G, <<x>>) + Held(G, s)
  BY <1>1, HeldOfBoth
<1>3. Held(G, s) \in Nat /\ Held(G, <<x>>) \in Nat
  BY <1>1, PartsType
<1> QED
  BY <1>2, <1>3, HeldOfOne

\* A last pot that grows holds more for those who contest it.
LEMMA HeldOfMore ==
  ASSUME NEW G, NEW T, \A x \in T : x.amount \in Nat, NEW s \in Seq(T), s # <<>>, NEW n \in Nat,
         NEW r \in Seq(T), r = AddToLast(s, n), r[Len(s)].amount = s[Len(s)].amount + n,
         r[Len(s)].eligible = s[Len(s)].eligible
  PROVE  Held(G, r) = Held(G, s) + (IF s[Len(s)].eligible \in G THEN n ELSE 0)
<1> DEFINE l == Len(s)
           a == Parts(G, s)
           b == Parts(G, r)
           m == IF s[l].eligible \in G THEN n ELSE 0
<1>1. /\ l \in Nat \ {0} /\ Len(r) = l /\ DOMAIN s = 1 .. l /\ DOMAIN r = 1 .. l
      /\ \A k \in 1 .. l : k # l => r[k] = s[k]
  BY DEF AddToLast
<1>2. a \in Seq(Amounts) /\ Len(a) = l /\ b \in Seq(Amounts) /\ Len(b) = l
  BY <1>1, PartsType
<1>3. \A k \in 1 .. l : a[k] = Part(G, s[k]) /\ b[k] = Part(G, r[k])
  BY <1>1 DEF Parts
<1>4. \A k \in 1 .. l : k # l => b[k] = a[k]
  BY <1>1, <1>3
<1>5. a[l].amount \in Nat /\ b[l] = [amount |-> a[l].amount + m]
  <2>3. s[l].amount \in Nat /\ r[l].amount = s[l].amount + n /\ r[l].eligible = s[l].eligible
    <3>1. s[l] \in T
      BY s # <<>>
    <3>2. r[l].amount = s[l].amount + n /\ r[l].eligible = s[l].eligible
      OBVIOUS
    <3> HIDE DEF l
    <3> QED BY <3>1, <3>2
  <2>4. a[l] = Part(G, s[l]) /\ b[l] = Part(G, r[l])
    <3> HIDE DEF l, a, b
    <3> QED BY <1>1, <1>3
  <2> HIDE DEF a, b, l
  <2>1. a[l] = [amount |-> IF s[l].eligible \in G THEN s[l].amount ELSE 0]
    BY <2>4 DEF Part
  <2>2. b[l] = [amount |-> IF r[l].eligible \in G THEN r[l].amount ELSE 0]
    BY <2>4 DEF Part
  <2> QED BY <2>1, <2>2, <2>3
<1>6. m \in Nat
  OBVIOUS
<1> HIDE DEF a, b, l, m
<1>7. b = AddToLast(a, m)
  <2>1. AddToLast(a, m) = [a EXCEPT ![l] = [a[l] EXCEPT !.amount = @ + m]]
    BY <1>2 DEF AddToLast
  <2>2. a[l] \in Amounts
    BY <1>1, <1>2
  <2>3. [a[l] EXCEPT !.amount = @ + m] = [amount |-> a[l].amount + m]
    BY <2>2 DEF Amounts
  <2>4. DOMAIN a = 1 .. l /\ DOMAIN b = 1 .. l
    BY <1>2
  <2>5. b = [k \in 1 .. l |-> b[k]] /\ a = [k \in 1 .. l |-> a[k]]
    <3> DEFINE X == Amounts
    <3>1. a \in Seq(X) /\ b \in Seq(X) /\ Len(a) = l /\ Len(b) = l
      BY <1>2
    <3> HIDE DEF X
    <3> QED BY <3>1
  <2> DEFINE last == [amount |-> a[l].amount + m]
             e == [a EXCEPT ![l] = last]
  <2>6. e = AddToLast(a, m)
    BY <2>1, <2>3
  <2>7. e = [k \in 1 .. l |-> IF k = l THEN last ELSE a[k]]
    <3> HIDE DEF last
    <3> QED BY <2>4
  <2>8. b[l] = last
    BY <1>5
  <2> HIDE DEF last, e
  <2>9. \A k \in 1 .. l : b[k] = IF k = l THEN last ELSE a[k]
    BY <1>4, <2>8
  <2> QED BY <2>5, <2>6, <2>7, <2>9
<1>8. a # <<>> /\ b[Len(a)].amount = a[Len(a)].amount + m
  BY <1>1, <1>2, <1>5
<1>9. \A x \in Amounts : x.amount \in Nat
  BY DEF Amounts
<1>10. Worth(b) = Worth(a) + m
  BY <1>2, <1>6, <1>7, <1>8, <1>9, WorthOfMore
<1> QED
  BY <1>10 DEF Held, a, b, m, l

-----------------------------------------------------------------------------
(* Layers *)

\* What the seats put in; the seats that did, the least any of them put in, and what
\* is left once that much is taken off each of them.
Stakes == [Seat -> Nat]
Paying(stakes) == {i \in Seat : stakes[i] > 0}
Level(stakes) == Min({stakes[i] : i \in Paying(stakes)})
Rest(stakes) ==
  [i \in Seat |-> IF i \in Paying(stakes) THEN stakes[i] - Level(stakes) ELSE 0]

\* A layer as Layers records it, and the one that is peeled off first.
Layer == [amount : Nat, contributors : SUBSET Seat, eligible : SUBSET Seat]
Peeled == Seq(Layer)
TopLayer(stakes, folded) ==
  [amount |-> Level(stakes) * Cardinality(Paying(stakes)),
   contributors |-> Paying(stakes),
   eligible |-> Eligible(Paying(stakes), folded)]

\* Peeling a level off takes chips from everyone who has some, and all of them
\* from somebody.
LEMMA PeelingShrinks ==
  ASSUME NEW stakes \in Stakes, Paying(stakes) # {}
  PROVE  /\ Level(stakes) \in Nat
         /\ Rest(stakes) \in Stakes
         /\ \A i \in Seat :
              stakes[i] = (IF i \in Paying(stakes) THEN Level(stakes) ELSE 0) + Rest(stakes)[i]
         /\ Paying(Rest(stakes)) \subseteq Paying(stakes)
         /\ Cardinality(Paying(Rest(stakes))) < Cardinality(Paying(stakes))
<1> DEFINE A == Paying(stakes)
           amounts == {stakes[i] : i \in A}
           low == Level(stakes)
<1>1. A \in SUBSET Seat /\ \A i \in Seat : stakes[i] \in Nat /\ (i \in A <=> stakes[i] > 0)
  BY DEF Paying, Stakes
<1>2. amounts \in SUBSET Nat /\ amounts # {}
  BY <1>1
<1>3. low \in amounts /\ \A n \in amounts : low <= n
  <2> HIDE DEF amounts
  <2>1. \E n \in amounts : \A m \in amounts : n <= m
    BY <1>2, LeastNumber
  <2>2. low = Min(amounts)
    BY DEF Level, amounts
  <2> HIDE DEF low
  <2> QED BY <2>1, <2>2 DEF Min
<1>4. PICK j \in A : stakes[j] = low
  BY <1>3
<1>5. low \in Nat /\ \A i \in A : low <= stakes[i]
  BY <1>1, <1>3
<1>6. \A i \in Seat : Rest(stakes)[i] = IF i \in A THEN stakes[i] - low ELSE 0
  BY DEF Rest
<1> HIDE DEF A, low
<1>7. \A i \in Seat : Rest(stakes)[i] \in Nat
  BY <1>1, <1>5, <1>6
<1>8. Rest(stakes) \in Stakes
  BY <1>7 DEF Rest, Stakes
<1>9. \A i \in Seat : stakes[i] = (IF i \in A THEN low ELSE 0) + Rest(stakes)[i]
  BY <1>1, <1>5, <1>6
<1>10. Paying(Rest(stakes)) \subseteq A \ {j}
  BY <1>1, <1>4, <1>5, <1>6 DEF Paying
<1>11. Cardinality(Paying(Rest(stakes))) < Cardinality(A)
  <2>1. IsFiniteSet(A) /\ Cardinality(A) \in Nat
    BY <1>1, SeatsFinite, FS_Subset, FS_CardinalityType
  <2>2. IsFiniteSet(A \ {j}) /\ Cardinality(A \ {j}) = Cardinality(A) - 1
    BY <1>4, <2>1, FS_RemoveElement
  <2>3. Cardinality(Paying(Rest(stakes))) <= Cardinality(A \ {j})
    BY <1>10, <2>2, FS_Subset
  <2>4. Cardinality(Paying(Rest(stakes))) \in Nat
    BY <1>10, <2>2, FS_Subset, FS_CardinalityType
  <2> QED BY <2>1, <2>2, <2>3, <2>4
<1> QED
  BY <1>5, <1>8, <1>9, <1>10, <1>11 DEF A, low

\* What holds when nothing is left, and of any stakes when it holds of the rest
\* below their level, holds of all stakes.
LEMMA PeelByPeel ==
  ASSUME NEW P \in SUBSET Stakes,
         \A stakes \in Stakes : Paying(stakes) = {} => stakes \in P,
         \A stakes \in Stakes : Paying(stakes) # {} /\ Rest(stakes) \in P => stakes \in P
  PROVE  P = Stakes
<1>1. \A stakes \in Stakes : Cardinality(Paying(stakes)) \in Nat
  <2>1. \A stakes \in Stakes : Paying(stakes) \in SUBSET Seat
    BY DEF Paying
  <2> QED BY <2>1, SeatsFinite, FS_Subset, FS_CardinalityType
<1>2. SUFFICES ASSUME P # Stakes PROVE FALSE
  OBVIOUS
<1> DEFINE Sizes == {Cardinality(Paying(stakes)) : stakes \in Stakes \ P}
<1>3. Sizes \in SUBSET Nat /\ Sizes # {}
  BY <1>1, <1>2
<1>4. PICK n \in Sizes : \A m \in Sizes : n <= m
  <2> HIDE DEF Sizes
  <2> QED BY <1>3, LeastNumber
<1>5. PICK stakes \in Stakes \ P : n = Cardinality(Paying(stakes))
  OBVIOUS
<1>6. Rest(stakes) \in Stakes \ P /\ Cardinality(Paying(Rest(stakes))) < n
  BY <1>5, PeelingShrinks
<1> QED
  BY <1>1, <1>4, <1>5, <1>6

\* The recursion of Layers is well founded.
LEMMA LayersPeel ==
  ASSUME NEW folded
  PROVE  \E peel \in [Stakes -> Peeled] :
           /\ \A stakes \in Stakes : Layers(stakes, folded) = peel[stakes]
           /\ \A stakes \in Stakes :
                peel[stakes] = IF Paying(stakes) = {} THEN <<>>
                               ELSE <<TopLayer(stakes, folded)>> \o peel[Rest(stakes)]
<1> DEFINE Body(g, stakes) == IF Paying(stakes) = {} THEN <<>>
                              ELSE <<TopLayer(stakes, folded)>> \o g[Rest(stakes)]
           Right(g, n) == \A stakes \in Stakes :
                            Cardinality(Paying(stakes)) <= n => g[stakes] = Body(g, stakes)
           P == {n \in Nat : \E g \in [Stakes -> Peeled] : Right(g, n)}
<1>1. \A stakes \in Stakes :
        /\ IsFiniteSet(Paying(stakes)) /\ Cardinality(Paying(stakes)) \in Nat
        /\ Cardinality(Paying(stakes)) <= N
  <2>1. \A stakes \in Stakes : Paying(stakes) \in SUBSET Seat
    BY DEF Paying
  <2>2. Cardinality(Seat) = N
    BY SeatCount, FS_Interval DEF Seat
  <2> QED BY <2>1, <2>2, SeatsFinite, FS_Subset, FS_CardinalityType
<1>2. \A stakes \in Stakes : Paying(stakes) # {} =>
        /\ TopLayer(stakes, folded) \in Layer
        /\ Rest(stakes) \in Stakes
        /\ Cardinality(Paying(Rest(stakes))) < Cardinality(Paying(stakes))
  <2> TAKE stakes \in Stakes
  <2> HAVE Paying(stakes) # {}
  <2>1. Level(stakes) \in Nat /\ Cardinality(Paying(stakes)) \in Nat
    BY <1>1, PeelingShrinks
  <2>2. Level(stakes) * Cardinality(Paying(stakes)) \in Nat
    BY <2>1
  <2>3. Paying(stakes) \in SUBSET Seat /\ Eligible(Paying(stakes), folded) \in SUBSET Seat
    BY DEF Paying, Eligible
  <2> QED BY <2>2, <2>3, PeelingShrinks DEF TopLayer, Layer
<1>3. \A layer \in Layer, layers \in Peeled : <<layer>> \o layers \in Peeled
  BY DEF Peeled
<1>4. <<>> \in Peeled
  BY DEF Peeled
<1>5. 0 \in P
  <2>1. \A stakes \in Stakes : Cardinality(Paying(stakes)) <= 0 => Paying(stakes) = {}
    BY <1>1, FS_EmptySet
  <2>2. [stakes \in Stakes |-> <<>>] \in [Stakes -> Peeled]
    BY <1>4
  <2>3. Right([stakes \in Stakes |-> <<>>], 0)
    BY <2>1
  <2> HIDE DEF Right
  <2> QED BY <2>2, <2>3
<1>6. ASSUME NEW n \in P PROVE n + 1 \in P
  <2>1. PICK g \in [Stakes -> Peeled] : Right(g, n)
    OBVIOUS
  <2> DEFINE h == [stakes \in Stakes |-> Body(g, stakes)]
  <2>2. h \in [Stakes -> Peeled]
    <3>1. \A stakes \in Stakes : Body(g, stakes) \in Peeled
      BY <1>2, <1>3, <1>4
    <3> HIDE DEF Body
    <3> QED BY <3>1
  <2>3. ASSUME NEW stakes \in Stakes, Cardinality(Paying(stakes)) <= n + 1
        PROVE  h[stakes] = Body(h, stakes)
    <3>1. CASE Paying(stakes) = {}
      BY <3>1
    <3>2. CASE Paying(stakes) # {}
      <4>1. Rest(stakes) \in Stakes /\ Cardinality(Paying(Rest(stakes))) <= n
        BY <1>1, <1>2, <2>3, <3>2
      <4>2. h[Rest(stakes)] = g[Rest(stakes)]
        BY <2>1, <4>1
      <4> QED BY <3>2, <4>2
    <3> QED BY <3>1, <3>2
  <2>4. Right(h, n + 1)
    BY <2>3
  <2> HIDE DEF h, Right
  <2> QED BY <2>2, <2>4
<1>7. P = Nat
  <2>1. P \in SUBSET Nat
    OBVIOUS
  <2> HIDE DEF P
  <2> QED BY <1>5, <1>6, <2>1, CountingUp
<1>8. PICK g \in [Stakes -> Peeled] : \A stakes \in Stakes : g[stakes] = Body(g, stakes)
  <2>1. N \in P
    <3> HIDE DEF P
    <3> QED BY <1>7, SeatCount
  <2> QED BY <1>1, <2>1
<1> DEFINE Recursive(f) == f = [stakes \in [Seat -> Nat] |->
             LET paying == {i \in Seat : stakes[i] > 0}
                 level == Min({stakes[i] : i \in paying})
             IN IF paying = {} THEN <<>>
                ELSE <<[amount |-> level * Cardinality(paying),
                        contributors |-> paying,
                        eligible |-> Eligible(paying, folded)]>>
                     \o f[[i \in Seat |-> IF i \in paying THEN stakes[i] - level ELSE 0]]]
           peel == CHOOSE f : Recursive(f)
<1>9. ASSUME NEW f PROVE Recursive(f) <=> f = [stakes \in Stakes |-> Body(f, stakes)]
  BY DEF Stakes, Paying, Level, Rest, TopLayer
<1>10. g = [stakes \in Stakes |-> Body(g, stakes)]
  <2> HIDE DEF Body
  <2> QED BY <1>8
<1>11. Recursive(peel)
  <2>1. Recursive(g)
    <3> HIDE DEF Recursive, Body
    <3> QED BY <1>9, <1>10
  <2> HIDE DEF Recursive
  <2> QED BY <2>1
<1>12. peel = [stakes \in Stakes |-> Body(peel, stakes)]
  <2> HIDE DEF Recursive, Body, peel
  <2> QED BY <1>9, <1>11
<1>13. \A stakes \in Stakes : Layers(stakes, folded) = peel[stakes]
  BY DEF Layers
<1> HIDE DEF peel, Recursive
<1>14. \A stakes \in Stakes : peel[stakes] = Body(peel, stakes)
  <2> HIDE DEF Body
  <2> QED BY <1>12
<1>15. \A stakes \in Stakes : peel[stakes] \in Peeled
  <2> DEFINE Q == {stakes \in Stakes : peel[stakes] \in Peeled}
  <2>1. \A stakes \in Stakes : Paying(stakes) = {} => stakes \in Q
    BY <1>4, <1>14
  <2>2. ASSUME NEW stakes \in Stakes, Paying(stakes) # {}, Rest(stakes) \in Q
        PROVE  stakes \in Q
    BY <1>2, <1>3, <1>14, <2>2
  <2>3. Q = Stakes
    <3>1. Q \in SUBSET Stakes
      OBVIOUS
    <3> HIDE DEF Q
    <3> QED BY <2>1, <2>2, <3>1, PeelByPeel
  <2> QED BY <2>3
<1>16. peel \in [Stakes -> Peeled]
  <2> HIDE DEF Body
  <2> QED BY <1>12, <1>15
<1> QED
  BY <1>13, <1>14, <1>16


\* The layer on top of the stakes.
LEMMA TopLayerType ==
  ASSUME NEW stakes \in Stakes, Paying(stakes) # {}, NEW folded
  PROVE  /\ TopLayer(stakes, folded) \in Layer
         /\ TopLayer(stakes, folded).contributors = Paying(stakes)
         /\ TopLayer(stakes, folded).eligible = {k \in Paying(stakes) : ~folded[k]}
         /\ TopLayer(stakes, folded).amount = Level(stakes) * Cardinality(Paying(stakes))
         /\ Paying(stakes) \in SUBSET Seat
<1>1. Paying(stakes) \in SUBSET Seat
  BY DEF Paying
<1>2. Level(stakes) \in Nat /\ Cardinality(Paying(stakes)) \in Nat
  BY <1>1, PeelingShrinks, SeatsFinite, FS_Subset, FS_CardinalityType
<1>3. Level(stakes) * Cardinality(Paying(stakes)) \in Nat
  BY <1>2
<1> QED
  BY <1>1, <1>3 DEF TopLayer, Layer, Eligible

\* Whatever holds of the top layer of stakes that peeling leads from one to the other
\* holds of all their layers.
LEMMA LayersIn ==
  ASSUME NEW folded, NEW D \in SUBSET Stakes, NEW T,
         \A c \in D : Paying(c) # {} => Rest(c) \in D /\ TopLayer(c, folded) \in T,
         NEW stakes \in D
  PROVE  Layers(stakes, folded) \in Seq(T)
<1>1. PICK peel \in [Stakes -> Peeled] :
           /\ \A c \in Stakes : Layers(c, folded) = peel[c]
           /\ \A c \in Stakes :
                peel[c] = IF Paying(c) = {} THEN <<>>
                          ELSE <<TopLayer(c, folded)>> \o peel[Rest(c)]
  BY LayersPeel
<1> DEFINE Q == {c \in Stakes : c \in D => peel[c] \in Seq(T)}
<1>2. ASSUME NEW c \in Stakes, Paying(c) = {} PROVE c \in Q
  <2>1. peel[c] = <<>>
    BY <1>1, <1>2
  <2> QED BY <2>1
<1>3. ASSUME NEW c \in Stakes, Paying(c) # {}, Rest(c) \in Q PROVE c \in Q
  <2> SUFFICES ASSUME c \in D PROVE peel[c] \in Seq(T)
    OBVIOUS
  <2>1. Rest(c) \in D /\ TopLayer(c, folded) \in T
    BY <1>3
  <2>2. peel[Rest(c)] \in Seq(T)
    BY <1>3, <2>1
  <2>3. peel[c] = <<TopLayer(c, folded)>> \o peel[Rest(c)]
    BY <1>1, <1>3
  <2> QED BY <2>1, <2>2, <2>3
<1>4. Q = Stakes
  <2>1. Q \in SUBSET Stakes
    OBVIOUS
  <2> HIDE DEF Q
  <2> QED BY <1>2, <1>3, <2>1, PeelByPeel
<1> QED
  BY <1>1, <1>4

\* The layers are worth what was put in.
LEMMA LayersWorth ==
  ASSUME NEW folded, NEW stakes \in Stakes
  PROVE  Worth(Layers(stakes, folded)) = Chips(stakes)
<1>1. PICK peel \in [Stakes -> Peeled] :
           /\ \A c \in Stakes : Layers(c, folded) = peel[c]
           /\ \A c \in Stakes :
                peel[c] = IF Paying(c) = {} THEN <<>>
                          ELSE <<TopLayer(c, folded)>> \o peel[Rest(c)]
  BY LayersPeel
<1> DEFINE Q == {c \in Stakes : Worth(peel[c]) = Chips(c)}
<1>2. \A layer \in Layer : layer.amount \in Nat
  BY DEF Layer
<1>3. ASSUME NEW c \in Stakes, Paying(c) = {} PROVE c \in Q
  <2>1. peel[c] = <<>>
    BY <1>1, <1>3
  <2>2. \A i \in Seat : c[i] = IF i \in {} THEN 0 ELSE 0
    BY <1>3 DEF Stakes, Paying
  <2>3. c \in [Seat -> Int] /\ {} \in SUBSET Seat /\ 0 \in Nat
    BY DEF Stakes
  <2>4. Chips(c) = 0 * Cardinality({})
    BY <2>2, <2>3, ChipsOfSome
  <2>5. Chips(c) = 0
    BY <2>4, FS_EmptySet
  <2> QED BY <2>1, <2>5, WorthOfNone
<1>4. ASSUME NEW c \in Stakes, Paying(c) # {}, Rest(c) \in Q PROVE c \in Q
  <2> DEFINE A == Paying(c)
             low == Level(c)
             top == TopLayer(c, folded)
             f == [i \in Seat |-> IF i \in A THEN low ELSE 0]
  <2>1. /\ low \in Nat
        /\ Rest(c) \in Stakes
        /\ \A i \in Seat : c[i] = (IF i \in A THEN low ELSE 0) + Rest(c)[i]
    BY <1>4, PeelingShrinks
  <2>2. /\ A \in SUBSET Seat /\ Cardinality(A) \in Nat
        /\ top \in Layer /\ top.amount = low * Cardinality(A)
    <3>1. A \in SUBSET Seat /\ top \in Layer /\ top.amount = low * Cardinality(A)
      BY <1>4, TopLayerType
    <3> HIDE DEF A, top
    <3> QED BY <3>1, SeatsFinite, FS_Subset, FS_CardinalityType
  <2>3. peel[Rest(c)] \in Seq(Layer)
    BY <1>1, <2>1 DEF Peeled
  <2>4. peel[c] = <<top>> \o peel[Rest(c)]
    BY <1>1, <1>4
  <2>5. Chips(c) = Chips(f) + Chips(Rest(c))
    <3>1. c \in [Seat -> Int] /\ Rest(c) \in [Seat -> Int] /\ f \in [Seat -> Int]
      BY <2>1 DEF Stakes
    <3>2. \A i \in Seat : c[i] = f[i] + Rest(c)[i]
      BY <2>1
    <3> HIDE DEF f
    <3> QED BY <3>1, <3>2, ChipsAdd
  <2>6. Chips(f) = low * Cardinality(A)
    <3>1. f \in [Seat -> Int] /\ \A i \in Seat : f[i] = IF i \in A THEN low ELSE 0
      BY <2>1
    <3> HIDE DEF f, A, low
    <3> QED BY <2>1, <2>2, <3>1, ChipsOfSome
  <2>7. Worth(peel[c]) = top.amount + Worth(peel[Rest(c)])
    <3> HIDE DEF top
    <3> QED BY <1>2, <2>2, <2>3, <2>4, WorthOfOneBefore
  <2>8. Worth(peel[Rest(c)]) = Chips(Rest(c))
    BY <1>4
  <2> HIDE DEF top, f, low
  <2> QED BY <2>2, <2>5, <2>6, <2>7, <2>8
<1>5. Q = Stakes
  <2>1. Q \in SUBSET Stakes
    OBVIOUS
  <2> HIDE DEF Q
  <2> QED BY <1>3, <1>4, <2>1, PeelByPeel
<1> QED
  BY <1>1, <1>5

\* What a seat has covered of the stakes of each seat.
Covering(i, stakes) ==
  [j \in Seat |-> IF stakes[i] <= stakes[j] THEN stakes[i] ELSE stakes[j]]

\* The layers a seat that has not folded is in for are worth what it has covered.
LEMMA LayersReach ==
  ASSUME NEW folded, NEW stakes \in Stakes, NEW i \in Seat, ~folded[i]
  PROVE  Reach(i, Layers(stakes, folded)) = Chips(Covering(i, stakes))
<1>1. PICK peel \in [Stakes -> Peeled] :
           /\ \A c \in Stakes : Layers(c, folded) = peel[c]
           /\ \A c \in Stakes :
                peel[c] = IF Paying(c) = {} THEN <<>>
                          ELSE <<TopLayer(c, folded)>> \o peel[Rest(c)]
  BY LayersPeel
<1> DEFINE Q == {c \in Stakes : Reach(i, peel[c]) = Chips(Covering(i, c))}
<1>2. \A layer \in Layer : layer.amount \in Nat
  BY DEF Layer
<1>3. ASSUME NEW c \in Stakes, Paying(c) = {} PROVE c \in Q
  <2>1. peel[c] = <<>>
    BY <1>1, <1>3
  <2>2. \A j \in Seat : c[j] = 0
    BY <1>3 DEF Stakes, Paying
  <2>3. /\ Covering(i, c) \in [Seat -> Int]
        /\ \A j \in Seat : Covering(i, c)[j] = IF j \in {} THEN 0 ELSE 0
    BY <2>2 DEF Covering
  <2>4. Chips(Covering(i, c)) = 0 * Cardinality({})
    <3>1. {} \in SUBSET Seat /\ 0 \in Nat
      OBVIOUS
    <3> QED BY <2>3, <3>1, ChipsOfSome
  <2>5. Chips(Covering(i, c)) = 0
    BY <2>4, FS_EmptySet
  <2> QED BY <2>1, <2>5, HeldOfNone DEF Reach
<1>4. ASSUME NEW c \in Stakes, Paying(c) # {}, Rest(c) \in Q PROVE c \in Q
  <2> DEFINE A == Paying(c)
             low == Level(c)
             top == TopLayer(c, folded)
             B == IF i \in A THEN A ELSE {}
             f == [j \in Seat |-> IF j \in B THEN low ELSE 0]
             g == Covering(i, c)
             h == Covering(i, Rest(c))
  <2>1. /\ low \in Nat
        /\ Rest(c) \in Stakes
        /\ \A j \in Seat : c[j] = (IF j \in A THEN low ELSE 0) + Rest(c)[j]
    BY <1>4, PeelingShrinks
  <2>2. /\ A \in SUBSET Seat /\ top \in Layer
        /\ top.amount = low * Cardinality(A) /\ (i \in top.eligible <=> i \in A)
    BY <1>4, TopLayerType
  <2>3. B \in SUBSET Seat /\ Cardinality({}) = 0 /\ low * 0 = 0
    BY <2>1, <2>2, FS_EmptySet
  <2>4. \A j \in Seat : /\ c[j] \in Nat /\ Rest(c)[j] \in Nat
                        /\ (j \in A <=> c[j] > 0)
    BY <2>1 DEF Stakes, Paying
  <2>5. /\ g \in [Seat -> Int] /\ h \in [Seat -> Int] /\ f \in [Seat -> Int]
        /\ \A j \in Seat : g[j] = f[j] + h[j]
    <3> HIDE DEF A, low
    <3>1. \A j \in Seat : g[j] = IF c[i] <= c[j] THEN c[i] ELSE c[j]
      BY DEF Covering
    <3>2. \A j \in Seat : h[j] = IF Rest(c)[i] <= Rest(c)[j] THEN Rest(c)[i] ELSE Rest(c)[j]
      BY DEF Covering
    <3>3. g \in [Seat -> Int] /\ h \in [Seat -> Int] /\ f \in [Seat -> Int]
      BY <2>1, <2>4 DEF Covering
    <3>4. \A j \in Seat : f[j] = IF i \in A /\ j \in A THEN low ELSE 0
      OBVIOUS
    <3> HIDE DEF f, g, h, B
    <3>5. ASSUME NEW j \in Seat PROVE g[j] = f[j] + h[j]
      <4>1. CASE i \in A /\ j \in A
        BY <2>1, <2>4, <3>1, <3>2, <3>4, <4>1
      <4>2. CASE i \notin A
        BY <2>1, <2>4, <3>1, <3>2, <3>4, <4>2
      <4>3. CASE j \notin A
        BY <2>1, <2>4, <3>1, <3>2, <3>4, <4>3
      <4> QED BY <4>1, <4>2, <4>3
    <3> QED BY <3>3, <3>5
  <2>6. Chips(g) = Chips(f) + Chips(h)
    <3> HIDE DEF f, g, h
    <3> QED BY <2>5, ChipsAdd
  <2>7. Chips(f) = low * Cardinality(B)
    <3>1. \A j \in Seat : f[j] = IF j \in B THEN low ELSE 0
      OBVIOUS
    <3> HIDE DEF f, B, low, g, h
    <3> QED BY <2>1, <2>3, <2>5, <3>1, ChipsOfSome
  <2>8. Reach(i, peel[c]) = Reach(i, peel[Rest(c)]) + (IF i \in A THEN top.amount ELSE 0)
    <3>1. peel[Rest(c)] \in Seq(Layer)
      BY <1>1, <2>1 DEF Peeled
    <3>2. peel[c] = <<top>> \o peel[Rest(c)]
      BY <1>1, <1>4
    <3>3. top.eligible \in Contests(i) <=> i \in A
      BY <2>2 DEF Layer, Contests
    <3> HIDE DEF top, A
    <3> QED BY <1>2, <2>2, <3>1, <3>2, <3>3, HeldOfOneBefore DEF Reach
  <2>9. Reach(i, peel[Rest(c)]) = Chips(h)
    BY <1>4
  <2>10. Chips(h) \in Int /\ Chips(f) \in Int
    <3> HIDE DEF h, f, g
    <3> QED BY <2>5, ChipsInt
  <2>11. Reach(i, peel[c]) = Chips(g)
    <3>1. CASE i \in A
      <4>1. Chips(f) = low * Cardinality(A)
        BY <2>7, <3>1
      <4> HIDE DEF top, f, g, h, low, A
      <4> QED BY <2>2, <2>6, <2>8, <2>9, <2>10, <3>1, <4>1
    <3>2. CASE i \notin A
      <4>1. Chips(f) = 0
        BY <2>3, <2>7, <3>2
      <4> HIDE DEF top, f, g, h, low, A
      <4> QED BY <2>6, <2>8, <2>9, <2>10, <3>2, <4>1
    <3> QED BY <3>1, <3>2
  <2> QED BY <2>11 DEF g
<1>5. Q = Stakes
  <2>1. Q \in SUBSET Stakes
    OBVIOUS
  <2> HIDE DEF Q
  <2> QED BY <1>3, <1>4, <2>1, PeelByPeel
<1> QED
  BY <1>1, <1>5

-----------------------------------------------------------------------------
(* Pots *)

\* Sets of contestants, none of them empty.
Families == SUBSET ((SUBSET Seat) \ {{}})

\* Pots contested by one of the sets of F.
PotOf(F) == [amount : Nat, eligible : F]
PotsOf(F) == Seq(PotOf(F))

\* Layers contested by one of the sets of F; when everyone who paid a layer has folded,
\* each of them is such a set.
LayerOf(F) ==
  {layer \in Layer :
     /\ layer.contributors # {}
     /\ layer.eligible # {} => layer.eligible \in F
     /\ layer.eligible = {} => \A k \in layer.contributors : {k} \in F}

\* Pots are built by Pot, Append and concatenation, and their worth adds up.
LEMMA PotsOfFacts ==
  ASSUME NEW F \in Families
  PROVE  /\ <<>> \in PotsOf(F)
         /\ \A pot \in PotOf(F) :
              pot.amount \in Nat /\ pot.eligible \in F /\ pot.eligible # {} /\ pot.eligible \in SUBSET Seat
         /\ \A n \in Nat, S \in F :
              Pot(n, S) \in PotOf(F) /\ Pot(n, S).amount = n /\ Pot(n, S).eligible = S
         /\ \A pots \in PotsOf(F), more \in PotsOf(F) :
              /\ pots \o more \in PotsOf(F)
              /\ Worth(pots \o more) = Worth(pots) + Worth(more)
         /\ \A pots \in PotsOf(F) : Worth(pots) \in Nat
<1>1. \A pot \in PotOf(F) : pot.amount \in Nat
  BY DEF PotOf
<1>3. ASSUME NEW pots \in PotsOf(F), NEW more \in PotsOf(F)
      PROVE  /\ pots \o more \in PotsOf(F)
             /\ Worth(pots \o more) = Worth(pots) + Worth(more)
  BY <1>1, WorthOfBoth DEF PotsOf
<1>4. ASSUME NEW pots \in PotsOf(F) PROVE Worth(pots) \in Nat
  <2>1. pots \in Seq(PotOf(F))
    BY DEF PotsOf
  <2>2. PICK tally : Tally(tally, pots)
    BY <1>1, <2>1, TallyExists
  <2> QED BY <1>1, <2>1, <2>2, WorthIs
<1>5. <<>> \in PotsOf(F)
  BY DEF PotsOf
<1>6. \A pot \in PotOf(F) : pot.eligible \in F /\ pot.eligible # {} /\ pot.eligible \in SUBSET Seat
  BY DEF PotOf, Families
<1>7. \A n \in Nat, S \in F :
        Pot(n, S) \in PotOf(F) /\ Pot(n, S).amount = n /\ Pot(n, S).eligible = S
  BY DEF Pot, PotOf
<1> QED
  BY <1>1, <1>3, <1>4, <1>5, <1>6, <1>7

\* A seat contests the pots it is a contestant of.
LEMMA ContestsIs ==
  ASSUME NEW F \in Families, NEW i, NEW pot \in PotOf(F)
  PROVE  pot.eligible \in Contests(i) <=> i \in pot.eligible
BY PotsOfFacts DEF Contests

\* The same of what they hold for some contestants.
LEMMA PotsHeld ==
  ASSUME NEW F \in Families, NEW G
  PROVE  /\ \A pots \in PotsOf(F), more \in PotsOf(F) :
              Held(G, pots \o more) = Held(G, pots) + Held(G, more)
         /\ \A pots \in PotsOf(F) : Held(G, pots) \in Nat
<1>1. \A pot \in PotOf(F) : pot.amount \in Nat
  BY DEF PotOf
<1>3. ASSUME NEW pots \in PotsOf(F), NEW more \in PotsOf(F)
      PROVE  Held(G, pots \o more) = Held(G, pots) + Held(G, more)
  BY <1>1, HeldOfBoth DEF PotsOf
<1>4. ASSUME NEW pots \in PotsOf(F) PROVE Held(G, pots) \in Nat
  BY <1>1, PartsType DEF PotsOf
<1> QED
  BY <1>3, <1>4

\* One pot more.
LEMMA PotAppended ==
  ASSUME NEW F \in Families, NEW pots \in PotsOf(F), NEW pot \in PotOf(F)
  PROVE  /\ Append(pots, pot) \in PotsOf(F)
         /\ Worth(Append(pots, pot)) = Worth(pots) + pot.amount
         /\ \A G : Held(G, Append(pots, pot)) =
                     Held(G, pots) + (IF pot.eligible \in G THEN pot.amount ELSE 0)
<1>1. \A x \in PotOf(F) : x.amount \in Nat
  BY DEF PotOf
<1>2. pots \in Seq(PotOf(F))
  BY DEF PotsOf
<1>3. Append(pots, pot) \in PotsOf(F)
  BY <1>2 DEF PotsOf
<1>4. Worth(Append(pots, pot)) = Worth(pots) + pot.amount
  BY <1>1, <1>2, WorthOfOneMore
<1>5. ASSUME NEW G
      PROVE  Held(G, Append(pots, pot)) =
               Held(G, pots) + (IF pot.eligible \in G THEN pot.amount ELSE 0)
  BY <1>1, <1>2, HeldOfOneMore
<1> QED
  BY <1>3, <1>4, <1>5

\* Chips added to the last pot.
LEMMA AddedToLast ==
  ASSUME NEW F \in Families, NEW pots \in PotsOf(F), pots # <<>>, NEW n \in Nat
  PROVE  /\ AddToLast(pots, n) \in PotsOf(F)
         /\ Worth(AddToLast(pots, n)) = Worth(pots) + n
         /\ \A G : Held(G, AddToLast(pots, n)) =
                     Held(G, pots) + (IF Last(pots).eligible \in G THEN n ELSE 0)
<1> DEFINE r == AddToLast(pots, n)
           l == Len(pots)
<1>1. pots \in Seq(PotOf(F)) /\ l \in 1 .. Len(pots)
  BY DEF PotsOf
<1>2. pots[l] \in PotOf(F)
  BY <1>1
<1>3. [pots[l] EXCEPT !.amount = @ + n] \in PotOf(F)
  BY <1>2 DEF PotOf
<1>4. r = [pots EXCEPT ![l] = [pots[l] EXCEPT !.amount = @ + n]]
  BY DEF AddToLast
<1>5. r \in Seq(PotOf(F))
  <2> HIDE DEF r
  <2> QED BY <1>1, <1>3, <1>4
<1>6. r[l].amount = pots[l].amount + n /\ r[l].eligible = pots[l].eligible
  <2>1. r[l] = [pots[l] EXCEPT !.amount = @ + n]
    <3> HIDE DEF r
    <3> QED BY <1>1, <1>4
  <2> QED BY <1>2, <2>1 DEF PotOf
<1>7. \A pot \in PotOf(F) : pot.amount \in Nat
  BY DEF PotOf
<1> HIDE DEF r
<1>8. Worth(r) = Worth(pots) + n
  BY <1>1, <1>5, <1>6, <1>7, WorthOfMore DEF r
<1>9. ASSUME NEW G
      PROVE  Held(G, r) = Held(G, pots) + (IF pots[l].eligible \in G THEN n ELSE 0)
  BY <1>1, <1>5, <1>6, <1>7, HeldOfMore DEF r
<1>10. Last(pots) = pots[l]
  BY DEF Last
<1> QED
  BY <1>5, <1>8, <1>9, <1>10 DEF PotsOf, r

\* The refunds of a layer are pots for those who paid it, worth what it is worth.
LEMMA RefundsWorth ==
  ASSUME NEW F \in Families, NEW layer \in LayerOf(F), layer.eligible = {}
  PROVE  /\ Refunds(layer) \in PotsOf(F)
         /\ Worth(Refunds(layer)) = layer.amount
<1> DEFINE W == layer.contributors
           n == layer.amount
           c == Cardinality(W)
           key == [i \in Seat |-> i]
           ahead(i) == {j \in W : j < i}
           payer(k) == CHOOSE i \in W : Cardinality(ahead(i)) = k - 1
           q == n \div c
           r == n % c
           r0 == Refunds(layer)
<1>1. n \in Nat /\ W \in SUBSET Seat /\ W # {} /\ \A k \in W : {k} \in F
  BY DEF LayerOf, Layer
<1>2. IsFiniteSet(W) /\ c \in Nat \ {0}
  BY <1>1, SeatsFinite, FS_Subset, FS_CardinalityType, FS_EmptySet
<1>3. q \in Nat /\ r \in 0 .. c /\ n = (q * c) + r
  <2> HIDE DEF c, n
  <2> QED BY <1>1, <1>2, Division
<1>4. \A i \in W : ahead(i) = Ahead(W, key, i)
  BY <1>1 DEF Ahead
<1>5. ASSUME NEW k \in 1 .. c PROVE payer(k) \in W /\ Cardinality(ahead(payer(k))) = k - 1
  <2>1. \A i \in Seat : i \in Nat
    BY SeatCount DEF Seat
  <2>2. key \in [Seat -> Nat] /\ \A i, j \in W : key[i] = key[j] => i = j
    BY <1>1, <2>1
  <2>3. \E i \in W : Cardinality(Ahead(W, key, i)) = k - 1
    <3> HIDE DEF key, W
    <3> QED BY <1>1, <2>2, EveryPlaceTaken DEF c
  <2>4. \E i \in W : Cardinality(ahead(i)) = k - 1
    BY <1>4, <2>3
  <2> HIDE DEF W, ahead
  <2> QED BY <2>4
<1>6. \A k \in 1 .. c :
        r0[k] = Pot(q + (IF k - 1 < r THEN 1 ELSE 0), {payer(k)})
  <2>1. ASSUME NEW k \in 1 .. c
        PROVE  r0[k] = Pot(EvenShare(n, W, ahead(payer(k))), {payer(k)})
    BY DEF Refunds
  <2>2. ASSUME NEW k \in 1 .. c
        PROVE  EvenShare(n, W, ahead(payer(k))) = q + (IF k - 1 < r THEN 1 ELSE 0)
    <3>1. Cardinality(ahead(payer(k))) = k - 1
      BY <1>5
    <3> HIDE DEF ahead, payer
    <3> QED BY <3>1 DEF EvenShare
  <2> HIDE DEF r0, q, r, ahead, payer
  <2> QED BY <2>1, <2>2
<1>7. DOMAIN r0 = 1 .. c /\ r0 = [k \in 1 .. c |-> r0[k]]
  BY DEF Refunds
<1> HIDE DEF r0, q, r, payer, c, W, n
<1>8. ASSUME NEW k \in 1 .. c
      PROVE  /\ r0[k] \in PotOf(F)
             /\ r0[k].amount = q + (IF k - 1 < r THEN 1 ELSE 0)
  <2>1. payer(k) \in W
    BY <1>5
  <2>2. {payer(k)} \in F
    BY <1>1, <2>1
  <2>3. q + (IF k - 1 < r THEN 1 ELSE 0) \in Nat
    BY <1>3
  <2>4. r0[k] = Pot(q + (IF k - 1 < r THEN 1 ELSE 0), {payer(k)})
    BY <1>6
  <2> DEFINE m == q + (IF k - 1 < r THEN 1 ELSE 0)
             S == {payer(k)}
  <2> HIDE DEF m, S
  <2>5. m \in Nat /\ S \in F /\ r0[k] = Pot(m, S)
    BY <2>2, <2>3, <2>4 DEF m, S
  <2>6. r0[k] \in PotOf(F) /\ r0[k].amount = m
    BY <2>5 DEF Pot, PotOf
  <2> QED BY <2>6 DEF m
<1>9. r0 \in PotsOf(F) /\ Len(r0) = c
  <2>1. r0 \in [1 .. c -> PotOf(F)]
    BY <1>7, <1>8
  <2> QED BY <1>2, <2>1 DEF PotsOf
<1> DEFINE tally == [k \in 0 .. c |-> (q * k) + IF k <= r THEN k ELSE r]
<1>10. Tally(tally, r0)
  <2>1. \A k \in Nat : q * k \in Nat
    BY <1>3
  <2>2. tally \in [0 .. c -> Nat] /\ tally[0] = 0
    <3>1. \A k \in 0 .. c : (q * k) + (IF k <= r THEN k ELSE r) \in Nat
      BY <1>2, <1>3, <2>1
    <3>2. q * 0 = 0
      BY <1>3
    <3> QED BY <1>2, <1>3, <3>1, <3>2
  <2>3. ASSUME NEW k \in 1 .. c PROVE tally[k] = tally[k - 1] + r0[k].amount
    <3>1. q * k = (q * (k - 1)) + q
      BY <1>3
    <3>2. /\ tally[k] = (q * k) + IF k <= r THEN k ELSE r
          /\ tally[k - 1] = (q * (k - 1)) + IF k - 1 <= r THEN k - 1 ELSE r
      BY <1>2
    <3>3. r0[k].amount = q + (IF k - 1 < r THEN 1 ELSE 0)
      BY <1>8
    <3>4. k \in Nat /\ r \in Nat /\ q * (k - 1) \in Nat /\ q \in Nat
      BY <1>2, <1>3, <2>1
    <3> HIDE DEF tally
    <3>5. CASE k <= r
      <4> QED BY <3>1, <3>2, <3>3, <3>4, <3>5
    <3>6. CASE ~(k <= r)
      <4> QED BY <3>1, <3>2, <3>3, <3>4, <3>6
    <3> QED BY <3>5, <3>6
  <2> HIDE DEF tally
  <2> QED BY <1>9, <2>2, <2>3 DEF Tally
<1>11. tally[c] = n
  BY <1>2, <1>3
<1> HIDE DEF tally
<1>12. Worth(r0) = tally[Len(r0)]
  BY <1>9, <1>10, PotsOfFacts, WorthIs DEF PotsOf
<1> QED
  BY <1>9, <1>11, <1>12 DEF r0, n

-----------------------------------------------------------------------------
(* Measures along a run *)

\* When every element adds at least its amount to a measure of the state, the run adds
\* at least the worth of the sequence.
LEMMA RunAtLeast ==
  ASSUME NEW T, \A x \in T : x.amount \in Nat, NEW s \in Seq(T),
         NEW V, NEW base, NEW step, NEW result,
         NEW acc, Run(acc, Len(s), V, base, step, result),
         NEW m \in [V -> Int],
         \A k \in 1 .. Len(s), v \in V : m[step[<<k, v>>]] >= m[v] + s[k].amount
  PROVE  result \in V /\ m[result] >= m[base] + Worth(s)
<1> DEFINE n == Len(s)
<1>1. n \in Nat
  OBVIOUS
<1>2. PICK tally : Tally(tally, s) /\ tally[n] = Worth(s)
  BY TallyExists
<1>3. /\ acc \in [0 .. n -> V] /\ acc[0] = base /\ acc[n] = result
      /\ \A k \in 1 .. n : acc[k] = step[<<k, acc[k - 1]>>]
  BY DEF Run
<1>4. /\ tally \in [0 .. n -> Nat] /\ tally[0] = 0
      /\ \A k \in 1 .. n : tally[k] = tally[k - 1] + s[k].amount /\ s[k].amount \in Nat
  BY <1>2 DEF Tally
<1>5. \A k \in 1 .. n, v \in V : m[step[<<k, v>>]] >= m[v] + s[k].amount
  OBVIOUS
<1> HIDE DEF n
<1> DEFINE P == {k \in Nat : k <= n => m[acc[k]] >= m[base] + tally[k]}
<1>6. 0 \in P
  <2>1. base \in V
    BY <1>1, <1>3
  <2> QED BY <1>3, <1>4, <2>1
<1>7. ASSUME NEW k \in P PROVE k + 1 \in P
  <2>1. k \in Nat /\ (k + 1) - 1 = k
    OBVIOUS
  <2>2. CASE k + 1 <= n
    <3>1. k + 1 \in 1 .. n /\ k \in 0 .. n /\ m[acc[k]] >= m[base] + tally[k]
      BY <1>1, <2>1, <2>2
    <3>2. acc[k] \in V /\ acc[k + 1] \in V /\ acc[k + 1] = step[<<k + 1, acc[k]>>]
      BY <1>3, <2>1, <3>1
    <3>3. m[acc[k + 1]] >= m[acc[k]] + s[k + 1].amount
      BY <1>5, <3>1, <3>2
    <3>4. tally[k + 1] = tally[k] + s[k + 1].amount /\ s[k + 1].amount \in Nat /\ tally[k] \in Nat
      BY <1>4, <2>1, <3>1
    <3>5. m[base] \in Int /\ m[acc[k]] \in Int /\ m[acc[k + 1]] \in Int
      BY <1>1, <1>3, <3>2
    <3> QED BY <2>1, <3>1, <3>3, <3>4, <3>5, SMTT(30)
  <2> QED BY <1>1, <2>1, <2>2
<1>8. P = Nat
  <2>1. P \in SUBSET Nat
    OBVIOUS
  <2> HIDE DEF P
  <2> QED BY <1>6, <1>7, <2>1, CountingUp
<1>9. m[acc[n]] >= m[base] + tally[n]
  BY <1>1, <1>8
<1> QED
  BY <1>1, <1>2, <1>3, <1>9

\* The same with at most.
LEMMA RunAtMost ==
  ASSUME NEW T, \A x \in T : x.amount \in Nat, NEW s \in Seq(T),
         NEW V, NEW base, NEW step, NEW result,
         NEW acc, Run(acc, Len(s), V, base, step, result),
         NEW m \in [V -> Int],
         \A k \in 1 .. Len(s), v \in V : m[step[<<k, v>>]] <= m[v] + s[k].amount
  PROVE  result \in V /\ m[result] <= m[base] + Worth(s)
<1> DEFINE n == Len(s)
<1>1. n \in Nat
  OBVIOUS
<1>2. PICK tally : Tally(tally, s) /\ tally[n] = Worth(s)
  BY TallyExists
<1>3. /\ acc \in [0 .. n -> V] /\ acc[0] = base /\ acc[n] = result
      /\ \A k \in 1 .. n : acc[k] = step[<<k, acc[k - 1]>>]
  BY DEF Run
<1>4. /\ tally \in [0 .. n -> Nat] /\ tally[0] = 0
      /\ \A k \in 1 .. n : tally[k] = tally[k - 1] + s[k].amount /\ s[k].amount \in Nat
  BY <1>2 DEF Tally
<1>5. \A k \in 1 .. n, v \in V : m[step[<<k, v>>]] <= m[v] + s[k].amount
  OBVIOUS
<1> HIDE DEF n
<1> DEFINE P == {k \in Nat : k <= n => m[acc[k]] <= m[base] + tally[k]}
<1>6. 0 \in P
  <2>1. base \in V
    BY <1>1, <1>3
  <2> QED BY <1>3, <1>4, <2>1
<1>7. ASSUME NEW k \in P PROVE k + 1 \in P
  <2>1. k \in Nat /\ (k + 1) - 1 = k
    OBVIOUS
  <2>2. CASE k + 1 <= n
    <3>1. k + 1 \in 1 .. n /\ k \in 0 .. n /\ m[acc[k]] <= m[base] + tally[k]
      BY <1>1, <2>1, <2>2
    <3>2. acc[k] \in V /\ acc[k + 1] \in V /\ acc[k + 1] = step[<<k + 1, acc[k]>>]
      BY <1>3, <2>1, <3>1
    <3>3. m[acc[k + 1]] <= m[acc[k]] + s[k + 1].amount
      BY <1>5, <3>1, <3>2
    <3>4. tally[k + 1] = tally[k] + s[k + 1].amount /\ s[k + 1].amount \in Nat /\ tally[k] \in Nat
      BY <1>4, <2>1, <3>1
    <3>5. m[base] \in Int /\ m[acc[k]] \in Int /\ m[acc[k + 1]] \in Int
      BY <1>1, <1>3, <3>2
    <3> QED BY <2>1, <3>1, <3>3, <3>4, <3>5, SMTT(30)
  <2> QED BY <1>1, <2>1, <2>2
<1>8. P = Nat
  <2>1. P \in SUBSET Nat
    OBVIOUS
  <2> HIDE DEF P
  <2> QED BY <1>6, <1>7, <2>1, CountingUp
<1>9. m[acc[n]] <= m[base] + tally[n]
  BY <1>1, <1>8
<1> QED
  BY <1>1, <1>2, <1>3, <1>9

\* Every element of s adds exactly its amount to the measure m.
Adds(m, s, V, step) ==
  \A k \in 1 .. Len(s), v \in V :
    step[<<k, v>>] \in V /\ m[step[<<k, v>>]] = m[v] + s[k].amount

\* And the same with exactly.
LEMMA RunCounts ==
  ASSUME NEW T, \A x \in T : x.amount \in Nat, NEW s \in Seq(T),
         NEW V, NEW base, NEW step, NEW result,
         NEW acc, Run(acc, Len(s), V, base, step, result),
         NEW m \in [V -> Int], Adds(m, s, V, step)
  PROVE  result \in V /\ m[result] = m[base] + Worth(s)
<1>1. ASSUME NEW k \in 1 .. Len(s), NEW v \in V
      PROVE  /\ m[step[<<k, v>>]] >= m[v] + s[k].amount
             /\ m[step[<<k, v>>]] <= m[v] + s[k].amount
  <2>1. step[<<k, v>>] \in V /\ m[step[<<k, v>>]] = m[v] + s[k].amount
    BY DEF Adds
  <2>2. m[step[<<k, v>>]] \in Int
    BY <2>1
  <2> QED BY <2>1, <2>2
<1>2. \A k \in 1 .. Len(s), v \in V : m[step[<<k, v>>]] >= m[v] + s[k].amount
  BY <1>1
<1>3. \A k \in 1 .. Len(s), v \in V : m[step[<<k, v>>]] <= m[v] + s[k].amount
  BY <1>1
<1>4. result \in V /\ m[result] >= m[base] + Worth(s)
  BY <1>2, RunAtLeast
<1>5. m[result] <= m[base] + Worth(s)
  BY <1>3, RunAtMost
<1>6. base \in V /\ Worth(s) \in Int
  <2>1. PICK tally : Tally(tally, s)
    BY TallyExists
  <2>2. Worth(s) \in Nat
    BY <2>1, WorthIs
  <2>3. base \in V
    BY DEF Run
  <2> QED BY <2>2, <2>3
<1>7. m[result] \in Int /\ m[base] \in Int
  BY <1>4, <1>6
<1> QED
  BY <1>4, <1>5, <1>6, <1>7, SMTT(30)

\* When every element adds at least what it holds for the contestants of G, the run adds
\* at least what the sequence holds for them.
LEMMA RunHoldsAtLeast ==
  ASSUME NEW G, NEW T, \A x \in T : x.amount \in Nat, NEW s \in Seq(T),
         NEW V, NEW base, NEW step, NEW result,
         NEW acc, Run(acc, Len(s), V, base, step, result),
         NEW m \in [V -> Int],
         \A k \in 1 .. Len(s), v \in V :
           m[step[<<k, v>>]] >= m[v] + (IF s[k].eligible \in G THEN s[k].amount ELSE 0)
  PROVE  result \in V /\ m[result] >= m[base] + Held(G, s)
<1> DEFINE n == Len(s)
           parts == Parts(G, s)
<1>1. parts \in Seq(Amounts) /\ Len(parts) = n
  BY PartsType
<1>2. \A k \in 1 .. n : parts[k].amount = IF s[k].eligible \in G THEN s[k].amount ELSE 0
  BY DEF Parts, Part
<1>3. \A x \in Amounts : x.amount \in Nat
  BY DEF Amounts
<1>4. Run(acc, n, V, base, step, result)
  OBVIOUS
<1>5. \A k \in 1 .. n, v \in V :
        m[step[<<k, v>>]] >= m[v] + (IF s[k].eligible \in G THEN s[k].amount ELSE 0)
  OBVIOUS
<1> HIDE DEF n, parts
<1>6. \A k \in 1 .. n, v \in V : m[step[<<k, v>>]] >= m[v] + parts[k].amount
  BY <1>2, <1>5
<1>7. result \in V /\ m[result] >= m[base] + Worth(parts)
  BY <1>1, <1>3, <1>4, <1>6, RunAtLeast
<1> QED
  BY <1>7 DEF Held, parts

\* The same with at most.
LEMMA RunHoldsAtMost ==
  ASSUME NEW G, NEW T, \A x \in T : x.amount \in Nat, NEW s \in Seq(T),
         NEW V, NEW base, NEW step, NEW result,
         NEW acc, Run(acc, Len(s), V, base, step, result),
         NEW m \in [V -> Int],
         \A k \in 1 .. Len(s), v \in V :
           m[step[<<k, v>>]] <= m[v] + (IF s[k].eligible \in G THEN s[k].amount ELSE 0)
  PROVE  result \in V /\ m[result] <= m[base] + Held(G, s)
<1> DEFINE n == Len(s)
           parts == Parts(G, s)
<1>1. parts \in Seq(Amounts) /\ Len(parts) = n
  BY PartsType
<1>2. \A k \in 1 .. n : parts[k].amount = IF s[k].eligible \in G THEN s[k].amount ELSE 0
  BY DEF Parts, Part
<1>3. \A x \in Amounts : x.amount \in Nat
  BY DEF Amounts
<1>4. Run(acc, n, V, base, step, result)
  OBVIOUS
<1>5. \A k \in 1 .. n, v \in V :
        m[step[<<k, v>>]] <= m[v] + (IF s[k].eligible \in G THEN s[k].amount ELSE 0)
  OBVIOUS
<1> HIDE DEF n, parts
<1>6. \A k \in 1 .. n, v \in V : m[step[<<k, v>>]] <= m[v] + parts[k].amount
  BY <1>2, <1>5
<1>7. result \in V /\ m[result] <= m[base] + Worth(parts)
  BY <1>1, <1>3, <1>4, <1>6, RunAtMost
<1> QED
  BY <1>7 DEF Held, parts

\* Every element of s adds to the measure m exactly what it holds for the contestants of G.
Gains(m, G, s, V, step) ==
  \A k \in 1 .. Len(s), v \in V :
    /\ step[<<k, v>>] \in V
    /\ m[step[<<k, v>>]] = m[v] + (IF s[k].eligible \in G THEN s[k].amount ELSE 0)

\* And the same with exactly.
LEMMA RunHolds ==
  ASSUME NEW G, NEW T, \A x \in T : x.amount \in Nat, NEW s \in Seq(T),
         NEW V, NEW base, NEW step, NEW result,
         NEW acc, Run(acc, Len(s), V, base, step, result),
         NEW m \in [V -> Int], Gains(m, G, s, V, step)
  PROVE  result \in V /\ m[result] = m[base] + Held(G, s)
<1> DEFINE n == Len(s)
           parts == Parts(G, s)
<1>1. parts \in Seq(Amounts) /\ Len(parts) = n
  BY PartsType
<1>2. \A k \in 1 .. n : parts[k].amount = IF s[k].eligible \in G THEN s[k].amount ELSE 0
  BY DEF Parts, Part
<1>3. \A x \in Amounts : x.amount \in Nat
  BY DEF Amounts
<1>4. Run(acc, n, V, base, step, result)
  OBVIOUS
<1>5. \A k \in 1 .. n, v \in V :
        step[<<k, v>>] \in V /\ m[step[<<k, v>>]] = m[v] + (IF s[k].eligible \in G THEN s[k].amount ELSE 0)
  BY DEF Gains
<1> HIDE DEF n, parts
<1>6. \A k \in 1 .. n, v \in V : step[<<k, v>>] \in V /\ m[step[<<k, v>>]] = m[v] + parts[k].amount
  BY <1>2, <1>5
<1>7. result \in V /\ m[result] = m[base] + Worth(parts)
  <2>1. Run(acc, Len(parts), V, base, step, result)
    BY <1>1, <1>4
  <2>2. Adds(m, parts, V, step)
    BY <1>1, <1>6 DEF Adds
  <2>3. parts \in Seq(Amounts) /\ m \in [V -> Int]
    BY <1>1
  <2> QED BY ONLY <1>3, <2>1, <2>2, <2>3, RunCounts
<1> QED
  BY <1>7 DEF Held, parts

-----------------------------------------------------------------------------
(* Dead layers are absorbed *)

\* The pots so far and the refunds so far, and what they are worth together.
Accounts(F) == [pots : PotsOf(F), refunds : PotsOf(F)]
\* Before the first layer; and what accounts are worth, and hold for those of G.
NoPots == [pots |-> <<>>, refunds |-> <<>>]
WorthAll(acc) == Worth(acc.pots) + Worth(acc.refunds)
HeldAll(G, acc) == Held(G, acc.pots) + Held(G, acc.refunds)

\* What a layer adds for the contestants of G: the layer if they contest it; if nobody
\* does, the layer if they contest the last pot; if there is no pot, their refunds.
Gain(G, acc, layer) ==
  IF layer.eligible # {} THEN IF layer.eligible \in G THEN layer.amount ELSE 0
  ELSE IF acc.pots # <<>> THEN IF Last(acc.pots).eligible \in G THEN layer.amount ELSE 0
  ELSE Held(G, Refunds(layer))

\* One layer more.
LEMMA AbsorbKeeps ==
  ASSUME NEW F \in Families, NEW acc \in Accounts(F), NEW layer \in LayerOf(F)
  PROVE  /\ Absorb(acc, layer) \in Accounts(F)
         /\ WorthAll(Absorb(acc, layer)) = WorthAll(acc) + layer.amount
         /\ \A G : /\ Gain(G, acc, layer) \in Nat
                   /\ HeldAll(G, Absorb(acc, layer)) = HeldAll(G, acc) + Gain(G, acc, layer)
<1> DEFINE n == layer.amount
           pots == acc.pots
           refunds == acc.refunds
<1>1. n \in Nat /\ pots \in PotsOf(F) /\ refunds \in PotsOf(F)
  BY DEF LayerOf, Layer, Accounts
<1>2. /\ Worth(pots) \in Nat /\ Worth(refunds) \in Nat
      /\ \A G : Held(G, pots) \in Nat /\ Held(G, refunds) \in Nat
  BY <1>1, PotsOfFacts, PotsHeld
<1>3. acc = [pots |-> pots, refunds |-> refunds]
  BY DEF Accounts
<1>4. CASE layer.eligible # {}
  <2> DEFINE pot == Pot(n, layer.eligible)
             more == Append(pots, pot)
  <2>1. pot \in PotOf(F) /\ pot.amount = n /\ pot.eligible = layer.eligible
    <3>1. layer.eligible \in F
      BY <1>4 DEF LayerOf
    <3> HIDE DEF n
    <3> QED BY <1>1, <3>1 DEF Pot, PotOf
  <2>2. Absorb(acc, layer) = [pots |-> more, refunds |-> refunds]
    BY <1>3, <1>4 DEF Absorb
  <2> HIDE DEF pot
  <2>3. /\ more \in PotsOf(F) /\ Worth(more) = Worth(pots) + pot.amount
        /\ \A G : Held(G, more) = Held(G, pots) + (IF pot.eligible \in G THEN pot.amount ELSE 0)
    <3> HIDE DEF n, pots
    <3> QED BY <1>1, <2>1, PotAppended
  <2>4. \A G : Held(G, more) = Held(G, pots) + (IF layer.eligible \in G THEN n ELSE 0)
    <3> HIDE DEF n, pots, more
    <3> QED BY <2>1, <2>3
  <2> HIDE DEF more, pots, refunds, n
  <2>5. /\ Absorb(acc, layer) \in Accounts(F)
        /\ WorthAll(Absorb(acc, layer)) = WorthAll(acc) + n
    BY <1>1, <1>2, <1>3, <2>1, <2>2, <2>3 DEF Accounts, WorthAll
  <2>6. ASSUME NEW G
        PROVE  HeldAll(G, Absorb(acc, layer)) =
                 HeldAll(G, acc) + (IF layer.eligible \in G THEN n ELSE 0)
    <3>1. HeldAll(G, Absorb(acc, layer)) = Held(G, more) + Held(G, refunds)
      BY <2>2 DEF HeldAll
    <3>2. HeldAll(G, acc) = Held(G, pots) + Held(G, refunds)
      BY DEF HeldAll, pots, refunds
    <3> QED BY <1>1, <1>2, <2>4, <3>1, <3>2
  <2>7. \A G : Gain(G, acc, layer) = IF layer.eligible \in G THEN n ELSE 0
    BY <1>4 DEF Gain, n
  <2> QED BY <1>1, <2>5, <2>6, <2>7 DEF n
<1>5. CASE layer.eligible = {} /\ pots # <<>>
  <2> DEFINE more == AddToLast(pots, n)
  <2>1. /\ more \in PotsOf(F) /\ Worth(more) = Worth(pots) + n
        /\ \A G : Held(G, more) = Held(G, pots) + (IF Last(pots).eligible \in G THEN n ELSE 0)
    BY <1>1, <1>5, AddedToLast
  <2>2. Absorb(acc, layer) = [pots |-> more, refunds |-> refunds]
    BY <1>3, <1>5 DEF Absorb
  <2> HIDE DEF more, pots, refunds, n
  <2>3. /\ Absorb(acc, layer) \in Accounts(F)
        /\ WorthAll(Absorb(acc, layer)) = WorthAll(acc) + n
    BY <1>1, <1>2, <1>3, <2>1, <2>2 DEF Accounts, WorthAll
  <2>4. ASSUME NEW G
        PROVE  HeldAll(G, Absorb(acc, layer)) =
                 HeldAll(G, acc) + (IF Last(pots).eligible \in G THEN n ELSE 0)
    <3>1. HeldAll(G, Absorb(acc, layer)) = Held(G, more) + Held(G, refunds)
      BY <2>2 DEF HeldAll
    <3>2. HeldAll(G, acc) = Held(G, pots) + Held(G, refunds)
      BY DEF HeldAll, pots, refunds
    <3> QED BY <1>1, <1>2, <2>1, <3>1, <3>2
  <2>5. \A G : Gain(G, acc, layer) = IF Last(pots).eligible \in G THEN n ELSE 0
    BY <1>5 DEF Gain, n, pots
  <2> QED BY <1>1, <2>3, <2>4, <2>5 DEF n
<1>6. CASE layer.eligible = {} /\ pots = <<>>
  <2> DEFINE back == Refunds(layer)
             more == refunds \o back
  <2>1. back \in PotsOf(F) /\ Worth(back) = n
    BY <1>6, RefundsWorth
  <2>2. Absorb(acc, layer) = [pots |-> pots, refunds |-> more]
    BY <1>3, <1>6 DEF Absorb
  <2> HIDE DEF back
  <2>3. more \in PotsOf(F) /\ Worth(more) = Worth(refunds) + n
    BY <1>1, <2>1, PotsOfFacts
  <2>4. \A G : Held(G, more) = Held(G, refunds) + Held(G, back) /\ Held(G, back) \in Nat
    BY <1>1, <2>1, PotsHeld
  <2> HIDE DEF more, pots, refunds, n
  <2>5. /\ Absorb(acc, layer) \in Accounts(F)
        /\ WorthAll(Absorb(acc, layer)) = WorthAll(acc) + n
    BY <1>1, <1>2, <1>3, <2>2, <2>3 DEF Accounts, WorthAll
  <2>6. ASSUME NEW G PROVE HeldAll(G, Absorb(acc, layer)) = HeldAll(G, acc) + Held(G, back)
    <3>1. HeldAll(G, Absorb(acc, layer)) = Held(G, pots) + Held(G, more)
      BY <2>2 DEF HeldAll
    <3>2. HeldAll(G, acc) = Held(G, pots) + Held(G, refunds)
      BY DEF HeldAll, pots, refunds
    <3> QED BY <1>2, <2>4, <3>1, <3>2
  <2>7. \A G : Gain(G, acc, layer) = Held(G, back)
    BY <1>6 DEF Gain, pots, back
  <2> QED BY <2>4, <2>5, <2>6, <2>7 DEF n
<1> QED
  BY <1>4, <1>5, <1>6

\* Absorb as the step of a run through the layers.
AbsorbStep(layers, F) ==
  [p \in (1 .. Len(layers)) \X Accounts(F) |-> Absorb(p[2], layers[p[1]])]

\* What it does to the layer it has come to.
LEMMA AbsorbStepIs ==
  ASSUME NEW layers, NEW F, NEW k \in 1 .. Len(layers), NEW acc \in Accounts(F)
  PROVE  AbsorbStep(layers, F)[<<k, acc>>] = Absorb(acc, layers[k])
<1> DEFINE V == Accounts(F)
           n == Len(layers)
<1>1. AbsorbStep(layers, F) = [p \in (1 .. n) \X V |-> Absorb(p[2], layers[p[1]])]
  BY DEF AbsorbStep
<1>2. k \in 1 .. n /\ acc \in V
  OBVIOUS
<1> HIDE DEF V, n
<1> QED
  BY <1>1, <1>2

\* The layers go into the accounts one after the other.
LEMMA AbsorbIsRun ==
  ASSUME NEW F \in Families, NEW layers \in Seq(LayerOf(F)), NEW from \in Accounts(F)
  PROVE  \E acc : Run(acc, Len(layers), Accounts(F), from, AbsorbStep(layers, F),
                      FoldLeft(Absorb, from, layers))
<1> DEFINE n == Len(layers)
           V == Accounts(F)
           base == from
           step == AbsorbStep(layers, F)
           Recursive(g) == g = [s \in SUBSET (1 .. n) |->
                                  IF s = {} THEN base
                                  ELSE LET x == Max(s) IN Absorb(g[s \ {x}], layers[x])]
           it == CHOOSE g : Recursive(g)
<1>1. n \in Nat /\ DOMAIN layers = 1 .. n
  OBVIOUS
<1>2. base \in V
  OBVIOUS
<1>3. ASSUME NEW k \in 1 .. n, NEW v \in V
      PROVE  step[<<k, v>>] = Absorb(v, layers[k]) /\ step[<<k, v>>] \in V
  <2>1. layers[k] \in LayerOf(F)
    OBVIOUS
  <2> QED BY <2>1, AbsorbStepIs, AbsorbKeeps
<1>4. FoldLeft(Absorb, base, layers) = it[1 .. n]
  BY <1>1 DEF FoldLeft, MapThenFoldSet
<1> HIDE DEF V, step, base, n
<1>5. PICK g : Iteration(g, 1 .. n, V, base, Latest, step)
  BY <1>1, <1>2, <1>3, FoldExists
<1>6. \A s \in SUBSET (1 .. n) : s # {} => Max(s) \in 1 .. n /\ Latest[s] = Max(s)
  BY <1>1, LatestOf
<1>7. Recursive(it)
  <2>1. \A s \in SUBSET (1 .. n) :
          g[s] = IF s = {} THEN base ELSE Absorb(g[s \ {Max(s)}], layers[Max(s)])
    BY <1>3, <1>5, <1>6 DEF Iteration
  <2>2. Recursive(g)
    BY <1>5, <2>1 DEF Iteration
  <2> QED BY <2>2
<1>8. \A s \in SUBSET (1 .. n) :
        it[s] = IF s = {} THEN base ELSE Absorb(it[s \ {Max(s)}], layers[Max(s)])
  <2> HIDE DEF it
  <2> QED BY <1>7
<1> HIDE DEF it, Recursive
<1>9. Folds(it, n, V, base, step)
  BY <1>3, <1>6, <1>8 DEF Folds
<1>10. \E acc : Run(acc, n, V, base, step, it[1 .. n])
  BY <1>1, <1>2, <1>3, <1>9, FoldRuns
<1> QED
  BY <1>4, <1>10 DEF V, step, base, n

\* What the layers become: pots and refunds worth what they are worth, which hold for
\* every set of contestants what the layers do, and dead money besides.
LEMMA AbsorbRuns ==
  ASSUME NEW F \in Families, NEW layers \in Seq(LayerOf(F))
  PROVE  LET done == FoldLeft(Absorb, NoPots, layers)
         IN /\ done \in Accounts(F)
            /\ WorthAll(done) = Worth(layers)
            /\ \A G : {} \notin G => HeldAll(G, done) >= Held(G, layers)
            /\ (\A k \in DOMAIN layers : layers[k].eligible # {}) =>
                 \A G : HeldAll(G, done) = Held(G, layers)
<1> DEFINE done == FoldLeft(Absorb, NoPots, layers)
           V == Accounts(F)
           step == AbsorbStep(layers, F)
           n == Len(layers)
           worth == [v \in V |-> WorthAll(v)]
           held(G) == [v \in V |-> HeldAll(G, v)]
<1>1. PICK acc : Run(acc, n, V, NoPots, step, done)
  <2>1. NoPots \in V
    BY PotsOfFacts DEF NoPots, Accounts
  <2> HIDE DEF done
  <2> QED BY <2>1, AbsorbIsRun DEF done
<1>2. \A x \in LayerOf(F) : x.amount \in Nat
  BY DEF LayerOf, Layer
<1>3. ASSUME NEW k \in 1 .. n, NEW v \in V
      PROVE  /\ step[<<k, v>>] \in V
             /\ WorthAll(step[<<k, v>>]) = WorthAll(v) + layers[k].amount
             /\ \A G : /\ Gain(G, v, layers[k]) \in Nat
                       /\ HeldAll(G, step[<<k, v>>]) = HeldAll(G, v) + Gain(G, v, layers[k])
                       /\ layers[k].eligible # {} =>
                            Gain(G, v, layers[k]) =
                              IF layers[k].eligible \in G THEN layers[k].amount ELSE 0
  <2>1. layers[k] \in LayerOf(F) /\ v \in Accounts(F) /\ k \in 1 .. Len(layers)
    OBVIOUS
  <2>2. step[<<k, v>>] = Absorb(v, layers[k])
    BY <2>1, AbsorbStepIs
  <2> HIDE DEF step
  <2>3. /\ Absorb(v, layers[k]) \in Accounts(F)
        /\ WorthAll(Absorb(v, layers[k])) = WorthAll(v) + layers[k].amount
        /\ \A G : /\ Gain(G, v, layers[k]) \in Nat
                  /\ HeldAll(G, Absorb(v, layers[k])) = HeldAll(G, v) + Gain(G, v, layers[k])
    BY <2>1, AbsorbKeeps
  <2> QED BY <2>2, <2>3 DEF Gain
<1>4. ASSUME NEW v \in V PROVE WorthAll(v) \in Int /\ \A G : HeldAll(G, v) \in Int
  <2>1. v.pots \in PotsOf(F) /\ v.refunds \in PotsOf(F)
    BY DEF Accounts
  <2>2. Worth(v.pots) \in Nat /\ Worth(v.refunds) \in Nat
    BY <2>1, PotsOfFacts
  <2>3. \A G : Held(G, v.pots) \in Nat /\ Held(G, v.refunds) \in Nat
    BY <2>1, PotsHeld
  <2> QED BY <2>2, <2>3 DEF WorthAll, HeldAll
<1>5. WorthAll(NoPots) = 0 /\ \A G : HeldAll(G, NoPots) = 0
  BY WorthOfNone, HeldOfNone DEF NoPots, WorthAll, HeldAll
<1>6. NoPots \in V /\ Worth(layers) \in Nat /\ \A G : Held(G, layers) \in Nat
  <2>1. NoPots \in V
    BY PotsOfFacts DEF NoPots, Accounts
  <2>2. PICK tally : Tally(tally, layers)
    BY <1>2, TallyExists
  <2> QED BY <1>2, <2>1, <2>2, WorthIs, PartsType
<1>7. layers \in Seq(LayerOf(F)) /\ n = Len(layers) /\ DOMAIN layers = 1 .. n
  OBVIOUS
<1> HIDE DEF V, step, done, n
<1>8. done \in V /\ WorthAll(done) = Worth(layers)
  <2>1. worth \in [V -> Int] /\ \A v \in V : worth[v] = WorthAll(v)
    BY <1>4
  <2> HIDE DEF worth
  <2>2. Adds(worth, layers, V, step)
    <3>1. \A k \in 1 .. n, v \in V :
            step[<<k, v>>] \in V /\ WorthAll(step[<<k, v>>]) = WorthAll(v) + layers[k].amount
      BY <1>3
    <3> QED BY <1>7, <2>1, <3>1 DEF Adds
  <2>3. done \in V /\ worth[done] = worth[NoPots] + Worth(layers)
    BY <1>1, <1>2, <1>7, <2>1, <2>2, RunCounts
  <2> QED BY <1>5, <1>6, <2>1, <2>3
<1>9. ASSUME NEW G, {} \notin G PROVE HeldAll(G, done) >= Held(G, layers)
  <2> DEFINE m == held(G)
  <2>1. m \in [V -> Int] /\ \A v \in V : m[v] = HeldAll(G, v)
    BY <1>4
  <2> HIDE DEF m
  <2>2. ASSUME NEW k \in 1 .. n, NEW v \in V
        PROVE  m[step[<<k, v>>]] >= m[v] + (IF layers[k].eligible \in G THEN layers[k].amount ELSE 0)
    <3> DEFINE gain == Gain(G, v, layers[k])
               part == IF layers[k].eligible \in G THEN layers[k].amount ELSE 0
    <3>1. step[<<k, v>>] \in V
      BY <1>3
    <3>2. /\ HeldAll(G, step[<<k, v>>]) = HeldAll(G, v) + gain
          /\ gain \in Nat /\ (layers[k].eligible # {} => gain = part)
      BY <1>3
    <3>3. layers[k].amount \in Nat
      BY <1>2, <1>7
    <3>4. layers[k].eligible = {} => part = 0
      BY <1>9
    <3> HIDE DEF gain
    <3>5. gain >= part /\ part \in Nat
      BY <3>2, <3>3, <3>4
    <3>6. HeldAll(G, v) \in Int
      BY <1>4
    <3>7. m[step[<<k, v>>]] = HeldAll(G, v) + gain /\ m[v] = HeldAll(G, v)
      BY <2>1, <3>1, <3>2
    <3> HIDE DEF part
    <3>8. m[step[<<k, v>>]] >= m[v] + part
      BY <3>2, <3>5, <3>6, <3>7
    <3> QED BY <3>8 DEF part
  <2>3. done \in V /\ m[done] >= m[NoPots] + Held(G, layers)
    <3>1. Run(acc, Len(layers), V, NoPots, step, done)
      BY <1>1, <1>7
    <3>2. layers \in Seq(LayerOf(F)) /\ m \in [V -> Int]
      BY <1>7, <2>1
    <3>3. \A k \in 1 .. Len(layers), v \in V :
            m[step[<<k, v>>]] >= m[v] + (IF layers[k].eligible \in G THEN layers[k].amount ELSE 0)
      BY <1>7, <2>2
    <3> QED BY ONLY <1>2, <3>1, <3>2, <3>3, RunHoldsAtLeast
  <2>4. m[NoPots] = 0 /\ Held(G, layers) \in Nat /\ m[done] = HeldAll(G, done)
    BY <1>5, <1>6, <2>1, <2>3
  <2> QED BY <2>3, <2>4
<1>10. ASSUME \A k \in 1 .. n : layers[k].eligible # {}, NEW G
       PROVE  HeldAll(G, done) = Held(G, layers)
  <2> DEFINE m == held(G)
  <2>1. m \in [V -> Int] /\ \A v \in V : m[v] = HeldAll(G, v)
    BY <1>4
  <2> HIDE DEF m
  <2>2. ASSUME NEW k \in 1 .. n, NEW v \in V
        PROVE  /\ step[<<k, v>>] \in V
               /\ m[step[<<k, v>>]] =
                    m[v] + (IF layers[k].eligible \in G THEN layers[k].amount ELSE 0)
    <3>1. /\ step[<<k, v>>] \in V
          /\ HeldAll(G, step[<<k, v>>]) =
               HeldAll(G, v) + (IF layers[k].eligible \in G THEN layers[k].amount ELSE 0)
      BY <1>3, <1>10
    <3> QED BY <2>1, <3>1
  <2>3. done \in V /\ m[done] = m[NoPots] + Held(G, layers)
    <3>1. Run(acc, Len(layers), V, NoPots, step, done)
      BY <1>1, <1>7
    <3>2. Gains(m, G, layers, V, step)
      BY <1>7, <2>2 DEF Gains
    <3>3. layers \in Seq(LayerOf(F)) /\ m \in [V -> Int]
      BY <1>7, <2>1
    <3> QED BY ONLY <1>2, <3>1, <3>2, <3>3, RunHolds
  <2>4. m[NoPots] = 0 /\ Held(G, layers) \in Nat /\ m[done] = HeldAll(G, done)
    BY <1>5, <1>6, <2>1, <2>3
  <2> QED BY <2>3, <2>4
<1> QED
  BY <1>7, <1>8, <1>9, <1>10 DEF V, done

-----------------------------------------------------------------------------
(* Refunds are pushed, equal pots merged *)

\* PushUnlessEmpty as the step of a run through the refunds.
PushStep(refunds, F) ==
  [p \in (1 .. Len(refunds)) \X PotsOf(F) |-> PushUnlessEmpty(p[2], refunds[p[1]])]

\* A refund without chips in it changes nothing, another becomes a pot.
LEMMA PushUnlessEmptyKeeps ==
  ASSUME NEW F \in Families, NEW refunds \in PotsOf(F), NEW k \in 1 .. Len(refunds),
         NEW v \in PotsOf(F)
  PROVE  /\ PushStep(refunds, F)[<<k, v>>] = PushUnlessEmpty(v, refunds[k])
         /\ PushUnlessEmpty(v, refunds[k]) \in PotsOf(F)
         /\ Worth(PushUnlessEmpty(v, refunds[k])) = Worth(v) + refunds[k].amount
         /\ \A G : Held(G, PushUnlessEmpty(v, refunds[k])) =
                     Held(G, v) + (IF refunds[k].eligible \in G THEN refunds[k].amount ELSE 0)
<1> DEFINE pot == refunds[k]
           V == PotsOf(F)
           n == Len(refunds)
<1>1. PushStep(refunds, F)[<<k, v>>] = PushUnlessEmpty(v, pot)
  <2>1. PushStep(refunds, F) = [p \in (1 .. n) \X V |-> PushUnlessEmpty(p[2], refunds[p[1]])]
    BY DEF PushStep
  <2>2. k \in 1 .. n /\ v \in V
    OBVIOUS
  <2> HIDE DEF V, n
  <2> QED BY <2>1, <2>2
<1>2. pot \in PotOf(F)
  BY DEF PotsOf
<1> HIDE DEF pot
<1>3. /\ Append(v, pot) \in PotsOf(F) /\ Worth(Append(v, pot)) = Worth(v) + pot.amount
      /\ \A G : Held(G, Append(v, pot)) =
                  Held(G, v) + (IF pot.eligible \in G THEN pot.amount ELSE 0)
  BY <1>2, PotAppended
<1>4. pot.amount \in Nat /\ Worth(v) \in Nat /\ \A G : Held(G, v) \in Nat
  BY <1>2, PotsOfFacts, PotsHeld DEF PotOf
<1>5. /\ PushUnlessEmpty(v, pot) \in PotsOf(F)
      /\ Worth(PushUnlessEmpty(v, pot)) = Worth(v) + pot.amount
      /\ \A G : Held(G, PushUnlessEmpty(v, pot)) =
                  Held(G, v) + (IF pot.eligible \in G THEN pot.amount ELSE 0)
  <2>1. CASE pot.amount > 0
    <3>1. PushUnlessEmpty(v, pot) = Append(v, pot)
      BY <2>1 DEF PushUnlessEmpty
    <3> QED BY <1>3, <3>1
  <2>2. CASE ~(pot.amount > 0)
    <3>1. PushUnlessEmpty(v, pot) = v /\ pot.amount = 0
      BY <1>4, <2>2 DEF PushUnlessEmpty
    <3> QED BY <1>4, <3>1
  <2> QED BY <2>1, <2>2
<1> QED
  BY <1>1, <1>5 DEF pot

\* The refunds go in after the pots.
LEMMA PushUnlessEmptyRuns ==
  ASSUME NEW F \in Families, NEW pots \in PotsOf(F), NEW refunds \in PotsOf(F)
  PROVE  LET all == FoldLeft(PushUnlessEmpty, pots, refunds)
         IN /\ all \in PotsOf(F)
            /\ Worth(all) = Worth(pots) + Worth(refunds)
            /\ \A G : Held(G, all) = Held(G, pots) + Held(G, refunds)
<1> DEFINE n == Len(refunds)
           V == PotsOf(F)
           base == pots
           step == PushStep(refunds, F)
           Recursive(g) == g = [s \in SUBSET (1 .. n) |->
                                  IF s = {} THEN base
                                  ELSE LET x == Max(s) IN PushUnlessEmpty(g[s \ {x}], refunds[x])]
           it == CHOOSE g : Recursive(g)
           all == FoldLeft(PushUnlessEmpty, base, refunds)
<1>1. n \in Nat /\ DOMAIN refunds = 1 .. n /\ refunds \in Seq(PotOf(F)) /\ base \in V
  BY PotsOfFacts DEF PotsOf
<1>2. \A x \in PotOf(F) : x.amount \in Nat
  BY DEF PotOf
<1>3. ASSUME NEW k \in 1 .. n, NEW v \in V
      PROVE  /\ step[<<k, v>>] = PushUnlessEmpty(v, refunds[k])
             /\ step[<<k, v>>] \in V
  <2>1. k \in 1 .. Len(refunds) /\ v \in PotsOf(F)
    OBVIOUS
  <2> HIDE DEF n, V
  <2> QED BY <2>1, PushUnlessEmptyKeeps DEF V
<1>4. ASSUME NEW k \in 1 .. n, NEW v \in V
      PROVE  /\ Worth(step[<<k, v>>]) = Worth(v) + refunds[k].amount
             /\ \A G : Held(G, step[<<k, v>>]) =
                         Held(G, v) + (IF refunds[k].eligible \in G THEN refunds[k].amount ELSE 0)
  <2>1. k \in 1 .. Len(refunds) /\ v \in PotsOf(F)
    OBVIOUS
  <2>2. step[<<k, v>>] = PushUnlessEmpty(v, refunds[k])
    BY <1>3
  <2> HIDE DEF n, V, step
  <2> QED BY <2>1, <2>2, PushUnlessEmptyKeeps
<1>5. all = it[1 .. n]
  BY <1>1 DEF FoldLeft, MapThenFoldSet
<1>6. ASSUME NEW v \in V PROVE Worth(v) \in Int /\ \A G : Held(G, v) \in Int
  <2>1. Worth(v) \in Nat
    BY PotsOfFacts
  <2>2. \A G : Held(G, v) \in Nat
    BY PotsHeld
  <2> HIDE DEF V
  <2> QED BY <2>1, <2>2
<1> DEFINE worth == [v \in V |-> Worth(v)]
           held(G) == [v \in V |-> Held(G, v)]
<1> HIDE DEF V, step, n, base
<1>7. PICK g : Iteration(g, 1 .. n, V, base, Latest, step)
  BY <1>1, <1>3, FoldExists
<1>8. \A s \in SUBSET (1 .. n) : s # {} => Max(s) \in 1 .. n /\ Latest[s] = Max(s)
  BY <1>1, LatestOf
<1>9. Recursive(it)
  <2>1. \A s \in SUBSET (1 .. n) :
          g[s] = IF s = {} THEN base ELSE PushUnlessEmpty(g[s \ {Max(s)}], refunds[Max(s)])
    BY <1>3, <1>7, <1>8 DEF Iteration
  <2>2. Recursive(g)
    BY <1>7, <2>1 DEF Iteration
  <2> QED BY <2>2
<1>10. \A s \in SUBSET (1 .. n) :
        it[s] = IF s = {} THEN base ELSE PushUnlessEmpty(it[s \ {Max(s)}], refunds[Max(s)])
  <2> HIDE DEF it
  <2> QED BY <1>9
<1> HIDE DEF it, Recursive, all
<1>11. Folds(it, n, V, base, step)
  BY <1>3, <1>8, <1>10 DEF Folds
<1>12. PICK acc : Run(acc, n, V, base, step, it[1 .. n])
  BY <1>1, <1>3, <1>11, FoldRuns
<1>13. Run(acc, Len(refunds), V, base, step, all)
  BY <1>5, <1>12 DEF n
<1>14. all \in V /\ Worth(all) = Worth(base) + Worth(refunds)
  <2>1. worth \in [V -> Int] /\ \A v \in V : worth[v] = Worth(v)
    BY <1>6
  <2> HIDE DEF worth
  <2>2. Adds(worth, refunds, V, step)
    <3>1. \A k \in 1 .. n, v \in V :
            step[<<k, v>>] \in V /\ Worth(step[<<k, v>>]) = Worth(v) + refunds[k].amount
      BY <1>3, <1>4
    <3> QED BY <2>1, <3>1 DEF Adds, n
  <2>3. all \in V /\ worth[all] = worth[base] + Worth(refunds)
    BY ONLY <1>1, <1>2, <1>13, <2>1, <2>2, RunCounts
  <2> QED BY <1>1, <2>1, <2>3
<1>15. ASSUME NEW G PROVE Held(G, all) = Held(G, base) + Held(G, refunds)
  <2> DEFINE m == held(G)
  <2>1. m \in [V -> Int] /\ \A v \in V : m[v] = Held(G, v)
    BY <1>6
  <2> HIDE DEF m
  <2>2. Gains(m, G, refunds, V, step)
    <3>1. ASSUME NEW k \in 1 .. n, NEW v \in V
          PROVE  /\ step[<<k, v>>] \in V
                 /\ m[step[<<k, v>>]] =
                      m[v] + (IF refunds[k].eligible \in G THEN refunds[k].amount ELSE 0)
      <4>1. step[<<k, v>>] \in V
        BY <1>3
      <4>2. Held(G, step[<<k, v>>]) =
              Held(G, v) + (IF refunds[k].eligible \in G THEN refunds[k].amount ELSE 0)
        BY <1>4
      <4>3. m[step[<<k, v>>]] = Held(G, step[<<k, v>>]) /\ m[v] = Held(G, v)
        BY <2>1, <4>1
      <4> QED BY <4>1, <4>2, <4>3
    <3> QED BY <3>1 DEF Gains, n
  <2>3. all \in V /\ m[all] = m[base] + Held(G, refunds)
    BY ONLY <1>1, <1>2, <1>13, <2>1, <2>2, RunHolds
  <2> QED BY <1>1, <2>1, <2>3
<1> QED
  BY <1>14, <1>15 DEF V, base, all


\* Merge as the step of a run through the pots.
MergeStep(pots, F) ==
  [p \in (1 .. Len(pots)) \X PotsOf(F) |-> Merge(p[2], pots[p[1]])]

\* A pot goes into the pot before it when both have the same contestants.
LEMMA MergeKeeps ==
  ASSUME NEW F \in Families, NEW pots \in PotsOf(F), NEW k \in 1 .. Len(pots),
         NEW v \in PotsOf(F)
  PROVE  /\ MergeStep(pots, F)[<<k, v>>] = Merge(v, pots[k])
         /\ Merge(v, pots[k]) \in PotsOf(F)
         /\ Worth(Merge(v, pots[k])) = Worth(v) + pots[k].amount
         /\ \A G : Held(G, Merge(v, pots[k])) =
                     Held(G, v) + (IF pots[k].eligible \in G THEN pots[k].amount ELSE 0)
<1> DEFINE pot == pots[k]
           V == PotsOf(F)
           n == Len(pots)
<1>1. MergeStep(pots, F)[<<k, v>>] = Merge(v, pot)
  <2>1. MergeStep(pots, F) = [p \in (1 .. n) \X V |-> Merge(p[2], pots[p[1]])]
    BY DEF MergeStep
  <2>2. k \in 1 .. n /\ v \in V
    OBVIOUS
  <2> HIDE DEF V, n
  <2> QED BY <2>1, <2>2
<1>2. pot \in PotOf(F)
  BY DEF PotsOf
<1> HIDE DEF pot
<1>3. /\ Append(v, pot) \in PotsOf(F) /\ Worth(Append(v, pot)) = Worth(v) + pot.amount
      /\ \A G : Held(G, Append(v, pot)) =
                  Held(G, v) + (IF pot.eligible \in G THEN pot.amount ELSE 0)
  BY <1>2, PotAppended
<1>4. pot.amount \in Nat /\ Worth(v) \in Nat /\ \A G : Held(G, v) \in Nat
  BY <1>2, PotsOfFacts, PotsHeld DEF PotOf
<1>5. /\ Merge(v, pot) \in PotsOf(F)
      /\ Worth(Merge(v, pot)) = Worth(v) + pot.amount
      /\ \A G : Held(G, Merge(v, pot)) =
                  Held(G, v) + (IF pot.eligible \in G THEN pot.amount ELSE 0)
  <2>1. CASE v # <<>> /\ Last(v).eligible = pot.eligible
    <3>1. Merge(v, pot) = AddToLast(v, pot.amount)
      BY <2>1 DEF Merge
    <3>2. /\ AddToLast(v, pot.amount) \in PotsOf(F)
          /\ Worth(AddToLast(v, pot.amount)) = Worth(v) + pot.amount
          /\ \A G : Held(G, AddToLast(v, pot.amount)) =
                      Held(G, v) + (IF Last(v).eligible \in G THEN pot.amount ELSE 0)
      BY <1>4, <2>1, AddedToLast
    <3> QED BY <2>1, <3>1, <3>2
  <2>2. CASE ~(v # <<>> /\ Last(v).eligible = pot.eligible)
    <3>1. Merge(v, pot) = Append(v, pot)
      BY <2>2 DEF Merge
    <3> QED BY <1>3, <3>1
  <2> QED BY <2>1, <2>2
<1> QED
  BY <1>1, <1>5 DEF pot

\* The merged pots are worth what the pots are.
LEMMA MergeRuns ==
  ASSUME NEW F \in Families, NEW pots \in PotsOf(F)
  PROVE  LET all == FoldLeft(Merge, <<>>, pots)
         IN /\ all \in PotsOf(F)
            /\ Worth(all) = Worth(<<>>) + Worth(pots)
            /\ \A G : Held(G, all) = Held(G, <<>>) + Held(G, pots)
<1> DEFINE n == Len(pots)
           V == PotsOf(F)
           base == <<>>
           step == MergeStep(pots, F)
           Recursive(g) == g = [s \in SUBSET (1 .. n) |->
                                  IF s = {} THEN base
                                  ELSE LET x == Max(s) IN Merge(g[s \ {x}], pots[x])]
           it == CHOOSE g : Recursive(g)
           all == FoldLeft(Merge, base, pots)
<1>1. n \in Nat /\ DOMAIN pots = 1 .. n /\ pots \in Seq(PotOf(F)) /\ base \in V
  BY PotsOfFacts DEF PotsOf
<1>2. \A x \in PotOf(F) : x.amount \in Nat
  BY DEF PotOf
<1>3. ASSUME NEW k \in 1 .. n, NEW v \in V
      PROVE  /\ step[<<k, v>>] = Merge(v, pots[k])
             /\ step[<<k, v>>] \in V
  <2>1. k \in 1 .. Len(pots) /\ v \in PotsOf(F)
    OBVIOUS
  <2> HIDE DEF n, V
  <2> QED BY <2>1, MergeKeeps DEF V
<1>4. ASSUME NEW k \in 1 .. n, NEW v \in V
      PROVE  /\ Worth(step[<<k, v>>]) = Worth(v) + pots[k].amount
             /\ \A G : Held(G, step[<<k, v>>]) =
                         Held(G, v) + (IF pots[k].eligible \in G THEN pots[k].amount ELSE 0)
  <2>1. k \in 1 .. Len(pots) /\ v \in PotsOf(F)
    OBVIOUS
  <2>2. step[<<k, v>>] = Merge(v, pots[k])
    BY <1>3
  <2> HIDE DEF n, V, step
  <2> QED BY <2>1, <2>2, MergeKeeps
<1>5. all = it[1 .. n]
  BY <1>1 DEF FoldLeft, MapThenFoldSet
<1>6. ASSUME NEW v \in V PROVE Worth(v) \in Int /\ \A G : Held(G, v) \in Int
  <2>1. Worth(v) \in Nat
    BY PotsOfFacts
  <2>2. \A G : Held(G, v) \in Nat
    BY PotsHeld
  <2> HIDE DEF V
  <2> QED BY <2>1, <2>2
<1> DEFINE worth == [v \in V |-> Worth(v)]
           held(G) == [v \in V |-> Held(G, v)]
<1> HIDE DEF V, step, n, base
<1>7. PICK g : Iteration(g, 1 .. n, V, base, Latest, step)
  BY <1>1, <1>3, FoldExists
<1>8. \A s \in SUBSET (1 .. n) : s # {} => Max(s) \in 1 .. n /\ Latest[s] = Max(s)
  BY <1>1, LatestOf
<1>9. Recursive(it)
  <2>1. \A s \in SUBSET (1 .. n) :
          g[s] = IF s = {} THEN base ELSE Merge(g[s \ {Max(s)}], pots[Max(s)])
    BY <1>3, <1>7, <1>8 DEF Iteration
  <2>2. Recursive(g)
    BY <1>7, <2>1 DEF Iteration
  <2> QED BY <2>2
<1>10. \A s \in SUBSET (1 .. n) :
        it[s] = IF s = {} THEN base ELSE Merge(it[s \ {Max(s)}], pots[Max(s)])
  <2> HIDE DEF it
  <2> QED BY <1>9
<1> HIDE DEF it, Recursive, all
<1>11. Folds(it, n, V, base, step)
  BY <1>3, <1>8, <1>10 DEF Folds
<1>12. PICK acc : Run(acc, n, V, base, step, it[1 .. n])
  BY <1>1, <1>3, <1>11, FoldRuns
<1>13. Run(acc, Len(pots), V, base, step, all)
  BY <1>5, <1>12 DEF n
<1>14. all \in V /\ Worth(all) = Worth(base) + Worth(pots)
  <2>1. worth \in [V -> Int] /\ \A v \in V : worth[v] = Worth(v)
    BY <1>6
  <2> HIDE DEF worth
  <2>2. Adds(worth, pots, V, step)
    <3>1. \A k \in 1 .. n, v \in V :
            step[<<k, v>>] \in V /\ Worth(step[<<k, v>>]) = Worth(v) + pots[k].amount
      BY <1>3, <1>4
    <3> QED BY <2>1, <3>1 DEF Adds, n
  <2>3. all \in V /\ worth[all] = worth[base] + Worth(pots)
    BY ONLY <1>1, <1>2, <1>13, <2>1, <2>2, RunCounts
  <2> QED BY <1>1, <2>1, <2>3
<1>15. ASSUME NEW G PROVE Held(G, all) = Held(G, base) + Held(G, pots)
  <2> DEFINE m == held(G)
  <2>1. m \in [V -> Int] /\ \A v \in V : m[v] = Held(G, v)
    BY <1>6
  <2> HIDE DEF m
  <2>2. Gains(m, G, pots, V, step)
    <3>1. ASSUME NEW k \in 1 .. n, NEW v \in V
          PROVE  /\ step[<<k, v>>] \in V
                 /\ m[step[<<k, v>>]] =
                      m[v] + (IF pots[k].eligible \in G THEN pots[k].amount ELSE 0)
      <4>1. step[<<k, v>>] \in V
        BY <1>3
      <4>2. Held(G, step[<<k, v>>]) =
              Held(G, v) + (IF pots[k].eligible \in G THEN pots[k].amount ELSE 0)
        BY <1>4
      <4>3. m[step[<<k, v>>]] = Held(G, step[<<k, v>>]) /\ m[v] = Held(G, v)
        BY <2>1, <4>1
      <4> QED BY <4>1, <4>2, <4>3
    <3> QED BY <3>1 DEF Gains, n
  <2>3. all \in V /\ m[all] = m[base] + Held(G, pots)
    BY ONLY <1>1, <1>2, <1>13, <2>1, <2>2, RunHolds
  <2> QED BY <1>1, <2>1, <2>3
<1> QED
  BY <1>14, <1>15 DEF V, base, all

-----------------------------------------------------------------------------
(* The pots of a hand *)

\* The pots hold all the chips that were put in, are contested as their layers allow,
\* and hold for every set of contestants what its layers do: more only where a layer
\* nobody is left in went to the pot before it.
LEMMA ComputePotsHold ==
  ASSUME NEW F \in Families, NEW folded, NEW stakes \in Stakes,
         Layers(stakes, folded) \in Seq(LayerOf(F))
  PROVE  LET layers == Layers(stakes, folded)
             pots == ComputePots(stakes, folded)
         IN /\ pots \in PotsOf(F)
            /\ Worth(pots) = Chips(stakes)
            /\ \A G : Held(G, pots) = HeldAll(G, FoldLeft(Absorb, NoPots, layers))
            /\ \A G : {} \notin G => Held(G, pots) >= Held(G, layers)
            /\ (\A k \in DOMAIN layers : layers[k].eligible # {}) =>
                 \A G : Held(G, pots) = Held(G, layers)
<1> DEFINE layers == Layers(stakes, folded)
           done == FoldLeft(Absorb, NoPots, layers)
           all == FoldLeft(PushUnlessEmpty, done.pots, done.refunds)
           merged == FoldLeft(Merge, <<>>, all)
           Alive == \A k \in DOMAIN layers : layers[k].eligible # {}
<1>1. layers \in Seq(LayerOf(F)) /\ Worth(layers) = Chips(stakes)
  BY LayersWorth
<1>2. ComputePots(stakes, folded) = merged
  BY DEF ComputePots, AbsorbDeadLayers, MergeEqualEligible, NoPots
<1> HIDE DEF layers
<1>3. /\ done \in Accounts(F)
      /\ WorthAll(done) = Worth(layers)
      /\ \A G : {} \notin G => HeldAll(G, done) >= Held(G, layers)
      /\ Alive => \A G : HeldAll(G, done) = Held(G, layers)
  BY <1>1, AbsorbRuns
<1> HIDE DEF done
<1>4. done.pots \in PotsOf(F) /\ done.refunds \in PotsOf(F)
  BY <1>3 DEF Accounts
<1>5. /\ all \in PotsOf(F)
      /\ Worth(all) = Worth(done.pots) + Worth(done.refunds)
      /\ \A G : Held(G, all) = Held(G, done.pots) + Held(G, done.refunds)
  BY <1>4, PushUnlessEmptyRuns
<1> HIDE DEF all
<1>6. /\ merged \in PotsOf(F)
      /\ Worth(merged) = Worth(<<>>) + Worth(all)
      /\ \A G : Held(G, merged) = Held(G, <<>>) + Held(G, all)
  BY <1>5, MergeRuns
<1>7. Worth(<<>>) = 0 /\ Worth(all) \in Nat
  BY <1>5, WorthOfNone, PotsOfFacts
<1>8. \A G : Held(G, <<>>) = 0 /\ Held(G, all) \in Nat
  BY <1>5, HeldOfNone, PotsHeld
<1> HIDE DEF merged, Alive
<1>9. Worth(merged) = Chips(stakes)
  BY <1>1, <1>3, <1>5, <1>6, <1>7 DEF WorthAll
<1>10. \A G : Held(G, merged) = HeldAll(G, done)
  BY <1>5, <1>6, <1>8 DEF HeldAll
<1>11. /\ \A G : {} \notin G => Held(G, merged) >= Held(G, layers)
       /\ Alive => \A G : Held(G, merged) = Held(G, layers)
  BY <1>3, <1>10
<1> QED
  BY <1>2, <1>6, <1>9, <1>10, <1>11 DEF layers, Alive, done

-----------------------------------------------------------------------------
(* Awards *)

\* Somebody among the contestants of a pot has the best hand.
LEMMA SomebodyWins ==
  ASSUME NEW F \in Families, NEW pot \in PotOf(F), NEW M \in Nat,
         NEW strength, \A i \in Seat : strength[i] \in 0 .. M
  PROVE  Winners(pot, strength) # {} /\ Winners(pot, strength) \subseteq pot.eligible
<1> DEFINE gaps == {M - strength[i] : i \in pot.eligible}
<1>1. pot.eligible # {} /\ pot.eligible \in SUBSET Seat
  BY PotsOfFacts
<1>2. gaps \in SUBSET Nat /\ gaps # {}
  <2>1. \A i \in pot.eligible : M - strength[i] \in Nat
    BY <1>1
  <2> QED BY <1>1, <2>1
<1>3. \E g \in gaps : \A h \in gaps : g <= h
  <2> HIDE DEF gaps
  <2> QED BY <1>2, LeastNumber
<1>4. PICK i \in pot.eligible : \A j \in pot.eligible : M - strength[i] <= M - strength[j]
  BY <1>3
<1>5. \A j \in pot.eligible : strength[j] <= strength[i]
  BY <1>1, <1>4
<1> QED
  BY <1>4, <1>5 DEF Winners

\* The seats a pot is split over.
Takers(pot, strength) ==
  IF Cardinality(pot.eligible) = 1 THEN pot.eligible ELSE Winners(pot, strength)

\* The seats counted from the left of the button.
Order(button) == [i \in Seat |-> Distance(FirstForOddChips(button), i)]

\* A pot is split over some of its contestants, in the order of their seats.
LEMMA PayoutIs ==
  ASSUME NEW F \in Families, NEW pot \in PotOf(F), NEW M \in Nat,
         NEW strength, \A i \in Seat : strength[i] \in 0 .. M, NEW button \in Seat
  PROVE  LET W == Takers(pot, strength)
             key == Order(button)
         IN /\ W # {} /\ W \in SUBSET pot.eligible /\ W \in SUBSET Seat
            /\ IsFiniteSet(W) /\ Cardinality(W) \in Nat \ {0}
            /\ key \in [Seat -> Nat]
            /\ \A i, j \in Seat : key[i] = key[j] => i = j
            /\ \A i \in Seat :
                 Payout(pot, strength, button, i) =
                   IF i \in W THEN EvenShare(pot.amount, W, Ahead(W, key, i)) ELSE 0
<1> DEFINE W == Takers(pot, strength)
           left == FirstForOddChips(button)
           key == Order(button)
<1>1. pot.eligible # {} /\ pot.eligible \in SUBSET Seat
  BY PotsOfFacts
<1>2. W # {} /\ W \in SUBSET pot.eligible
  BY <1>1, SomebodyWins DEF Takers
<1>3. W \in SUBSET Seat
  BY <1>1, <1>2
<1>4. IsFiniteSet(W) /\ Cardinality(W) \in Nat \ {0}
  <2> HIDE DEF W
  <2> QED BY <1>2, <1>3, SeatsFinite, FS_Subset, FS_CardinalityType, FS_EmptySet
<1>5. left \in Seat
  BY NextSeatType DEF FirstForOddChips
<1>6. /\ key \in [Seat -> Nat]
      /\ \A i, j \in Seat : key[i] = key[j] => i = j
      /\ \A i \in Seat : key[i] = Distance(left, i)
  <2> HIDE DEF left
  <2>1. \A i \in Seat : Distance(left, i) \in Nat
    BY <1>5, SeatCount DEF Distance, Seat
  <2>2. \A i, j \in Seat : Distance(left, i) = Distance(left, j) => i = j
    BY <1>5, SeatCount DEF Distance, Seat
  <2> QED BY <2>1, <2>2 DEF Order, left
<1>7. \A i \in Seat : {k \in W : Distance(left, k) < Distance(left, i)} = Ahead(W, key, i)
  <2> HIDE DEF W, key, left
  <2> QED BY <1>3, <1>6 DEF Ahead
<1>8. ASSUME NEW i \in Seat
      PROVE  Payout(pot, strength, button, i) =
               IF i \in W THEN EvenShare(pot.amount, W, Ahead(W, key, i)) ELSE 0
  <2>1. Payout(pot, strength, button, i) =
          IF i \in W
            THEN EvenShare(pot.amount, W, {k \in W : Distance(left, k) < Distance(left, i)})
            ELSE 0
    BY DEF Payout, Takers
  <2> HIDE DEF W, left, key
  <2> QED BY <1>7, <2>1
<1> QED
  BY <1>2, <1>3, <1>4, <1>6, <1>8

\* A sum of natural numbers is one.
LEMMA ChipsNat ==
  ASSUME NEW f \in [Seat -> Nat]
  PROVE  Chips(f) \in Nat
<1>1. PICK F \in [SUBSET Seat -> Int] :
           /\ Chips(f) = F[Seat]
           /\ F[{}] = 0
           /\ \A s \in SUBSET Seat : s # {} => F[s] = f[One(s)] + F[s \ {One(s)}]
  <2>1. f \in [Seat -> Int]
    OBVIOUS
  <2> QED BY <2>1, ChipsTable
<1> DEFINE P == {s \in SUBSET Seat : F[s] \in Nat}
<1>2. {} \in P
  BY <1>1
<1>3. ASSUME NEW s \in SUBSET Seat, s # {}, s \ {One(s)} \in P PROVE s \in P
  <2>1. One(s) \in Seat
    BY <1>3 DEF One
  <2> QED BY <1>1, <1>3, <2>1
<1>4. P = SUBSET Seat
  <2>1. P \in SUBSET SUBSET Seat
    OBVIOUS
  <2> HIDE DEF P
  <2> QED BY <1>2, <1>3, <2>1, SeatBySeat
<1> QED
  BY <1>1, <1>4

\* Nobody has more than all of them together.
LEMMA OneOfThem ==
  ASSUME NEW f \in [Seat -> Nat], NEW i \in Seat
  PROVE  f[i] <= Chips(f)
<1> DEFINE g == [j \in Seat |-> IF j \in {i} THEN f[i] ELSE 0]
           h == [j \in Seat |-> IF j \in {i} THEN 0 ELSE f[j]]
<1>1. g \in [Seat -> Int] /\ h \in [Seat -> Nat] /\ h \in [Seat -> Int] /\ f \in [Seat -> Int]
  OBVIOUS
<1>2. \A j \in Seat : f[j] = g[j] + h[j]
  OBVIOUS
<1>3. Chips(g) = f[i] * Cardinality({i}) /\ Cardinality({i}) = 1
  <2>1. \A j \in Seat : g[j] = IF j \in {i} THEN f[i] ELSE 0
    OBVIOUS
  <2>2. {i} \in SUBSET Seat /\ f[i] \in Int
    OBVIOUS
  <2>3. Cardinality({i}) = 1
    BY FS_Singleton
  <2> HIDE DEF g
  <2> QED BY <1>1, <2>1, <2>2, <2>3, ChipsOfSome
<1> HIDE DEF g, h
<1>4. Chips(f) = Chips(g) + Chips(h) /\ Chips(h) \in Nat
  BY <1>1, <1>2, ChipsAdd, ChipsNat
<1>5. f[i] \in Nat
  OBVIOUS
<1> QED
  BY <1>3, <1>4, <1>5

\* The payouts of a pot are the chips in it, and go to those who contest it.
LEMMA PotIsPaid ==
  ASSUME NEW F \in Families, NEW pot \in PotOf(F), NEW M \in Nat,
         NEW strength, \A i \in Seat : strength[i] \in 0 .. M,
         NEW button \in Seat,
         NEW f, f = [i \in Seat |-> Payout(pot, strength, button, i)]
  PROVE  /\ f \in [Seat -> Nat]
         /\ Chips(f) = pot.amount
         /\ \A i \in Seat : i \notin pot.eligible => f[i] = 0
         /\ \A i \in Seat : f[i] <= (IF i \in pot.eligible THEN pot.amount ELSE 0)
<1> DEFINE W == Takers(pot, strength)
           key == Order(button)
           n == pot.amount
<1>1. n \in Nat
  BY PotsOfFacts
<1>2. /\ W # {} /\ W \in SUBSET pot.eligible /\ W \in SUBSET Seat
      /\ IsFiniteSet(W) /\ Cardinality(W) \in Nat \ {0}
      /\ key \in [Seat -> Nat]
      /\ \A i, j \in Seat : key[i] = key[j] => i = j
  BY PayoutIs
<1>3. \A i \in Seat : f[i] = IF i \in W THEN EvenShare(n, W, Ahead(W, key, i)) ELSE 0
  <2>1. \A i \in Seat :
          Payout(pot, strength, button, i) =
            IF i \in W THEN EvenShare(pot.amount, W, Ahead(W, key, i)) ELSE 0
    BY PayoutIs
  <2> HIDE DEF W, key
  <2> QED BY <2>1
<1> HIDE DEF W, key, n
<1>4. \A i \in Seat : f[i] \in Nat
  <2>1. n \div Cardinality(W) \in Nat
    BY <1>1, <1>2, Division
  <2> QED BY <1>3, <2>1 DEF EvenShare
<1>5. f \in [Seat -> Nat] /\ f \in [Seat -> Int]
  BY <1>4
<1>6. Chips(f) = n
  <2>1. \A i, j \in W : key[i] = key[j] => i = j
    BY <1>2
  <2> QED BY ONLY <1>1, <1>2, <1>3, <1>5, <2>1, SharesAddUp
<1>7. \A i \in Seat : i \notin pot.eligible => f[i] = 0
  BY <1>2, <1>3
<1>8. \A i \in Seat : f[i] <= n
  BY <1>5, <1>6, OneOfThem
<1>9. \A i \in Seat : f[i] <= (IF i \in pot.eligible THEN n ELSE 0)
  BY <1>5, <1>7, <1>8
<1> QED
  BY <1>5, <1>6, <1>7, <1>9 DEF n

\* The only winner of a pot takes it.
LEMMA BestHandTakes ==
  ASSUME NEW F \in Families, NEW pot \in PotOf(F), NEW M \in Nat,
         NEW strength, \A i \in Seat : strength[i] \in 0 .. M,
         NEW button \in Seat, NEW i \in Seat, i \in pot.eligible,
         \A j \in pot.eligible \ {i} : strength[j] < strength[i]
  PROVE  Payout(pot, strength, button, i) = pot.amount
<1> DEFINE W == Takers(pot, strength)
           key == Order(button)
<1>1. pot.amount \in Nat /\ pot.eligible \in SUBSET Seat
  BY PotsOfFacts
<1>2. /\ W # {} /\ W \in SUBSET pot.eligible /\ key \in [Seat -> Nat]
      /\ Payout(pot, strength, button, i) =
           IF i \in W THEN EvenShare(pot.amount, W, Ahead(W, key, i)) ELSE 0
  BY PayoutIs
<1>3. W = {i}
  <2>1. CASE Cardinality(pot.eligible) = 1
    <3>1. PICK x : pot.eligible = {x}
      BY <1>1, <2>1, SeatsFinite, FS_Subset, FS_Singleton
    <3> QED BY <2>1, <3>1 DEF Takers
  <2>2. CASE Cardinality(pot.eligible) # 1
    <3>1. W = Winners(pot, strength)
      BY <2>2 DEF Takers
    <3>2. \A j \in pot.eligible : strength[j] \in Int
      BY <1>1
    <3>3. \A j \in W : j = i
      <4> SUFFICES ASSUME NEW j \in W, j # i PROVE FALSE
        OBVIOUS
      <4>1. strength[i] <= strength[j] /\ j \in pot.eligible
        BY <3>1 DEF Winners
      <4>2. strength[j] < strength[i]
        BY <4>1
      <4> QED BY <3>2, <4>1, <4>2
    <3> QED BY <1>2, <3>3
  <2> QED BY <2>1, <2>2
<1> HIDE DEF W, key
<1>4. Ahead(W, key, i) = {}
  <2>1. key[i] \in Nat
    BY <1>2
  <2> QED BY <1>3, <2>1 DEF Ahead
<1>5. Cardinality(W) = 1 /\ Cardinality({}) = 0
  BY <1>3, FS_Singleton, FS_EmptySet
<1>6. EvenShare(pot.amount, W, {}) = pot.amount
  BY <1>1, <1>5 DEF EvenShare
<1> QED
  BY <1>2, <1>3, <1>4, <1>6

\* Of two contestants with equal hands the one nearer the left of the button takes as
\* much as the other, or the odd chip more.
LEMMA EqualHandsShare ==
  ASSUME NEW F \in Families, NEW pot \in PotOf(F), NEW M \in Nat,
         NEW strength, \A k \in Seat : strength[k] \in 0 .. M,
         NEW button \in Seat, NEW i \in Seat, NEW j \in Seat,
         strength[i] = strength[j], i \in pot.eligible <=> j \in pot.eligible,
         Distance(FirstForOddChips(button), i) < Distance(FirstForOddChips(button), j)
  PROVE  /\ Payout(pot, strength, button, i) \in Nat
         /\ Payout(pot, strength, button, j) \in Nat
         /\ Payout(pot, strength, button, i) - Payout(pot, strength, button, j) \in 0 .. 1
<1> DEFINE W == Takers(pot, strength)
           key == Order(button)
           n == pot.amount
           c == Cardinality(W)
<1>1. n \in Nat
  BY PotsOfFacts
<1>2. /\ IsFiniteSet(W) /\ c \in Nat \ {0} /\ key \in [Seat -> Nat] /\ W \in SUBSET Seat
      /\ \A k \in Seat :
           Payout(pot, strength, button, k) =
             IF k \in W THEN EvenShare(n, W, Ahead(W, key, k)) ELSE 0
  BY PayoutIs
<1>3. i \in W <=> j \in W
  BY DEF Takers, Winners
<1>4. key[i] < key[j]
  BY DEF Order
<1> HIDE DEF W, key, n
<1>5. Ahead(W, key, i) \subseteq Ahead(W, key, j)
  <2>1. \A k \in W : key[k] \in Nat
    BY <1>2
  <2>2. key[i] \in Nat /\ key[j] \in Nat
    BY <1>2
  <2> QED BY <1>4, <2>1, <2>2 DEF Ahead
<1>6. /\ Cardinality(Ahead(W, key, i)) \in Nat /\ Cardinality(Ahead(W, key, j)) \in Nat
      /\ Cardinality(Ahead(W, key, i)) <= Cardinality(Ahead(W, key, j))
  <2>1. Ahead(W, key, j) \subseteq W
    BY DEF Ahead
  <2>2. IsFiniteSet(Ahead(W, key, j))
    BY <1>2, <2>1, FS_Subset
  <2> QED BY <1>5, <2>2, FS_Subset, FS_CardinalityType
<1>7. (n \div c) \in Nat /\ (n % c) \in Nat
  <2> HIDE DEF c
  <2> QED BY <1>1, <1>2, Division
<1>8. CASE i \in W
  <2> DEFINE a == Cardinality(Ahead(W, key, i))
             b == Cardinality(Ahead(W, key, j))
             q == n \div c
             r == n % c
  <2>1. /\ Payout(pot, strength, button, i) = q + (IF a < r THEN 1 ELSE 0)
        /\ Payout(pot, strength, button, j) = q + (IF b < r THEN 1 ELSE 0)
    BY <1>2, <1>3, <1>8 DEF EvenShare
  <2>2. a \in Nat /\ b \in Nat /\ a <= b /\ q \in Nat /\ r \in Nat
    BY <1>6, <1>7
  <2> HIDE DEF a, b, q, r
  <2> QED BY <2>1, <2>2
<1>9. CASE i \notin W
  <2>1. Payout(pot, strength, button, i) = 0 /\ Payout(pot, strength, button, j) = 0
    BY <1>2, <1>3, <1>9
  <2> QED BY <2>1
<1> QED
  BY <1>8, <1>9

\* What the seats have won, a seat that contests no pot nothing.
WonBy(F) == {won \in [Seat -> Nat] : \A i \in Seat : (\A E \in F : i \notin E) => won[i] = 0}

\* One more pot paid out adds the chips in it to what has been won.
LEMMA CollectKeeps ==
  ASSUME NEW F \in Families, NEW pot \in PotOf(F), NEW M \in Nat,
         NEW strength, \A i \in Seat : strength[i] \in 0 .. M,
         NEW button \in Seat, NEW won \in WonBy(F)
  PROVE  LET after == Collect(won, pot, strength, button)
         IN /\ after \in WonBy(F)
            /\ Chips(after) = Chips(won) + pot.amount
            /\ \A i \in Seat : after[i] = won[i] + Payout(pot, strength, button, i)
            /\ \A i \in Seat :
                 after[i] <= won[i] + (IF i \in pot.eligible THEN pot.amount ELSE 0)
<1> DEFINE f == [i \in Seat |-> Payout(pot, strength, button, i)]
           h == Collect(won, pot, strength, button)
<1>1. /\ f \in [Seat -> Nat] /\ Chips(f) = pot.amount
      /\ \A i \in Seat : i \notin pot.eligible => f[i] = 0
      /\ \A i \in Seat : f[i] <= (IF i \in pot.eligible THEN pot.amount ELSE 0)
  BY PotIsPaid
<1>2. won \in [Seat -> Nat] /\ \A i \in Seat : (\A E \in F : i \notin E) => won[i] = 0
  BY DEF WonBy
<1>3. h = [i \in Seat |-> won[i] + f[i]] /\ \A i \in Seat : f[i] = Payout(pot, strength, button, i)
  BY DEF Collect
<1>4. pot.eligible \in F /\ pot.amount \in Nat
  BY PotsOfFacts
<1> HIDE DEF f, h
<1>5. /\ h \in [Seat -> Nat]
      /\ \A i \in Seat : h[i] = won[i] + f[i]
  BY <1>1, <1>2, <1>3
<1>6. Chips(h) = Chips(won) + Chips(f)
  <2>1. h \in [Seat -> Int] /\ won \in [Seat -> Int] /\ f \in [Seat -> Int]
    BY <1>1, <1>2, <1>5
  <2> QED BY <1>5, <2>1, ChipsAdd
<1>7. \A i \in Seat : (\A E \in F : i \notin E) => h[i] = 0
  BY <1>1, <1>2, <1>4, <1>5
<1>8. \A i \in Seat : h[i] <= won[i] + (IF i \in pot.eligible THEN pot.amount ELSE 0)
  <2> TAKE i \in Seat
  <2>1. won[i] \in Nat /\ f[i] \in Nat /\ h[i] = won[i] + f[i]
    BY <1>1, <1>2, <1>5
  <2>2. f[i] <= (IF i \in pot.eligible THEN pot.amount ELSE 0)
    BY <1>1
  <2> QED BY <1>4, <2>1, <2>2
<1> QED
  BY <1>1, <1>3, <1>5, <1>6, <1>7, <1>8 DEF WonBy, h

\* Collect as the step of a run through the pots.
CollectStep(pots, F, strength, button) ==
  [p \in (1 .. Len(pots)) \X WonBy(F) |-> Collect(p[2], pots[p[1]], strength, button)]

\* What it does to the pot it has come to.
LEMMA CollectStepIs ==
  ASSUME NEW pots, NEW F, NEW strength, NEW button, NEW k \in 1 .. Len(pots), NEW won \in WonBy(F)
  PROVE  CollectStep(pots, F, strength, button)[<<k, won>>] = Collect(won, pots[k], strength, button)
<1> DEFINE V == WonBy(F)
           n == Len(pots)
<1>1. CollectStep(pots, F, strength, button) =
        [p \in (1 .. n) \X V |-> Collect(p[2], pots[p[1]], strength, button)]
  BY DEF CollectStep
<1>2. k \in 1 .. n /\ won \in V
  OBVIOUS
<1> HIDE DEF V, n
<1> QED
  BY <1>1, <1>2

\* Nobody has won anything before the first pot.
NothingWon == [i \in Seat |-> 0]

\* The pots are paid out one after the other.
LEMMA DistributeIsRun ==
  ASSUME NEW F \in Families, NEW pots \in PotsOf(F), NEW M \in Nat,
         NEW strength, \A i \in Seat : strength[i] \in 0 .. M, NEW button \in Seat
  PROVE  \E acc : Run(acc, Len(pots), WonBy(F), NothingWon,
                      CollectStep(pots, F, strength, button),
                      Distribute(pots, strength, button))
<1> DEFINE n == Len(pots)
           V == WonBy(F)
           base == NothingWon
           After(won, pot) == Collect(won, pot, strength, button)
           step == CollectStep(pots, F, strength, button)
           Recursive(g) == g = [s \in SUBSET (1 .. n) |->
                                  IF s = {} THEN base
                                  ELSE LET x == Max(s)
                                       IN Collect(g[s \ {x}], pots[x], strength, button)]
           it == CHOOSE g : Recursive(g)
<1>1. n \in Nat /\ DOMAIN pots = 1 .. n /\ pots \in Seq(PotOf(F))
  BY DEF PotsOf
<1>2. base \in V
  BY DEF WonBy, NothingWon
<1>3. ASSUME NEW k \in 1 .. n, NEW v \in V
      PROVE  step[<<k, v>>] = After(v, pots[k]) /\ step[<<k, v>>] \in V
  <2>1. pots[k] \in PotOf(F)
    BY <1>1
  <2> QED BY <2>1, CollectStepIs, CollectKeeps
<1>4. Distribute(pots, strength, button) = it[1 .. n]
  BY <1>1 DEF Distribute, FoldLeft, MapThenFoldSet, NothingWon
<1> HIDE DEF V, step, base, n
<1>5. PICK g : Iteration(g, 1 .. n, V, base, Latest, step)
  BY <1>1, <1>2, <1>3, FoldExists
<1>6. \A s \in SUBSET (1 .. n) : s # {} => Max(s) \in 1 .. n /\ Latest[s] = Max(s)
  BY <1>1, LatestOf
<1>7. Recursive(it)
  <2>1. \A s \in SUBSET (1 .. n) :
          g[s] = IF s = {} THEN base ELSE After(g[s \ {Max(s)}], pots[Max(s)])
    BY <1>3, <1>5, <1>6 DEF Iteration
  <2>2. Recursive(g)
    BY <1>5, <2>1 DEF Iteration
  <2> QED BY <2>2
<1>8. \A s \in SUBSET (1 .. n) :
        it[s] = IF s = {} THEN base ELSE After(it[s \ {Max(s)}], pots[Max(s)])
  <2> HIDE DEF it
  <2> QED BY <1>7
<1> HIDE DEF it, Recursive, After
<1>9. Folds(it, n, V, base, step)
  BY <1>3, <1>6, <1>8 DEF Folds
<1>10. \E acc : Run(acc, n, V, base, step, it[1 .. n])
  BY <1>1, <1>2, <1>3, <1>9, FoldRuns
<1> QED
  BY <1>4, <1>10 DEF V, step, base, n

\* Nothing won is nothing.
LEMMA ChipsOfNothing == Chips(NothingWon) = 0
<1> DEFINE f == NothingWon
<1>1. f \in [Seat -> Int] /\ \A i \in Seat : f[i] = IF i \in {} THEN 0 ELSE 0
  BY DEF NothingWon
<1> HIDE DEF f
<1>2. Chips(f) = 0 * Cardinality({}) /\ Cardinality({}) = 0
  <2>1. {} \in SUBSET Seat /\ 0 \in Int
    OBVIOUS
  <2> QED BY <1>1, <2>1, ChipsOfSome, FS_EmptySet
<1> QED
  BY <1>2 DEF f

\* All the pots paid out: what the seats have won is what the pots held, and no seat has
\* won more than it was in for.
LEMMA DistributePays ==
  ASSUME NEW F \in Families, NEW pots \in PotsOf(F), NEW M \in Nat,
         NEW strength, \A i \in Seat : strength[i] \in 0 .. M, NEW button \in Seat
  PROVE  LET won == Distribute(pots, strength, button)
         IN /\ won \in WonBy(F)
            /\ Chips(won) = Worth(pots)
            /\ \A i \in Seat : won[i] <= Reach(i, pots)
<1> DEFINE n == Len(pots)
           V == WonBy(F)
           base == NothingWon
           step == CollectStep(pots, F, strength, button)
           won == Distribute(pots, strength, button)
           chips == [v \in V |-> Chips(v)]
<1>1. PICK acc : Run(acc, n, V, base, step, won)
  <2> HIDE DEF won
  <2> QED BY DistributeIsRun DEF won
<1>2. n \in Nat /\ pots \in Seq(PotOf(F)) /\ \A x \in PotOf(F) : x.amount \in Nat
  BY DEF PotsOf, PotOf
<1>3. ASSUME NEW k \in 1 .. n, NEW v \in V
      PROVE  /\ step[<<k, v>>] \in V
             /\ Chips(step[<<k, v>>]) = Chips(v) + pots[k].amount
             /\ \A i \in Seat :
                  step[<<k, v>>][i] <= v[i] + (IF i \in pots[k].eligible THEN pots[k].amount ELSE 0)
  <2>1. pots[k] \in PotOf(F) /\ v \in WonBy(F) /\ k \in 1 .. Len(pots)
    BY <1>2
  <2>2. step[<<k, v>>] = Collect(v, pots[k], strength, button)
    BY <2>1, CollectStepIs
  <2> HIDE DEF step
  <2> QED BY <2>1, <2>2, CollectKeeps
<1>4. \A v \in V : Chips(v) \in Int /\ \A i \in Seat : v[i] \in Int
  BY ChipsNat DEF WonBy
<1>5. base \in V /\ \A i \in Seat : base[i] = 0
  BY DEF WonBy, NothingWon
<1>6. Chips(base) = 0
  BY ChipsOfNothing
<1>7. Run(acc, Len(pots), V, base, step, won)
  BY <1>1
<1> HIDE DEF V, base, step, won, n
<1>8. won \in V /\ Chips(won) = Worth(pots)
  <2>1. chips \in [V -> Int] /\ \A v \in V : chips[v] = Chips(v)
    BY <1>4
  <2> HIDE DEF chips
  <2>2. Adds(chips, pots, V, step)
    <3>1. ASSUME NEW k \in 1 .. n, NEW v \in V
          PROVE  step[<<k, v>>] \in V /\ chips[step[<<k, v>>]] = chips[v] + pots[k].amount
      <4>1. step[<<k, v>>] \in V /\ Chips(step[<<k, v>>]) = Chips(v) + pots[k].amount
        BY <1>3
      <4>2. chips[step[<<k, v>>]] = Chips(step[<<k, v>>]) /\ chips[v] = Chips(v)
        BY <2>1, <4>1
      <4> QED BY <4>1, <4>2
    <3> QED BY <3>1 DEF Adds, n
  <2>3. won \in V /\ chips[won] = chips[base] + Worth(pots)
    BY ONLY <1>2, <1>7, <2>1, <2>2, RunCounts
  <2>4. Worth(pots) \in Nat
    BY PotsOfFacts
  <2> QED BY <1>5, <1>6, <2>1, <2>3, <2>4
<1>9. ASSUME NEW i \in Seat PROVE won[i] <= Reach(i, pots)
  <2> DEFINE m == [v \in V |-> v[i]]
  <2>1. m \in [V -> Int] /\ \A v \in V : m[v] = v[i]
    BY <1>4
  <2> HIDE DEF m
  <2> DEFINE G == Contests(i)
  <2>2. ASSUME NEW k \in 1 .. Len(pots), NEW v \in V
        PROVE  m[step[<<k, v>>]] <= m[v] + (IF pots[k].eligible \in G THEN pots[k].amount ELSE 0)
    <3>1. /\ step[<<k, v>>] \in V
          /\ step[<<k, v>>][i] <= v[i] + (IF i \in pots[k].eligible THEN pots[k].amount ELSE 0)
      BY <1>3 DEF n
    <3>2. m[step[<<k, v>>]] = step[<<k, v>>][i] /\ m[v] = v[i]
      BY <2>1, <3>1
    <3>3. pots[k].eligible \in G <=> i \in pots[k].eligible
      BY <1>2, ContestsIs
    <3> QED BY <3>1, <3>2, <3>3
  <2>3. \A k \in 1 .. Len(pots), v \in V :
          m[step[<<k, v>>]] <= m[v] + (IF pots[k].eligible \in G THEN pots[k].amount ELSE 0)
    BY <2>2
  <2> HIDE DEF G
  <2>4. won \in V /\ m[won] <= m[base] + Held(G, pots)
    <3> DEFINE T == PotOf(F)
    <3>1. pots \in Seq(T) /\ (\A x \in T : x.amount \in Nat) /\ m \in [V -> Int]
      BY <1>2, <2>1
    <3> HIDE DEF T
    <3> QED BY ONLY <1>7, <2>3, <3>1, RunHoldsAtMost
  <2>5. Held(G, pots) \in Nat /\ Reach(i, pots) = Held(G, pots)
    BY PotsHeld DEF Reach, G
  <2>6. m[won] = won[i] /\ m[base] = 0
    BY <1>5, <1>8, <2>1
  <2> QED BY <2>4, <2>5, <2>6
<1> QED
  BY <1>8, <1>9 DEF won, V

\* A seat that is the only winner wherever it contests takes all it is in for.
LEMMA DistributeTakes ==
  ASSUME NEW F \in Families, NEW pots \in PotsOf(F), NEW M \in Nat,
         NEW strength, \A k \in Seat : strength[k] \in 0 .. M, NEW button \in Seat,
         NEW i \in Seat,
         \A E \in F : i \in E => \A j \in E \ {i} : strength[j] < strength[i]
  PROVE  Distribute(pots, strength, button)[i] = Reach(i, pots)
<1> DEFINE n == Len(pots)
           V == WonBy(F)
           base == NothingWon
           step == CollectStep(pots, F, strength, button)
           won == Distribute(pots, strength, button)
           m == [v \in V |-> v[i]]
<1>1. PICK acc : Run(acc, n, V, base, step, won)
  <2> HIDE DEF won
  <2> QED BY DistributeIsRun DEF won
<1>2. n \in Nat /\ pots \in Seq(PotOf(F)) /\ \A x \in PotOf(F) : x.amount \in Nat
  BY DEF PotsOf, PotOf
<1>3. ASSUME NEW k \in 1 .. n, NEW v \in V
      PROVE  /\ step[<<k, v>>] \in V
             /\ step[<<k, v>>][i] = v[i] + (IF i \in pots[k].eligible THEN pots[k].amount ELSE 0)
  <2> DEFINE pot == pots[k]
             paid == Payout(pot, strength, button, i)
  <2>1. pot \in PotOf(F) /\ v \in WonBy(F) /\ k \in 1 .. Len(pots)
    BY <1>2
  <2>2. step[<<k, v>>] = Collect(v, pot, strength, button)
    BY <2>1, CollectStepIs
  <2> HIDE DEF step, pot
  <2>3. step[<<k, v>>] \in V /\ step[<<k, v>>][i] = v[i] + paid
    BY <2>1, <2>2, CollectKeeps
  <2>4. i \in pot.eligible => paid = pot.amount
    <3>1. pot.eligible \in F
      BY <2>1, PotsOfFacts
    <3>2. i \in pot.eligible => \A j \in pot.eligible \ {i} : strength[j] < strength[i]
      BY <3>1
    <3> QED BY <2>1, <3>2, BestHandTakes
  <2>5. i \notin pot.eligible => paid = 0
    <3> DEFINE f == [j \in Seat |-> Payout(pot, strength, button, j)]
    <3>1. f = [j \in Seat |-> Payout(pot, strength, button, j)] /\ f[i] = paid
      OBVIOUS
    <3> HIDE DEF f
    <3>2. i \notin pot.eligible => f[i] = 0
      BY <2>1, <3>1, PotIsPaid
    <3> QED BY <3>1, <3>2
  <2> HIDE DEF paid
  <2> QED BY <2>3, <2>4, <2>5 DEF pot
<1>4. \A v \in V : v[i] \in Int
  BY DEF WonBy
<1>5. base \in V /\ base[i] = 0
  BY DEF WonBy, NothingWon
<1>6. Run(acc, Len(pots), V, base, step, won)
  BY <1>1
<1>7. m \in [V -> Int] /\ \A v \in V : m[v] = v[i]
  BY <1>4
<1> HIDE DEF V, base, step, won, n, m
<1> DEFINE G == Contests(i)
<1>8. Gains(m, G, pots, V, step)
  <2>1. ASSUME NEW k \in 1 .. n, NEW v \in V
        PROVE  /\ step[<<k, v>>] \in V
               /\ m[step[<<k, v>>]] = m[v] + (IF pots[k].eligible \in G THEN pots[k].amount ELSE 0)
    <3>1. /\ step[<<k, v>>] \in V
          /\ step[<<k, v>>][i] = v[i] + (IF i \in pots[k].eligible THEN pots[k].amount ELSE 0)
      BY <1>3
    <3>2. m[step[<<k, v>>]] = step[<<k, v>>][i] /\ m[v] = v[i]
      BY <1>7, <3>1
    <3>3. pots[k].eligible \in G <=> i \in pots[k].eligible
      BY <1>2, ContestsIs DEF n
    <3> HIDE DEF G
    <3> QED BY <3>1, <3>2, <3>3
  <2> QED BY <2>1 DEF Gains, n
<1> HIDE DEF G
<1>9. won \in V /\ m[won] = m[base] + Held(G, pots)
  BY ONLY <1>2, <1>6, <1>7, <1>8, RunHolds
<1>10. Held(G, pots) \in Nat /\ Reach(i, pots) = Held(G, pots)
  BY PotsHeld DEF Reach, G
<1>11. won[i] = Reach(i, pots)
  BY <1>5, <1>7, <1>9, <1>10
<1> QED
  BY <1>11 DEF won

\* Two seats with equal hands that contest the same pots win alike, up to an odd chip
\* for each pot, which goes to the seat nearer the left of the button.
LEMMA DistributeAlike ==
  ASSUME NEW F \in Families, NEW pots \in PotsOf(F), NEW M \in Nat,
         NEW strength, \A k \in Seat : strength[k] \in 0 .. M, NEW button \in Seat,
         NEW i \in Seat, NEW j \in Seat, strength[i] = strength[j],
         \A E \in F : i \in E <=> j \in E,
         Distance(FirstForOddChips(button), i) < Distance(FirstForOddChips(button), j)
  PROVE  Distribute(pots, strength, button)[i] - Distribute(pots, strength, button)[j]
           \in 0 .. Len(pots)
<1> DEFINE n == Len(pots)
           V == WonBy(F)
           base == NothingWon
           step == CollectStep(pots, F, strength, button)
           won == Distribute(pots, strength, button)
<1>1. PICK acc : Run(acc, n, V, base, step, won)
  <2> HIDE DEF won
  <2> QED BY DistributeIsRun DEF won
<1>2. n \in Nat /\ \A k \in 1 .. n : pots[k] \in PotOf(F)
  BY DEF PotsOf
<1>3. ASSUME NEW k \in 1 .. n, NEW v \in V
      PROVE  \E d \in 0 .. 1 : step[<<k, v>>][i] - step[<<k, v>>][j] = (v[i] - v[j]) + d
  <2> DEFINE pot == pots[k]
             x == Payout(pot, strength, button, i)
             y == Payout(pot, strength, button, j)
  <2>1. pot \in PotOf(F) /\ v \in WonBy(F) /\ k \in 1 .. Len(pots)
    BY <1>2
  <2>2. step[<<k, v>>] = Collect(v, pot, strength, button)
    BY <2>1, CollectStepIs
  <2> HIDE DEF step, pot
  <2>3. step[<<k, v>>][i] = v[i] + x /\ step[<<k, v>>][j] = v[j] + y
    BY <2>1, <2>2, CollectKeeps
  <2>4. i \in pot.eligible <=> j \in pot.eligible
    BY <2>1, PotsOfFacts
  <2>5. x \in Nat /\ y \in Nat /\ x - y \in 0 .. 1
    BY <2>1, <2>4, EqualHandsShare
  <2>6. v[i] \in Nat /\ v[j] \in Nat
    BY <2>1 DEF WonBy
  <2> HIDE DEF x, y
  <2> DEFINE a == v[i]
             b == v[j]
  <2>7. step[<<k, v>>][i] - step[<<k, v>>][j] = (a + x) - (b + y)
    BY <2>3
  <2> HIDE DEF a, b
  <2>8. a \in Nat /\ b \in Nat
    BY <2>6 DEF a, b
  <2>9. (a + x) - (b + y) = (a - b) + (x - y)
    BY <2>5, <2>8
  <2> QED BY <2>5, <2>7, <2>9 DEF a, b
<1>4. \A v \in V : v[i] \in Nat /\ v[j] \in Nat
  BY DEF WonBy
<1>5. base[i] = 0 /\ base[j] = 0
  BY DEF NothingWon
<1>6. /\ acc \in [0 .. n -> V] /\ acc[0] = base /\ acc[n] = won
      /\ \A k \in 1 .. n : acc[k] = step[<<k, acc[k - 1]>>]
  BY <1>1 DEF Run
<1> HIDE DEF V, base, step, won, n
<1> DEFINE gap(k) == acc[k][i] - acc[k][j]
           P == {k \in Nat : k <= n => gap(k) \in 0 .. k}
<1>7. 0 \in P
  BY <1>5, <1>6
<1>8. ASSUME NEW k \in P PROVE k + 1 \in P
  <2>1. k \in Nat /\ (k + 1) - 1 = k
    OBVIOUS
  <2>2. CASE k + 1 <= n
    <3>1. k + 1 \in 1 .. n /\ k \in 0 .. n /\ gap(k) \in 0 .. k
      BY <1>2, <2>1, <2>2
    <3>2. acc[k] \in V /\ acc[k + 1] = step[<<k + 1, acc[k]>>]
      BY <1>6, <2>1, <3>1
    <3>3. PICK d \in 0 .. 1 : gap(k + 1) = gap(k) + d
      BY <1>3, <3>1, <3>2
    <3> HIDE DEF gap
    <3>4. gap(k + 1) \in 0 .. (k + 1)
      BY <2>1, <3>1, <3>3
    <3> QED BY <2>1, <3>4
  <2> QED BY <1>2, <2>1, <2>2
<1>9. P = Nat
  <2>1. P \in SUBSET Nat
    OBVIOUS
  <2> HIDE DEF P
  <2> QED BY <1>7, <1>8, <2>1, CountingUp
<1>10. gap(n) \in 0 .. n
  BY <1>2, <1>9
<1> QED
  BY <1>6, <1>10 DEF n, won

-----------------------------------------------------------------------------
(* What a settled hand pays *)

\* A hand that is settled pays out the chips that were put into it, and nothing to a
\* seat that put in none.
THEOREM ChipsConserved ==
  ASSUME NEW stakes \in Stakes, NEW folded, NEW M \in Nat,
         NEW strength, \A i \in Seat : strength[i] \in 0 .. M, NEW button \in Seat
  PROVE  LET won == Distribute(ComputePots(stakes, folded), strength, button)
         IN /\ won \in [Seat -> Nat]
            /\ Chips(won) = Chips(stakes)
            /\ \A i \in Seat : stakes[i] = 0 => won[i] = 0
<1> DEFINE pots == ComputePots(stakes, folded)
           won == Distribute(pots, strength, button)
           A == Paying(stakes)
           F == (SUBSET A) \ {{}}
           D == {c \in Stakes : Paying(c) \subseteq A}
<1>1. A \in SUBSET Seat /\ \A i \in Seat : stakes[i] = 0 => i \notin A
  BY DEF Paying
<1>2. F \in Families
  BY <1>1 DEF Families
<1>3. Layers(stakes, folded) \in Seq(LayerOf(F))
  <2>1. ASSUME NEW c \in D, Paying(c) # {}
        PROVE  Rest(c) \in D /\ TopLayer(c, folded) \in LayerOf(F)
    <3>1. Rest(c) \in Stakes /\ Paying(Rest(c)) \subseteq Paying(c)
      BY <2>1, PeelingShrinks
    <3>2. /\ TopLayer(c, folded) \in Layer
          /\ TopLayer(c, folded).contributors = Paying(c)
          /\ TopLayer(c, folded).eligible = {k \in Paying(c) : ~folded[k]}
      BY <2>1, TopLayerType
    <3>3. Paying(c) \subseteq A
      OBVIOUS
    <3>4. Rest(c) \in D
      BY <3>1, <3>3
    <3> HIDE DEF A
    <3>5. TopLayer(c, folded) \in LayerOf(F)
      BY <2>1, <3>2, <3>3 DEF LayerOf
    <3> QED BY <3>4, <3>5
  <2>2. stakes \in D /\ D \in SUBSET Stakes
    OBVIOUS
  <2> HIDE DEF D, F
  <2> QED BY <2>1, <2>2, LayersIn
<1> HIDE DEF F, pots
<1>4. pots \in PotsOf(F) /\ Worth(pots) = Chips(stakes)
  BY <1>2, <1>3, ComputePotsHold DEF pots
<1>5. won \in WonBy(F) /\ Chips(won) = Worth(pots)
  BY <1>2, <1>4, DistributePays
<1>6. ASSUME NEW i \in Seat, stakes[i] = 0 PROVE won[i] = 0
  <2>1. \A E \in F : i \notin E
    BY <1>1, <1>6 DEF F
  <2> QED BY <1>5, <2>1 DEF WonBy
<1> QED
  BY <1>4, <1>5, <1>6 DEF WonBy, pots

\* The contestants there can be of the pots of a hand: seats that have not folded, or
\* one seat that is given back its own.
Contested(folded) ==
  {E \in (SUBSET Seat) \ {{}} : (\A k \in E : ~folded[k]) \/ (\E k \in Seat : E = {k})}

\* And they are these.
LEMMA ContestedFamily ==
  ASSUME NEW folded, NEW stakes \in Stakes
  PROVE  /\ Contested(folded) \in Families
         /\ Layers(stakes, folded) \in Seq(LayerOf(Contested(folded)))
<1>1. Contested(folded) \in Families
  BY DEF Contested, Families
<1>2. ASSUME NEW c \in Stakes, Paying(c) # {}
      PROVE  Rest(c) \in Stakes /\ TopLayer(c, folded) \in LayerOf(Contested(folded))
  <2>1. Rest(c) \in Stakes
    BY <1>2, PeelingShrinks
  <2>2. /\ TopLayer(c, folded) \in Layer
        /\ TopLayer(c, folded).contributors = Paying(c)
        /\ TopLayer(c, folded).eligible = {k \in Paying(c) : ~folded[k]}
        /\ Paying(c) \in SUBSET Seat
    BY <1>2, TopLayerType
  <2>3. TopLayer(c, folded) \in LayerOf(Contested(folded))
    BY <1>2, <2>2 DEF LayerOf, Contested
  <2> QED BY <2>1, <2>3
<1>3. Stakes \in SUBSET Stakes
  OBVIOUS
<1>4. \A c \in Stakes : Paying(c) # {} =>
        Rest(c) \in Stakes /\ TopLayer(c, folded) \in LayerOf(Contested(folded))
  BY <1>2
<1>5. Layers(stakes, folded) \in Seq(LayerOf(Contested(folded)))
  BY <1>3, <1>4, LayersIn
<1> QED
  BY <1>1, <1>5

\* The strictly best hand that has not folded wins at least what it has covered of
\* everyone's stakes.
THEOREM BestHandWins ==
  ASSUME NEW stakes \in Stakes, NEW folded, NEW M \in Nat,
         NEW strength, \A k \in Seat : strength[k] \in 0 .. M, NEW button \in Seat,
         NEW i \in Seat, ~folded[i],
         \A j \in Seat \ {i} : ~folded[j] => strength[j] < strength[i]
  PROVE  Distribute(ComputePots(stakes, folded), strength, button)[i]
           >= Chips(Covering(i, stakes))
<1> DEFINE F == Contested(folded)
           pots == ComputePots(stakes, folded)
           layers == Layers(stakes, folded)
<1>1. F \in Families /\ layers \in Seq(LayerOf(F))
  BY ContestedFamily
<1>2. \A E \in F : i \in E => \A j \in E \ {i} : strength[j] < strength[i]
  BY DEF Contested
<1> HIDE DEF F, pots, layers
<1>3. pots \in PotsOf(F) /\ Reach(i, pots) >= Reach(i, layers)
  BY <1>1, ComputePotsHold DEF pots, layers, Reach, Contests
<1>4. Distribute(pots, strength, button)[i] = Reach(i, pots)
  BY <1>1, <1>2, <1>3, DistributeTakes
<1>5. Reach(i, layers) = Chips(Covering(i, stakes))
  BY LayersReach DEF layers
<1> QED
  BY <1>3, <1>4, <1>5 DEF pots

\* While a seat that paid the most has not folded, no such seat wins more than it has
\* covered.
THEOREM CoveredAtMost ==
  ASSUME NEW stakes \in Stakes, NEW folded, NEW M \in Nat,
         NEW strength, \A k \in Seat : strength[k] \in 0 .. M, NEW button \in Seat,
         NEW i \in Seat, ~folded[i],
         NEW j \in Seat, ~folded[j], \A k \in Seat : stakes[k] <= stakes[j]
  PROVE  Distribute(ComputePots(stakes, folded), strength, button)[i]
           <= Chips(Covering(i, stakes))
<1> DEFINE F == Contested(folded)
           pots == ComputePots(stakes, folded)
           layers == Layers(stakes, folded)
           D == {c \in Stakes : \A k \in Seat : c[k] <= c[j]}
           T == {layer \in Layer : layer.eligible # {}}
<1>1. F \in Families /\ layers \in Seq(LayerOf(F))
  BY ContestedFamily
<1>2. layers \in Seq(T)
  <2>1. ASSUME NEW c \in D, Paying(c) # {}
        PROVE  Rest(c) \in D /\ TopLayer(c, folded) \in T
    <3>1. c \in Stakes /\ \A k \in Seat : c[k] \in Nat /\ c[k] <= c[j]
      BY DEF Stakes
    <3>2. j \in Paying(c)
      BY <2>1, <3>1 DEF Paying
    <3>3. /\ Rest(c) \in Stakes /\ Level(c) \in Nat
          /\ \A k \in Seat : c[k] = (IF k \in Paying(c) THEN Level(c) ELSE 0) + Rest(c)[k]
      BY <2>1, <3>1, PeelingShrinks
    <3>4. \A k \in Seat : k \notin Paying(c) => Rest(c)[k] = 0
      BY DEF Rest
    <3>5. \A k \in Seat : Rest(c)[k] \in Nat
      BY <3>3 DEF Stakes
    <3>6. \A k \in Seat : Rest(c)[k] <= Rest(c)[j]
      <4> TAKE k \in Seat
      <4>1. Rest(c)[k] \in Nat /\ Rest(c)[j] \in Nat /\ c[k] <= c[j]
        BY <3>1, <3>5
      <4>2. c[j] = Level(c) + Rest(c)[j]
        BY <3>2, <3>3
      <4>3. CASE k \in Paying(c)
        <5>1. c[k] = Level(c) + Rest(c)[k]
          BY <3>3, <4>3
        <5> QED BY <3>3, <4>1, <4>2, <5>1
      <4>4. CASE k \notin Paying(c)
        BY <3>4, <4>1, <4>4
      <4> QED BY <4>3, <4>4
    <3>7. /\ TopLayer(c, folded) \in Layer
          /\ TopLayer(c, folded).eligible = {k \in Paying(c) : ~folded[k]}
      BY <2>1, <3>1, TopLayerType
    <3>8. TopLayer(c, folded) \in T
      BY <3>2, <3>7
    <3> QED BY <3>3, <3>6, <3>8
  <2>2. stakes \in D /\ D \in SUBSET Stakes
    OBVIOUS
  <2> HIDE DEF D, T
  <2> QED BY <2>1, <2>2, LayersIn
<1>3. \A k \in DOMAIN layers : layers[k].eligible # {}
  <2> HIDE DEF layers
  <2> QED BY <1>2
<1> HIDE DEF F, pots, layers
<1>4. pots \in PotsOf(F) /\ Reach(i, pots) = Reach(i, layers)
  BY <1>1, <1>3, ComputePotsHold DEF pots, layers, Reach
<1>5. Distribute(pots, strength, button)[i] <= Reach(i, pots)
  BY <1>1, <1>4, DistributePays
<1>6. Reach(i, layers) = Chips(Covering(i, stakes))
  BY LayersReach DEF layers
<1> QED
  BY <1>4, <1>5, <1>6 DEF pots

\* Two seats that have not folded, paid the same and hold equal hands win alike, up to
\* an odd chip for each pot.
THEOREM EqualHandsWinAlike ==
  ASSUME NEW stakes \in Stakes, NEW folded, NEW M \in Nat,
         NEW strength, \A k \in Seat : strength[k] \in 0 .. M, NEW button \in Seat,
         NEW i \in Seat, ~folded[i], NEW j \in Seat, ~folded[j],
         strength[i] = strength[j], stakes[i] = stakes[j],
         Distance(FirstForOddChips(button), i) < Distance(FirstForOddChips(button), j)
  PROVE  LET pots == ComputePots(stakes, folded)
             won == Distribute(pots, strength, button)
         IN won[i] - won[j] \in 0 .. Len(pots)
<1> DEFINE F == {E \in (SUBSET Seat) \ {{}} : i \in E <=> j \in E}
           pots == ComputePots(stakes, folded)
           D == {c \in Stakes : c[i] = c[j]}
<1>1. F \in Families
  BY DEF Families
<1>2. Layers(stakes, folded) \in Seq(LayerOf(F))
  <2>1. ASSUME NEW c \in D, Paying(c) # {}
        PROVE  Rest(c) \in D /\ TopLayer(c, folded) \in LayerOf(F)
    <3>1. c \in Stakes /\ c[i] = c[j]
      OBVIOUS
    <3>2. i \in Paying(c) <=> j \in Paying(c)
      BY <3>1 DEF Paying
    <3>3. Rest(c) \in Stakes
      BY <2>1, <3>1, PeelingShrinks
    <3>4. \A k \in Seat : Rest(c)[k] = IF k \in Paying(c) THEN c[k] - Level(c) ELSE 0
      BY DEF Rest
    <3>5. Rest(c)[i] = Rest(c)[j]
      BY <3>1, <3>2, <3>4
    <3>6. /\ TopLayer(c, folded) \in Layer
          /\ TopLayer(c, folded).contributors = Paying(c)
          /\ TopLayer(c, folded).eligible = {k \in Paying(c) : ~folded[k]}
          /\ Paying(c) \in SUBSET Seat
      BY <2>1, <3>1, TopLayerType
    <3>7. ASSUME {k \in Paying(c) : ~folded[k]} # {}
          PROVE  {k \in Paying(c) : ~folded[k]} \in F
      BY <3>2, <3>6, <3>7
    <3>8. ASSUME {k \in Paying(c) : ~folded[k]} = {}, NEW k \in Paying(c)
          PROVE  {k} \in F
      BY <3>6, <3>8
    <3>9. TopLayer(c, folded) \in LayerOf(F)
      <4> HIDE DEF F
      <4> QED BY <2>1, <3>6, <3>7, <3>8 DEF LayerOf
    <3> QED BY <3>3, <3>5, <3>9
  <2>2. stakes \in D /\ D \in SUBSET Stakes
    OBVIOUS
  <2> HIDE DEF D, F
  <2> QED BY <2>1, <2>2, LayersIn
<1>3. \A E \in F : i \in E <=> j \in E
  OBVIOUS
<1> HIDE DEF F, pots
<1>4. pots \in PotsOf(F)
  BY <1>1, <1>2, ComputePotsHold DEF pots
<1>5. Distribute(pots, strength, button)[i] - Distribute(pots, strength, button)[j]
        \in 0 .. Len(pots)
  BY <1>1, <1>3, <1>4, DistributeAlike
<1> QED
  BY <1>5 DEF pots

-----------------------------------------------------------------------------
(* Refunds and layers, one by one *)

\* A multiple of c is divided by c without remainder.
LEMMA DivisionOfMultiple ==
  ASSUME NEW m \in Nat, NEW c \in Nat \ {0}
  PROVE  (m * c) \div c = m /\ (m * c) % c = 0
<1> DEFINE n == m * c
           q == n \div c
           r == n % c
<1>1. n \in Nat
  OBVIOUS
<1>2. q \in Nat /\ r \in 0 .. c - 1 /\ n = (q * c) + r
  <2> HIDE DEF n
  <2> QED BY <1>1
<1> HIDE DEF q, r
<1>3. q = m
  <2>1. (m - q) * c = r
    BY <1>2
  <2>2. CASE m > q
    <3>1. (m - q) * c >= c
      <4> DEFINE d == m - q
      <4>1. d \in Nat \ {0}
        BY <1>2, <2>2
      <4> HIDE DEF d
      <4>2. d * c >= c
        <5>1. d - 1 \in Nat /\ (d - 1) * c \in Nat /\ d * c = ((d - 1) * c) + c
          BY <4>1
        <5> HIDE DEF d
        <5> QED BY <5>1
      <4> QED BY <4>2 DEF d
    <3> QED BY <1>2, <2>1, <3>1
  <2>3. CASE m < q
    <3> DEFINE d == q - m
    <3>1. d \in Nat \ {0} /\ d * c = 0 - r
      BY <1>2, <2>1, <2>3
    <3> HIDE DEF d
    <3>2. (d - 1) \in Nat /\ (d - 1) * c \in Nat /\ d * c = ((d - 1) * c) + c
      BY <3>1
    <3> QED BY <1>2, <3>1, <3>2
  <2> QED BY <1>2, <2>2, <2>3
<1> QED
  BY <1>2, <1>3 DEF q, r

\* Different seats of W have different numbers of seats of W before them.
LEMMA AheadDiffer ==
  ASSUME NEW W \in SUBSET Seat, NEW i \in W, NEW j \in W, i < j
  PROVE  Cardinality({k \in W : k < i}) < Cardinality({k \in W : k < j})
<1> DEFINE A == {k \in W : k < i}
           B == {k \in W : k < j}
<1>1. \A k \in W : k \in Nat
  BY SeatCount DEF Seat
<1>2. A \subseteq B /\ i \in B /\ i \notin A
  BY <1>1
<1>3. IsFiniteSet(W)
  BY SeatsFinite, FS_Subset
<1>4. IsFiniteSet(A) /\ IsFiniteSet(B) /\ Cardinality(A) \in Nat /\ Cardinality(B) \in Nat
  BY <1>3, FS_Subset, FS_CardinalityType
<1> HIDE DEF A, B
<1>5. Cardinality(A \union {i}) = Cardinality(A) + 1
  BY <1>2, <1>4, FS_AddElement
<1>6. A \union {i} \subseteq B
  BY <1>2
<1>7. Cardinality(A \union {i}) <= Cardinality(B)
  BY <1>4, <1>6, FS_Subset
<1> QED
  BY <1>4, <1>5, <1>7 DEF A, B

\* The refunds of a layer give every seat that paid it back what it paid.
LEMMA RefundsHeld ==
  ASSUME NEW F \in Families, NEW layer \in LayerOf(F), layer.eligible = {},
         NEW low \in Nat, layer.amount = low * Cardinality(layer.contributors), NEW G
  PROVE  Held(G, Refunds(layer)) = low * Cardinality({i \in layer.contributors : {i} \in G})
<1> DEFINE W == layer.contributors
           n == layer.amount
           c == Cardinality(W)
           key == [i \in Seat |-> i]
           ahead(i) == {j \in W : j < i}
           payer(k) == CHOOSE i \in W : Cardinality(ahead(i)) = k - 1
           r0 == Refunds(layer)
           parts == Parts(G, r0)
           Back(k) == {i \in W : Cardinality(ahead(i)) < k /\ {i} \in G}
           tally == [k \in 0 .. c |-> low * Cardinality(Back(k))]
<1>1. n = low * c /\ W \in SUBSET Seat /\ W # {}
  BY DEF LayerOf, Layer
<1>2. IsFiniteSet(W) /\ c \in Nat \ {0}
  BY <1>1, SeatsFinite, FS_Subset, FS_CardinalityType, FS_EmptySet
<1>3. n \div c = low /\ n % c = 0
  <2> HIDE DEF c, n
  <2> QED BY <1>1, <1>2, DivisionOfMultiple
<1>4. \A i \in W : ahead(i) = Ahead(W, key, i) /\ ahead(i) \in SUBSET W
  BY <1>1 DEF Ahead
<1>5. \A i \in W : Cardinality(ahead(i)) \in Nat
  <2> HIDE DEF W, ahead
  <2> QED BY <1>2, <1>4, FS_Subset, FS_CardinalityType
<1>6. ASSUME NEW k \in 1 .. c PROVE payer(k) \in W /\ Cardinality(ahead(payer(k))) = k - 1
  <2>1. \A i \in Seat : i \in Nat
    BY SeatCount DEF Seat
  <2>2. key \in [Seat -> Nat] /\ \A i, j \in W : key[i] = key[j] => i = j
    BY <1>1, <2>1
  <2>3. \E i \in W : Cardinality(Ahead(W, key, i)) = k - 1
    <3> HIDE DEF key, W
    <3> QED BY <1>1, <2>2, EveryPlaceTaken DEF c
  <2>4. \E i \in W : Cardinality(ahead(i)) = k - 1
    BY <1>4, <2>3
  <2> HIDE DEF W, ahead
  <2> QED BY <2>4
<1>7. ASSUME NEW k \in 1 .. c, NEW i \in W, Cardinality(ahead(i)) = k - 1 PROVE i = payer(k)
  <2>1. \A j \in W : j \in Nat
    BY <1>1, SeatCount DEF Seat
  <2>2. \A a, b \in W : a < b => Cardinality(ahead(a)) < Cardinality(ahead(b))
    BY <1>1, AheadDiffer
  <2> HIDE DEF W, ahead, payer, c
  <2> QED BY <1>5, <1>6, <1>7, <2>1, <2>2
<1>8. \A k \in 1 .. c : r0[k] = Pot(low, {payer(k)})
  <2>1. ASSUME NEW k \in 1 .. c
        PROVE  r0[k] = Pot(EvenShare(n, W, ahead(payer(k))), {payer(k)})
    BY DEF Refunds
  <2>2. ASSUME NEW k \in 1 .. c PROVE EvenShare(n, W, ahead(payer(k))) = low
    <3>1. Cardinality(ahead(payer(k))) = k - 1 /\ k - 1 >= 0
      <4>1. Cardinality(ahead(payer(k))) = k - 1
        BY <1>6
      <4> HIDE DEF ahead, payer, c
      <4> QED BY <1>2, <4>1
    <3> DEFINE x == ahead(payer(k))
    <3>2. ~(Cardinality(x) < 0)
      BY <3>1
    <3> HIDE DEF x
    <3>3. EvenShare(n, W, x) = (n \div c) + IF Cardinality(x) < n % c THEN 1 ELSE 0
      BY DEF EvenShare
    <3> HIDE DEF c, n, W
    <3>4. EvenShare(n, W, x) = low
      BY <1>3, <3>2, <3>3
    <3> QED BY <3>4 DEF x
  <2> HIDE DEF r0, ahead, payer, n, c, W
  <2> QED BY <2>1, <2>2
<1>9. Refunds(layer) \in PotsOf(F)
  BY RefundsWorth
<1>10. Len(r0) = c /\ \A pot \in PotOf(F) : pot.amount \in Nat
  <2>1. r0 \in Seq(PotOf(F)) /\ DOMAIN r0 = 1 .. c
    BY <1>9 DEF PotsOf, Refunds
  <2> HIDE DEF r0, c
  <2> QED BY <1>2, <2>1 DEF PotOf
<1>11. parts \in Seq(Amounts) /\ Len(parts) = c
  BY <1>9, <1>10, PartsType DEF PotsOf
<1>12. \A k \in 1 .. c : parts[k].amount = IF {payer(k)} \in G THEN low ELSE 0
  <2>1. \A k \in 1 .. c : parts[k] = Part(G, r0[k])
    <3>1. DOMAIN r0 = 1 .. c
      BY DEF Refunds
    <3> HIDE DEF r0, c
    <3> QED BY <3>1 DEF Parts
  <2> HIDE DEF parts, r0, payer, c
  <2>2. ASSUME NEW S
        PROVE  Part(G, Pot(low, S)).amount = IF S \in G THEN low ELSE 0
    BY DEF Part, Pot
  <2> QED BY <1>8, <2>1, <2>2
<1> HIDE DEF r0, parts, payer, ahead, c, n, W
<1>13. \A k \in Nat : Back(k) \in SUBSET W /\ IsFiniteSet(Back(k)) /\ Cardinality(Back(k)) \in Nat
  <2> TAKE k \in Nat
  <2>1. Back(k) \in SUBSET W
    OBVIOUS
  <2> HIDE DEF Back
  <2> QED BY <1>2, <2>1, FS_Subset, FS_CardinalityType
<1>14. Cardinality(Back(0)) = 0
  <2>1. Back(0) = {}
    BY <1>5
  <2> QED BY <2>1, FS_EmptySet
<1>15. Back(c) = {i \in W : {i} \in G}
  <2>1. \A i \in W : Cardinality(ahead(i)) < c
    <3> TAKE i \in W
    <3>1. ahead(i) \subseteq W \ {i}
      <4>1. i \in Nat
        BY <1>1, SeatCount DEF Seat
      <4> QED BY <4>1 DEF ahead
    <3>2. IsFiniteSet(W \ {i}) /\ Cardinality(W \ {i}) = c - 1
      BY <1>2, FS_RemoveElement DEF c
    <3>3. Cardinality(ahead(i)) <= c - 1
      BY <3>1, <3>2, FS_Subset
    <3> QED BY <1>2, <1>5, <3>3
  <2> QED BY <2>1
<1>16. ASSUME NEW k \in 1 .. c
       PROVE  low * Cardinality(Back(k)) =
                (low * Cardinality(Back(k - 1))) + (IF {payer(k)} \in G THEN low ELSE 0)
  <2>1. k \in Nat /\ k - 1 \in Nat
    BY <1>2
  <2>2. Back(k) = IF {payer(k)} \in G THEN Back(k - 1) \union {payer(k)} ELSE Back(k - 1)
    <3>1. \A i \in W : Cardinality(ahead(i)) < k <=> Cardinality(ahead(i)) < k - 1 \/ i = payer(k)
      BY <1>5, <1>6, <1>7, <2>1
    <3> QED BY <1>6, <3>1
  <2>3. payer(k) \notin Back(k - 1)
    BY <1>6, <2>1
  <2>4. IsFiniteSet(Back(k - 1)) /\ Cardinality(Back(k - 1)) \in Nat
    BY <1>13, <2>1
  <2> DEFINE b == Cardinality(Back(k - 1))
  <2> HIDE DEF Back
  <2>5. Cardinality(Back(k)) = IF {payer(k)} \in G THEN b + 1 ELSE b
    BY <2>2, <2>3, <2>4, FS_AddElement
  <2> HIDE DEF b
  <2>6. low * (b + 1) = (low * b) + low /\ low * b \in Nat
    BY <2>4 DEF b
  <2> QED BY <2>5, <2>6 DEF b
<1>17. Tally(tally, parts)
  <2>1. \A k \in 0 .. c : low * Cardinality(Back(k)) \in Nat
    <3> HIDE DEF Back
    <3> TAKE k \in 0 .. c
    <3>1. Cardinality(Back(k)) \in Nat
      BY <1>2, <1>13
    <3> QED BY <3>1
  <2>2. low * 0 = 0
    OBVIOUS
  <2> HIDE DEF Back
  <2>3. tally \in [0 .. c -> Nat] /\ tally[0] = 0
    BY <1>2, <1>14, <2>1, <2>2
  <2>4. ASSUME NEW k \in 1 .. c PROVE tally[k] = tally[k - 1] + parts[k].amount
    <3>1. tally[k] = low * Cardinality(Back(k)) /\ tally[k - 1] = low * Cardinality(Back(k - 1))
      BY <1>2
    <3> HIDE DEF tally
    <3> QED BY <1>12, <1>16, <3>1
  <2> HIDE DEF tally
  <2> QED BY <1>11, <2>3, <2>4 DEF Tally
<1>18. tally[c] = low * Cardinality({i \in W : {i} \in G})
  <2>1. c \in 0 .. c
    BY <1>2
  <2> HIDE DEF Back
  <2> QED BY <1>15, <2>1
<1> HIDE DEF tally
<1>19. Worth(parts) = tally[c]
  <2>1. \A x \in Amounts : x.amount \in Nat
    BY DEF Amounts
  <2> QED BY <1>11, <1>17, <2>1, WorthIs
<1> QED
  BY <1>18, <1>19 DEF Held, parts, r0, W

\* Absorbing no layers changes nothing.
LEMMA AbsorbNone ==
  ASSUME NEW F \in Families, NEW from \in Accounts(F)
  PROVE  FoldLeft(Absorb, from, <<>>) = from
<1>1. <<>> \in Seq(LayerOf(F)) /\ Len(<<>>) = 0
  OBVIOUS
<1>2. PICK acc : Run(acc, 0, Accounts(F), from, AbsorbStep(<<>>, F), FoldLeft(Absorb, from, <<>>))
  BY <1>1, AbsorbIsRun
<1> QED
  BY <1>2 DEF Run

\* Absorbing a layer and others is absorbing the others after it.
LEMMA AbsorbOneFirst ==
  ASSUME NEW F \in Families, NEW from \in Accounts(F),
         NEW layer \in LayerOf(F), NEW layers \in Seq(LayerOf(F))
  PROVE  FoldLeft(Absorb, from, <<layer>> \o layers) =
           FoldLeft(Absorb, Absorb(from, layer), layers)
<1> DEFINE V == Accounts(F)
           all == <<layer>> \o layers
           n == Len(layers)
           then == Absorb(from, layer)
           long == AbsorbStep(all, F)
           short == AbsorbStep(layers, F)
           end == FoldLeft(Absorb, from, all)
           last == FoldLeft(Absorb, then, layers)
<1>1. /\ n \in Nat /\ all \in Seq(LayerOf(F)) /\ Len(all) = n + 1
      /\ all[1] = layer /\ \A k \in 1 .. n : all[k + 1] = layers[k]
  <2>1. <<layer>> \in Seq(LayerOf(F)) /\ Len(<<layer>>) = 1
    OBVIOUS
  <2> QED BY <2>1
<1>2. then \in V
  BY AbsorbKeeps
<1>3. PICK a : Run(a, n + 1, V, from, long, end)
  <2> HIDE DEF all, end, n
  <2> QED BY <1>1, AbsorbIsRun DEF end
<1>4. PICK b : Run(b, n, V, then, short, last)
  <2> HIDE DEF last, then
  <2> QED BY <1>2, AbsorbIsRun DEF last
<1>5. \A k \in 1 .. n + 1, v \in V : long[<<k, v>>] = Absorb(v, all[k])
  <2>1. all \in Seq(LayerOf(F)) /\ Len(all) = n + 1
    BY <1>1
  <2> HIDE DEF all
  <2>2. \A k \in 1 .. Len(all), v \in Accounts(F) : long[<<k, v>>] = Absorb(v, all[k])
    BY <2>1, AbsorbStepIs
  <2> HIDE DEF long, n
  <2> QED BY <2>1, <2>2
<1>6. \A k \in 1 .. n, v \in V : short[<<k, v>>] = Absorb(v, layers[k])
  BY AbsorbStepIs
<1> HIDE DEF V, all, n, then, long, short, end, last
<1>7. \A k \in 0 .. n + 1 : a[k] \in V
  BY <1>3 DEF Run
<1>8. \A k \in 1 .. n + 1 : a[k] = Absorb(a[k - 1], all[k])
  <2> TAKE k \in 1 .. n + 1
  <2>1. k - 1 \in 0 .. n + 1
    BY <1>1
  <2> QED BY <1>3, <1>5, <1>7, <2>1 DEF Run
<1>9. \A k \in 1 .. n : b[k] = Absorb(b[k - 1], layers[k])
  <2> TAKE k \in 1 .. n
  <2>1. k - 1 \in 0 .. n
    BY <1>1
  <2>2. b[k - 1] \in V
    BY <1>4, <2>1 DEF Run
  <2> QED BY <1>4, <1>6, <2>2 DEF Run
<1> DEFINE P == {k \in Nat : k <= n => a[k + 1] = b[k]}
<1>10. 0 \in P
  <2>1. 1 \in 1 .. n + 1 /\ 1 - 1 = 0
    BY <1>1
  <2>2. a[1] = Absorb(a[0], all[1])
    BY <1>8, <2>1
  <2> QED BY <1>1, <1>3, <1>4, <2>2 DEF Run, then
<1>11. ASSUME NEW k \in P PROVE k + 1 \in P
  <2>1. k \in Nat
    OBVIOUS
  <2> SUFFICES ASSUME k + 1 <= n PROVE a[(k + 1) + 1] = b[k + 1]
    BY <2>1
  <2>2. /\ k + 1 \in 1 .. n /\ (k + 1) + 1 \in 1 .. n + 1
        /\ ((k + 1) + 1) - 1 = k + 1 /\ (k + 1) - 1 = k /\ k <= n
    BY <1>1, <2>1
  <2>3. a[(k + 1) + 1] = Absorb(a[k + 1], all[(k + 1) + 1])
    BY <1>8, <2>2
  <2>4. b[k + 1] = Absorb(b[k], layers[k + 1])
    BY <1>9, <2>2
  <2> QED BY <1>1, <2>2, <2>3, <2>4
<1>12. P = Nat
  <2>1. P \in SUBSET Nat
    OBVIOUS
  <2> HIDE DEF P
  <2> QED BY <1>10, <1>11, <2>1, CountingUp
<1>13. a[n + 1] = b[n]
  BY <1>1, <1>12
<1> QED
  BY <1>3, <1>4, <1>13 DEF Run, end, last, all, then

-----------------------------------------------------------------------------
(* The chips, one by one *)

\* The h-th chip a seat put in, for every seat and every h.
ChipsIn(stakes) == {c \in Seat \X (Nat \ {0}) : c[2] <= stakes[c[1]]}

\* The seats still in that put in a k-th chip; the contestants of the h-th chip of seat j:
\* those of the highest level up to h anyone is left in, and fallback[j] if there is none.
Reached(stakes, folded, k) == {i \in Seat : ~folded[i] /\ stakes[i] >= k}
Claimants(stakes, folded, fallback, j, h) ==
  LET contested == {k \in 1 .. h : Reached(stakes, folded, k) # {}}
  IN IF contested = {} THEN fallback[j]
     ELSE Reached(stakes, folded, CHOOSE k \in contested : \A m \in contested : m <= k)

\* The chips contested by a set of G.
Group(stakes, folded, fallback, G) ==
  {c \in ChipsIn(stakes) : Claimants(stakes, folded, fallback, c[1], c[2]) \in G}

\* The highest contested level is the one there is.
LEMMA ClaimedAt ==
  ASSUME NEW stakes, NEW folded, NEW fallback, NEW j, NEW h \in Nat, NEW k \in 1 .. h,
         Reached(stakes, folded, k) # {},
         \A m \in 1 .. h : Reached(stakes, folded, m) # {} => m <= k
  PROVE  Claimants(stakes, folded, fallback, j, h) = Reached(stakes, folded, k)
<1> DEFINE contested == {m \in 1 .. h : Reached(stakes, folded, m) # {}}
           top == CHOOSE x \in contested : \A m \in contested : m <= x
<1>1. k \in contested /\ \A m \in contested : m <= k
  OBVIOUS
<1>2. contested \subseteq Nat
  OBVIOUS
<1>3. Claimants(stakes, folded, fallback, j, h) =
        IF contested = {} THEN fallback[j] ELSE Reached(stakes, folded, top)
  BY DEF Claimants
<1> HIDE DEF contested
<1>4. top = k
  <2>1. top \in contested /\ \A m \in contested : m <= top
    BY <1>1
  <2> HIDE DEF top
  <2> QED BY <1>1, <1>2, <2>1
<1> HIDE DEF top
<1> QED
  BY <1>1, <1>3, <1>4

\* No level is contested.
LEMMA ClaimedByNone ==
  ASSUME NEW stakes, NEW folded, NEW fallback, NEW j, NEW h \in Nat,
         \A m \in 1 .. h : Reached(stakes, folded, m) = {}
  PROVE  Claimants(stakes, folded, fallback, j, h) = fallback[j]
BY DEF Claimants

\* There is a highest contested level if there is any.
LEMMA HighestLevel ==
  ASSUME NEW stakes, NEW folded, NEW h \in Nat,
         \E m \in 1 .. h : Reached(stakes, folded, m) # {}
  PROVE  \E k \in 1 .. h : /\ Reached(stakes, folded, k) # {}
                           /\ \A m \in 1 .. h : Reached(stakes, folded, m) # {} => m <= k
<1> DEFINE levels == {m \in 1 .. h : Reached(stakes, folded, m) # {}}
           below == {h - m : m \in levels}
<1>1. below \in SUBSET Nat /\ below # {}
  <2>1. \A m \in levels : h - m \in Nat
    OBVIOUS
  <2> QED BY <2>1
<1>2. \E n \in below : \A m \in below : n <= m
  <2> HIDE DEF below
  <2> QED BY <1>1, LeastNumber
<1>3. PICK k \in levels : \A m \in levels : h - k <= h - m
  BY <1>2
<1> QED
  BY <1>3

\* Nobody is paid off with nothing: every layer takes something.
LEMMA LevelPositive ==
  ASSUME NEW stakes \in Stakes, Paying(stakes) # {}
  PROVE  Level(stakes) > 0
<1> DEFINE amounts == {stakes[i] : i \in Paying(stakes)}
<1>1. amounts \in SUBSET Nat /\ amounts # {} /\ \A n \in amounts : n > 0
  BY DEF Paying, Stakes
<1>2. \E n \in amounts : \A m \in amounts : n <= m
  <2> HIDE DEF amounts
  <2> QED BY <1>1, LeastNumber
<1>3. Level(stakes) = Min(amounts)
  BY DEF Level
<1> HIDE DEF amounts
<1> QED
  BY <1>1, <1>2, <1>3 DEF Min

\* Who is left for the chips below the top layer: those of the layer, or, when they all
\* folded, who was.
Below(stakes, folded, fallback) ==
  LET left == Eligible(Paying(stakes), folded)
  IN [j \in Seat |-> IF left # {} THEN left ELSE fallback[j]]

\* The chips of the top layer are contested by those still in of the seats that paid it.
LEMMA TopClaimants ==
  ASSUME NEW stakes \in Stakes, Paying(stakes) # {}, NEW folded, NEW fallback,
         NEW j \in Seat, NEW h \in 1 .. Level(stakes)
  PROVE  Claimants(stakes, folded, fallback, j, h) = Below(stakes, folded, fallback)[j]
<1> DEFINE low == Level(stakes)
           left == Eligible(Paying(stakes), folded)
<1>1. /\ low \in Nat /\ Rest(stakes) \in Stakes
      /\ \A i \in Seat : stakes[i] = (IF i \in Paying(stakes) THEN low ELSE 0) + Rest(stakes)[i]
  BY PeelingShrinks
<1>2. \A i \in Seat : stakes[i] \in Nat /\ Rest(stakes)[i] \in Nat /\ (i \in Paying(stakes) <=> stakes[i] > 0)
  BY <1>1 DEF Stakes, Paying
<1> HIDE DEF low
<1>3. \A k \in 1 .. h : Reached(stakes, folded, k) = left
  <2> TAKE k \in 1 .. h
  <2>1. k \in 1 .. low
    BY <1>1 DEF low
  <2>2. \A i \in Seat : stakes[i] >= k <=> i \in Paying(stakes)
    <3> TAKE i \in Seat
    <3>1. CASE i \in Paying(stakes)
      <4>1. stakes[i] = low + Rest(stakes)[i]
        BY <1>1, <3>1
      <4> QED BY <1>1, <1>2, <2>1, <3>1, <4>1
    <3>2. CASE i \notin Paying(stakes)
      BY <1>2, <2>1, <3>2
    <3> QED BY <3>1, <3>2
  <2> QED BY <2>2 DEF Reached, Eligible, Paying
<1>4. h \in Nat /\ h \in 1 .. h /\ \A m \in 1 .. h : m <= h
  BY <1>1 DEF low
<1> HIDE DEF left
<1>5. CASE left = {}
  <2>1. Claimants(stakes, folded, fallback, j, h) = fallback[j]
    BY <1>3, <1>4, <1>5, ClaimedByNone
  <2> QED BY <1>5, <2>1 DEF Below, left
<1>6. CASE left # {}
  <2>1. Claimants(stakes, folded, fallback, j, h) = Reached(stakes, folded, h)
    BY <1>3, <1>4, <1>6, ClaimedAt
  <2> QED BY <1>3, <1>4, <1>6, <2>1 DEF Below, left
<1> QED
  BY <1>5, <1>6

\* The chips below it are contested as the chips of what is left are.
LEMMA RestClaimants ==
  ASSUME NEW stakes \in Stakes, Paying(stakes) # {}, NEW folded, NEW fallback,
         NEW j \in Seat, NEW h \in Nat \ {0}
  PROVE  Claimants(stakes, folded, fallback, j, Level(stakes) + h) =
           Claimants(Rest(stakes), folded, Below(stakes, folded, fallback), j, h)
<1> DEFINE low == Level(stakes)
           rest == Rest(stakes)
           left == Eligible(Paying(stakes), folded)
           below == Below(stakes, folded, fallback)
           Old(k) == Reached(stakes, folded, k)
           New(k) == Reached(rest, folded, k)
<1>1. /\ low \in Nat \ {0} /\ rest \in Stakes
      /\ \A i \in Seat : stakes[i] = (IF i \in Paying(stakes) THEN low ELSE 0) + rest[i]
  BY PeelingShrinks, LevelPositive
<1>2. \A i \in Seat : /\ stakes[i] \in Nat /\ rest[i] \in Nat /\ (i \in Paying(stakes) <=> stakes[i] > 0)
  BY <1>1 DEF Stakes, Paying
<1>3. h \in Nat /\ h > 0
  OBVIOUS
<1> HIDE DEF low, rest, left, below
<1>4. \A k \in 1 .. low : Old(k) = left
  <2> TAKE k \in 1 .. low
  <2>1. \A i \in Seat : stakes[i] >= k <=> i \in Paying(stakes)
    <3> TAKE i \in Seat
    <3>1. CASE i \in Paying(stakes)
      <4>1. stakes[i] = low + rest[i]
        BY <1>1, <3>1
      <4> QED BY <1>1, <1>2, <3>1, <4>1
    <3>2. CASE i \notin Paying(stakes)
      BY <1>1, <1>2, <3>2
    <3> QED BY <3>1, <3>2
  <2> QED BY <2>1 DEF Reached, Eligible, Paying, left
<1>5. ASSUME NEW k \in Nat \ {0} PROVE Old(low + k) = New(k)
  <2>1. \A i \in Seat : stakes[i] >= low + k <=> rest[i] >= k
    <3> TAKE i \in Seat
    <3>1. CASE i \in Paying(stakes)
      <4>1. stakes[i] = low + rest[i]
        BY <1>1, <3>1
      <4> QED BY <1>1, <1>2, <4>1
    <3>2. CASE i \notin Paying(stakes)
      <4>1. stakes[i] = 0 /\ rest[i] = 0
        BY <1>1, <1>2, <3>2
      <4> QED BY <1>1, <4>1
    <3> QED BY <3>1, <3>2
  <2> QED BY <2>1 DEF Reached
<1>6. below[j] = IF left # {} THEN left ELSE fallback[j]
  BY DEF Below, below, left
<1>7. low + h \in Nat /\ \A m \in 1 .. low + h : m \in 1 .. low \/ (m > low /\ m - low \in 1 .. h /\ m = low + (m - low))
  BY <1>1, <1>3
<1> HIDE DEF Old, New
<1>8. CASE \A m \in 1 .. h : New(m) = {}
  <2>1. Claimants(rest, folded, below, j, h) = below[j]
    BY <1>3, <1>8, ClaimedByNone DEF New
  <2>2. \A m \in 1 .. low + h : m > low => Old(m) = {}
    <3> TAKE m \in 1 .. low + h
    <3> HAVE m > low
    <3>1. m - low \in 1 .. h /\ m - low \in Nat \ {0} /\ m = low + (m - low)
      BY <1>1, <1>3
    <3>2. Old(low + (m - low)) = New(m - low)
      BY <1>5, <3>1
    <3> QED BY <1>8, <3>1, <3>2
  <2>3. CASE left = {}
    <3>1. \A m \in 1 .. low + h : Old(m) = {}
      BY <1>4, <1>7, <2>2, <2>3
    <3>2. Claimants(stakes, folded, fallback, j, low + h) = fallback[j]
      BY <1>7, <3>1, ClaimedByNone DEF Old
    <3> QED BY <1>6, <2>1, <2>3, <3>2 DEF low, rest, below
  <2>4. CASE left # {}
    <3>1. low \in 1 .. low + h /\ low \in 1 .. low
      BY <1>1, <1>3
    <3>2. Old(low) = left /\ \A m \in 1 .. low + h : Old(m) # {} => m <= low
      BY <1>1, <1>4, <2>2, <3>1
    <3>3. Claimants(stakes, folded, fallback, j, low + h) = Old(low)
      BY <1>7, <2>4, <3>1, <3>2, ClaimedAt DEF Old
    <3> QED BY <1>6, <2>1, <2>4, <3>2, <3>3 DEF low, rest, below
  <2> QED BY <2>3, <2>4
<1>9. CASE ~(\A m \in 1 .. h : New(m) = {})
  <2>1. PICK k \in 1 .. h : New(k) # {} /\ \A m \in 1 .. h : New(m) # {} => m <= k
    BY <1>3, <1>9, HighestLevel DEF New
  <2>2. Claimants(rest, folded, below, j, h) = New(k)
    BY <1>3, <2>1, ClaimedAt DEF New
  <2>3. k \in Nat \ {0} /\ low + k \in 1 .. low + h /\ Old(low + k) = New(k)
    BY <1>1, <1>3, <1>5
  <2>4. ASSUME NEW m \in 1 .. low + h, Old(m) # {} PROVE m <= low + k
    <3>1. CASE m \in 1 .. low
      BY <1>1, <2>3, <3>1
    <3>2. CASE m > low
      <4>1. m - low \in 1 .. h /\ m - low \in Nat \ {0} /\ m = low + (m - low)
        BY <1>1, <1>3, <3>2
      <4>2. New(m - low) # {}
        BY <1>5, <2>4, <4>1
      <4>3. m - low <= k
        BY <2>1, <4>1, <4>2
      <4> QED BY <1>1, <2>3, <4>1, <4>3
    <3> QED BY <1>7, <3>1, <3>2
  <2>5. Claimants(stakes, folded, fallback, j, low + h) = Old(low + k)
    BY <1>7, <2>1, <2>3, <2>4, ClaimedAt DEF Old
  <2> QED BY <2>2, <2>3, <2>5 DEF low, rest, below
<1> QED
  BY <1>8, <1>9

-----------------------------------------------------------------------------
(* The chips of the top layer, and those below it *)

\* The chips of a layer, and those below it shifted up by its level.
Slab(stakes, folded, fallback, G) ==
  {j \in Paying(stakes) : Below(stakes, folded, fallback)[j] \in G} \X (1 .. Level(stakes))
Lifted(S, low) == {<<c[1], c[2] + low>> : c \in S}

\* The chips certain seats contest are those of the top layer and those of the rest.
LEMMA GroupSplits ==
  ASSUME NEW stakes \in Stakes, Paying(stakes) # {}, NEW folded, NEW fallback, NEW G
  PROVE  /\ Group(stakes, folded, fallback, G) =
              Slab(stakes, folded, fallback, G)
                \union Lifted(Group(Rest(stakes), folded, Below(stakes, folded, fallback), G),
                              Level(stakes))
         /\ \A c \in Slab(stakes, folded, fallback, G) : c[2] <= Level(stakes)
<1> DEFINE low == Level(stakes)
           rest == Rest(stakes)
           below == Below(stakes, folded, fallback)
           A == Paying(stakes)
           Old(j, h) == Claimants(stakes, folded, fallback, j, h)
           New(j, h) == Claimants(rest, folded, below, j, h)
           slab == Slab(stakes, folded, fallback, G)
           rests == Group(rest, folded, below, G)
<1>1. /\ low \in Nat \ {0} /\ rest \in Stakes /\ A \in SUBSET Seat
      /\ \A i \in Seat : stakes[i] = (IF i \in A THEN low ELSE 0) + rest[i]
  <2>1. /\ Level(stakes) \in Nat /\ Level(stakes) > 0 /\ Rest(stakes) \in Stakes
        /\ \A i \in Seat :
             stakes[i] = (IF i \in Paying(stakes) THEN Level(stakes) ELSE 0) + Rest(stakes)[i]
    BY PeelingShrinks, LevelPositive
  <2>2. A \in SUBSET Seat
    BY DEF Paying
  <2> QED BY <2>1, <2>2
<1>2. \A i \in Seat : /\ stakes[i] \in Nat /\ rest[i] \in Nat /\ (i \in A <=> stakes[i] > 0)
  BY <1>1 DEF Stakes, Paying
<1>3. \A j \in Seat, h \in 1 .. low : Old(j, h) = below[j]
  BY TopClaimants
<1>4. \A j \in Seat, h \in Nat \ {0} : Old(j, low + h) = New(j, h)
  BY RestClaimants
<1>5. slab = {j \in A : below[j] \in G} \X (1 .. low)
  BY DEF Slab
<1>6. rests = {c \in Seat \X (Nat \ {0}) : c[2] <= rest[c[1]] /\ New(c[1], c[2]) \in G}
  BY DEF Group, ChipsIn
<1>7. Group(stakes, folded, fallback, G) =
        {c \in Seat \X (Nat \ {0}) : c[2] <= stakes[c[1]] /\ Old(c[1], c[2]) \in G}
  BY DEF Group, ChipsIn
<1> HIDE DEF low, rest, below, A, Old, New, slab, rests
<1>8. ASSUME NEW j \in Seat, NEW h \in Nat \ {0}
      PROVE  <<j, h>> \in Group(stakes, folded, fallback, G) <=>
               <<j, h>> \in slab \union Lifted(rests, low)
  <2>1. <<j, h>> \in Group(stakes, folded, fallback, G) <=> h <= stakes[j] /\ Old(j, h) \in G
    BY <1>7
  <2>2. CASE h <= low
    <3>1. h \in 1 .. low /\ Old(j, h) = below[j]
      BY <1>1, <1>3, <2>2
    <3>2. h <= stakes[j] <=> j \in A
      <4>1. CASE j \in A
        <5>1. stakes[j] = low + rest[j]
          BY <1>1, <4>1
        <5> QED BY <1>1, <1>2, <2>2, <4>1, <5>1
      <4>2. CASE j \notin A
        BY <1>2, <4>2
      <4> QED BY <4>1, <4>2
    <3>3. <<j, h>> \in slab <=> j \in A /\ below[j] \in G
      BY <1>5, <3>1
    <3>4. <<j, h>> \notin Lifted(rests, low)
      <4>1. \A c \in rests : c[2] \in Nat \ {0}
        BY <1>6
      <4> QED BY <1>1, <2>2, <4>1 DEF Lifted
    <3> QED BY <2>1, <3>1, <3>2, <3>3, <3>4
  <2>3. CASE h > low
    <3> DEFINE g == h - low
    <3>1. g \in Nat \ {0} /\ h = low + g /\ h = g + low
      BY <1>1, <2>3
    <3> HIDE DEF g
    <3>2. Old(j, h) = New(j, g)
      BY <1>4, <3>1
    <3>3. h <= stakes[j] <=> g <= rest[j]
      <4>1. CASE j \in A
        <5>1. stakes[j] = low + rest[j]
          BY <1>1, <4>1
        <5> QED BY <1>1, <1>2, <3>1, <5>1
      <4>2. CASE j \notin A
        <5>1. stakes[j] = 0 /\ rest[j] = 0
          BY <1>1, <1>2, <4>2
        <5> QED BY <1>1, <3>1, <5>1
      <4> QED BY <4>1, <4>2
    <3>4. <<j, h>> \notin slab
      BY <1>1, <1>5, <2>3
    <3>5. <<j, h>> \in Lifted(rests, low) <=> <<j, g>> \in rests
      <4>1. ASSUME <<j, g>> \in rests PROVE <<j, h>> \in Lifted(rests, low)
        BY <3>1, <4>1 DEF Lifted
      <4>2. ASSUME <<j, h>> \in Lifted(rests, low) PROVE <<j, g>> \in rests
        <5>1. PICK c \in rests : <<j, h>> = <<c[1], c[2] + low>>
          BY <4>2 DEF Lifted
        <5>2. c \in Seat \X (Nat \ {0}) /\ c = <<c[1], c[2]>>
          BY <1>6
        <5>3. c[1] = j /\ c[2] = g
          BY <1>1, <3>1, <5>1, <5>2
        <5> QED BY <5>2, <5>3
      <4> QED BY <4>1, <4>2
    <3>6. <<j, g>> \in rests <=> g <= rest[j] /\ New(j, g) \in G
      BY <1>6, <3>1
    <3> QED BY <2>1, <3>2, <3>3, <3>4, <3>5, <3>6
  <2> QED BY <1>1, <2>2, <2>3
<1>9. slab \union Lifted(rests, low) \subseteq Seat \X (Nat \ {0})
  <2>1. slab \subseteq Seat \X (Nat \ {0})
    BY <1>1, <1>5
  <2>2. \A c \in rests : c[1] \in Seat /\ c[2] \in Nat \ {0} /\ c[2] + low \in Nat \ {0}
    BY <1>1, <1>6
  <2> QED BY <2>1, <2>2 DEF Lifted
<1>10. Group(stakes, folded, fallback, G) \subseteq Seat \X (Nat \ {0})
  BY <1>7
<1>11. Group(stakes, folded, fallback, G) = slab \union Lifted(rests, low)
  <2> DEFINE X == Group(stakes, folded, fallback, G)
             Y == slab \union Lifted(rests, low)
  <2>1. \A j \in Seat, h \in Nat \ {0} : <<j, h>> \in X <=> <<j, h>> \in Y
    BY <1>8
  <2> HIDE DEF X, Y
  <2>2. X \subseteq Seat \X (Nat \ {0}) /\ Y \subseteq Seat \X (Nat \ {0})
    BY <1>9, <1>10 DEF X, Y
  <2>3. X = Y
    BY <2>1, <2>2
  <2> QED BY <2>3 DEF X, Y
<1> QED
  BY <1>1, <1>5, <1>11 DEF slab, rests, low, rest, below

\* There are as many of them.
LEMMA LiftedCount ==
  ASSUME NEW S, S \subseteq Seat \X Nat, IsFiniteSet(S), NEW low \in Nat
  PROVE  IsFiniteSet(Lifted(S, low)) /\ Cardinality(Lifted(S, low)) = Cardinality(S)
<1> DEFINE f == [c \in S |-> <<c[1], c[2] + low>>]
           T == Lifted(S, low)
<1>1. f \in [S -> T]
  BY DEF Lifted
<1>2. ASSUME NEW a \in S, NEW b \in S, f[a] = f[b] PROVE a = b
  <2>1. a = <<a[1], a[2]>> /\ b = <<b[1], b[2]>> /\ a[2] \in Nat /\ b[2] \in Nat
    OBVIOUS
  <2>2. a[1] = b[1] /\ a[2] + low = b[2] + low
    BY <1>2
  <2>3. a[2] = b[2]
    BY <2>1, <2>2
  <2> QED BY <2>1, <2>2, <2>3
<1>3. \A t \in T : \E c \in S : f[c] = t
  BY DEF Lifted
<1> HIDE DEF f, T
<1>4. f \in Bijection(S, T)
  <2>1. f \in Injection(S, T)
    BY <1>1, <1>2 DEF Injection, IsInjective
  <2>2. f \in Surjection(S, T)
    BY <1>1, <1>3 DEF Surjection
  <2> QED BY <2>1, <2>2 DEF Bijection
<1>5. ExistsBijection(S, T)
  BY <1>4 DEF ExistsBijection
<1> QED
  BY <1>5, FS_Bijection DEF T

\* So many chips contested by a set of G are there as the top layer holds for them and the
\* rest below it has.
LEMMA GroupCount ==
  ASSUME NEW stakes \in Stakes, Paying(stakes) # {}, NEW folded, NEW fallback, NEW G,
         IsFiniteSet(Group(Rest(stakes), folded, Below(stakes, folded, fallback), G))
  PROVE  /\ IsFiniteSet(Group(stakes, folded, fallback, G))
         /\ Cardinality(Group(stakes, folded, fallback, G)) =
              (Level(stakes) * Cardinality({j \in Paying(stakes) :
                                              Below(stakes, folded, fallback)[j] \in G}))
                + Cardinality(Group(Rest(stakes), folded, Below(stakes, folded, fallback), G))
<1> DEFINE low == Level(stakes)
           rests == Group(Rest(stakes), folded, Below(stakes, folded, fallback), G)
           B == {j \in Paying(stakes) : Below(stakes, folded, fallback)[j] \in G}
           slab == B \X (1 .. low)
           lift == Lifted(rests, low)
<1>1. low \in Nat /\ B \in SUBSET Seat
  BY PeelingShrinks DEF Paying
<1>2. rests \subseteq Seat \X (Nat \ {0}) /\ IsFiniteSet(rests)
  BY DEF Group, ChipsIn
<1>3. Group(stakes, folded, fallback, G) = slab \union lift /\ \A c \in slab : c[2] <= low
  BY GroupSplits DEF Slab
<1> HIDE DEF low, rests, B
<1>4. IsFiniteSet(B) /\ Cardinality(B) \in Nat
  BY <1>1, SeatsFinite, FS_Subset, FS_CardinalityType
<1>5. IsFiniteSet(1 .. low) /\ Cardinality(1 .. low) = low
  BY <1>1, FS_Interval
<1>6. IsFiniteSet(slab) /\ Cardinality(slab) = Cardinality(B) * low
  BY <1>4, <1>5, FS_Product
<1>7. IsFiniteSet(lift) /\ Cardinality(lift) = Cardinality(rests)
  BY <1>1, <1>2, LiftedCount
<1>8. slab \cap lift = {}
  <2>1. \A c \in rests : c[2] \in Nat \ {0}
    BY <1>2
  <2> QED BY <1>1, <1>3, <2>1 DEF Lifted
<1> HIDE DEF slab, lift
<1>9. IsFiniteSet(slab \union lift) /\ Cardinality(slab \union lift) = Cardinality(slab) + Cardinality(lift) - 0
  BY <1>6, <1>7, <1>8, FS_Union, FS_EmptySet
<1>10. Cardinality(rests) \in Nat /\ Cardinality(B) * low \in Nat /\ Cardinality(B) * low = low * Cardinality(B)
  BY <1>1, <1>2, <1>4, FS_CardinalityType
<1> QED
  BY <1>3, <1>6, <1>7, <1>9, <1>10 DEF low, rests, B

-----------------------------------------------------------------------------
(* The chips every pot holds *)

\* Who gets a chip nobody contests at its level or below: those of the last pot, or, with
\* no pot yet, the seat that put it in.
Fallback(pots) == [j \in Seat |-> IF pots # <<>> THEN Last(pots).eligible ELSE {j}]

\* What the top layer adds for the contestants of G are the chips of it they contest, and
\* it leaves the chips below to those it should.
LEMMA AbsorbTop ==
  ASSUME NEW F \in Families, NEW acc \in Accounts(F), NEW folded, NEW G,
         NEW stakes \in Stakes, Paying(stakes) # {}, TopLayer(stakes, folded) \in LayerOf(F)
  PROVE  LET layer == TopLayer(stakes, folded)
             below == Below(stakes, folded, Fallback(acc.pots))
         IN /\ Gain(G, acc, layer) =
                 Level(stakes) * Cardinality({j \in Paying(stakes) : below[j] \in G})
            /\ Fallback(Absorb(acc, layer).pots) = below
<1> DEFINE layer == TopLayer(stakes, folded)
           A == Paying(stakes)
           low == Level(stakes)
           left == Eligible(A, folded)
           pots == acc.pots
           below == Below(stakes, folded, Fallback(pots))
           some == {j \in A : below[j] \in G}
           after == Absorb(acc, layer).pots
<1>1. /\ low \in Nat /\ A \in SUBSET Seat /\ layer.eligible = left
      /\ layer.contributors = A /\ layer.amount = low * Cardinality(A)
  BY PeelingShrinks DEF Paying, TopLayer
<1>2. pots \in PotsOf(F) /\ Cardinality({}) = 0 /\ low * 0 = 0
  BY <1>1, FS_EmptySet DEF Accounts
<1>3. \A j \in Seat : below[j] = IF left # {} THEN left ELSE IF pots # <<>> THEN Last(pots).eligible ELSE {j}
  BY DEF Below, Fallback
<1>4. below = [j \in Seat |-> below[j]]
  BY DEF Below
<1> HIDE DEF below, left, low, A, layer
<1>5. CASE left # {}
  <2>1. Gain(G, acc, layer) = IF left \in G THEN low * Cardinality(A) ELSE 0
    BY <1>1, <1>5 DEF Gain
  <2>2. some = IF left \in G THEN A ELSE {}
    BY <1>1, <1>3, <1>5
  <2>3. after = Append(pots, Pot(layer.amount, left))
    BY <1>1, <1>5 DEF Absorb, Accounts
  <2>4. after # <<>> /\ Last(after).eligible = left
    BY <1>2, <2>3 DEF Last, Pot, PotsOf
  <2>5. Fallback(after) = below
    BY <1>3, <1>4, <1>5, <2>4 DEF Fallback
  <2> QED BY <1>2, <2>1, <2>2, <2>5 DEF layer, low, A, below
<1>6. CASE left = {} /\ pots # <<>>
  <2>1. Gain(G, acc, layer) = IF Last(pots).eligible \in G THEN low * Cardinality(A) ELSE 0
    BY <1>1, <1>6 DEF Gain
  <2>2. some = IF Last(pots).eligible \in G THEN A ELSE {}
    BY <1>1, <1>3, <1>6
  <2>3. after = AddToLast(pots, layer.amount)
    BY <1>1, <1>6 DEF Absorb, Accounts
  <2>4. after # <<>> /\ Last(after).eligible = Last(pots).eligible
    <3> DEFINE l == Len(pots)
               T == PotOf(F)
    <3>1. pots \in Seq(T) /\ l \in 1 .. Len(pots) /\ l = Len(pots) /\ pots[l] \in T
      BY <1>2, <1>6 DEF PotsOf
    <3>2. [pots[l] EXCEPT !.amount = @ + layer.amount].eligible = pots[l].eligible
      BY <3>1 DEF PotOf
    <3>3. after = [pots EXCEPT ![l] = [pots[l] EXCEPT !.amount = @ + layer.amount]]
      BY <2>3 DEF AddToLast
    <3> HIDE DEF l, T, after
    <3>4. Len(after) = l /\ after[l] = [pots[l] EXCEPT !.amount = @ + layer.amount]
      BY <3>1, <3>3
    <3>5. after # <<>>
      BY <3>1, <3>4
    <3> QED BY <3>1, <3>2, <3>4, <3>5 DEF Last
  <2>5. Fallback(after) = below
    BY <1>3, <1>4, <1>6, <2>4 DEF Fallback
  <2> QED BY <1>2, <2>1, <2>2, <2>5 DEF layer, low, A, below
<1>7. CASE left = {} /\ pots = <<>>
  <2>1. Gain(G, acc, layer) = Held(G, Refunds(layer))
    BY <1>1, <1>7 DEF Gain
  <2>2. Held(G, Refunds(layer)) = low * Cardinality({j \in A : {j} \in G})
    <3>1. /\ layer \in LayerOf(F) /\ layer.eligible = {} /\ low \in Nat
          /\ layer.amount = low * Cardinality(layer.contributors)
      BY <1>1, <1>7 DEF layer
    <3>2. Held(G, Refunds(layer)) = low * Cardinality({j \in layer.contributors : {j} \in G})
      BY <3>1, RefundsHeld
    <3> QED BY <1>1, <3>2
  <2>3. some = {j \in A : {j} \in G}
    BY <1>1, <1>3, <1>7
  <2>4. after = pots
    BY <1>1, <1>7 DEF Absorb, Accounts
  <2>5. Fallback(after) = below
    BY <1>3, <1>4, <1>7, <2>4 DEF Fallback
  <2> QED BY <2>1, <2>2, <2>3, <2>5 DEF layer, low, A, below
<1> QED
  BY <1>5, <1>6, <1>7

\* Absorbing the layers of the stakes adds, for the contestants of G, the chips they contest.
LEMMA AbsorbCounts ==
  ASSUME NEW folded, NEW G, NEW stakes \in Stakes
  PROVE  \A acc \in Accounts(Contested(folded)) :
           LET chips == Group(stakes, folded, Fallback(acc.pots), G)
           IN /\ IsFiniteSet(chips)
              /\ HeldAll(G, FoldLeft(Absorb, acc, Layers(stakes, folded))) =
                   HeldAll(G, acc) + Cardinality(chips)
<1> DEFINE F == Contested(folded)
           V == Accounts(F)
           Chips1(c, acc) == Group(c, folded, Fallback(acc.pots), G)
           Absorbed(acc, c) == FoldLeft(Absorb, acc, Layers(c, folded))
           P == {c \in Stakes : \A acc \in V :
                   /\ IsFiniteSet(Chips1(c, acc))
                   /\ HeldAll(G, Absorbed(acc, c)) = HeldAll(G, acc) + Cardinality(Chips1(c, acc))}
<1>1. PICK peel \in [Stakes -> Peeled] :
           /\ \A c \in Stakes : Layers(c, folded) = peel[c]
           /\ \A c \in Stakes :
                peel[c] = IF Paying(c) = {} THEN <<>>
                          ELSE <<TopLayer(c, folded)>> \o peel[Rest(c)]
  BY LayersPeel
<1>2. F \in Families /\ \A c \in Stakes : Layers(c, folded) \in Seq(LayerOf(F))
  BY ContestedFamily
<1>3. \A acc \in V : HeldAll(G, acc) \in Nat
  <2> TAKE acc \in V
  <2>1. acc.pots \in PotsOf(F) /\ acc.refunds \in PotsOf(F)
    BY DEF Accounts
  <2>2. Held(G, acc.pots) \in Nat /\ Held(G, acc.refunds) \in Nat
    BY <1>2, <2>1, PotsHeld
  <2> QED BY <2>2 DEF HeldAll
<1>4. ASSUME NEW c \in Stakes, Paying(c) = {} PROVE c \in P
  <2>1. Layers(c, folded) = <<>>
    BY <1>1, <1>4
  <2>2. ASSUME NEW acc \in V PROVE Chips1(c, acc) = {}
    <3>1. \A i \in Seat : c[i] \in Nat /\ ~(c[i] > 0)
      BY <1>4 DEF Stakes, Paying
    <3> QED BY <3>1 DEF Group, ChipsIn
  <2>3. ASSUME NEW acc \in V PROVE Absorbed(acc, c) = acc
    <3> HIDE DEF F
    <3> QED BY <1>2, <2>1, AbsorbNone
  <2> HIDE DEF Absorbed, Chips1, V
  <2>4. ASSUME NEW acc \in V
        PROVE  /\ IsFiniteSet(Chips1(c, acc))
               /\ HeldAll(G, Absorbed(acc, c)) = HeldAll(G, acc) + Cardinality(Chips1(c, acc))
    BY <1>3, <2>2, <2>3, FS_EmptySet
  <2> QED BY <2>4
<1>5. ASSUME NEW c \in Stakes, Paying(c) # {}, Rest(c) \in P PROVE c \in P
  <2> DEFINE top == TopLayer(c, folded)
             below == Rest(c)
  <2>1. below \in Stakes
    BY <1>5, PeelingShrinks
  <2>2. Layers(c, folded) = <<top>> \o Layers(below, folded)
    BY <1>1, <1>5, <2>1
  <2>3. top \in LayerOf(F)
    <3>1. <<top>> \o Layers(below, folded) \in Seq(LayerOf(F))
      BY <1>2, <2>2
    <3>2. Layers(below, folded) \in Seq(LayerOf(F))
      BY <1>2, <2>1
    <3> DEFINE s == <<top>> \o Layers(below, folded)
    <3>3. s[1] = top /\ Len(s) >= 1
      <4> HIDE DEF top
      <4> QED BY <3>2
    <3>4. s[1] \in LayerOf(F)
      <4> HIDE DEF F
      <4>1. s \in Seq(LayerOf(F)) /\ Len(s) >= 1
        BY <3>1, <3>3
      <4> HIDE DEF s
      <4> QED BY <4>1
    <3> QED BY <3>3, <3>4
  <2>4. ASSUME NEW acc \in V
        PROVE  /\ IsFiniteSet(Chips1(c, acc))
               /\ HeldAll(G, Absorbed(acc, c)) = HeldAll(G, acc) + Cardinality(Chips1(c, acc))
    <3> DEFINE then == Absorb(acc, top)
               here == Level(c) * Cardinality({j \in Paying(c) : Below(c, folded, Fallback(acc.pots))[j] \in G})
    <3>1. then \in V /\ HeldAll(G, then) = HeldAll(G, acc) + Gain(G, acc, top)
      BY <1>2, <2>3, AbsorbKeeps
    <3>2. Gain(G, acc, top) = here /\ Fallback(then.pots) = Below(c, folded, Fallback(acc.pots))
      <4>1. F \in Families /\ acc \in Accounts(F) /\ Paying(c) # {} /\ TopLayer(c, folded) \in LayerOf(F)
        BY <1>2, <1>5, <2>3
      <4> HIDE DEF F
      <4> QED BY <4>1, AbsorbTop
    <3>3. Absorbed(acc, c) = Absorbed(then, below)
      <4>1. Layers(below, folded) \in Seq(LayerOf(F))
        BY <1>2, <2>1
      <4> HIDE DEF F, top
      <4> QED BY <1>2, <2>2, <2>3, <4>1, AbsorbOneFirst
    <3>4. /\ IsFiniteSet(Chips1(below, then))
          /\ HeldAll(G, Absorbed(then, below)) = HeldAll(G, then) + Cardinality(Chips1(below, then))
      BY <1>5, <3>1
    <3>5. Chips1(below, then) = Group(below, folded, Below(c, folded, Fallback(acc.pots)), G)
      BY <3>2
    <3>6. /\ IsFiniteSet(Chips1(c, acc))
          /\ Cardinality(Chips1(c, acc)) = here + Cardinality(Chips1(below, then))
      <4>1. IsFiniteSet(Group(Rest(c), folded, Below(c, folded, Fallback(acc.pots)), G))
        BY <3>4, <3>5
      <4>2. Chips1(below, then) = Group(Rest(c), folded, Below(c, folded, Fallback(acc.pots)), G)
        BY <3>5
      <4>3. Chips1(c, acc) = Group(c, folded, Fallback(acc.pots), G)
        OBVIOUS
      <4> DEFINE old == Fallback(acc.pots)
      <4>4. /\ IsFiniteSet(Group(c, folded, old, G))
            /\ Cardinality(Group(c, folded, old, G)) =
                 (Level(c) * Cardinality({j \in Paying(c) : Below(c, folded, old)[j] \in G}))
                   + Cardinality(Group(Rest(c), folded, Below(c, folded, old), G))
        <5>1. IsFiniteSet(Group(Rest(c), folded, Below(c, folded, old), G))
          BY <4>1
        <5> HIDE DEF old
        <5> QED BY <1>5, <5>1, GroupCount
      <4> HIDE DEF Chips1, then
      <4> QED BY <4>2, <4>3, <4>4
    <3>7. Gain(G, acc, top) \in Nat /\ HeldAll(G, acc) \in Nat /\ Cardinality(Chips1(below, then)) \in Nat
      <4>1. Gain(G, acc, top) \in Nat
        BY <1>2, <2>3, AbsorbKeeps
      <4>2. Cardinality(Chips1(below, then)) \in Nat
        BY <3>4, FS_CardinalityType
      <4> QED BY <1>3, <4>1, <4>2
    <3> HIDE DEF Absorbed, Chips1, V, then, here, top, below
    <3> QED BY <3>1, <3>2, <3>3, <3>4, <3>6, <3>7
  <2> HIDE DEF Absorbed, Chips1, V
  <2> QED BY <2>4
<1>6. P = Stakes
  <2>1. P \in SUBSET Stakes
    OBVIOUS
  <2> HIDE DEF P
  <2> QED BY <1>4, <1>5, <2>1, PeelByPeel
<1> QED
  BY <1>6

\* The pots contested by a set of G hold the chips such a set contests: everyone is
\* in for the chips of the levels he paid, those nobody left paid go to the last level
\* below somebody did, and to the seat they came from when there is none.
THEOREM PotsHoldTheirChips ==
  ASSUME NEW folded, NEW G, NEW stakes \in Stakes
  PROVE  /\ ComputePots(stakes, folded) \in PotsOf(Contested(folded))
         /\ Contested(folded) \in Families
         /\ Held(G, ComputePots(stakes, folded)) =
              Cardinality(Group(stakes, folded, [j \in Seat |-> {j}], G))
<1> DEFINE F == Contested(folded)
           done == FoldLeft(Absorb, NoPots, Layers(stakes, folded))
           chips == Group(stakes, folded, [j \in Seat |-> {j}], G)
<1>1. F \in Families /\ Layers(stakes, folded) \in Seq(LayerOf(F))
  BY ContestedFamily
<1>2. NoPots \in Accounts(F)
  BY <1>1, PotsOfFacts DEF NoPots, Accounts
<1>3. Fallback(NoPots.pots) = [j \in Seat |-> {j}]
  BY DEF Fallback, NoPots
<1>4. IsFiniteSet(chips) /\ HeldAll(G, done) = HeldAll(G, NoPots) + Cardinality(chips)
  BY <1>2, <1>3, AbsorbCounts
<1>5. HeldAll(G, NoPots) = 0 /\ Cardinality(chips) \in Nat
  BY <1>4, HeldOfNone, FS_CardinalityType DEF NoPots, HeldAll
<1>6. /\ ComputePots(stakes, folded) \in PotsOf(F)
      /\ Held(G, ComputePots(stakes, folded)) = HeldAll(G, done)
  <2> HIDE DEF F
  <2> QED BY <1>1, ComputePotsHold
<1> QED
  BY <1>1, <1>4, <1>5, <1>6
=============================================================================
