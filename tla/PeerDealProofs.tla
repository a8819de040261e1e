---------------------------- MODULE PeerDealProofs ----------------------------
(***************************************************************************)
(* Theorems about PeerDeal, for every table size, deck, shuffle and order  *)
(* of the payloads: what is read of a payload is what was written or       *)
(* nothing, the replicas stay in step, and together they are the deal of   *)
(* one process.                                                            *)
(***************************************************************************)
EXTENDS PeerDeal, Lemmas, SequenceTheorems

-----------------------------------------------------------------------------
(* Framing: where the fields of a payload end *)

Words == Seq(Nat)

\* ends[i] is where the i-th of some fields ends, behind a header of h words.
EndsOf(ends, h, fs) ==
  /\ ends \in [0 .. Len(fs) -> Nat]
  /\ ends[0] = h
  /\ \A i \in 1 .. Len(fs) : ends[i] = ends[i - 1] + 1 + Len(fs[i])

\* The i-th field is in the buffer, behind its length.
Holds(buf, at, f) ==
  /\ buf[at + 1] = Len(f)
  /\ \A j \in 1 .. Len(f) : buf[at + 1 + j] = f[j]

\* The buffer is a header and the first n of the fields.
Laid(buf, h, fs, n, ends) ==
  /\ buf \in Words
  /\ Len(buf) = ends[n]
  /\ \A i \in 0 .. n : h <= ends[i] /\ ends[i] <= Len(buf)
  /\ \A i \in 1 .. n : Holds(buf, ends[i - 1], fs[i])

\* The ends are a matter of adding up.
LEMMA EndsExist ==
  ASSUME NEW h \in Nat, NEW fs \in Seq(Words)
  PROVE  \E ends : EndsOf(ends, h, fs)
<1> DEFINE n == Len(fs)
           size(k) == Len(fs[k])
           step == [x \in (1 .. n) \X Nat |-> x[2] + 1 + size(x[1])]
<1>1. n \in Nat
  BY LenProperties
<1>2. \A k \in 1 .. n : size(k) \in Nat
  BY LenProperties DEF Words
<1> HIDE DEF n, size
<1>3. ASSUME NEW k \in 1 .. n, NEW v \in Nat
      PROVE  step[<<k, v>>] = v + 1 + size(k) /\ step[<<k, v>>] \in Nat
  <2>1. step[<<k, v>>] = v + 1 + size(k)
    OBVIOUS
  <2>2. size(k) \in Nat
    BY <1>2
  <2> HIDE DEF step
  <2> QED BY <2>1, <2>2
<1> HIDE DEF step
<1>4. PICK ends : Run(ends, n, Nat, h, step, ends[n])
  BY <1>1, <1>3, RunExists
<1>5. ends \in [0 .. n -> Nat] /\ ends[0] = h
  BY <1>4 DEF Run
<1>6. ASSUME NEW k \in 1 .. n PROVE ends[k] = ends[k - 1] + 1 + size(k)
  <2>1. k - 1 \in 0 .. n
    BY <1>1
  <2>2. ends[k - 1] \in Nat
    BY <1>5, <2>1
  <2>3. ends[k] = step[<<k, ends[k - 1]>>]
    BY <1>4 DEF Run
  <2> QED BY <1>3, <2>2, <2>3
<1> QED
  BY <1>5, <1>6 DEF EndsOf, n, size

\* Where the fields end, one at a time.
LEMMA EndsType ==
  ASSUME NEW h, NEW fs \in Seq(Words), NEW ends, EndsOf(ends, h, fs)
  PROVE  /\ Len(fs) \in Nat
         /\ \A i \in 0 .. Len(fs) : ends[i] \in Nat
         /\ \A i \in 1 .. Len(fs) :
              /\ fs[i] \in Words /\ Len(fs[i]) \in Nat
              /\ ends[i - 1] \in Nat /\ ends[i] = ends[i - 1] + 1 + Len(fs[i])
<1> DEFINE n == Len(fs)
<1>1. n \in Nat
  BY LenProperties
<1>2. \A i \in 1 .. n : fs[i] \in Words /\ Len(fs[i]) \in Nat
  BY LenProperties DEF Words
<1>3. /\ ends \in [0 .. n -> Nat]
      /\ \A i \in 1 .. n : ends[i] = ends[i - 1] + 1 + Len(fs[i])
  BY DEF EndsOf
<1> HIDE DEF n
<1>4. \A i \in 1 .. n : i - 1 \in 0 .. n
  BY <1>1
<1> QED
  BY <1>1, <1>2, <1>3, <1>4 DEF n

\* A field written.
LEMMA FieldIs ==
  ASSUME NEW f \in Words
  PROVE  /\ Field(f) \in Words /\ Len(Field(f)) = Len(f) + 1
         /\ Field(f)[1] = Len(f)
         /\ \A j \in 1 .. Len(f) : Field(f)[j + 1] = f[j]
<1>1. Len(f) \in Nat /\ <<Len(f)>> \in Seq(Nat) /\ Len(<<Len(f)>>) = 1
  BY LenProperties DEF Words
<1> QED
  BY <1>1, ConcatProperties DEF Field, Words

\* Writing one more field behind the others.
LEMMA LaidOneMore ==
  ASSUME NEW h \in Nat, NEW fs \in Seq(Words), NEW n \in 1 .. Len(fs),
         NEW ends, EndsOf(ends, h, fs), NEW buf, Laid(buf, h, fs, n - 1, ends)
  PROVE  Laid(buf \o Field(fs[n]), h, fs, n, ends)
<1> DEFINE m == Len(fs)
           f == fs[n]
           k == Len(f)
           l == Len(buf)
           tail == Field(f)
           new == buf \o tail
<1>1. m \in Nat /\ n \in 1 .. m /\ n \in Nat /\ n - 1 \in 0 .. m /\ n \in 0 .. m
  BY EndsType
<1>2. f \in Words /\ k \in Nat /\ ends[n - 1] \in Nat /\ ends[n] = ends[n - 1] + 1 + k
  BY EndsType
<1>3. buf \in Seq(Nat) /\ l = ends[n - 1] /\ l \in Nat
  BY <1>2 DEF Laid, Words
<1>4. /\ tail \in Seq(Nat) /\ Len(tail) = k + 1 /\ tail[1] = k
      /\ \A j \in 1 .. k : tail[j + 1] = f[j]
  BY <1>2, FieldIs DEF Words
<1>5. /\ new \in Seq(Nat) /\ Len(new) = l + Len(tail)
      /\ \A i \in 1 .. l + Len(tail) : new[i] = IF i <= l THEN buf[i] ELSE tail[i - l]
  <2>1. buf \in Seq(Nat) /\ tail \in Seq(Nat)
    BY <1>3, <1>4
  <2> HIDE DEF tail
  <2> QED BY <2>1, ConcatProperties
<1> HIDE DEF new, tail, k, l, f
<1>6. /\ \A i \in 1 .. l : new[i] = buf[i]
      /\ new[l + 1] = k
      /\ \A j \in 1 .. k : new[l + 1 + j] = f[j]
  <2> k \in Nat /\ l \in Nat
    BY <1>2, <1>3
  <2>1. \A i \in 1 .. l : i \in 1 .. l + (k + 1) /\ i <= l
    OBVIOUS
  <2>2. l + 1 \in 1 .. l + (k + 1) /\ ~(l + 1 <= l) /\ (l + 1) - l = 1
    OBVIOUS
  <2>3. \A j \in 1 .. k : /\ l + 1 + j \in 1 .. l + (k + 1) /\ ~(l + 1 + j <= l)
                          /\ (l + 1 + j) - l = j + 1
    OBVIOUS
  <2>4. \A i \in 1 .. l + (k + 1) : new[i] = IF i <= l THEN buf[i] ELSE tail[i - l]
    BY <1>4, <1>5
  <2>5. \A i \in 1 .. l : new[i] = buf[i]
    BY <2>1, <2>4
  <2>6. new[l + 1] = k
    BY <1>4, <2>2, <2>4
  <2>7. \A j \in 1 .. k : new[l + 1 + j] = f[j]
    BY <1>4, <2>3, <2>4
  <2> QED BY <2>5, <2>6, <2>7
<1>7. Len(new) = ends[n] /\ ends[n] = l + 1 + k
  BY <1>2, <1>3, <1>4, <1>5
<1>8. ASSUME NEW i \in 0 .. n PROVE h <= ends[i] /\ ends[i] <= Len(new)
  <2>1. \A j \in 0 .. n - 1 : h <= ends[j] /\ ends[j] <= l
    BY DEF Laid, l
  <2>2. h <= l
    BY <1>1, <1>3, <2>1
  <2>3. CASE i = n
    BY <1>2, <1>3, <1>7, <2>2, <2>3
  <2>4. CASE i # n
    <3>1. i \in 0 .. n - 1 /\ i \in 0 .. m
      BY <1>1, <2>4
    <3>2. ends[i] \in Nat /\ h <= ends[i] /\ ends[i] <= l
      BY <2>1, <3>1, EndsType DEF m
    <3>3. l <= l + 1 + k
      BY <1>2, <1>3
    <3>4. ends[i] <= l + 1 + k
      BY ONLY <1>2, <1>3, <3>2, <3>3
    <3> QED BY <1>7, <3>2, <3>4
  <2> QED BY <2>3, <2>4
<1>9. ASSUME NEW i \in 1 .. n PROVE Holds(new, ends[i - 1], fs[i])
  <2>1. CASE i = n
    BY <1>3, <1>6, <2>1 DEF Holds, f, k
  <2>2. CASE i # n
    <3> DEFINE at == ends[i - 1]
               g == fs[i]
               c == Len(g)
    <3>1. i \in 1 .. n - 1 /\ i \in 0 .. n - 1 /\ i \in 1 .. m
      BY <1>1, <2>2
    <3>2. Holds(buf, at, g) /\ ends[i] <= l
      BY <3>1 DEF Laid, l
    <3>3. ends[i] = at + 1 + c /\ c \in Nat /\ at \in Nat
      BY <3>1, EndsType DEF m
    <3> HIDE DEF at, g, c
    <3>4. at + 1 \in 1 .. l /\ \A j \in 1 .. c : at + 1 + j \in 1 .. l
      BY <1>3, <3>2, <3>3
    <3>5. new[at + 1] = buf[at + 1] /\ \A j \in 1 .. c : new[at + 1 + j] = buf[at + 1 + j]
      BY <1>6, <3>4
    <3>6. Holds(new, at, g)
      BY <3>2, <3>5 DEF Holds, c
    <3> QED BY <3>6 DEF at, g
  <2> QED BY <2>1, <2>2
<1>10. new \in Words
  BY <1>5 DEF Words
<1>11. Laid(new, h, fs, n, ends)
  BY <1>7, <1>8, <1>9, <1>10 DEF Laid
<1> QED
  BY <1>11 DEF new, tail, f

\* Concatenation is associative.
LEMMA Regrouped ==
  ASSUME NEW s \in Seq(Nat), NEW t \in Seq(Nat), NEW u \in Seq(Nat)
  PROVE  (s \o t) \o u = s \o (t \o u)
BY SMTT(30)

\* Flattening goes through the sequences in their order.
LEMMA FlattenRuns ==
  ASSUME NEW q \in Seq(Words), q # <<>>
  PROVE  \E acc \in [0 .. Len(q) -> Words] :
           /\ acc[0] = <<>>
           /\ \A k \in 1 .. Len(q) : acc[k] = acc[k - 1] \o q[k]
           /\ acc[Len(q)] = FlattenSeq(q)
<1> DEFINE m == Len(q)
           step == [x \in (1 .. m) \X Words |-> x[2] \o q[x[1]]]
           Recursive(g) == g = [i \in 1 .. m |-> IF i = 1 THEN q[i] ELSE g[i - 1] \o q[i]]
           it == CHOOSE g : Recursive(g)
<1>1. m \in Nat /\ m # 0 /\ \A k \in 1 .. m : q[k] \in Words
  BY EmptySeq, ElementOfSeq
<1>2. FlattenSeq(q) = it[m]
  BY <1>1 DEF FlattenSeq
<1>3. ASSUME NEW k \in 1 .. m, NEW v \in Words
      PROVE  step[<<k, v>>] = v \o q[k] /\ step[<<k, v>>] \in Words
  <2>1. step[<<k, v>>] = v \o q[k]
    OBVIOUS
  <2>2. v \o q[k] \in Words
    BY <1>1, ConcatProperties DEF Words
  <2> QED BY <2>1, <2>2
<1>4. <<>> \in Words
  BY DEF Words
<1> HIDE DEF m, step
<1>5. PICK acc : Run(acc, m, Words, <<>>, step, acc[m])
  BY <1>1, <1>3, <1>4, RunExists
<1>6. acc \in [0 .. m -> Words] /\ acc[0] = <<>>
  BY <1>5 DEF Run
<1>7. ASSUME NEW k \in 1 .. m PROVE k - 1 \in 0 .. m /\ acc[k] = acc[k - 1] \o q[k]
  <2>1. k - 1 \in 0 .. m
    BY <1>1
  <2>2. acc[k - 1] \in Words /\ acc[k] = step[<<k, acc[k - 1]>>]
    BY <1>5, <1>6, <2>1 DEF Run
  <2> QED BY <1>3, <2>1, <2>2
<1>8. acc[1] = q[1]
  <2>1. 1 \in 1 .. m /\ 1 - 1 = 0
    BY <1>1
  <2>2. q[1] \in Words /\ acc[1] = acc[1 - 1] \o q[1]
    BY <1>1, <1>7, <2>1
  <2> QED BY <1>6, <2>1, <2>2, ConcatEmptySeq DEF Words
<1>9. Recursive(it)
  <2> DEFINE g == [i \in 1 .. m |-> acc[i]]
  <2>1. ASSUME NEW i \in 1 .. m
        PROVE  g[i] = IF i = 1 THEN q[i] ELSE g[i - 1] \o q[i]
    <3>1. i # 1 => i - 1 \in 1 .. m
      BY <1>1
    <3> QED BY <1>7, <1>8, <3>1
  <2>2. Recursive(g)
    BY <2>1
  <2> QED BY <2>2
<1>10. \A i \in 1 .. m : it[i] = IF i = 1 THEN q[i] ELSE it[i - 1] \o q[i]
  <2> HIDE DEF it
  <2> QED BY <1>9
<1> HIDE DEF it, Recursive
<1> DEFINE P == {k \in Nat : k \in 1 .. m => it[k] = acc[k]}
<1>11. P = Nat
  <2>1. 0 \in P
    OBVIOUS
  <2>2. ASSUME NEW k \in P PROVE k + 1 \in P
    <3>1. CASE k + 1 \in 1 .. m /\ k = 0
      BY <1>8, <1>10, <3>1
    <3>2. CASE k + 1 \in 1 .. m /\ k # 0
      <4> DEFINE j == k + 1
      <4>1. k \in 1 .. m /\ j - 1 = k /\ j # 1 /\ j \in 1 .. m
        BY <1>1, <3>2
      <4>2. it[k] = acc[k]
        BY <4>1
      <4> HIDE DEF j
      <4>3. it[j] = it[k] \o q[j] /\ acc[j] = acc[k] \o q[j]
        BY <1>7, <1>10, <4>1
      <4>4. it[j] = acc[j]
        BY <4>2, <4>3
      <4> QED BY <4>4 DEF j
    <3> QED BY <3>1, <3>2
  <2>3. P \in SUBSET Nat
    OBVIOUS
  <2> HIDE DEF P
  <2> QED BY <2>1, <2>2, <2>3, CountingUp
<1>12. it[m] = acc[m]
  <2>1. m \in P /\ m \in 1 .. m
    BY <1>1, <1>11
  <2> QED BY <2>1
<1> QED
  BY <1>2, <1>6, <1>7, <1>12 DEF m

\* Fields are written one behind the other.
LEMMA LaidOut ==
  ASSUME NEW head \in Words, NEW gs \in Seq(Words), gs # <<>>,
         NEW fs \in Seq(Words), Len(gs) <= Len(fs), \A i \in 1 .. Len(gs) : fs[i] = gs[i],
         NEW ends, EndsOf(ends, Len(head), fs)
  PROVE  Fields(gs) \in Words /\ Laid(head \o Fields(gs), Len(head), fs, Len(gs), ends)
<1> DEFINE m == Len(gs)
           h == Len(head)
           q == [i \in DOMAIN gs |-> Field(gs[i])]
<1>1. m \in Nat /\ m # 0 /\ DOMAIN gs = 1 .. m /\ \A i \in 1 .. m : gs[i] \in Words
  BY EmptySeq, ElementOfSeq, LenProperties
<1>2. h \in Nat /\ Len(fs) \in Nat
  BY LenProperties DEF Words
<1>3. q \in Seq(Words) /\ Len(q) = m
  <2>1. \A i \in 1 .. m : Field(gs[i]) \in Words
    BY <1>1, FieldIs
  <2>2. q \in [1 .. m -> Words]
    BY <1>1, <2>1
  <2> QED BY <1>1, <2>2
<1>4. \A i \in 1 .. m : q[i] = Field(fs[i])
  BY <1>1
<1>5. q # <<>>
  BY <1>1, <1>3, EmptySeq
<1>6. Fields(gs) = FlattenSeq(q)
  BY DEF Fields
<1> HIDE DEF q
<1>7. PICK acc \in [0 .. m -> Words] :
        /\ acc[0] = <<>>
        /\ \A k \in 1 .. m : acc[k] = acc[k - 1] \o q[k]
        /\ acc[m] = FlattenSeq(q)
  BY <1>3, <1>5, FlattenRuns
<1> HIDE DEF m, h
<1> DEFINE P == {k \in Nat : k <= m => Laid(head \o acc[k], h, fs, k, ends)}
<1>8. 0 \in P
  <2>1. head \o acc[0] = head
    BY <1>7, ConcatEmptySeq DEF Words
  <2>2. ends[0] = h
    BY DEF EndsOf, h
  <2>3. Laid(head, h, fs, 0, ends)
    BY <1>2, <2>2 DEF Laid, h
  <2> QED BY <2>1, <2>3
<1>9. ASSUME NEW k \in P PROVE k + 1 \in P
  <2>1. SUFFICES ASSUME k + 1 <= m PROVE Laid(head \o acc[k + 1], h, fs, k + 1, ends)
    OBVIOUS
  <2>2. k \in Nat /\ k + 1 \in 1 .. m /\ k \in 0 .. m /\ (k + 1) - 1 = k /\ k <= m
    BY <1>1, <2>1
  <2>3. k + 1 \in 1 .. Len(fs)
    BY <1>1, <1>2, <2>2 DEF m
  <2>4. acc[k + 1] = acc[k] \o Field(fs[k + 1]) /\ acc[k] \in Words
    BY <1>4, <1>7, <2>2
  <2>5. Field(fs[k + 1]) \in Words
    BY <2>3, ElementOfSeq, FieldIs
  <2>6. head \o acc[k + 1] = (head \o acc[k]) \o Field(fs[k + 1])
    <3>1. /\ head \in Seq(Nat) /\ acc[k] \in Seq(Nat)
          /\ Field(fs[k + 1]) \in Seq(Nat)
      BY <2>4, <2>5 DEF Words
    <3>2. (head \o acc[k]) \o Field(fs[k + 1]) = head \o (acc[k] \o Field(fs[k + 1]))
      BY <3>1, Regrouped
    <3> QED BY <2>4, <3>2, Zenon
  <2>7. Laid(head \o acc[k], h, fs, (k + 1) - 1, ends)
    BY <2>2
  <2>8. EndsOf(ends, h, fs)
    BY DEF h
  <2> QED BY <1>2, <2>3, <2>6, <2>7, <2>8, LaidOneMore
<1>10. P = Nat
  <2>1. P \in SUBSET Nat
    OBVIOUS
  <2> HIDE DEF P
  <2> QED BY <1>8, <1>9, <2>1, CountingUp
<1>11. Laid(head \o acc[m], h, fs, m, ends)
  <2>1. m \in P
    BY <1>1, <1>10
  <2> QED BY <1>1, <2>1
<1>12. Fields(gs) \in Words
  BY <1>1, <1>6, <1>7
<1> QED
  BY <1>6, <1>7, <1>11, <1>12 DEF m, h

-----------------------------------------------------------------------------
(* Reading: all of a payload, or nothing *)

\* The first words of a buffer.
Start(buf, n) == SubSeq(buf, 1, n)

LEMMA FirstWords ==
  ASSUME NEW buf \in Seq(Nat), NEW n \in 0 .. Len(buf), NEW b, b = Start(buf, n)
  PROVE  /\ b \in Seq(Nat) /\ Len(b) = n
         /\ \A i \in 1 .. n : b[i] = buf[i] /\ buf[i] \in Nat
<1> DEFINE l == Len(buf)
<1>1. l \in Nat /\ n \in Nat /\ n <= l
  BY LenProperties
<1>2. \A i \in 1 .. l : buf[i] \in Nat
  BY ElementOfSeq
<1> HIDE DEF l
<1>3. \A i \in 1 .. n : buf[i] \in Nat
  BY <1>1, <1>2
<1>4. /\ b \in Seq(Nat) /\ Len(b) = IF 1 <= n THEN n - 1 + 1 ELSE 0
      /\ \A i \in 1 .. n - 1 + 1 : b[i] = buf[1 + i - 1]
  BY <1>1, <1>3, SubSeqProperties DEF Start
<1> QED
  BY <1>1, <1>3, <1>4

\* Some words further on.
Behind(buf, at, c) == SubSeq(buf, at + 1, at + c)

\* They are the words that were there.
LEMMA WordsBehind ==
  ASSUME NEW buf \in Seq(Nat), NEW at \in Nat, NEW c \in Nat, at + c <= Len(buf)
  PROVE  /\ Behind(buf, at, c) \in Seq(Nat) /\ Len(Behind(buf, at, c)) = c
         /\ \A j \in 1 .. c : Behind(buf, at, c)[j] = buf[at + j]
<1> DEFINE r == Behind(buf, at, c)
           l == Len(buf)
           from == at + 1
           to == at + c
<1>1. l \in Nat /\ to <= l /\ from \in Int /\ to \in Int
  BY LenProperties
<1>2. \A i \in 1 .. l : buf[i] \in Nat
  BY ElementOfSeq
<1> HIDE DEF l
<1>3. \A i \in from .. to : buf[i] \in Nat
  BY <1>1, <1>2
<1>4. \A j \in 1 .. c : from + j - 1 = at + j
  OBVIOUS
<1>5. to - from + 1 = c /\ (from <= to <=> c # 0)
  OBVIOUS
<1>6. r = SubSeq(buf, from, to)
  BY DEF Behind
<1> HIDE DEF from, to, r
<1>7. r \in Seq(Nat)
  BY <1>1, <1>3, <1>6, SubSeqProperties
<1>8. /\ from <= to => Len(r) = to - from + 1
      /\ ~(from <= to) => Len(r) = 0
  BY <1>1, <1>3, <1>6, SubSeqProperties
<1>9. \A j \in 1 .. to - from + 1 : r[j] = buf[from + j - 1]
  BY <1>1, <1>3, <1>6, SubSeqProperties
<1> QED
  BY <1>4, <1>5, <1>7, <1>8, <1>9 DEF r

\* What is read of the first n words of a buffer.
LEMMA ReadsBack ==
  ASSUME NEW h \in Nat, NEW fs \in Seq(Words), NEW ends, EndsOf(ends, h, fs),
         NEW buf, Laid(buf, h, fs, Len(fs), ends), NEW n \in h .. Len(buf),
         NEW b, b = Start(buf, n)
  PROVE  /\ n = Len(buf) => ReadAll(b, h, Len(fs)) = Start(buf, h) \o fs
         /\ n # Len(buf) => ReadAll(b, h, Len(fs)) = <<>>
<1> DEFINE m == Len(fs)
           l == Len(buf)
           Recursive(g) ==
             g = [i \in 0 .. m |->
                    IF i = 0 THEN h
                    ELSE CHOOSE behind \in {FieldEnd(b, at) : at \in {g[i - 1]}} : TRUE]
           end == CHOOSE g : Recursive(g)
           field(i) == SubSeq(b, WordEnd(b, end[i - 1]) + 1, end[i])
           g == [i \in 0 .. m |-> IF ends[i] <= n THEN ends[i] ELSE Cut]
<1>1. ReadAll(b, h, m) =
        IF h = Cut \/ end[m] = Cut THEN <<>>
        ELSE Start(b, h) \o [i \in 1 .. m |-> field(i)]
  BY DEF ReadAll, Start
<1>2. /\ m \in Nat /\ l \in Nat /\ n \in Nat /\ h <= n /\ n <= l
      /\ \A i \in 0 .. m : ends[i] \in Nat /\ h <= ends[i] /\ ends[i] <= l
      /\ ends[m] = l /\ ends[0] = h
  <2>1. buf \in Seq(Nat) /\ l \in Nat
    BY LenProperties DEF Laid, Words
  <2>2. m \in Nat /\ \A i \in 0 .. m : ends[i] \in Nat
    BY EndsType
  <2>3. (\A i \in 0 .. m : h <= ends[i] /\ ends[i] <= l) /\ ends[m] = l /\ ends[0] = h
    BY DEF Laid, EndsOf
  <2>4. n \in Nat /\ h <= n /\ n <= l
    BY <2>1
  <2> HIDE DEF m, l
  <2> QED BY <2>1, <2>2, <2>3, <2>4
<1>3. ASSUME NEW i \in 1 .. m
      PROVE  /\ i - 1 \in 0 .. m /\ i \in 0 .. m
             /\ fs[i] \in Seq(Nat) /\ Len(fs[i]) \in Nat
             /\ ends[i] = ends[i - 1] + 1 + Len(fs[i])
             /\ Holds(buf, ends[i - 1], fs[i])
  BY <1>2, EndsType DEF Laid, Words
<1>4. /\ b \in Seq(Nat) /\ Len(b) = n
      /\ \A i \in 1 .. n : b[i] = buf[i] /\ buf[i] \in Nat
  <2>1. buf \in Seq(Nat) /\ n \in 0 .. Len(buf)
    BY <1>2 DEF Laid, Words
  <2> QED BY <2>1, FirstWords
<1> HIDE DEF m, l, g
<1>5. ASSUME NEW at \in Nat
      PROVE  WordEnd(b, at) = IF at + 1 > n THEN Cut ELSE at + 1
  BY <1>4, <1>5 DEF WordEnd, Cut
<1>6. FieldEnd(b, Cut) = Cut
  BY DEF FieldEnd, WordEnd
<1>7. ASSUME NEW i \in 1 .. m, ends[i - 1] <= n
      PROVE  FieldEnd(b, ends[i - 1]) = IF ends[i] <= n THEN ends[i] ELSE Cut
  <2> DEFINE at == ends[i - 1]
             c == Len(fs[i])
             start == WordEnd(b, at)
  <2>1. at \in Nat /\ c \in Nat /\ ends[i] = at + 1 + c /\ buf[at + 1] = c
    BY <1>2, <1>3 DEF Holds
  <2>2. FieldEnd(b, at) = IF start = Cut THEN Cut
                          ELSE IF start + b[start] > Len(b) THEN Cut ELSE start + b[start]
    BY DEF FieldEnd
  <2>3. start = IF at + 1 > n THEN Cut ELSE at + 1
    BY <1>5, <2>1
  <2> HIDE DEF at, c, start
  <2>4. CASE at + 1 > n
    BY <1>2, <2>1, <2>2, <2>3, <2>4 DEF at
  <2>5. CASE ~(at + 1 > n)
    <3>1. start = at + 1 /\ start \in 1 .. n /\ start # Cut
      BY <1>2, <2>1, <2>3, <2>5 DEF Cut
    <3>2. b[start] = c
      BY <1>4, <2>1, <3>1
    <3>3. FieldEnd(b, at) = IF (at + 1) + c > n THEN Cut ELSE (at + 1) + c
      BY <1>4, <2>2, <3>1, <3>2
    <3> QED BY <1>2, <2>1, <3>3 DEF at
  <2> QED BY <2>4, <2>5
<1>8. \A i \in 0 .. m : g[i] = IF ends[i] <= n THEN ends[i] ELSE Cut
  BY DEF g
<1>9. ASSUME NEW i \in 1 .. m PROVE FieldEnd(b, g[i - 1]) = g[i]
  <2>1. CASE ends[i - 1] <= n
    BY <1>3, <1>7, <1>8, <2>1
  <2>2. CASE ~(ends[i - 1] <= n)
    <3>1. ~(ends[i] <= n)
      <4> DEFINE at == ends[i - 1]
                 c == Len(fs[i])
      <4>1. at \in Nat /\ c \in Nat /\ ends[i] = at + 1 + c /\ ~(at <= n)
        BY <1>2, <1>3, <2>2
      <4> HIDE DEF at, c
      <4> QED BY <1>2, <4>1
    <3> QED BY <1>3, <1>6, <1>8, <2>2, <3>1
  <2> QED BY <2>1, <2>2
<1>10. g[0] = h
  BY <1>2, <1>8
<1>11. Recursive(end)
  <2>1. ASSUME NEW i \in 0 .. m
        PROVE  g[i] = IF i = 0 THEN h
                      ELSE CHOOSE behind \in {FieldEnd(b, at) : at \in {g[i - 1]}} : TRUE
    BY <1>2, <1>9, <1>10
  <2>2. g = [i \in 0 .. m |-> g[i]]
    BY DEF g
  <2>3. Recursive(g)
    BY <2>1, <2>2
  <2> HIDE DEF Recursive
  <2> QED BY <2>3
<1>12. \A i \in 0 .. m :
         end[i] = IF i = 0 THEN h ELSE CHOOSE behind \in {FieldEnd(b, end[i - 1])} : TRUE
  <2> HIDE DEF end
  <2>1. \A i : {FieldEnd(b, at) : at \in {end[i - 1]}} = {FieldEnd(b, end[i - 1])}
    OBVIOUS
  <2> QED BY <1>11, <2>1
<1> HIDE DEF end, Recursive
<1>13. end[0] = h /\ \A i \in 1 .. m : end[i] = FieldEnd(b, end[i - 1])
  BY <1>2, <1>12
<1> DEFINE P == {i \in Nat : i <= m => end[i] = g[i]}
<1>14. P = Nat
  <2>1. 0 \in P
    BY <1>10, <1>13
  <2>2. ASSUME NEW i \in P PROVE i + 1 \in P
    <3> DEFINE j == i + 1
    <3>1. CASE j <= m
      <4>1. i \in Nat /\ j \in 1 .. m /\ j - 1 = i /\ i <= m
        BY <1>2, <3>1
      <4>2. end[i] = g[i]
        BY <4>1
      <4> HIDE DEF j
      <4>3. end[j] = g[j]
        BY <1>9, <1>13, <4>1, <4>2
      <4> QED BY <4>1, <4>3 DEF j
    <3> QED BY <3>1
  <2>3. P \in SUBSET Nat
    OBVIOUS
  <2> HIDE DEF P
  <2> QED BY <2>1, <2>2, <2>3, CountingUp
<1>15. \A i \in 0 .. m : end[i] = IF ends[i] <= n THEN ends[i] ELSE Cut
  <2>1. \A i \in 0 .. m : i \in P /\ i <= m
    BY <1>2, <1>14
  <2> QED BY <1>8, <2>1
<1>16. h # Cut
  BY DEF Cut
<1>17. CASE n # l
  <2>1. end[m] = Cut
    BY <1>2, <1>15, <1>17
  <2> QED BY <1>1, <1>17, <2>1 DEF l, m
<1>18. CASE n = l
  <2>1. b = buf
    BY <1>18, SubSeqFull DEF l, Laid, Words, Start
  <2>2. \A i \in 0 .. m : end[i] = ends[i]
    BY <1>2, <1>15, <1>18
  <2>3. ASSUME NEW i \in 1 .. m PROVE field(i) = fs[i]
    <3> DEFINE at == ends[i - 1] + 1
               f == fs[i]
               c == Len(f)
               r == Behind(b, at, c)
    <3>1. /\ ends[i - 1] \in Nat /\ c \in Nat /\ f \in Seq(Nat)
          /\ at \in Nat /\ at + c <= n /\ ends[i] = at + c
      BY <1>2, <1>3, <1>18, SMTT(30)
    <3>2. \A j \in 1 .. c : buf[at + j] = f[j]
      BY <1>3 DEF Holds
    <3>3. field(i) = r
      <4>1. end[i - 1] = ends[i - 1] /\ end[i] = at + c
        BY <1>3, <2>2, <3>1
      <4>2. WordEnd(b, ends[i - 1]) = at
        <5> HIDE DEF c
        <5>1. n \in Nat /\ at + c <= n
          BY <1>2, <3>1
        <5>2. ~(at > n)
          <6> HIDE DEF at
          <6> QED BY <3>1, <5>1
        <5>3. WordEnd(b, ends[i - 1]) = IF at > n THEN Cut ELSE at
          BY <1>5, <3>1
        <5> QED BY <5>2, <5>3
      <4>3. field(i) = SubSeq(b, WordEnd(b, ends[i - 1]) + 1, at + c)
        BY <4>1
      <4> HIDE DEF field, at, c
      <4>4. field(i) = SubSeq(b, at + 1, at + c)
        BY <4>2, <4>3
      <4> QED BY <4>4 DEF c, at, Behind
    <3> HIDE DEF at, f, c
    <3>4. b \in Seq(Nat) /\ at \in Nat /\ c \in Nat /\ at + c <= Len(b)
      BY <1>4, <3>1
    <3>5. Behind(b, at, c) \in Seq(Nat) /\ Len(Behind(b, at, c)) = c
          /\ \A j \in 1 .. c : Behind(b, at, c)[j] = b[at + j]
      BY ONLY <3>4, WordsBehind
    <3> HIDE DEF r
    <3>6. r \in Seq(Nat) /\ Len(r) = c /\ \A j \in 1 .. c : r[j] = b[at + j]
      BY ONLY <3>5 DEF r
    <3>7. \A j \in 1 .. c : r[j] = f[j]
      BY <2>1, <3>2, <3>6
    <3>8. r = f
      BY <3>1, <3>6, <3>7, SeqEqual DEF c
    <3> QED BY <3>3, <3>8 DEF f
  <2> HIDE DEF field
  <2>4. [i \in 1 .. m |-> field(i)] = fs
    <3>1. fs \in [1 .. m -> Words] 
      BY LenProperties DEF m
    <3> QED BY <2>3, <3>1
  <2>5. end[m] # Cut
    BY <1>2, <1>15, <1>18 DEF Cut
  <2> QED BY <1>1, <1>16, <1>18, <2>1, <2>4, <2>5 DEF field, m, l
<1> QED
  BY <1>17, <1>18

\* A buffer behind its header.
LEMMA HeaderOf ==
  ASSUME NEW head \in Words, NEW rest \in Words, NEW buf, buf = head \o rest
  PROVE  /\ buf \in Words /\ Len(buf) \in Nat /\ Len(head) \in Nat /\ Len(head) <= Len(buf)
         /\ Start(buf, Len(head)) = head
<1> DEFINE h == Len(head)
           l == Len(buf)
<1>1. head \in Seq(Nat) /\ rest \in Seq(Nat) /\ h \in Nat /\ Len(rest) \in Nat
  BY LenProperties DEF Words
<1>2. /\ buf \in Seq(Nat) /\ l \in Nat /\ h <= l
      /\ \A i \in 1 .. h : buf[i] = head[i]
  <2> DEFINE k == Len(rest)
  <2>1. /\ buf \in Seq(Nat) /\ l = h + k
        /\ \A i \in 1 .. h + k : buf[i] = IF i <= h THEN head[i] ELSE rest[i - h]
    BY <1>1, ConcatProperties
  <2>2. k \in Nat
    BY <1>1
  <2> HIDE DEF l, h, k
  <2>3. h \in Nat
    BY <1>1 DEF h
  <2>4. \A i \in 1 .. h : i \in 1 .. h + k /\ i <= h
    BY <2>2, <2>3
  <2>5. h <= l /\ l \in Nat
    BY <2>1, <2>2, <2>3
  <2> QED BY <2>1, <2>4, <2>5
<1> HIDE DEF l, h
<1>3. \A i \in 1 .. l : buf[i] \in Nat
  BY <1>2, ElementOfSeq DEF l
<1>4. h \in 0 .. Len(buf)
  BY <1>1, <1>2 DEF l
<1>5. Start(buf, h) = head
  <2>1. /\ Start(buf, h) \in Seq(Nat) /\ Len(Start(buf, h)) = h
        /\ \A i \in 1 .. h : Start(buf, h)[i] = buf[i]
    BY <1>2, <1>4, FirstWords
  <2> QED BY <1>1, <1>2, <2>1, SeqEqual DEF h
<1> QED
  BY <1>1, <1>2, <1>5 DEF l, h, Words

\* The words of a header are read if they are all there.
LEMMA HeaderEnds ==
  ASSUME NEW buf \in Words, NEW n \in 0 .. Len(buf), NEW b, b = Start(buf, n)
  PROVE  /\ n >= 1 => WordEnd(b, 0) = 1
         /\ ~(n >= 1) => WordEnd(b, 0) = Cut
         /\ n >= 2 => WordEnd(b, WordEnd(b, 0)) = 2 /\ b[2] = buf[2]
         /\ ~(n >= 2) => WordEnd(b, WordEnd(b, 0)) = Cut
<1>1. Len(buf) \in Nat
  BY LenProperties DEF Words
<1>2. n \in Nat /\ Len(b) = n /\ \A i \in 1 .. n : b[i] = buf[i]
  <2>1. n \in Nat
    BY <1>1
  <2> QED BY <2>1, FirstWords DEF Words
<1>3. (n >= 1 => WordEnd(b, 0) = 1) /\ (~(n >= 1) => WordEnd(b, 0) = Cut)
  BY <1>2 DEF WordEnd, Cut
<1>4. /\ n >= 2 => WordEnd(b, WordEnd(b, 0)) = 2
      /\ ~(n >= 2) => WordEnd(b, WordEnd(b, 0)) = Cut
  <2>1. CASE n >= 1
    BY <1>2, <1>3, <2>1 DEF WordEnd, Cut
  <2>2. CASE ~(n >= 1)
    BY <1>2, <1>3, <2>2 DEF WordEnd, Cut
  <2> QED BY <2>1, <2>2
<1>5. n >= 2 => b[2] = buf[2]
  BY <1>2
<1> QED
  BY <1>3, <1>4, <1>5

\* All of a payload is read as it was written, any less of it is not read.
Rejects(read, n, buf, what) ==
  (n = Len(buf) => read = what) /\ (n # Len(buf) => read = <<>>)

KeyRead(seat, public, proof, info) == <<seat>> \o <<public, proof, info>>
RevealRead(seat, position, token, proof, public) == <<seat, position>> \o <<token, proof, public>>
ShuffleRead(seat, deck, proof) == <<seat, Len(deck)>> \o Append(deck, proof)

\* A key announcement.
LEMMA ReadKeyBack ==
  ASSUME NEW seat \in Nat, NEW public \in Words, NEW proof \in Words, NEW info \in Words,
         NEW n \in 0 .. Len(KeyBytes(seat, public, proof, info))
  PROVE  LET buf == KeyBytes(seat, public, proof, info)
         IN /\ buf \in Words /\ n \in Nat /\ Len(buf) \in Nat
            /\ Rejects(ReadKey(Start(buf, n)), n, buf, KeyRead(seat, public, proof, info))
<1> DEFINE head == <<seat>>
           fs == <<public, proof, info>>
           rest == Fields(fs)
           buf == head \o rest
           b == Start(buf, n)
<1>1. head \in Words /\ Len(head) = 1 /\ fs \in Seq(Words) /\ Len(fs) = 3
  BY DEF Words
<1>2. fs # <<>> /\ KeyBytes(seat, public, proof, info) = buf
  BY DEF KeyBytes
<1>3a. head \o fs = KeyRead(seat, public, proof, info)
  BY DEF KeyRead
<1> HIDE DEF head, fs
<1>3. PICK ends : EndsOf(ends, 1, fs)
  BY <1>1, EndsExist
<1>4. rest \in Words /\ Laid(buf, 1, fs, Len(fs), ends)
  <2>1. EndsOf(ends, Len(head), fs) /\ Len(fs) <= Len(fs)
    BY <1>1, <1>3
  <2>2. rest \in Words /\ Laid(buf, Len(head), fs, Len(fs), ends)
    BY <1>1, <1>2, <2>1, LaidOut
  <2> QED BY <1>1, <2>2
<1>5. n \in 0 .. Len(buf) /\ buf = head \o rest /\ b = Start(buf, n)
  BY <1>2
<1> HIDE DEF rest, buf, b
<1>6. /\ buf \in Words /\ Len(buf) \in Nat /\ 1 <= Len(buf)
      /\ Start(buf, 1) = head
      /\ n >= 1 => WordEnd(b, 0) = 1
      /\ ~(n >= 1) => WordEnd(b, 0) = Cut
  <2>1. /\ buf \in Words /\ Len(buf) \in Nat /\ Len(head) <= Len(buf)
        /\ Start(buf, Len(head)) = head
    BY <1>1, <1>4, <1>5, HeaderOf
  <2>2. (n >= 1 => WordEnd(b, 0) = 1) /\ (~(n >= 1) => WordEnd(b, 0) = Cut)
    BY <2>1, <1>5, HeaderEnds
  <2> QED BY <1>1, <2>1, <2>2
<1>7. Rejects(ReadKey(b), n, buf, head \o fs)
  <2>1. CASE n >= 1
    <3>1. ReadKey(b) = ReadAll(b, 1, 3)
      BY <1>6, <2>1 DEF ReadKey
    <3>2. n \in 1 .. Len(buf)
      BY <1>5, <1>6, <2>1
    <3>3. /\ n = Len(buf) => ReadAll(b, 1, Len(fs)) = Start(buf, 1) \o fs
          /\ n # Len(buf) => ReadAll(b, 1, Len(fs)) = <<>>
      BY <1>1, <1>3, <1>4, <1>5, <3>2, ReadsBack
    <3> QED BY <1>1, <1>6, <3>1, <3>3 DEF Rejects
  <2>2. CASE ~(n >= 1)
    <3>1. ReadKey(b) = <<>>
      BY <1>6, <2>2 DEF ReadKey, ReadAll
    <3> QED BY <1>5, <1>6, <2>2, <3>1 DEF Rejects
  <2> QED BY <2>1, <2>2
<1> QED
  BY <1>2, <1>3a, <1>5, <1>6, <1>7 DEF b

\* A reveal.
LEMMA ReadRevealBack ==
  ASSUME NEW seat \in Nat, NEW position \in Nat,
         NEW token \in Words, NEW proof \in Words, NEW public \in Words,
         NEW n \in 0 .. Len(RevealBytes(seat, position, token, proof, public))
  PROVE  LET buf == RevealBytes(seat, position, token, proof, public)
         IN /\ buf \in Words /\ n \in Nat /\ Len(buf) \in Nat
            /\ Rejects(ReadReveal(Start(buf, n)), n, buf,
                       RevealRead(seat, position, token, proof, public))
<1> DEFINE head == <<seat, position>>
           fs == <<token, proof, public>>
           rest == Fields(fs)
           buf == head \o rest
           b == Start(buf, n)
<1>1. head \in Words /\ Len(head) = 2 /\ fs \in Seq(Words) /\ Len(fs) = 3
  BY DEF Words
<1>2. fs # <<>> /\ RevealBytes(seat, position, token, proof, public) = buf
  BY DEF RevealBytes
<1>3a. head \o fs = RevealRead(seat, position, token, proof, public)
  BY DEF RevealRead
<1> HIDE DEF head, fs
<1>3. PICK ends : EndsOf(ends, 2, fs)
  BY <1>1, EndsExist
<1>4. rest \in Words /\ Laid(buf, 2, fs, Len(fs), ends)
  <2>1. EndsOf(ends, Len(head), fs) /\ Len(fs) <= Len(fs)
    BY <1>1, <1>3
  <2>2. rest \in Words /\ Laid(buf, Len(head), fs, Len(fs), ends)
    BY <1>1, <1>2, <2>1, LaidOut
  <2> QED BY <1>1, <2>2
<1>5. n \in 0 .. Len(buf) /\ buf = head \o rest /\ b = Start(buf, n)
  BY <1>2
<1> HIDE DEF rest, buf, b
<1>6. /\ buf \in Words /\ Len(buf) \in Nat /\ 2 <= Len(buf)
      /\ Start(buf, 2) = head
      /\ n >= 2 => WordEnd(b, WordEnd(b, 0)) = 2
      /\ ~(n >= 2) => WordEnd(b, WordEnd(b, 0)) = Cut
  <2>1. /\ buf \in Words /\ Len(buf) \in Nat /\ Len(head) <= Len(buf)
        /\ Start(buf, Len(head)) = head
    BY <1>1, <1>4, <1>5, HeaderOf
  <2>2. /\ n >= 2 => WordEnd(b, WordEnd(b, 0)) = 2 /\ b[2] = buf[2]
        /\ ~(n >= 2) => WordEnd(b, WordEnd(b, 0)) = Cut
    BY <2>1, <1>5, HeaderEnds
  <2> QED BY <1>1, <2>1, <2>2
<1>7. Rejects(ReadReveal(b), n, buf, head \o fs)
  <2>1. CASE n >= 2
    <3>1. ReadReveal(b) = ReadAll(b, 2, 3)
      BY <1>6, <2>1 DEF ReadReveal
    <3>2. n \in 2 .. Len(buf)
      BY <1>5, <1>6, <2>1
    <3>3. /\ n = Len(buf) => ReadAll(b, 2, Len(fs)) = Start(buf, 2) \o fs
          /\ n # Len(buf) => ReadAll(b, 2, Len(fs)) = <<>>
      <4>1. /\ 2 \in Nat /\ fs \in Seq(Words) /\ EndsOf(ends, 2, fs)
            /\ Laid(buf, 2, fs, Len(fs), ends) /\ b = Start(buf, n)
        BY <1>1, <1>3, <1>4, <1>5
      <4> QED BY <3>2, <4>1, ReadsBack
    <3> QED BY <1>1, <1>6, <3>1, <3>3 DEF Rejects
  <2>2. CASE ~(n >= 2)
    <3>1. ReadReveal(b) = <<>>
      BY <1>6, <2>2 DEF ReadReveal, ReadAll
    <3> QED BY <1>5, <1>6, <2>2, <3>1 DEF Rejects
  <2> QED BY <2>1, <2>2
<1> QED
  BY <1>2, <1>3a, <1>5, <1>6, <1>7 DEF b

\* A shuffle.
LEMMA ReadShuffleBack ==
  ASSUME NEW seat \in Nat, NEW deck \in Seq(Words), deck # <<>>, NEW proof \in Words,
         NEW n \in 0 .. Len(ShuffleBytes(seat, deck, proof))
  PROVE  LET buf == ShuffleBytes(seat, deck, proof)
         IN /\ buf \in Words /\ n \in Nat /\ Len(buf) \in Nat
            /\ Rejects(ReadShuffle(Start(buf, n)), n, buf,
                       ShuffleRead(seat, deck, proof))
<1> DEFINE m == Len(deck)
           head == <<seat, m>>
           fs == Append(deck, proof)
           cards == Fields(deck)
           last == Field(proof)
           rest == cards \o last
           buf == head \o rest
           b == Start(buf, n)
<1>1. m \in Nat /\ m # 0
  BY EmptySeq, LenProperties
<1>2. head \in Words /\ Len(head) = 2 /\ head[2] = m
  BY <1>1 DEF Words
<1>3. /\ fs \in Seq(Words) /\ Len(fs) = m + 1 /\ fs[m + 1] = proof
      /\ \A i \in 1 .. m : fs[i] = deck[i]
  BY AppendProperties
<1>3a. head \o fs = ShuffleRead(seat, deck, proof)
  BY DEF ShuffleRead
<1> HIDE DEF head, fs
<1>4. PICK ends : EndsOf(ends, 2, fs)
  BY <1>3, EndsExist
<1>5. cards \in Words /\ Laid(head \o cards, 2, fs, m, ends)
  <2>1. Len(deck) <= Len(fs)
    BY <1>1, <1>3
  <2> QED BY <1>2, <1>3, <1>4, <2>1, LaidOut
<1>6. last \in Words
  BY FieldIs
<1>7. (head \o cards) \o last = buf /\ rest \in Words
  BY <1>2, <1>5, <1>6, Regrouped, ConcatProperties DEF Words
<1>8. ShuffleBytes(seat, deck, proof) = buf
  <2>1. ShuffleBytes(seat, deck, proof) = (head \o cards) \o last
    BY DEF ShuffleBytes, head
  <2> QED BY <1>7, <2>1
<1>9. Laid(buf, 2, fs, m + 1, ends)
  <2>1. m + 1 \in 1 .. Len(fs) /\ (m + 1) - 1 = m
    BY <1>1, <1>3
  <2> HIDE DEF cards, m
  <2>2. Laid((head \o cards) \o Field(fs[m + 1]), 2, fs, m + 1, ends)
    BY <1>3, <1>4, <1>5, <2>1, LaidOneMore
  <2> QED BY <1>3, <1>7, <2>2
<1>10. n \in 0 .. Len(buf) /\ buf = head \o rest /\ b = Start(buf, n)
  BY <1>8
<1> HIDE DEF rest, m, buf, b
<1>11. /\ buf \in Words /\ Len(buf) \in Nat /\ 2 <= Len(buf)
       /\ Start(buf, 2) = head
       /\ n >= 2 => b[2] = m
       /\ n >= 2 => WordEnd(b, WordEnd(b, 0)) = 2
       /\ ~(n >= 2) => WordEnd(b, WordEnd(b, 0)) = Cut
  <2>1. /\ buf \in Words /\ Len(buf) \in Nat /\ Len(head) <= Len(buf)
        /\ Start(buf, Len(head)) = head
    BY <1>2, <1>7, <1>10, HeaderOf
  <2>2. /\ n >= 2 => WordEnd(b, WordEnd(b, 0)) = 2 /\ b[2] = buf[2]
        /\ ~(n >= 2) => WordEnd(b, WordEnd(b, 0)) = Cut
    <3>1. buf \in Words /\ n \in 0 .. Len(buf) /\ b = Start(buf, n)
      BY <1>10, <2>1
    <3> QED BY <3>1, HeaderEnds
  <2>3. Start(buf, 2) = head /\ 2 <= Len(buf)
    BY <1>2, <2>1
  <2>4. buf[2] = head[2]
    <3>1. 2 \in 0 .. Len(buf) /\ buf \in Seq(Nat) /\ 2 \in 1 .. 2
      BY <2>1, <2>3 DEF Words
    <3> QED BY <2>3, <3>1, FirstWords
  <2> QED BY <1>2, <2>1, <2>2, <2>3, <2>4
<1>12. Rejects(ReadShuffle(b), n, buf, head \o fs)
  <2>1. CASE n >= 2
    <3>1. ReadShuffle(b) = ReadAll(b, 2, m + 1)
      BY <1>11, <2>1 DEF ReadShuffle, Cut
    <3>2. n \in 2 .. Len(buf)
      BY <1>10, <1>11, <2>1
    <3>3. /\ n = Len(buf) => ReadAll(b, 2, Len(fs)) = Start(buf, 2) \o fs
          /\ n # Len(buf) => ReadAll(b, 2, Len(fs)) = <<>>
      <4>1. Laid(buf, 2, fs, Len(fs), ends)
        BY <1>3, <1>9
      <4>2. fs \in Seq(Words) /\ b = Start(buf, n)
        BY <1>3, <1>10
      <4> QED BY <1>4, <3>2, <4>1, <4>2, ReadsBack
    <3> QED BY <1>3, <1>11, <3>1, <3>3 DEF Rejects
  <2>2. CASE ~(n >= 2)
    <3>1. ReadShuffle(b) = <<>>
      BY <1>11, <2>2 DEF ReadShuffle
    <3> QED BY <1>10, <1>11, <2>2, <3>1 DEF Rejects
  <2> QED BY <2>1, <2>2
<1> QED
  BY <1>3a, <1>8, <1>10, <1>11, <1>12 DEF b

-----------------------------------------------------------------------------
(* The inductive invariant *)

Keys == {KeyOf(seat) : seat \in Seat}
StreetName == {"flop", "turn", "river"}
Round == {"hole", "showdown"} \union Street

\* The masks of a card after the first k shuffles: each seat in turn.
Order(k) == [j \in 1 .. k |-> j - 1]

MaskedCard == [card : Position, masks : Seq(Seat)]
Deck == [Position -> MaskedCard]

\* The decks that the first k shuffles may leave.
Mixed(k) == {d \in Deck : \A i \in Position : d[i].masks = Order(k)}

Tokens == SUBSET [position : Position, token : [key : Keys, masked : MaskedCard]]

Replica ==
  [announced : SUBSET {<<seat, KeyOf(seat)>> : seat \in Seat},
   aggregate : {{}, Keys},
   deck : Deck \union {<<>>},
   shuffles : 0 .. N,
   hole : Tokens, community : Tokens, showdown : Tokens,
   gave : SUBSET ({"key", "hole", "showdown"} \union StreetName),
   localHole : Seq(Position),
   board : Seq(Position),
   done : SUBSET StreetName,
   shown : [Seat -> Seq(Position)]]

\* The deck of a replica has the shuffles it counts, and is there with the key.
Decked(s) ==
  /\ s.aggregate = {} => s.deck = <<>> /\ s.shuffles = 0
  /\ s.aggregate # {} => s.deck \in Mixed(s.shuffles)
  /\ s.aggregate # {} /\ s.shuffles = 0 => s.deck = OpenDeck

\* The board when the streets before the i-th are open: how many cards, and which.
BoardSize(i) == IF i = 1 THEN 0 ELSE i + 1
BoardSlot(j) == <<1, 2, 3, 5, 7>>[j] + 2 * N
BoardBefore(s, i) == [j \in 1 .. BoardSize(i) |-> CardAt(s, BoardSlot(j))]

Closed(s) ==
  /\ s.localHole = <<>> /\ s.board = <<>> /\ s.done = {}
  /\ \A o \in Seat : s.shown[o] = <<>>

\* Whatever is open is what the deck has at its place, the streets in their order.
Opened(p, s) ==
  /\ s.localHole \in {<<>>, CardsAt(s, HolePositions(p))}
  /\ \A o \in Seat : s.shown[o] \in {<<>>, CardsAt(s, HolePositions(o))}
  /\ \E i \in 1 .. Streets + 1 : s.done = Before(i) /\ s.board = BoardBefore(s, i)

\* A street opens only with one's own tokens, which one gives in order.
GivesInOrder(p, s) ==
  \A i \in 1 .. Streets :
    /\ \A t \in s.community :
         t.token.key = KeyOf(p) /\ t.position \in Range(BoardPositions(StreetOrder[i]))
           => StreetOrder[i] \in s.gave
    /\ StreetOrder[i] \in s.gave => Before(i) \subseteq s.done

Sound(p, s) ==
  /\ s \in Replica
  /\ Decked(s)
  /\ IF Phase(s) = "Ready" THEN Opened(p, s) ELSE Closed(s)
  /\ GivesInOrder(p, s)

\* What the payloads of seat a look like.
KeyPayload(a) ==
  Payload("key", a, {KeyBytes(a, <<KeyOf(a)>>, <<KeyOf(a), Info(a)>>, <<Info(a)>>)})
Written(d) == [i \in 1 .. Cards |-> <<d[i - 1].card>> \o d[i - 1].masks]
ShufflePayload(a, d) == Payload("shuffle", a, {ShuffleBytes(a, Written(d), <<a>>)})
RevealBy(a, position, token) == RevealBytes(a, position, token, <<KeyOf(a)>>, <<KeyOf(a)>>)
Reveals(a) == {RevealBy(a, position, token) : position \in Position, token \in Words}

\* A payload that is no shuffle.
Quiet(m) ==
  \E a \in Seat :
    \/ m = KeyPayload(a)
    \/ \E round \in Round, parts \in SUBSET Reveals(a) : m = Payload(round, a, parts)

\* A shuffle on the wire was made by its seat, which has gone past it.
Sent(replicas, m) ==
  \/ Quiet(m)
  \/ \E a \in Seat : /\ replicas[a].shuffles > a
                      /\ \E d \in Mixed(a + 1) : m = ShufflePayload(a, d)

\* One shuffle of each seat.
OneShuffleEach(sent) ==
  \A a \in Seat : \A d, e \in Mixed(a + 1) :
    ShufflePayload(a, d) \in sent /\ ShufflePayload(a, e) \in sent => d = e

\* Every shuffle a replica has applied is on the wire, the last one with its deck.
ShufflesSent(sent, s) ==
  /\ \A a \in Seat : a < s.shuffles => \E d \in Mixed(a + 1) : ShufflePayload(a, d) \in sent
  /\ \A a \in Seat : s.shuffles = a + 1 => ShufflePayload(a, s.deck) \in sent

\* The replicas and what is on the wire belong together.
Dealing(replicas, sent) ==
  /\ replicas \in [Seat -> Replica]
  /\ \A p \in Seat : Sound(p, replicas[p])
  /\ \A m \in sent : Sent(replicas, m)
  /\ OneShuffleEach(sent)
  /\ \A p \in Seat : ShufflesSent(sent, replicas[p])

DealInv == Dealing(peer, wire)

\* Seats, positions and keys are numbers.
LEMMA Numbers ==
  /\ N \in 2 .. 9 /\ Cards \in Nat /\ Cards >= 2 * N + 4
  /\ Streets \in 1 .. 3 /\ Cards >= 2 * N + 2 * Streets + 2
  /\ Seat = 0 .. N - 1 /\ Position = 0 .. Cards - 1 /\ Button \in Seat
  /\ \A a \in Seat : a \in Nat /\ KeyOf(a) \in Nat /\ Info(a) \in Nat /\ KeyOf(a) \in Keys
  /\ \A a, b \in Seat : KeyOf(a) = KeyOf(b) => a = b
<1>1. N \in 2 .. 9 /\ Seat = 0 .. N - 1
  BY SeatCount DEF Seat
<1>2. Cards \in Nat /\ Position = 0 .. Cards - 1
  BY DeckConstants DEF Position
<1>3. Streets \in 1 .. 3 /\ Cards >= 2 * N + 2 * Streets + 2 /\ Button \in Seat
  BY PeerDealConstants
<1>4. Cards >= 2 * N + 4
  BY <1>1, <1>2, <1>3
<1>5. \A a \in Seat : a \in Nat /\ KeyOf(a) \in Nat /\ Info(a) \in Nat /\ KeyOf(a) \in Keys
  BY <1>1, <1>2 DEF KeyOf, Info, Keys
<1>6. \A a, b \in Seat : KeyOf(a) = KeyOf(b) => a = b
  BY <1>1, <1>2 DEF KeyOf
<1> QED
  BY <1>1, <1>2, <1>3, <1>4, <1>5, <1>6

\* The seats are the numbers below N.
LEMMA SeatNumbers ==
  /\ N \in Nat /\ N > 0 /\ Seat = 0 .. N - 1 /\ 0 \in Seat
  /\ \A p \in Seat : p \in Nat /\ p < N
BY Numbers

\* The state before the first shuffle holds no deck.
LEMMA NoEmptyDeck == <<>> \notin Deck
<1>1. 0 \in Position /\ DOMAIN <<>> = {}
  BY Numbers
<1> QED BY <1>1 DEF Deck

\* The key announcement of a seat is read as its own.
LEMMA KeyPayloadRead ==
  ASSUME NEW a \in Seat, NEW buf \in KeyPayload(a).parts, NEW n \in 0 .. Len(buf)
  PROVE  /\ buf \in Words /\ n \in Nat /\ Len(buf) \in Nat
         /\ Rejects(ReadKey(Start(buf, n)), n, buf,
                    KeyRead(a, <<KeyOf(a)>>, <<KeyOf(a), Info(a)>>, <<Info(a)>>))
<1> DEFINE public == <<KeyOf(a)>>
           proof == <<KeyOf(a), Info(a)>>
           info == <<Info(a)>>
<1>1. a \in Nat /\ public \in Words /\ proof \in Words /\ info \in Words
  BY Numbers DEF Words
<1>2. buf = KeyBytes(a, public, proof, info)
  BY DEF KeyPayload, Payload
<1> HIDE DEF public, proof, info
<1> QED
  BY <1>1, <1>2, ReadKeyBack DEF public, proof, info

\* A reveal is read as the token of its seat.
LEMMA RevealPayloadRead ==
  ASSUME NEW a \in Seat, NEW position \in Position, NEW token \in Words,
         NEW buf, buf = RevealBy(a, position, token), NEW n \in 0 .. Len(buf)
  PROVE  /\ buf \in Words /\ n \in Nat /\ Len(buf) \in Nat
         /\ Rejects(ReadReveal(Start(buf, n)), n, buf,
                    RevealRead(a, position, token, <<KeyOf(a)>>, <<KeyOf(a)>>))
<1> DEFINE public == <<KeyOf(a)>>
<1>1. a \in Nat /\ position \in Nat /\ public \in Words
  BY Numbers DEF Words
<1>2. buf = RevealBytes(a, position, token, public, public)
  BY DEF RevealBy
<1> HIDE DEF public
<1> QED
  BY <1>1, <1>2, ReadRevealBack DEF public

\* The words a deck is written as.
LEMMA WrittenDeck ==
  ASSUME NEW d \in Deck
  PROVE  /\ Written(d) \in Seq(Words) /\ Len(Written(d)) = Cards /\ Written(d) # <<>>
         /\ \A i \in Position : /\ Written(d)[i + 1] = <<d[i].card>> \o d[i].masks
                                /\ Written(d)[i + 1][1] = d[i].card
                                /\ Tail(Written(d)[i + 1]) = d[i].masks
<1> DEFINE text(c) == <<c.card>> \o c.masks
<1>1. ASSUME NEW c \in MaskedCard
      PROVE  text(c) \in Words /\ text(c)[1] = c.card /\ Tail(text(c)) = c.masks
  <2> DEFINE card == c.card
             masks == c.masks
             head == <<card>>
  <2>1. card \in Nat /\ masks \in Seq(Nat)
    <3>1. c.card \in Position /\ c.masks \in Seq(Seat)
      BY DEF MaskedCard
    <3>2. \A x \in Seat : x \in Nat
      BY Numbers
    <3>3. c.masks \in Seq(Nat)
      BY <3>1, <3>2, SeqMonotonic
    <3> QED BY <3>1, <3>3, Numbers
  <2> HIDE DEF card, masks
  <2>2. head \in Seq(Nat) /\ Len(head) = 1 /\ head[1] = card
    BY <2>1
  <2>3. head \o masks \in Seq(Nat) /\ (head \o masks)[1] = card /\ Tail(head \o masks) = masks
    BY <2>1, <2>2
  <2> QED BY <2>3 DEF card, masks, Words
<1>2. \A i \in Position : d[i] \in MaskedCard
  BY DEF Deck
<1>3. Cards \in Nat /\ Cards # 0 /\ \A k \in 1 .. Cards : k - 1 \in Position
  BY Numbers
<1>4. Written(d) = [k \in 1 .. Cards |-> text(d[k - 1])]
  BY DEF Written
<1> HIDE DEF text
<1>5. \A k \in 1 .. Cards : text(d[k - 1]) \in Words
  BY <1>1, <1>2, <1>3
<1>6. Written(d) \in Seq(Words) /\ Len(Written(d)) = Cards
  BY <1>3, <1>4, <1>5
<1>7. Written(d) # <<>>
  BY <1>3, <1>6, EmptySeq
<1>8. ASSUME NEW i \in Position PROVE Written(d)[i + 1] = text(d[i]) /\ d[i] \in MaskedCard
  <2>1. i + 1 \in 1 .. Cards /\ (i + 1) - 1 = i
    BY Numbers
  <2> QED BY <1>2, <1>4, <2>1
<1> QED
  BY <1>1, <1>6, <1>7, <1>8 DEF text

\* The deck as a peer makes it of a shuffle it has read.
DeckRead(shuffle) == [i \in Position |-> Masked(shuffle[i + 3][1], Tail(shuffle[i + 3]))]

\* A shuffle is read as the deck it was made into.
LEMMA ShufflePayloadRead ==
  ASSUME NEW a \in Seat, NEW d \in Deck, NEW buf \in ShufflePayload(a, d).parts,
         NEW n \in 0 .. Len(buf)
  PROVE  /\ buf \in Words /\ n \in Nat /\ Len(buf) \in Nat
         /\ Rejects(ReadShuffle(Start(buf, n)), n, buf, ShuffleRead(a, Written(d), <<a>>))
<1>1. a \in Nat /\ <<a>> \in Words
  BY Numbers DEF Words
<1>2. buf = ShuffleBytes(a, Written(d), <<a>>)
  BY DEF ShufflePayload, Payload
<1>3. Written(d) \in Seq(Words) /\ Written(d) # <<>>
  BY WrittenDeck
<1> QED
  BY <1>1, <1>2, <1>3, ReadShuffleBack

LEMMA ShuffleReadIs ==
  ASSUME NEW a \in Seat, NEW d \in Deck
  PROVE  LET shuffle == ShuffleRead(a, Written(d), <<a>>)
         IN DeckRead(shuffle) = d /\ Last(shuffle)[1] = a /\ shuffle # <<>> /\ shuffle[1] = a
<1> DEFINE w == Written(d)
           proof == <<a>>
           tail == Append(w, proof)
           head == <<a, Cards>>
           shuffle == head \o tail
<1>1. /\ w \in Seq(Words) /\ Len(w) = Cards /\ Cards \in Nat /\ a \in Nat
      /\ \A i \in Position : w[i + 1][1] = d[i].card /\ Tail(w[i + 1]) = d[i].masks
  BY WrittenDeck, Numbers
<1>2. proof \in Words /\ proof[1] = a
  BY <1>1 DEF Words
<1> HIDE DEF w, proof
<1>3. /\ tail \in Seq(Words) /\ Len(tail) = Cards + 1 /\ tail[Cards + 1] = proof
      /\ \A k \in 1 .. Cards : tail[k] = w[k]
  BY <1>1, <1>2, AppendProperties
<1>4. head \in Seq(Nat) /\ Len(head) = 2 /\ head[1] = a
  BY <1>1
<1> HIDE DEF tail, head
<1>5. /\ Len(shuffle) = Cards + 3 /\ shuffle[1] = a
      /\ \A k \in 1 .. Cards + 1 : shuffle[k + 2] = tail[k]
  <2> DEFINE T == Nat \union Words
  <2>1. head \in Seq(T) /\ tail \in Seq(T)
    BY <1>3, <1>4, SeqMonotonic
  <2> HIDE DEF T
  <2> DEFINE k == Len(head)
             c == Len(tail)
  <2>2. /\ Len(shuffle) = k + c
        /\ \A i \in 1 .. k + c : shuffle[i] = IF i <= k THEN head[i] ELSE tail[i - k]
    BY <2>1, ConcatProperties
  <2>3. k = 2 /\ c = Cards + 1
    BY <1>3, <1>4
  <2> HIDE DEF k, c, shuffle
  <2>4. Len(shuffle) = Cards + 3
    BY <1>1, <2>2, <2>3
  <2>5. shuffle[1] = a
    <3>1. 1 \in 1 .. k + c /\ 1 <= k
      BY <1>1, <2>3
    <3> QED BY <1>4, <2>2, <3>1
  <2>6. ASSUME NEW j \in 1 .. Cards + 1 PROVE shuffle[j + 2] = tail[j]
    <3>1. j + 2 \in 1 .. k + c /\ ~(j + 2 <= k) /\ (j + 2) - k = j
      BY <1>1, <2>3
    <3> QED BY <2>2, <3>1
  <2> QED BY <2>4, <2>5, <2>6
<1>6. ShuffleRead(a, Written(d), <<a>>) = shuffle
  BY <1>1 DEF ShuffleRead, shuffle, head, tail, w, proof
<1> HIDE DEF shuffle
<1>7. Last(shuffle)[1] = a
  <2>1. Cards + 1 \in 1 .. Cards + 1 /\ (Cards + 1) + 2 = Cards + 3
    BY <1>1
  <2>2. shuffle[Cards + 3] = proof
    BY <1>3, <1>5, <2>1
  <2> QED BY <1>2, <1>5, <2>2 DEF Last
<1>8. DeckRead(shuffle) = d
  <2>1. ASSUME NEW i \in Position PROVE Masked(shuffle[i + 3][1], Tail(shuffle[i + 3])) = d[i]
    <3>1. i + 1 \in 1 .. Cards /\ i + 1 \in 1 .. Cards + 1 /\ (i + 1) + 2 = i + 3
      BY Numbers
    <3>2. shuffle[i + 3] = w[i + 1]
      BY <1>3, <1>5, <3>1
    <3>3. Masked(w[i + 1][1], Tail(w[i + 1])) = Masked(d[i].card, d[i].masks)
      BY <1>1
    <3>4. d[i] \in MaskedCard
      BY DEF Deck
    <3> QED BY <3>2, <3>3, <3>4 DEF Masked, MaskedCard
  <2>2. d \in [Position -> MaskedCard]
    BY DEF Deck
  <2> QED BY <2>1, <2>2 DEF DeckRead
<1>9. shuffle # <<>>
  <2>1. Len(shuffle) # 0
    BY <1>1, <1>5
  <2> QED BY <2>1
<1> QED
  BY <1>5, <1>6, <1>7, <1>8, <1>9

-----------------------------------------------------------------------------
(* The streets and the positions of the deck *)

\* The streets have their names, each comes behind those before it, and from what is
\* open one sees which is next.
LEMMA StreetsInOrder ==
  /\ Before(1) = {}
  /\ \A i \in 1 .. Streets + 1 : Before(i) \subseteq StreetName /\ Before(i) \subseteq Street
  /\ \A i \in 1 .. Streets :
       /\ StreetOrder[i] \in StreetName /\ StreetOrder[i] \in Street
       /\ StreetOrder[i] \notin Before(i)
       /\ Before(i + 1) = Before(i) \union {StreetOrder[i]}
  /\ \A i, j \in 1 .. Streets : StreetOrder[i] = StreetOrder[j] => i = j
  /\ \A i \in 1 .. Streets, j \in 1 .. Streets + 1 :
       Before(i) \subseteq Before(j) /\ StreetOrder[i] \notin Before(j) => i = j
  /\ \A street \in Street : \E i \in 1 .. Streets : street = StreetOrder[i]
<1>1. Streets \in 1 .. 3
  BY Numbers
<1>2. StreetOrder[1] = "flop" /\ StreetOrder[2] = "turn" /\ StreetOrder[3] = "river"
  BY DEF StreetOrder
<1>3. /\ Before(1) = {} /\ Before(2) = {"flop"} /\ Before(3) = {"flop", "turn"}
      /\ Before(4) = {"flop", "turn", "river"}
  <2>1. 1 .. 1 - 1 = {} /\ 1 .. 2 - 1 = {1} /\ 1 .. 3 - 1 = {1, 2} /\ 1 .. 4 - 1 = {1, 2, 3}
    OBVIOUS
  <2>2. \A i : Before(i) = {StreetOrder[j] : j \in 1 .. i - 1}
    BY DEF Before
  <2> QED BY <1>2, <2>1, <2>2
<1>4. Street = Before(Streets + 1)
  BY DEF Street
<1>5. CASE Streets = 1
  BY <1>2, <1>3, <1>4, <1>5 DEF StreetName
<1>6. CASE Streets = 2
  BY <1>2, <1>3, <1>4, <1>6 DEF StreetName
<1>7. CASE Streets = 3
  BY <1>2, <1>3, <1>4, <1>7 DEF StreetName
<1> QED
  BY <1>1, <1>5, <1>6, <1>7

\* Where a street's cards are: in the deck, and no card is two streets'.
LEMMA StreetPositions ==
  /\ \A i \in 1 .. Streets :
       /\ Range(BoardPositions(StreetOrder[i])) \subseteq Position
       /\ 1 \in DOMAIN BoardPositions(StreetOrder[i])
       /\ \A k \in DOMAIN BoardPositions(StreetOrder[i]) :
            BoardPositions(StreetOrder[i])[k] \in Range(BoardPositions(StreetOrder[i]))
  /\ \A i, j \in 1 .. Streets :
       Range(BoardPositions(StreetOrder[i])) \cap Range(BoardPositions(StreetOrder[j])) # {} => i = j
<1> DEFINE at(i) == BoardPositions(StreetOrder[i])
<1>1. /\ at(1) = <<2 * N + 1, 2 * N + 2, 2 * N + 3>>
      /\ at(2) = <<2 * N + 5>>
      /\ at(3) = <<2 * N + 7>>
  BY DEF BoardPositions, StreetOrder
<1> HIDE DEF at
<1>2. /\ Range(at(1)) = {2 * N + 1, 2 * N + 2, 2 * N + 3}
      /\ Range(at(2)) = {2 * N + 5}
      /\ Range(at(3)) = {2 * N + 7}
      /\ 1 \in DOMAIN at(1) /\ 1 \in DOMAIN at(2) /\ 1 \in DOMAIN at(3)
  <2>1. DOMAIN at(1) = {1, 2, 3} /\ DOMAIN at(2) = {1} /\ DOMAIN at(3) = {1}
    BY <1>1
  <2>2. /\ at(1)[1] = 2 * N + 1 /\ at(1)[2] = 2 * N + 2 /\ at(1)[3] = 2 * N + 3
        /\ at(2)[1] = 2 * N + 5 /\ at(3)[1] = 2 * N + 7
    BY <1>1
  <2> QED BY <2>1, <2>2 DEF Range
<1>3. \A i : \A k \in DOMAIN at(i) : at(i)[k] \in Range(at(i))
  BY DEF Range
<1>4. Streets \in 1 .. 3 /\ Cards >= 2 * N + 2 * Streets + 2 /\ Cards \in Nat /\ N \in 2 .. 9
      /\ Position = 0 .. Cards - 1
  BY Numbers
<1>5. \A i \in 1 .. Streets : i = 1 \/ (i = 2 /\ Streets >= 2) \/ (i = 3 /\ Streets = 3)
  BY <1>4
<1>6. \A i \in 1 .. Streets : Range(at(i)) \subseteq Position
  BY <1>2, <1>4, <1>5
<1>7. \A i, j \in 1 .. Streets : Range(at(i)) \cap Range(at(j)) # {} => i = j
  BY <1>2, <1>4, <1>5
<1> QED
  BY <1>2, <1>3, <1>5, <1>6, <1>7 DEF at

\* Where a seat's cards are: in the deck, counted from the left of the button.
LEMMA HoleAt ==
  ASSUME NEW p \in Seat
  PROVE  \E first \in 0 .. N - 1 :
           /\ HolePositions(p) = <<first, first + N>>
           /\ first = IF p > Button THEN p - (Button + 1) ELSE p + N - (Button + 1)
           /\ first \in Position /\ first + N \in Position
           /\ Range(HolePositions(p)) = {first, first + N}
<1>1. /\ N \in 2 .. 9 /\ p \in 0 .. N - 1 /\ Button \in 0 .. N - 1
      /\ Position = 0 .. Cards - 1 /\ Cards \in Nat /\ Cards >= 2 * N + 4
  BY Numbers
<1> DEFINE x == p + N - (Button + 1)
           first == IF p > Button THEN p - (Button + 1) ELSE p + N - (Button + 1)
<1>2. x \in 0 .. 17 /\ x < 2 * N /\ first = (IF x < N THEN x ELSE x - N)
  BY <1>1
<1>3. \A n \in 2 .. 9, y \in 0 .. 17 : y < 2 * n => y % n = IF y < n THEN y ELSE y - n
  OBVIOUS
<1>4. x % N = first
  <2> HIDE DEF x, first
  <2> QED BY <1>1, <1>2, <1>3
<1>5. HolePositions(p) = <<first, first + N>>
  BY <1>4 DEF HolePositions
<1>6. first \in 0 .. N - 1 /\ first \in Position /\ first + N \in Position
  BY <1>1
<1>7. Range(HolePositions(p)) = {first, first + N}
  <2>1. /\ DOMAIN HolePositions(p) = {1, 2}
        /\ HolePositions(p)[1] = first /\ HolePositions(p)[2] = first + N
    BY <1>5
  <2> HIDE DEF first
  <2> QED BY <2>1 DEF Range
<1> QED
  BY <1>5, <1>6, <1>7

LEMMA HoleType ==
  ASSUME NEW p \in Seat PROVE HolePositions(p) \in Seq(Position) /\ DOMAIN HolePositions(p) = {1, 2}
<1>1. PICK first \in 0 .. N - 1 : /\ HolePositions(p) = <<first, first + N>>
                                 /\ first \in Position /\ first + N \in Position
  BY HoleAt
<1>2. \A a, b \in Position : <<a, b>> \in Seq(Position) /\ DOMAIN <<a, b>> = {1, 2}
  OBVIOUS
<1> QED
  BY <1>1, <1>2

\* The cards at some positions of the deck.
LEMMA CardsAtType ==
  ASSUME NEW s, s.deck \in Deck, NEW positions \in Seq(Position)
  PROVE  CardsAt(s, positions) \in Seq(Position)
<1>1. \A k \in DOMAIN positions : positions[k] \in Position
  OBVIOUS
<1>2. \A x \in Position : CardAt(s, x) \in Position
  BY DEF CardAt, Deck, MaskedCard
<1>3. DOMAIN positions = 1 .. Len(positions) /\ Len(positions) \in Nat
  OBVIOUS
<1> QED
  BY <1>1, <1>2, <1>3 DEF CardsAt

\* Adding a street's cards to the board, whatever they are.
LEMMA FiveCards ==
  ASSUME NEW S, NEW a \in S, NEW b \in S, NEW c \in S, NEW d \in S, NEW e \in S
  PROVE  /\ <<a, b, c>> \in Seq(S) /\ <<a, b, c, d>> \in Seq(S)
         /\ <<>> \o <<a, b, c>> = <<a, b, c>>
         /\ <<a, b, c>> \o <<d>> = <<a, b, c, d>>
         /\ <<a, b, c, d>> \o <<e>> = <<a, b, c, d, e>>
<1>1. /\ <<a, b, c>> \in Seq(S) /\ Len(<<a, b, c>>) = 3
      /\ <<a, b, c, d>> \in Seq(S) /\ Len(<<a, b, c, d>>) = 4
      /\ <<a, b, c, d, e>> \in Seq(S) /\ Len(<<a, b, c, d, e>>) = 5
  OBVIOUS
<1>2. \A s \in Seq(S), x \in S : s \o <<x>> = Append(s, x)
  OBVIOUS
<1>3. Append(<<a, b, c>>, d) = <<a, b, c, d>>
  <2> DEFINE x == Append(<<a, b, c>>, d)
             y == <<a, b, c, d>>
  <2>1. x \in Seq(S) /\ Len(x) = 4 /\ x[4] = d /\ x[1] = a /\ x[2] = b /\ x[3] = c
    BY <1>1
  <2>2. \A i \in 1 .. 4 : x[i] = y[i]
    BY <2>1
  <2> HIDE DEF x, y
  <2> QED BY <1>1, <2>1, <2>2, SeqEqual DEF x, y
<1>4. Append(<<a, b, c, d>>, e) = <<a, b, c, d, e>>
  <2> DEFINE x == Append(<<a, b, c, d>>, e)
             y == <<a, b, c, d, e>>
  <2>1. x \in Seq(S) /\ Len(x) = 5 /\ x[5] = e /\ x[1] = a /\ x[2] = b /\ x[3] = c /\ x[4] = d
    BY <1>1
  <2>2. \A i \in 1 .. 5 : x[i] = y[i]
    BY <2>1
  <2> HIDE DEF x, y
  <2> QED BY <1>1, <2>1, <2>2, SeqEqual DEF x, y
<1>5. <<>> \o <<a, b, c>> = <<a, b, c>>
  BY <1>1
<1>6. <<a, b, c>> \o <<d>> = Append(<<a, b, c>>, d)
  BY <1>1, <1>2
<1>7. <<a, b, c, d>> \o <<e>> = Append(<<a, b, c, d>>, e)
  BY <1>1, <1>2
<1>8. <<a, b, c>> \in Seq(S) /\ <<a, b, c, d>> \in Seq(S)
  BY <1>1
<1> QED
  BY <1>3, <1>4, <1>5, <1>6, <1>7, <1>8, Zenon

\* The next street of the board.
LEMMA BoardGrows ==
  ASSUME NEW s, s.deck \in Deck
  PROVE  /\ BoardBefore(s, 1) = <<>>
         /\ \A i \in 1 .. Streets + 1 : BoardBefore(s, i) \in Seq(Position)
         /\ \A i \in 1 .. Streets :
              BoardBefore(s, i) \o CardsAt(s, BoardPositions(StreetOrder[i])) = BoardBefore(s, i + 1)
<1> DEFINE card(x) == CardAt(s, x)
           at(j) == card(BoardSlot(j))
<1>1. /\ BoardSlot(1) = 2 * N + 1 /\ BoardSlot(2) = 2 * N + 2 /\ BoardSlot(3) = 2 * N + 3
      /\ BoardSlot(4) = 2 * N + 5 /\ BoardSlot(5) = 2 * N + 7
  BY Numbers DEF BoardSlot
<1>2. \A x \in Position : card(x) \in Position
  BY DEF CardAt, Deck, MaskedCard
<1>3. /\ Streets \in 1 .. 3 /\ Cards >= 2 * N + 2 * Streets + 2 /\ Cards \in Nat /\ N \in 2 .. 9
      /\ Position = 0 .. Cards - 1
  BY Numbers
<1>4. \A i : BoardBefore(s, i) = [j \in 1 .. BoardSize(i) |-> at(j)]
  BY DEF BoardBefore
<1>5. BoardSize(1) = 0 /\ BoardSize(2) = 3 /\ BoardSize(3) = 4 /\ BoardSize(4) = 5
  BY DEF BoardSize
<1>6. /\ CardsAt(s, BoardPositions("flop")) = <<at(1), at(2), at(3)>>
      /\ CardsAt(s, BoardPositions("turn")) = <<at(4)>>
      /\ CardsAt(s, BoardPositions("river")) = <<at(5)>>
  BY <1>1 DEF CardsAt, BoardPositions
<1> HIDE DEF card
<1>7. /\ 2 * N + 1 \in Position /\ 2 * N + 2 \in Position /\ 2 * N + 3 \in Position
      /\ Streets >= 2 => 2 * N + 5 \in Position
      /\ Streets >= 3 => 2 * N + 7 \in Position
  BY <1>3
<1>8. /\ at(1) \in Position /\ at(2) \in Position /\ at(3) \in Position
      /\ Streets >= 2 => at(4) \in Position
      /\ Streets >= 3 => at(5) \in Position
  BY <1>1, <1>2, <1>7
<1> HIDE DEF at
<1>9. BoardBefore(s, 1) = <<>> /\ BoardBefore(s, 2) = <<at(1), at(2), at(3)>>
  <2>1. BoardBefore(s, 1) = [j \in 1 .. 0 |-> at(j)] /\ BoardBefore(s, 2) = [j \in 1 .. 3 |-> at(j)]
    BY <1>4, <1>5
  <2> QED BY <2>1
<1>10. /\ BoardBefore(s, 3) = <<at(1), at(2), at(3), at(4)>>
       /\ BoardBefore(s, 4) = <<at(1), at(2), at(3), at(4), at(5)>>
  <2>1. BoardBefore(s, 3) = [j \in 1 .. 4 |-> at(j)] /\ BoardBefore(s, 4) = [j \in 1 .. 5 |-> at(j)]
    BY <1>4, <1>5
  <2> QED BY <2>1
<1>11. StreetOrder[1] = "flop" /\ StreetOrder[2] = "turn" /\ StreetOrder[3] = "river"
  BY DEF StreetOrder
<1> DEFINE a == at(1)
           b == at(2)
           c == at(3)
           d == at(4)
           e == at(5)
<1>12. /\ BoardBefore(s, 1) = <<>> /\ BoardBefore(s, 2) = <<a, b, c>>
       /\ BoardBefore(s, 3) = <<a, b, c, d>> /\ BoardBefore(s, 4) = <<a, b, c, d, e>>
       /\ CardsAt(s, BoardPositions(StreetOrder[1])) = <<a, b, c>>
       /\ CardsAt(s, BoardPositions(StreetOrder[2])) = <<d>>
       /\ CardsAt(s, BoardPositions(StreetOrder[3])) = <<e>>
       /\ a \in Position /\ b \in Position /\ c \in Position
       /\ Streets >= 2 => d \in Position
       /\ Streets >= 3 => e \in Position
  BY <1>6, <1>8, <1>9, <1>10, <1>11
<1> HIDE DEF a, b, c, d, e
<1>13. \A i \in 1 .. Streets + 1 : BoardBefore(s, i) \in Seq(Position)
  <2>1. <<>> \in Seq(Position) /\ <<a, b, c>> \in Seq(Position)
    BY <1>12
  <2>2. Streets >= 2 => <<a, b, c, d>> \in Seq(Position)
    BY <1>12
  <2>3. Streets >= 3 => <<a, b, c, d, e>> \in Seq(Position)
    BY <1>3, <1>12
  <2>4. \A i \in 1 .. Streets + 1 : i = 1 \/ i = 2 \/ (i = 3 /\ Streets >= 2) \/ (i = 4 /\ Streets >= 3)
    BY <1>3
  <2> QED BY <1>12, <2>1, <2>2, <2>3, <2>4
<1>14. /\ <<>> \o <<a, b, c>> = <<a, b, c>>
       /\ <<a, b, c>> \o <<d>> = <<a, b, c, d>>
       /\ <<a, b, c, d>> \o <<e>> = <<a, b, c, d, e>>
  <2> DEFINE S == {a, b, c, d, e}
  <2>1. a \in S /\ b \in S /\ c \in S /\ d \in S /\ e \in S
    OBVIOUS
  <2> HIDE DEF S
  <2> QED BY <2>1, FiveCards
<1>15. ASSUME NEW i \in 1 .. Streets
       PROVE  BoardBefore(s, i) \o CardsAt(s, BoardPositions(StreetOrder[i])) = BoardBefore(s, i + 1)
  <2>1. CASE i = 1
    <3>1. i + 1 = 2
      BY <2>1
    <3> QED BY <1>12, <1>14, <2>1, <3>1
  <2>2. CASE i = 2
    <3>1. i + 1 = 3
      BY <2>2
    <3> QED BY <1>12, <1>14, <2>2, <3>1
  <2>3. CASE i = 3
    <3>1. i + 1 = 4
      BY <2>3
    <3> QED BY <1>12, <1>14, <2>3, <3>1
  <2> QED BY <1>3, <2>1, <2>2, <2>3
<1> QED
  BY <1>12, <1>13, <1>15

-----------------------------------------------------------------------------
(* What a replica does keeps it sound *)

KeyPairs == {<<seat, KeyOf(seat)>> : seat \in Seat}

\* When as many seats have announced a key as there are, all of them have.
LEMMA AllAnnounced ==
  ASSUME NEW announced \in SUBSET KeyPairs, Cardinality(announced) = N
  PROVE  announced = KeyPairs /\ {a[2] : a \in announced} = Keys
<1> DEFINE pair == [seat \in Seat |-> <<seat, KeyOf(seat)>>]
<1>1. IsFiniteSet(Seat) /\ Cardinality(Seat) = N
  <2>1. 0 \in Int /\ N - 1 \in Int /\ Seat = 0 .. N - 1 /\ ~(0 > N - 1) /\ (N - 1) - 0 + 1 = N
    BY Numbers
  <2> QED BY <2>1, FS_Interval
<1>2. pair \in Bijection(Seat, KeyPairs)
  <2>1. pair \in [Seat -> KeyPairs]
    BY DEF KeyPairs
  <2>2. \A a, b \in Seat : pair[a] = pair[b] => a = b
    OBVIOUS
  <2>3. \A k \in KeyPairs : \E a \in Seat : pair[a] = k
    BY DEF KeyPairs
  <2> HIDE DEF pair
  <2> QED BY <2>1, <2>2, <2>3 DEF Bijection, Injection, Surjection, IsInjective
<1>3. IsFiniteSet(KeyPairs) /\ Cardinality(KeyPairs) = N
  <2>1. ExistsBijection(Seat, KeyPairs)
    BY <1>2 DEF ExistsBijection
  <2> QED BY <1>1, <2>1, FS_Bijection
<1>4. announced = KeyPairs
  BY <1>3, FS_Subset
<1>5. {a[2] : a \in KeyPairs} = Keys
  <2>1. \A a \in KeyPairs : a[2] \in Keys
    BY DEF KeyPairs, Keys
  <2>2. \A k \in Keys : \E a \in KeyPairs : k = a[2]
    <3>1. \A seat \in Seat : \E a \in KeyPairs : KeyOf(seat) = a[2]
      <4>1. \A seat \in Seat : <<seat, KeyOf(seat)>> \in KeyPairs /\ <<seat, KeyOf(seat)>>[2] = KeyOf(seat)
        BY DEF KeyPairs
      <4> QED BY <4>1
    <3> QED BY <3>1 DEF Keys
  <2> QED BY <2>1, <2>2
<1> QED
  BY <1>4, <1>5

\* The masks in seat order, and one more.
LEMMA OrderIsMasks ==
  ASSUME NEW k \in 0 .. N
  PROVE  Order(k) \in Seq(Seat) /\ (k < N => Append(Order(k), k) = Order(k + 1))
<1>1. k \in Nat /\ \A j \in 1 .. k : j - 1 \in Seat
  BY Numbers
<1>2. Order(k) \in Seq(Seat) /\ Len(Order(k)) = k
  BY <1>1 DEF Order
<1>3. Append(Order(k), k) = Order(k + 1)
  BY <1>1, <1>2 DEF Order
<1> QED
  BY <1>2, <1>3

\* The open deck has no shuffle yet.
LEMMA OpenDeckMixed == OpenDeck \in Mixed(0)
<1>1. Order(0) = <<>>
  BY DEF Order
<1>2. <<>> \in Seq(Seat)
  OBVIOUS
<1> QED
  BY <1>1, <1>2 DEF OpenDeck, Mixed, Deck, MaskedCard, Masked

\* A shuffle is a deck with one more mask on every card.
LEMMA RemaskMixes ==
  ASSUME NEW k \in Seat, NEW d \in Mixed(k), NEW perm \in Rearrangements
  PROVE  Remask(d, perm, k) \in Mixed(k + 1)
<1>1. Append(Order(k), k) = Order(k + 1) /\ Order(k + 1) \in Seq(Seat)
  <2>1. k \in 0 .. N /\ k + 1 \in 0 .. N /\ k < N
    BY Numbers
  <2> QED BY <2>1, OrderIsMasks
<1>2. \A i \in Position : perm[i] \in Position
  BY DeckConstants
<1>3. \A i \in Position : d[i].card \in Position /\ d[i].masks = Order(k)
  BY DEF Mixed, Deck, MaskedCard
<1>4. \A i \in Position : /\ d[perm[i]].card \in Position
                          /\ Append(d[perm[i]].masks, k) = Order(k + 1)
  BY <1>1, <1>2, <1>3
<1>5. Remask(d, perm, k) = [i \in Position |-> Masked(d[perm[i]].card, Order(k + 1))]
  BY <1>4 DEF Remask
<1> QED
  BY <1>1, <1>4, <1>5 DEF Mixed, Deck, MaskedCard, Masked

\* A shuffle one verifies has the next mask, in the order of the seats.
LEMMA VerifiedMixes ==
  ASSUME NEW k \in 0 .. N - 1, NEW d \in Mixed(k), NEW a \in Seat, NEW new \in Mixed(a + 1),
         IsShuffle(d, new, a)
  PROVE  a = k
<1>1. 0 \in Position /\ k \in Nat /\ a \in Nat /\ k \in 0 .. N
  BY Numbers
<1>2. d[0].masks = Order(k) /\ new[0].masks = Order(a + 1)
  BY <1>1 DEF Mixed
<1>3. Order(a + 1) = Append(Order(k), a)
  BY <1>1, <1>2 DEF IsShuffle
<1>4. Len(Order(k)) = k /\ Len(Order(a + 1)) = a + 1 /\ Order(k) \in Seq(Seat)
  <2>1. \A n \in Nat : Len(Order(n)) = n
    BY DEF Order
  <2> QED BY <1>1, <2>1, OrderIsMasks
<1>5. Len(Append(Order(k), a)) = k + 1
  BY <1>4
<1> QED
  BY <1>1, <1>3, <1>4, <1>5

\* A key taken in: the replica stays sound, and its deck is there with the last key.
LEMMA AddKeyKeeps ==
  ASSUME NEW p \in Seat, NEW s, Sound(p, s), NEW a \in Seat
  PROVE  /\ Sound(p, AddKey(s, a, KeyOf(a)))
         /\ AddKey(s, a, KeyOf(a)).shuffles = s.shuffles
         /\ \/ AddKey(s, a, KeyOf(a)).deck = s.deck
            \/ s.deck = <<>> /\ AddKey(s, a, KeyOf(a)).deck = OpenDeck
         /\ AddKey(s, a, KeyOf(a)).localHole = s.localHole
         /\ AddKey(s, a, KeyOf(a)).shown = s.shown
         /\ AddKey(s, a, KeyOf(a)).board = s.board
<1> DEFINE announced == s.announced \union {<<a, KeyOf(a)>>}
           t == [s EXCEPT !.announced = announced]
           u == [t EXCEPT !.aggregate = {b[2] : b \in t.announced}, !.deck = OpenDeck]
<1>1. s \in Replica /\ Decked(s) /\ GivesInOrder(p, s) /\ s.announced \subseteq KeyPairs
  BY DEF Sound, Replica, KeyPairs
<1>2. announced \in SUBSET KeyPairs
  BY <1>1 DEF KeyPairs
<1> HIDE DEF announced
<1>3. /\ t \in Replica /\ t.announced = announced /\ t.deck = s.deck /\ t.shuffles = s.shuffles
      /\ t.aggregate = s.aggregate /\ t.localHole = s.localHole /\ t.board = s.board
      /\ t.done = s.done /\ t.shown = s.shown /\ t.community = s.community /\ t.gave = s.gave
  BY <1>1, <1>2 DEF Replica, KeyPairs
<1>4. AddKey(s, a, KeyOf(a)) = IF Phase(t) = "Keygen" /\ AllKeysIn(t) THEN u ELSE t
  BY DEF AddKey, FinalizeKeys, t, announced, u
<1>5. Phase(t) = Phase(s)
  BY <1>3 DEF Phase
<1>6. Sound(p, t)
  <2>1. Decked(t)
    BY <1>1, <1>3 DEF Decked
  <2>2. GivesInOrder(p, t)
    BY <1>1, <1>3 DEF GivesInOrder
  <2>3. IF Phase(t) = "Ready" THEN Opened(p, t) ELSE Closed(t)
    BY <1>3, <1>5 DEF Sound, Opened, Closed, CardsAt, CardAt, BoardBefore
  <2> QED BY <1>3, <2>1, <2>2, <2>3 DEF Sound
<1>7. CASE Phase(t) = "Keygen" /\ AllKeysIn(t)
  <2>1. announced = KeyPairs /\ {b[2] : b \in t.announced} = Keys
    BY <1>2, <1>3, <1>7, AllAnnounced DEF AllKeysIn
  <2>2. s.aggregate = {} /\ s.shuffles = 0 /\ s.deck = <<>>
    BY <1>1, <1>5, <1>7 DEF Phase, Decked
  <2>3. OpenDeck \in Mixed(0) /\ OpenDeck \in Deck
    BY OpenDeckMixed DEF Mixed
  <2>4. Keys # {} /\ N # 0 /\ 0 < N
    BY Numbers
  <2> HIDE DEF t
  <2>5. /\ u \in Replica /\ u.announced = announced /\ u.deck = OpenDeck /\ u.shuffles = 0
        /\ u.aggregate = Keys /\ u.localHole = t.localHole /\ u.board = t.board
        /\ u.done = t.done /\ u.shown = t.shown /\ u.community = t.community /\ u.gave = t.gave
    BY <1>3, <2>1, <2>2, <2>3 DEF Replica
  <2> HIDE DEF u
  <2>6. Phase(u) = "Shuffle" /\ Phase(t) # "Ready"
    BY <1>7, <2>4, <2>5 DEF Phase
  <2>7. Decked(u)
    BY <2>3, <2>4, <2>5 DEF Decked
  <2>8. GivesInOrder(p, u)
    BY <1>6, <2>5 DEF Sound, GivesInOrder
  <2>9. Closed(u)
    BY <1>6, <2>5, <2>6 DEF Sound, Closed
  <2>10. Sound(p, u)
    BY <2>5, <2>6, <2>7, <2>8, <2>9 DEF Sound
  <2> QED BY <1>3, <1>4, <1>7, <2>2, <2>5, <2>10
<1>8. CASE ~(Phase(t) = "Keygen" /\ AllKeysIn(t))
  <2> HIDE DEF t, u
  <2> QED BY <1>3, <1>4, <1>6, <1>8
<1> QED
  BY <1>7, <1>8

\* The flag of one's own key, or of a round that is no street.
LEMMA GaveKeeps ==
  ASSUME NEW p \in Seat, NEW s, Sound(p, s), NEW round \in {"key", "hole", "showdown"}
  PROVE  Sound(p, [s EXCEPT !.gave = @ \union {round}])
<1> DEFINE gave == s.gave \union {round}
           t == [s EXCEPT !.gave = gave]
<1>1. s \in Replica /\ Decked(s) /\ GivesInOrder(p, s)
  BY DEF Sound
<1>2. gave \in SUBSET ({"key", "hole", "showdown"} \union StreetName)
  BY <1>1 DEF Replica
<1>3. \A i \in 1 .. Streets : StreetOrder[i] \in gave <=> StreetOrder[i] \in s.gave
  BY StreetsInOrder DEF StreetName
<1> HIDE DEF gave
<1>4. /\ t \in Replica /\ t.deck = s.deck /\ t.shuffles = s.shuffles /\ t.gave = gave
      /\ t.aggregate = s.aggregate /\ t.localHole = s.localHole /\ t.board = s.board
      /\ t.done = s.done /\ t.shown = s.shown /\ t.community = s.community
  BY <1>1, <1>2 DEF Replica
<1>5. Phase(t) = Phase(s) /\ [s EXCEPT !.gave = @ \union {round}] = t
  BY <1>4 DEF Phase, t, gave
<1> HIDE DEF t
<1>6. Decked(t)
  BY <1>1, <1>4 DEF Decked
<1>7. GivesInOrder(p, t)
  BY <1>1, <1>3, <1>4 DEF GivesInOrder
<1>8. IF Phase(t) = "Ready" THEN Opened(p, t) ELSE Closed(t)
  BY <1>4, <1>5 DEF Sound, Opened, Closed, CardsAt, CardAt, BoardBefore
<1> QED
  BY <1>4, <1>5, <1>6, <1>7, <1>8 DEF Sound

\* A street one gives one's tokens for, those before it being open.
LEMMA GaveStreetKeeps ==
  ASSUME NEW p \in Seat, NEW s, Sound(p, s), NEW i \in 1 .. Streets, s.done = Before(i)
  PROVE  Sound(p, [s EXCEPT !.gave = @ \union {StreetOrder[i]}])
<1> DEFINE gave == s.gave \union {StreetOrder[i]}
           t == [s EXCEPT !.gave = gave]
<1>1. s \in Replica /\ Decked(s) /\ GivesInOrder(p, s)
  BY DEF Sound
<1>2. gave \in SUBSET ({"key", "hole", "showdown"} \union StreetName)
  BY <1>1, StreetsInOrder DEF Replica
<1>3. \A j \in 1 .. Streets : StreetOrder[j] \in gave => StreetOrder[j] \in s.gave \/ j = i
  BY StreetsInOrder
<1>4. s.gave \subseteq gave
  OBVIOUS
<1> HIDE DEF gave
<1>5. /\ t \in Replica /\ t.deck = s.deck /\ t.shuffles = s.shuffles /\ t.gave = gave
      /\ t.aggregate = s.aggregate /\ t.localHole = s.localHole /\ t.board = s.board
      /\ t.done = s.done /\ t.shown = s.shown /\ t.community = s.community
  BY <1>1, <1>2 DEF Replica
<1>6. Phase(t) = Phase(s) /\ [s EXCEPT !.gave = @ \union {StreetOrder[i]}] = t
  BY <1>5 DEF Phase, t, gave
<1> HIDE DEF t
<1>7. Decked(t)
  BY <1>1, <1>5 DEF Decked
<1>8. GivesInOrder(p, t)
  BY <1>1, <1>3, <1>4, <1>5 DEF GivesInOrder
<1>9. IF Phase(t) = "Ready" THEN Opened(p, t) ELSE Closed(t)
  BY <1>5, <1>6 DEF Sound, Opened, Closed, CardsAt, CardAt, BoardBefore
<1> QED
  BY <1>5, <1>6, <1>7, <1>8, <1>9 DEF Sound

\* A shuffle applied: nothing is open yet.
LEMMA ShuffledKeeps ==
  ASSUME NEW p \in Seat, NEW s, Sound(p, s), Phase(s) = "Shuffle",
         NEW new \in Mixed(s.shuffles + 1)
  PROVE  /\ Sound(p, [s EXCEPT !.deck = new, !.shuffles = @ + 1])
         /\ [s EXCEPT !.deck = new, !.shuffles = @ + 1].deck = new
         /\ [s EXCEPT !.deck = new, !.shuffles = @ + 1].shuffles = s.shuffles + 1
<1> DEFINE t == [s EXCEPT !.deck = new, !.shuffles = @ + 1]
<1>1. s \in Replica /\ Decked(s) /\ GivesInOrder(p, s) /\ Closed(s)
  BY DEF Sound
<1>2. s.aggregate # {} /\ s.shuffles \in 0 .. N /\ s.shuffles < N
  BY <1>1 DEF Phase, Replica
<1>3. s.shuffles + 1 \in 0 .. N /\ s.shuffles + 1 # 0 /\ new \in Deck
  <2>1. N \in Nat
    BY Numbers
  <2>2. s.shuffles + 1 \in 0 .. N /\ s.shuffles + 1 # 0
    BY <1>2, <2>1
  <2> QED BY <2>2 DEF Mixed
<1>4. /\ t \in Replica /\ t.deck = new /\ t.shuffles = s.shuffles + 1 /\ t.gave = s.gave
      /\ t.aggregate = s.aggregate /\ t.localHole = s.localHole /\ t.board = s.board
      /\ t.done = s.done /\ t.shown = s.shown /\ t.community = s.community
  BY <1>1, <1>3 DEF Replica
<1> HIDE DEF t
<1>5. Decked(t)
  BY <1>2, <1>3, <1>4 DEF Decked
<1>6. GivesInOrder(p, t)
  BY <1>1, <1>4 DEF GivesInOrder
<1>7. Closed(t)
  BY <1>1, <1>4 DEF Closed
<1>8. Opened(p, t)
  <2>1. 1 \in 1 .. Streets + 1 /\ Before(1) = {}
    BY Numbers, StreetsInOrder
  <2>2. BoardBefore(t, 1) = <<>>
    BY <1>3, <1>4, BoardGrows
  <2> QED BY <1>7, <2>1, <2>2 DEF Closed, Opened
<1>9. Sound(p, t)
  BY <1>4, <1>5, <1>6, <1>7, <1>8 DEF Sound
<1> QED
  BY <1>4, <1>9 DEF t

\* What the later replica has kept of the earlier one.
Keeps(s, t) ==
  /\ t.announced = s.announced /\ t.aggregate = s.aggregate
  /\ t.deck = s.deck /\ t.shuffles = s.shuffles /\ t.gave = s.gave
  /\ s.localHole # <<>> => t.localHole = s.localHole
  /\ \A o \in Seat : s.shown[o] # <<>> => t.shown[o] = s.shown[o]
  /\ s.done \subseteq t.done

LEMMA KeepsOn ==
  ASSUME NEW s, NEW t, NEW u, Keeps(s, t), Keeps(t, u) PROVE Keeps(s, u)
BY DEF Keeps

\* A hand of one's own that opens.
LEMMA OpenLocalHoleKeeps ==
  ASSUME NEW p \in Seat, NEW s, Sound(p, s), Phase(s) = "Ready"
  PROVE  Sound(p, OpenLocalHole(p, s)) /\ Keeps(s, OpenLocalHole(p, s))
<1> DEFINE cards == CardsAt(s, HolePositions(p))
           t == [s EXCEPT !.localHole = cards]
<1>1. s \in Replica /\ Decked(s) /\ GivesInOrder(p, s) /\ Opened(p, s)
  BY DEF Sound
<1>2. s.deck \in Deck
  BY <1>1 DEF Phase, Decked, Mixed
<1>3. cards \in Seq(Position)
  <2>1. HolePositions(p) \in Seq(Position)
    BY HoleType
  <2> QED BY <1>2, <2>1, CardsAtType
<1>4. (OpenLocalHole(p, s) = t /\ s.localHole = <<>>) \/ OpenLocalHole(p, s) = s
  BY DEF OpenLocalHole
<1> HIDE DEF cards
<1>5. /\ t \in Replica /\ t.deck = s.deck /\ t.shuffles = s.shuffles /\ t.gave = s.gave
      /\ t.aggregate = s.aggregate /\ t.localHole = cards /\ t.board = s.board
      /\ t.done = s.done /\ t.shown = s.shown /\ t.community = s.community
      /\ t.announced = s.announced
  BY <1>1, <1>3 DEF Replica
<1> HIDE DEF t
<1>6. Decked(t) /\ Phase(t) = "Ready"
  BY <1>1, <1>5 DEF Decked, Phase
<1>7. GivesInOrder(p, t)
  BY <1>1, <1>5 DEF GivesInOrder
<1>8. Opened(p, t)
  BY <1>1, <1>5 DEF Opened, CardsAt, CardAt, BoardBefore, cards
<1>9. Sound(p, t)
  BY <1>5, <1>6, <1>7, <1>8 DEF Sound
<1> QED
  BY <1>4, <1>5, <1>9 DEF Keeps

\* A hand that is shown.
LEMMA OpenShownKeeps ==
  ASSUME NEW p \in Seat, NEW s, Sound(p, s), Phase(s) = "Ready", NEW owner
  PROVE  Sound(p, OpenShown(s, owner)) /\ Keeps(s, OpenShown(s, owner))
<1> DEFINE cards == CardsAt(s, HolePositions(owner))
           shown == [s.shown EXCEPT ![owner] = cards]
           t == [s EXCEPT !.shown = shown]
<1>1. s \in Replica /\ Decked(s) /\ GivesInOrder(p, s) /\ Opened(p, s)
  BY DEF Sound
<1>2. s.deck \in Deck /\ s.shown \in [Seat -> Seq(Position)]
  BY <1>1 DEF Phase, Decked, Mixed, Replica
<1>3. owner \in Seat => cards \in Seq(Position)
  <2>1. owner \in Seat => HolePositions(owner) \in Seq(Position)
    BY HoleType
  <2> QED BY <1>2, <2>1, CardsAtType
<1>4. (OpenShown(s, owner) = t /\ s.shown[owner] = <<>>) \/ OpenShown(s, owner) = s
  BY DEF OpenShown
<1> HIDE DEF cards
<1>5. /\ shown \in [Seat -> Seq(Position)]
      /\ \A o \in Seat : shown[o] = IF o = owner THEN cards ELSE s.shown[o]
  BY <1>2, <1>3
<1> HIDE DEF shown
<1>6. /\ t \in Replica /\ t.deck = s.deck /\ t.shuffles = s.shuffles /\ t.gave = s.gave
      /\ t.aggregate = s.aggregate /\ t.localHole = s.localHole /\ t.board = s.board
      /\ t.done = s.done /\ t.shown = shown /\ t.community = s.community
      /\ t.announced = s.announced
  BY <1>1, <1>5 DEF Replica
<1> HIDE DEF t
<1>7. Decked(t) /\ Phase(t) = "Ready"
  BY <1>1, <1>6 DEF Decked, Phase
<1>8. GivesInOrder(p, t)
  BY <1>1, <1>6 DEF GivesInOrder
<1>9. Opened(p, t)
  <2>1. \A positions : CardsAt(t, positions) = CardsAt(s, positions)
    BY <1>6 DEF CardsAt, CardAt
  <2>2. \A i : BoardBefore(t, i) = BoardBefore(s, i)
    BY <1>6 DEF BoardBefore, CardAt
  <2>3. \A o \in Seat : t.shown[o] \in {<<>>, CardsAt(t, HolePositions(o))}
    BY <1>1, <1>5, <1>6, <2>1 DEF Opened, cards
  <2> QED BY <1>1, <1>6, <2>1, <2>2, <2>3 DEF Opened
<1>10. Sound(p, t)
  BY <1>6, <1>7, <1>8, <1>9 DEF Sound
<1>11. s.shown[owner] = <<>> => Keeps(s, t)
  BY <1>5, <1>6 DEF Keeps
<1>12. Keeps(s, s)
  BY DEF Keeps
<1> QED
  BY <1>4, <1>10, <1>11, <1>12

\* A street that opens: one gave one's tokens for it, so those before it are open.
LEMMA OpenStreetKeeps ==
  ASSUME NEW p \in Seat, NEW s, Sound(p, s), Phase(s) = "Ready", NEW i \in 1 .. Streets
  PROVE  /\ Sound(p, OpenStreet(s, StreetOrder[i]))
         /\ Keeps(s, OpenStreet(s, StreetOrder[i]))
<1> DEFINE street == StreetOrder[i]
           positions == BoardPositions(street)
           board == s.board \o CardsAt(s, positions)
           done == s.done \union {street}
           t == [s EXCEPT !.board = board, !.done = done]
           Opens == street \notin s.done /\ \A k \in DOMAIN positions :
                      Unmasks(s, positions[k], At(s.community, positions[k]))
<1>1. s \in Replica /\ Decked(s) /\ GivesInOrder(p, s) /\ Opened(p, s)
  BY DEF Sound
<1>2. s.deck \in Deck /\ s.aggregate = Keys
  BY <1>1 DEF Phase, Decked, Mixed, Replica
<1>3. OpenStreet(s, street) = IF Opens THEN t ELSE s
  BY DEF OpenStreet
<1>4. Keeps(s, s)
  BY DEF Keeps
<1>5. CASE Opens
  <2>1. PICK j \in 1 .. Streets + 1 : s.done = Before(j) /\ s.board = BoardBefore(s, j)
    BY <1>1 DEF Opened
  <2>2. street \in s.gave
    <3>1. 1 \in DOMAIN positions /\ positions[1] \in Range(positions)
      BY StreetPositions
    <3>2. At(s.community, positions[1]) = {Token(k, s.deck[positions[1]]) : k \in Keys}
      BY <1>2, <1>5, <3>1 DEF Unmasks
    <3>3. Token(KeyOf(p), s.deck[positions[1]]) \in At(s.community, positions[1])
      BY <3>2, Numbers
    <3>4. PICK u \in s.community : /\ u.position = positions[1]
                                   /\ u.token = Token(KeyOf(p), s.deck[positions[1]])
      BY <3>3 DEF At
    <3>5. u.token.key = KeyOf(p)
      BY <3>4 DEF Token
    <3> QED BY <1>1, <3>1, <3>4, <3>5 DEF GivesInOrder
  <2>3. Before(i) \subseteq Before(j) /\ street \notin Before(j)
    BY <1>1, <1>5, <2>1, <2>2 DEF GivesInOrder
  <2>4. i = j
    BY <2>3, StreetsInOrder
  <2>5. board = BoardBefore(s, i + 1) /\ done = Before(i + 1)
    BY <1>2, <2>1, <2>4, BoardGrows, StreetsInOrder
  <2>6. i + 1 \in 1 .. Streets + 1
    BY Numbers
  <2>7. board \in Seq(Position) /\ done \in SUBSET StreetName
    BY <1>2, <2>5, <2>6, BoardGrows, StreetsInOrder
  <2>8. s.done \subseteq done
    OBVIOUS
  <2> HIDE DEF board, done, Opens
  <2>9. /\ t \in Replica /\ t.deck = s.deck /\ t.shuffles = s.shuffles /\ t.gave = s.gave
        /\ t.aggregate = s.aggregate /\ t.localHole = s.localHole /\ t.board = board
        /\ t.done = done /\ t.shown = s.shown /\ t.community = s.community
        /\ t.announced = s.announced
    BY <1>1, <2>7 DEF Replica
  <2> HIDE DEF t
  <2>10. Decked(t) /\ Phase(t) = "Ready"
    BY <1>1, <2>9 DEF Decked, Phase
  <2>11. GivesInOrder(p, t)
    BY <1>1, <2>8, <2>9 DEF GivesInOrder
  <2>12. Opened(p, t)
    <3>1. \A c : CardsAt(t, c) = CardsAt(s, c)
      BY <2>9 DEF CardsAt, CardAt
    <3>2. \A k : BoardBefore(t, k) = BoardBefore(s, k)
      BY <2>9 DEF BoardBefore, CardAt
    <3>3. t.done = Before(i + 1) /\ t.board = BoardBefore(t, i + 1)
      BY <2>5, <2>9, <3>2
    <3> QED BY <1>1, <2>6, <2>9, <3>1, <3>3 DEF Opened
  <2>13. Sound(p, t)
    BY <2>9, <2>10, <2>11, <2>12 DEF Sound
  <2>14. Keeps(s, t)
    BY <2>8, <2>9 DEF Keeps
  <2> QED BY <1>3, <1>5, <2>13, <2>14
<1>6. CASE ~Opens
  BY <1>3, <1>4, <1>6
<1> QED
  BY <1>5, <1>6

\* Tokens of one's own come into a street only when one has given them.
OwnBatch(p, s, round, batch) ==
  \A t \in batch : t.token.key = KeyOf(p) =>
    round \in s.gave /\ t.position \in Range(BoardPositions(round))

\* A batch of tokens taken in: what opens is what the deck has.
LEMMA CollectKeeps ==
  ASSUME NEW p \in Seat, NEW s, Sound(p, s), Phase(s) = "Ready", NEW round \in Round,
         NEW batch \in Tokens, round \in Street => OwnBatch(p, s, round, batch)
  PROVE  Sound(p, Collect(p, s, round, batch)) /\ Keeps(s, Collect(p, s, round, batch))
<1>1. s \in Replica /\ Decked(s) /\ GivesInOrder(p, s) /\ Opened(p, s)
  BY DEF Sound
<1>2. /\ s.hole \in Tokens /\ s.community \in Tokens /\ s.showdown \in Tokens
      /\ s.hole \union batch \in Tokens /\ s.community \union batch \in Tokens
      /\ s.showdown \union batch \in Tokens
  BY <1>1 DEF Replica, Tokens
<1>3. ASSUME NEW t \in Replica, t.deck = s.deck, t.shuffles = s.shuffles, t.gave = s.gave,
             t.aggregate = s.aggregate, t.localHole = s.localHole, t.board = s.board,
             t.done = s.done, t.shown = s.shown, t.announced = s.announced,
             GivesInOrder(p, t)
      PROVE  Sound(p, t) /\ Keeps(s, t) /\ Phase(t) = "Ready"
  <2>1. Decked(t) /\ Phase(t) = "Ready"
    BY <1>1, <1>3 DEF Decked, Phase
  <2>2. Opened(p, t)
    BY <1>1, <1>3 DEF Opened, CardsAt, CardAt, BoardBefore
  <2> QED BY <1>3, <2>1, <2>2 DEF Sound, Keeps
<1>4. CASE round = "hole"
  <2> DEFINE tokens == s.hole \union batch
             t == [s EXCEPT !.hole = tokens]
  <2>1. Collect(p, s, round, batch) = OpenLocalHole(p, t)
    BY <1>4 DEF Collect
  <2>2. tokens \in Tokens
    BY <1>2
  <2> HIDE DEF tokens
  <2>3. /\ t \in Replica /\ t.deck = s.deck /\ t.shuffles = s.shuffles /\ t.gave = s.gave
        /\ t.aggregate = s.aggregate /\ t.localHole = s.localHole /\ t.board = s.board
        /\ t.done = s.done /\ t.shown = s.shown /\ t.announced = s.announced
        /\ t.community = s.community
    BY <1>1, <2>2 DEF Replica
  <2> HIDE DEF t
  <2>4. GivesInOrder(p, t)
    BY <1>1, <2>3 DEF GivesInOrder
  <2>5. Sound(p, t) /\ Keeps(s, t) /\ Phase(t) = "Ready"
    BY <1>3, <2>3, <2>4
  <2>6. Sound(p, OpenLocalHole(p, t)) /\ Keeps(t, OpenLocalHole(p, t))
    BY <2>5, OpenLocalHoleKeeps
  <2> QED BY <2>1, <2>5, <2>6, KeepsOn
<1>5. CASE round = "showdown"
  <2> DEFINE tokens == s.showdown \union batch
             owner == HoleOwner((CHOOSE t \in batch : TRUE).position)
             t == [s EXCEPT !.showdown = tokens]
  <2>1. Collect(p, s, round, batch) = OpenShown(t, owner)
    BY <1>5 DEF Collect
  <2>2. tokens \in Tokens
    BY <1>2
  <2> HIDE DEF tokens, owner
  <2>3. /\ t \in Replica /\ t.deck = s.deck /\ t.shuffles = s.shuffles /\ t.gave = s.gave
        /\ t.aggregate = s.aggregate /\ t.localHole = s.localHole /\ t.board = s.board
        /\ t.done = s.done /\ t.shown = s.shown /\ t.announced = s.announced
        /\ t.community = s.community
    BY <1>1, <2>2 DEF Replica
  <2> HIDE DEF t
  <2>4. GivesInOrder(p, t)
    BY <1>1, <2>3 DEF GivesInOrder
  <2>5. Sound(p, t) /\ Keeps(s, t) /\ Phase(t) = "Ready"
    BY <1>3, <2>3, <2>4
  <2>6. Sound(p, OpenShown(t, owner)) /\ Keeps(t, OpenShown(t, owner))
    BY <2>5, OpenShownKeeps
  <2> QED BY <2>1, <2>5, <2>6, KeepsOn
<1>6. CASE round \in Street
  <2> DEFINE tokens == s.community \union batch
             t == [s EXCEPT !.community = tokens]
  <2>1. PICK i \in 1 .. Streets : round = StreetOrder[i]
    BY <1>6, StreetsInOrder
  <2>2. round # "hole" /\ round # "showdown"
    BY <2>1, StreetsInOrder DEF StreetName
  <2>3. Collect(p, s, round, batch) = OpenStreet(t, StreetOrder[i])
    BY <2>1, <2>2 DEF Collect
  <2>4. tokens \in Tokens
    BY <1>2
  <2>5. ASSUME NEW j \in 1 .. Streets
        PROVE  /\ \A u \in tokens :
                    u.token.key = KeyOf(p) /\ u.position \in Range(BoardPositions(StreetOrder[j]))
                      => StreetOrder[j] \in s.gave
               /\ StreetOrder[j] \in s.gave => Before(j) \subseteq s.done
    <3>1. \A u \in s.community :
            u.token.key = KeyOf(p) /\ u.position \in Range(BoardPositions(StreetOrder[j]))
              => StreetOrder[j] \in s.gave
      BY <1>1 DEF GivesInOrder
    <3>2. \A u \in batch :
            u.token.key = KeyOf(p) /\ u.position \in Range(BoardPositions(StreetOrder[j]))
              => StreetOrder[j] \in s.gave
      BY <1>6, <2>1, StreetPositions DEF OwnBatch
    <3>3. StreetOrder[j] \in s.gave => Before(j) \subseteq s.done
      BY <1>1 DEF GivesInOrder
    <3> QED BY <3>1, <3>2, <3>3
  <2> HIDE DEF tokens
  <2>6. /\ t \in Replica /\ t.deck = s.deck /\ t.shuffles = s.shuffles /\ t.gave = s.gave
        /\ t.aggregate = s.aggregate /\ t.localHole = s.localHole /\ t.board = s.board
        /\ t.done = s.done /\ t.shown = s.shown /\ t.announced = s.announced
        /\ t.community = tokens
    BY <1>1, <2>4 DEF Replica
  <2> HIDE DEF t
  <2>7. GivesInOrder(p, t)
    BY <2>5, <2>6 DEF GivesInOrder
  <2>8. Sound(p, t) /\ Keeps(s, t) /\ Phase(t) = "Ready"
    BY <1>3, <2>6, <2>7
  <2>9. Sound(p, OpenStreet(t, StreetOrder[i])) /\ Keeps(t, OpenStreet(t, StreetOrder[i]))
    BY <2>8, OpenStreetKeeps
  <2> QED BY <2>3, <2>8, <2>9, KeepsOn
<1> QED
  BY <1>4, <1>5, <1>6 DEF Round

-----------------------------------------------------------------------------
(* What a step does to the payloads *)

\* What is announced or revealed is not taken for a shuffle.
LEMMA QuietKinds ==
  ASSUME NEW m, Quiet(m)
  PROVE  m.kind # "shuffle" /\ \A a \in Seat : \A d : m # ShufflePayload(a, d)
<1>1. \A a \in Seat : \A d : ShufflePayload(a, d).kind = "shuffle"
  BY DEF ShufflePayload, Payload
<1>2. m.kind \in {"key"} \union Round
  BY DEF Quiet, KeyPayload, Payload
<1>3. "shuffle" \notin Round
  BY StreetsInOrder DEF Round, StreetName
<1> QED
  BY <1>1, <1>2, <1>3

\* A payload has one kind.
LEMMA KindOf ==
  ASSUME NEW replicas, NEW m, Sent(replicas, m)
  PROVE  /\ m.kind = "key" => \E a \in Seat : m = KeyPayload(a)
         /\ m.kind = "shuffle" =>
              \E a \in Seat : /\ replicas[a].shuffles > a
                              /\ \E d \in Mixed(a + 1) : m = ShufflePayload(a, d)
         /\ m.kind # "key" /\ m.kind # "shuffle" =>
              \E a \in Seat : \E round \in Round, parts \in SUBSET Reveals(a) :
                m = Payload(round, a, parts)
<1>1. \A a \in Seat : \A d : ShufflePayload(a, d).kind = "shuffle"
  BY DEF ShufflePayload, Payload
<1>2. \A a \in Seat : KeyPayload(a).kind = "key"
  BY DEF KeyPayload, Payload
<1>3. \A round, a, parts : Payload(round, a, parts).kind = round
  BY DEF Payload
<1>4. "shuffle" \notin Round /\ "key" \notin Round
  BY StreetsInOrder DEF Round, StreetName
<1>5. \/ \E a \in Seat : m = KeyPayload(a)
      \/ \E a \in Seat : \E round \in Round, parts \in SUBSET Reveals(a) : m = Payload(round, a, parts)
      \/ \E a \in Seat : /\ replicas[a].shuffles > a
                         /\ \E d \in Mixed(a + 1) : m = ShufflePayload(a, d)
  BY DEF Sent, Quiet
<1> QED
  BY <1>1, <1>2, <1>3, <1>4, <1>5

\* A payload is words.
LEMMA BytesAreWords ==
  ASSUME NEW seat \in Nat, NEW position \in Nat, NEW f \in Words, NEW g \in Words,
         NEW h \in Words, NEW deck \in Seq(Words), deck # <<>>
  PROVE  /\ KeyBytes(seat, f, g, h) \in Words
         /\ RevealBytes(seat, position, f, g, h) \in Words
         /\ ShuffleBytes(seat, deck, f) \in Words
<1>1. \A gs \in Seq(Words) : gs # <<>> => Fields(gs) \in Words
  <2>1. TAKE gs \in Seq(Words)
  <2>2. HAVE gs # <<>>
  <2>3. <<>> \in Words /\ Len(<<>>) = 0
    BY DEF Words
  <2>4. PICK ends : EndsOf(ends, Len(<<>>), gs)
    BY <2>3, EndsExist
  <2>5. Len(gs) <= Len(gs) /\ \A i \in 1 .. Len(gs) : gs[i] = gs[i]
    BY LenProperties
  <2> QED BY <2>2, <2>3, <2>4, <2>5, LaidOut
<1>2. <<f, g, h>> \in Seq(Words) /\ <<f, g, h>> # <<>>
  OBVIOUS
<1>3. Fields(<<f, g, h>>) \in Words /\ Fields(deck) \in Words /\ Field(f) \in Words
  BY <1>1, <1>2, FieldIs
<1>4. /\ <<seat>> \in Words /\ <<seat, position>> \in Words
      /\ <<seat, Len(deck)>> \in Words
  <2>1. Len(deck) \in Nat
    BY LenProperties
  <2> QED BY <2>1 DEF Words
<1>5. \A v, w \in Words : v \o w \in Words
  BY DEF Words
<1> QED
  BY <1>3, <1>4, <1>5 DEF KeyBytes, RevealBytes, ShuffleBytes

\* Two shuffles are one when they are written the same.
LEMMA SameShuffle ==
  ASSUME NEW a \in Seat, NEW b \in Seat, NEW d \in Deck, NEW e \in Deck,
         ShufflePayload(a, d) = ShufflePayload(b, e)
  PROVE  a = b /\ d = e
<1>1. a = b
  <2>1. \A x, y : ShufflePayload(x, y).from = x
    BY DEF ShufflePayload, Payload
  <2> QED BY <2>1
<1> DEFINE buf == ShuffleBytes(a, Written(d), <<a>>)
           n == Len(buf)
<1>2. ShufflePayload(a, d).parts = {buf}
  BY DEF ShufflePayload, Payload
<1>3. buf \in ShufflePayload(a, d).parts /\ buf \in ShufflePayload(a, e).parts
  BY <1>1, <1>2
<1> HIDE DEF buf
<1>4. buf \in Words /\ n \in 0 .. n
  <2>1. buf \in Words
    <3>1. a \in Nat /\ <<a>> \in Words /\ Written(d) \in Seq(Words) /\ Written(d) # <<>>
      BY Numbers, WrittenDeck DEF Words
    <3> QED BY <3>1, BytesAreWords DEF buf
  <2>2. n \in Nat
    BY <2>1, LenProperties DEF Words
  <2> QED BY <2>1, <2>2
<1> HIDE DEF n
<1>5. Rejects(ReadShuffle(Start(buf, n)), n, buf, ShuffleRead(a, Written(d), <<a>>))
  BY <1>3, <1>4, ShufflePayloadRead DEF n
<1>6. Rejects(ReadShuffle(Start(buf, n)), n, buf, ShuffleRead(a, Written(e), <<a>>))
  BY <1>3, <1>4, ShufflePayloadRead DEF n
<1>7. ShuffleRead(a, Written(d), <<a>>) = ShuffleRead(a, Written(e), <<a>>)
  BY <1>5, <1>6 DEF Rejects, n
<1>8. DeckRead(ShuffleRead(a, Written(d), <<a>>)) = d /\ DeckRead(ShuffleRead(a, Written(e), <<a>>)) = e
  BY ShuffleReadIs
<1> QED
  BY <1>1, <1>7, <1>8

-----------------------------------------------------------------------------
(* Every step keeps the invariant *)

\* A replica that moves on, with what it has sent.
LEMMA StepKeeps ==
  ASSUME DealInv, NEW p \in Seat, NEW t, peer' = [peer EXCEPT ![p] = t], Sound(p, t),
         peer[p].shuffles <= t.shuffles, wire \subseteq wire',
         \A m \in wire' : m \in wire \/ Sent(peer', m),
         OneShuffleEach(wire'), ShufflesSent(wire', t)
  PROVE  DealInv'
<1>1. /\ peer \in [Seat -> Replica] /\ \A q \in Seat : Sound(q, peer[q])
      /\ \A m \in wire : Sent(peer, m)
      /\ \A q \in Seat : ShufflesSent(wire, peer[q])
  BY DEF DealInv, Dealing
<1>2. t \in Replica
  BY DEF Sound
<1>3. peer' \in [Seat -> Replica] /\ \A q \in Seat : peer'[q] = IF q = p THEN t ELSE peer[q]
  BY <1>1, <1>2
<1>4. \A q \in Seat : peer[q].shuffles <= peer'[q].shuffles /\ peer[q].shuffles \in Nat
                      /\ peer'[q].shuffles \in Nat
  <2>1. \A s \in Replica : s.shuffles \in Nat
    BY Numbers DEF Replica
  <2> QED BY <1>1, <1>3, <2>1
<1>5. \A m \in wire : Sent(peer', m)
  <2>1. \A a \in Seat : peer[a].shuffles > a => peer'[a].shuffles > a
    BY <1>4, Numbers
  <2> QED BY <1>1, <2>1 DEF Sent
<1>6. \A q \in Seat : Sound(q, peer'[q])
  BY <1>1, <1>3
<1>7. \A q \in Seat : ShufflesSent(wire', peer'[q])
  <2>1. \A q \in Seat : ShufflesSent(wire', peer[q])
    BY <1>1 DEF ShufflesSent
  <2> QED BY <1>3, <2>1
<1> QED
  BY <1>3, <1>5, <1>6, <1>7 DEF DealInv, Dealing

\* A step without a shuffle.
LEMMA QuietStep ==
  ASSUME DealInv, NEW p \in Seat, NEW t, peer' = [peer EXCEPT ![p] = t], Sound(p, t),
         t.shuffles = peer[p].shuffles, t.deck = peer[p].deck \/ t.shuffles = 0,
         wire \subseteq wire', \A m \in wire' : m \in wire \/ Quiet(m)
  PROVE  DealInv'
<1>1. OneShuffleEach(wire) /\ ShufflesSent(wire, peer[p]) /\ peer[p] \in Replica
  BY DEF DealInv, Dealing
<1>2. \A a \in Seat : \A d : ShufflePayload(a, d) \in wire' => ShufflePayload(a, d) \in wire
  BY QuietKinds
<1>3. OneShuffleEach(wire')
  BY <1>1, <1>2 DEF OneShuffleEach
<1>4. peer[p].shuffles \in Nat
  BY <1>1, Numbers DEF Replica
<1>5. ShufflesSent(wire', t)
  <2>1. \A a \in Seat : a < t.shuffles => \E d \in Mixed(a + 1) : ShufflePayload(a, d) \in wire'
    BY <1>1 DEF ShufflesSent
  <2>2. ASSUME NEW a \in Seat, t.shuffles = a + 1 PROVE ShufflePayload(a, t.deck) \in wire'
    <3>1. t.shuffles # 0
      BY <2>2, Numbers
    <3> QED BY <1>1, <2>2, <3>1 DEF ShufflesSent
  <2> QED BY <2>1, <2>2 DEF ShufflesSent
<1>6. \A m \in wire' : m \in wire \/ Sent(peer', m)
  BY DEF Sent
<1>7. peer[p].shuffles <= t.shuffles
  BY <1>4
<1> QED
  BY <1>3, <1>5, <1>6, <1>7, StepKeeps

\* The key is taken in while the deck has no shuffle.
LEMMA KeyStep ==
  ASSUME DealInv, NEW p \in Seat, NEW s, Sound(p, s), NEW a \in Seat,
         s.shuffles = peer[p].shuffles, s.deck = peer[p].deck,
         peer' = [peer EXCEPT ![p] = AddKey(s, a, KeyOf(a))],
         wire \subseteq wire', \A m \in wire' : m \in wire \/ Quiet(m)
  PROVE  DealInv'
<1> DEFINE t == AddKey(s, a, KeyOf(a))
<1>1. /\ Sound(p, t) /\ t.shuffles = s.shuffles
      /\ t.deck = s.deck \/ s.deck = <<>>
  BY AddKeyKeeps
<1>2. s.deck = <<>> => s.shuffles = 0
  <2>1. s \in Replica /\ Decked(s)
    BY DEF Sound
  <2>2. \A d \in Deck : d # <<>>
    BY NoEmptyDeck
  <2> QED BY <2>1, <2>2 DEF Decked, Mixed
<1> HIDE DEF t
<1>3. peer' = [peer EXCEPT ![p] = t]
  BY DEF t
<1> QED
  BY <1>1, <1>2, <1>3, QuietStep

LEMMA AnnounceKeyKeeps ==
  ASSUME DealInv, NEW p \in Seat, AnnounceKey(p) PROVE DealInv'
<1> DEFINE s == [peer[p] EXCEPT !.gave = @ \union {"key"}]
<1>1. Sound(p, peer[p]) /\ peer[p] \in Replica
  BY DEF DealInv, Dealing
<1>2. Sound(p, s)
  BY <1>1, GaveKeeps
<1>3. s.shuffles = peer[p].shuffles /\ s.deck = peer[p].deck
  BY <1>1 DEF Replica
<1>4. peer' = [peer EXCEPT ![p] = AddKey(s, p, KeyOf(p))] /\ wire' = wire \union {KeyPayload(p)}
  BY DEF AnnounceKey, Broadcast, KeyPayload
<1> HIDE DEF s
<1>5. Quiet(KeyPayload(p))
  BY DEF Quiet
<1>6. wire \subseteq wire' /\ \A m \in wire' : m \in wire \/ Quiet(m)
  BY <1>4, <1>5
<1> QED
  BY <1>2, <1>3, <1>4, <1>6, KeyStep

\* All of a payload.
LEMMA AllOf ==
  ASSUME NEW buf \in Words
  PROVE  Start(buf, Len(buf)) = buf /\ Len(buf) \in 0 .. Len(buf)
<1>1. Len(buf) \in Nat
  BY LenProperties DEF Words
<1> QED
  BY <1>1, SubSeqFull DEF Start, Words

\* What a peer reads of a key announcement, a reveal and a shuffle.
LEMMA KeyIsRead ==
  ASSUME NEW a \in Seat, NEW buf \in KeyPayload(a).parts
  PROVE  /\ ReadKey(buf) = KeyRead(a, <<KeyOf(a)>>, <<KeyOf(a), Info(a)>>, <<Info(a)>>)
         /\ ReadKey(buf)[1] = a /\ ReadKey(buf)[2][1] = KeyOf(a)
<1>1. buf \in Words
  <2>1. a \in Nat /\ <<KeyOf(a)>> \in Words /\ <<KeyOf(a), Info(a)>> \in Words /\ <<Info(a)>> \in Words
    BY Numbers DEF Words
  <2>2. buf = KeyBytes(a, <<KeyOf(a)>>, <<KeyOf(a), Info(a)>>, <<Info(a)>>)
    BY DEF KeyPayload, Payload
  <2>3. <<<<>>>> \in Seq(Words) /\ <<<<>>>> # <<>>
    BY DEF Words
  <2> QED BY <2>1, <2>2, <2>3, BytesAreWords
<1> DEFINE n == Len(buf)
           what == KeyRead(a, <<KeyOf(a)>>, <<KeyOf(a), Info(a)>>, <<Info(a)>>)
<1>2. Start(buf, n) = buf /\ n \in 0 .. Len(buf)
  BY <1>1, AllOf
<1>3. Rejects(ReadKey(Start(buf, n)), n, buf, what)
  BY <1>2, KeyPayloadRead
<1>4. ReadKey(buf) = what
  BY <1>2, <1>3 DEF Rejects
<1>5. what[1] = a /\ what[2][1] = KeyOf(a)
  BY DEF KeyRead
<1> QED
  BY <1>4, <1>5

LEMMA RevealIsRead ==
  ASSUME NEW a \in Seat, NEW buf \in Reveals(a)
  PROVE  /\ ReadReveal(buf)[1] = a /\ ReadReveal(buf)[2] \in Position
         /\ ReadReveal(buf)[5][1] = KeyOf(a)
<1>1. PICK position \in Position, token \in Words : buf = RevealBy(a, position, token)
  BY DEF Reveals
<1>2. buf \in Words
  <2>1. a \in Nat /\ position \in Nat /\ <<KeyOf(a)>> \in Words
    BY Numbers DEF Words
  <2>2. <<<<>>>> \in Seq(Words) /\ <<<<>>>> # <<>>
    BY DEF Words
  <2> QED BY <1>1, <2>1, <2>2, BytesAreWords DEF RevealBy
<1> DEFINE n == Len(buf)
           what == RevealRead(a, position, token, <<KeyOf(a)>>, <<KeyOf(a)>>)
<1>3. Start(buf, n) = buf /\ n \in 0 .. Len(buf)
  BY <1>2, AllOf
<1>4. Rejects(ReadReveal(Start(buf, n)), n, buf, what)
  BY <1>1, <1>3, RevealPayloadRead
<1>5. ReadReveal(buf) = what
  BY <1>3, <1>4 DEF Rejects
<1>6. what[1] = a /\ what[2] = position /\ what[5][1] = KeyOf(a)
  BY DEF RevealRead
<1> QED
  BY <1>5, <1>6

LEMMA ShuffleIsRead ==
  ASSUME NEW a \in Seat, NEW d \in Deck, NEW buf \in ShufflePayload(a, d).parts
  PROVE  ReadShuffle(buf) = ShuffleRead(a, Written(d), <<a>>)
<1>1. buf \in Words
  <2>1. a \in Nat /\ <<a>> \in Words /\ Written(d) \in Seq(Words) /\ Written(d) # <<>>
    BY Numbers, WrittenDeck DEF Words
  <2>2. buf = ShuffleBytes(a, Written(d), <<a>>)
    BY DEF ShufflePayload, Payload
  <2> QED BY <2>1, <2>2, BytesAreWords
<1> DEFINE n == Len(buf)
           what == ShuffleRead(a, Written(d), <<a>>)
<1>2. Start(buf, n) = buf /\ n \in 0 .. Len(buf)
  BY <1>1, AllOf
<1>3. Rejects(ReadShuffle(Start(buf, n)), n, buf, what)
  BY <1>2, ShufflePayloadRead
<1> QED
  BY <1>2, <1>3 DEF Rejects

LEMMA IngestKeyKeeps ==
  ASSUME DealInv, NEW p \in Seat, NEW m \in wire, IngestKey(p, m)
  PROVE  /\ DealInv'
         /\ \E a \in Seat : peer' = [peer EXCEPT ![p] = AddKey(peer[p], a, KeyOf(a))]
<1>1. m.kind = "key" /\ Sent(peer, m)
  BY DEF IngestKey, DealInv, Dealing
<1>2. PICK a \in Seat : m = KeyPayload(a)
  BY <1>1, KindOf
<1>3. PICK bytes \in m.parts : \E key \in {ReadKey(bytes)} :
        LET seat == key[1]
            public == key[2][1]
        IN peer' = [peer EXCEPT ![p] = AddKey(@, seat, public)]
  BY DEF IngestKey
<1>4. ReadKey(bytes)[1] = a /\ ReadKey(bytes)[2][1] = KeyOf(a)
  BY <1>2, KeyIsRead
<1>5. peer' = [peer EXCEPT ![p] = AddKey(peer[p], a, KeyOf(a))]
  BY <1>3, <1>4
<1>6. wire' = wire
  BY DEF IngestKey
<1>7. Sound(p, peer[p])
  BY DEF DealInv, Dealing
<1> QED
  BY <1>5, <1>6, <1>7, KeyStep

\* A seat that has not gone past its shuffle has not sent one.
LEMMA NotYetShuffled ==
  ASSUME DealInv, NEW p \in Seat, ~(peer[p].shuffles > p), NEW d \in Mixed(p + 1)
  PROVE  ShufflePayload(p, d) \notin wire
<1> SUFFICES ASSUME ShufflePayload(p, d) \in wire PROVE FALSE
  OBVIOUS
<1>1. Sent(peer, ShufflePayload(p, d))
  BY DEF DealInv, Dealing
<1>2. ShufflePayload(p, d).kind = "shuffle"
  BY DEF ShufflePayload, Payload
<1>3. PICK a \in Seat : /\ peer[a].shuffles > a
                       /\ \E e \in Mixed(a + 1) : ShufflePayload(p, d) = ShufflePayload(a, e)
  BY <1>1, <1>2, KindOf
<1>4. a = p
  <2>1. \A x, y : ShufflePayload(x, y).from = x
    BY DEF ShufflePayload, Payload
  <2> QED BY <1>3, <2>1
<1> QED
  BY <1>3, <1>4

\* One's own shuffle is the only one of its seat.
LEMMA MakeShuffleKeeps ==
  ASSUME DealInv, NEW p \in Seat, MakeShuffle(p)
  PROVE  /\ DealInv'
         /\ \E perm \in Rearrangements :
              peer' = [peer EXCEPT ![p] = [peer[p] EXCEPT !.deck = Remask(peer[p].deck, perm, p),
                                                    !.shuffles = @ + 1]]
<1> DEFINE s == peer[p]
<1>1. /\ Phase(s) = "Shuffle" /\ s.shuffles = p /\ Sound(p, s) /\ s \in Replica /\ Decked(s)
  BY DEF MakeShuffle, MyTurn, DealInv, Dealing, Sound
<1>2. PICK perm \in Rearrangements :
        LET new == Remask(s.deck, perm, p)
            cards == [i \in 1 .. Cards |-> <<new[i - 1].card>> \o new[i - 1].masks]
        IN Broadcast(p, [s EXCEPT !.deck = new, !.shuffles = @ + 1],
             Payload("shuffle", p, {ShuffleBytes(p, cards, <<p>>)}))
  BY DEF MakeShuffle
<1> DEFINE new == Remask(s.deck, perm, p)
           t == [s EXCEPT !.deck = new, !.shuffles = @ + 1]
<1>3. peer' = [peer EXCEPT ![p] = t] /\ wire' = wire \union {ShufflePayload(p, new)}
  BY <1>2 DEF Broadcast, ShufflePayload, Written
<1>4. s.deck \in Mixed(p)
  BY <1>1 DEF Phase, Decked
<1>5. new \in Mixed(p + 1)
  BY <1>4, RemaskMixes
<1>6. \E q \in Rearrangements :
        peer' = [peer EXCEPT ![p] = [peer[p] EXCEPT !.deck = Remask(peer[p].deck, q, p),
                                              !.shuffles = @ + 1]]
  BY <1>3
<1> HIDE DEF new
<1>7. Sound(p, t) /\ t.deck = new /\ t.shuffles = p + 1
  <2>1. new \in Mixed(s.shuffles + 1)
    BY <1>1, <1>5
  <2> HIDE DEF s
  <2> QED BY <1>1, <2>1, ShuffledKeeps
<1> HIDE DEF t
<1>8. \A d \in Mixed(p + 1) : ShufflePayload(p, d) \notin wire
  <2>1. ~(peer[p].shuffles > p)
    BY <1>1, Numbers
  <2> QED BY <2>1, NotYetShuffled
<1>9. OneShuffleEach(wire')
  <2>1. OneShuffleEach(wire)
    BY DEF DealInv, Dealing
  <2>2. SUFFICES ASSUME NEW a \in Seat, NEW d \in Mixed(a + 1), NEW e \in Mixed(a + 1),
                        ShufflePayload(a, d) \in wire', ShufflePayload(a, e) \in wire'
                 PROVE  d = e
    BY DEF OneShuffleEach
  <2>3. new \in Deck /\ d \in Deck /\ e \in Deck
    BY <1>5 DEF Mixed
  <2>4. CASE a = p
    <3>1. ShufflePayload(p, d) = ShufflePayload(p, new) /\ ShufflePayload(p, e) = ShufflePayload(p, new)
      BY <1>3, <1>8, <2>2, <2>4
    <3>2. d = new
      BY <2>3, <3>1, SameShuffle
    <3>3. e = new
      BY <2>3, <3>1, SameShuffle
    <3> QED BY <3>2, <3>3
  <2>5. CASE a # p
    <3>1. ShufflePayload(a, d) # ShufflePayload(p, new) /\ ShufflePayload(a, e) # ShufflePayload(p, new)
      <4>1. \A x, y : ShufflePayload(x, y).from = x
        BY DEF ShufflePayload, Payload
      <4> QED BY <2>5, <4>1
    <3> QED BY <1>3, <2>1, <2>2, <3>1 DEF OneShuffleEach
  <2> QED BY <2>4, <2>5
<1>10. ShufflesSent(wire', t)
  <2>1. ShufflesSent(wire, s)
    BY DEF DealInv, Dealing
  <2>2. ASSUME NEW a \in Seat, a < t.shuffles
        PROVE  \E d \in Mixed(a + 1) : ShufflePayload(a, d) \in wire'
    <3>1. a < s.shuffles \/ a = p
      BY <1>1, <1>7, <2>2, Numbers
    <3> QED BY <1>3, <1>5, <2>1, <3>1 DEF ShufflesSent
  <2>3. ASSUME NEW a \in Seat, t.shuffles = a + 1 PROVE ShufflePayload(a, t.deck) \in wire'
    <3>1. a = p
      BY <1>7, <2>3, Numbers
    <3> QED BY <1>3, <1>7, <3>1
  <2> QED BY <2>2, <2>3 DEF ShufflesSent
<1>11. \A m \in wire' : m \in wire \/ Sent(peer', m)
  <2>1. peer'[p] = t
    <3>1. peer \in [Seat -> Replica]
      BY DEF DealInv, Dealing
    <3> QED BY <1>3, <3>1
  <2>2. peer'[p].shuffles > p
    BY <1>7, <2>1, Numbers
  <2>3. Sent(peer', ShufflePayload(p, new))
    BY <1>5, <2>2 DEF Sent
  <2> QED BY <1>3, <2>3
<1>12. peer[p].shuffles <= t.shuffles /\ wire \subseteq wire'
  BY <1>1, <1>3, <1>7, Numbers
<1>13. DealInv'
  BY <1>3, <1>7, <1>9, <1>10, <1>11, <1>12, StepKeeps
<1> QED
  BY <1>6, <1>13

\* A shuffle that one verifies is that of the next seat.
LEMMA IngestShuffleKeeps ==
  ASSUME DealInv, NEW p \in Seat, NEW m \in wire, IngestShuffle(p, m)
  PROVE  /\ DealInv'
         /\ \E a \in Seat : /\ peer[p].shuffles = a /\ peer[a].shuffles > a
                            /\ \E d \in Deck :
                                 peer' = [peer EXCEPT ![p] = [peer[p] EXCEPT !.deck = d, !.shuffles = @ + 1]]
<1> DEFINE s == peer[p]
<1>1. /\ m.kind = "shuffle" /\ Phase(s) = "Shuffle" /\ Sent(peer, m) /\ wire' = wire
      /\ Sound(p, s) /\ s \in Replica /\ Decked(s) /\ peer \in [Seat -> Replica]
  BY DEF IngestShuffle, DealInv, Dealing, Sound
<1>2. PICK a \in Seat : /\ peer[a].shuffles > a
                        /\ \E d \in Mixed(a + 1) : m = ShufflePayload(a, d)
  BY <1>1, KindOf
<1>3. PICK d \in Mixed(a + 1) : m = ShufflePayload(a, d)
  BY <1>2
<1>4. d \in Deck
  BY DEF Mixed
<1>5. PICK bytes \in m.parts : \E shuffle \in {ReadShuffle(bytes)} :
         LET card(i) == shuffle[i + 3]
             new == [i \in Position |-> Masked(card(i)[1], Tail(card(i)))]
         IN /\ VerifiesShuffle(s, new, Last(shuffle)[1])
            /\ peer' = [peer EXCEPT ![p].deck = new, ![p].shuffles = @ + 1]
  BY DEF IngestShuffle
<1>6. ReadShuffle(bytes) = ShuffleRead(a, Written(d), <<a>>)
  BY <1>3, <1>4, ShuffleIsRead
<1>7. DeckRead(ReadShuffle(bytes)) = d /\ Last(ReadShuffle(bytes))[1] = a
  BY <1>4, <1>6, ShuffleReadIs
<1>8. /\ VerifiesShuffle(s, DeckRead(ReadShuffle(bytes)), Last(ReadShuffle(bytes))[1])
      /\ peer' = [peer EXCEPT ![p].deck = DeckRead(ReadShuffle(bytes)), ![p].shuffles = @ + 1]
  BY <1>5 DEF DeckRead
<1> DEFINE t == [s EXCEPT !.deck = d, !.shuffles = @ + 1]
<1>9. IsShuffle(s.deck, d, a) /\ peer' = [peer EXCEPT ![p] = t]
  BY <1>1, <1>7, <1>8 DEF VerifiesShuffle
<1>10. s.shuffles \in 0 .. N - 1 /\ s.deck \in Mixed(s.shuffles)
  <2>1. s.aggregate # {} /\ s.shuffles \in 0 .. N /\ s.shuffles < N
    BY <1>1 DEF Phase, Replica
  <2>2. s.shuffles \in 0 .. N - 1
    <3> DEFINE k == s.shuffles
    <3> HIDE DEF k
    <3>1. k \in 0 .. N /\ k < N
      BY <2>1 DEF k
    <3>2. k \in 0 .. N - 1
      BY <3>1, SeatNumbers
    <3> QED BY <3>2 DEF k
  <2> QED BY <1>1, <2>1, <2>2 DEF Decked
<1>11. a = s.shuffles
  BY <1>9, <1>10, VerifiedMixes
<1>12. Sound(p, t) /\ t.deck = d /\ t.shuffles = a + 1
  <2>1. d \in Mixed(s.shuffles + 1)
    BY <1>4, <1>11
  <2> HIDE DEF s
  <2> QED BY <1>1, <1>11, <2>1, ShuffledKeeps, Zenon
<1> HIDE DEF t
<1>13. ShufflesSent(wire', t)
  <2>1. ShufflesSent(wire, s)
    BY DEF DealInv, Dealing
  <2>2. ASSUME NEW b \in Seat, b < t.shuffles
        PROVE  \E e \in Mixed(b + 1) : ShufflePayload(b, e) \in wire'
    <3>1. b < s.shuffles \/ b = a
      BY ONLY <1>11, <1>12, <2>2, SeatNumbers, b \in Seat, a \in Seat
    <3> QED BY <1>1, <1>3, <2>1, <3>1 DEF ShufflesSent
  <2>3. ASSUME NEW b \in Seat, t.shuffles = b + 1 PROVE ShufflePayload(b, t.deck) \in wire'
    <3>1. b = a
      BY <1>12, <2>3, Numbers
    <3> QED BY <1>1, <1>3, <1>12, <3>1
  <2> QED BY <2>2, <2>3 DEF ShufflesSent
<1>14. OneShuffleEach(wire') /\ wire \subseteq wire' /\ \A x \in wire' : x \in wire \/ Sent(peer', x)
  BY <1>1 DEF DealInv, Dealing
<1>15. peer[p].shuffles <= t.shuffles
  BY <1>11, <1>12, Numbers
<1>16. DealInv'
  BY <1>9, <1>12, <1>13, <1>14, <1>15, StepKeeps
<1>17. peer' = [peer EXCEPT ![p] = [peer[p] EXCEPT !.deck = d, !.shuffles = @ + 1]]
  BY <1>9 DEF t
<1> QED
  BY <1>2, <1>4, <1>11, <1>16, <1>17

\* Tokens that come in from another peer.
LEMMA IngestRevealKeeps ==
  ASSUME DealInv, NEW p \in Seat, NEW m \in wire, m.from # p, IngestReveal(p, m)
  PROVE  /\ DealInv' /\ Phase(peer[p]) = "Ready"
         /\ \E t : peer' = [peer EXCEPT ![p] = t] /\ Keeps(peer[p], t)
<1> DEFINE s == peer[p]
<1>1. /\ Phase(s) = "Ready" /\ wire' = wire /\ Sent(peer, m) /\ m.kind \in Round
      /\ Sound(p, s) /\ s \in Replica /\ Decked(s)
  BY DEF IngestReveal, DealInv, Dealing, Sound, Round
<1>2. "shuffle" \notin Round /\ "key" \notin Round
  BY StreetsInOrder DEF Round, StreetName
<1>3. PICK a \in Seat : \E round \in Round, parts \in SUBSET Reveals(a) : m = Payload(round, a, parts)
  BY <1>1, <1>2, KindOf
<1>4. m.from = a /\ m.parts \subseteq Reveals(a) /\ a # p
  BY <1>3 DEF Payload
<1>5. PICK reveals \in {{r \in {ReadReveal(bytes) : bytes \in m.parts} : ~HaveToken(s, m.kind, r)}} :
         LET batch == {[position |-> r[2], token |-> Token(r[5][1], s.deck[r[2]])] : r \in reveals}
         IN peer' = [peer EXCEPT ![p] = Collect(p, @, m.kind, batch)]
  BY DEF IngestReveal
<1> DEFINE batch == {[position |-> r[2], token |-> Token(r[5][1], s.deck[r[2]])] : r \in reveals}
<1>6. \A r \in reveals : r[2] \in Position /\ r[5][1] = KeyOf(a)
  <2>1. \A r \in reveals : \E bytes \in Reveals(a) : r = ReadReveal(bytes)
    BY <1>4, <1>5
  <2> QED BY <2>1, RevealIsRead
<1>7. s.deck \in [Position -> MaskedCard]
  BY <1>1 DEF Phase, Decked, Mixed, Deck
<1>8. batch \in Tokens /\ \A t \in batch : t.token.key # KeyOf(p)
  <2>1. \A r \in reveals : /\ [position |-> r[2], token |-> Token(r[5][1], s.deck[r[2]])] \in
                                [position : Position, token : [key : Keys, masked : MaskedCard]]
                           /\ Token(r[5][1], s.deck[r[2]]).key = KeyOf(a)
    <3>1. KeyOf(a) \in Keys
      BY Numbers
    <3>2. \A x \in Position : s.deck[x] \in MaskedCard
      BY <1>7
    <3> QED BY <1>6, <3>1, <3>2 DEF Token
  <2>2. KeyOf(a) # KeyOf(p)
    BY <1>4, Numbers
  <2> QED BY <2>1, <2>2 DEF Tokens
<1>9. peer' = [peer EXCEPT ![p] = Collect(p, s, m.kind, batch)]
  BY <1>5
<1> HIDE DEF batch
<1>10. OwnBatch(p, s, m.kind, batch)
  BY <1>8 DEF OwnBatch
<1> DEFINE t == Collect(p, s, m.kind, batch)
<1>11. Sound(p, t) /\ Keeps(s, t)
  BY <1>1, <1>8, <1>10, CollectKeeps
<1>12. peer' = [peer EXCEPT ![p] = t]
  BY <1>9
<1> HIDE DEF t
<1>13. t.shuffles = peer[p].shuffles /\ t.deck = peer[p].deck
  BY <1>11 DEF Keeps
<1>14. wire \subseteq wire' /\ \A x \in wire' : x \in wire \/ Quiet(x)
  BY <1>1
<1>15. DealInv'
  BY <1>11, <1>12, <1>13, <1>14, QuietStep
<1> QED
  BY <1>1, <1>11, <1>12, <1>15

\* Tokens of one's own.
LEMMA RevealKeeps ==
  ASSUME DealInv, NEW p \in Seat, NEW round \in Round, NEW positions \in SUBSET Position,
         Reveal(p, round, positions),
         Sound(p, [peer[p] EXCEPT !.gave = @ \union {round}]),
         round \in Street => positions = Range(BoardPositions(round))
  PROVE  /\ DealInv' /\ Phase(peer[p]) = "Ready"
         /\ \E s, t : /\ peer' = [peer EXCEPT ![p] = t] /\ Keeps(s, t)
                      /\ s = [peer[p] EXCEPT !.gave = @ \union {round}]
<1> DEFINE s == [peer[p] EXCEPT !.gave = @ \union {round}]
           key == KeyOf(p)
           card(pos) == peer[p].deck[pos]
           batch == {[position |-> pos, token |-> Token(key, card(pos))] : pos \in positions}
           bytes(pos) == RevealBytes(p, pos, <<key, card(pos).card>> \o card(pos).masks, <<key>>, <<key>>)
           parts == {bytes(pos) : pos \in positions}
<1>1. /\ peer[p] \in Replica /\ Phase(peer[p]) = "Ready" /\ Decked(peer[p])
      /\ peer' = [peer EXCEPT ![p] = Collect(p, s, round, batch)]
      /\ wire' = wire \union {Payload(round, p, parts)}
  BY DEF Reveal, Broadcast, DealInv, Dealing, Sound
<1>2. /\ s.shuffles = peer[p].shuffles /\ s.deck = peer[p].deck /\ round \in s.gave
      /\ s.aggregate = peer[p].aggregate
  BY <1>1 DEF Replica
<1>3. Phase(s) = "Ready"
  BY <1>1, <1>2 DEF Phase
<1>4. peer[p].deck \in [Position -> MaskedCard]
  BY <1>1 DEF Phase, Decked, Mixed, Deck
<1>5. batch \in Tokens
  <2>1. \A pos \in positions : [position |-> pos, token |-> Token(key, card(pos))] \in
                                 [position : Position, token : [key : Keys, masked : MaskedCard]]
    BY <1>4, Numbers DEF Token
  <2> QED BY <2>1 DEF Tokens
<1>6. round \in Street => OwnBatch(p, s, round, batch)
  BY <1>2 DEF OwnBatch
<1>7. parts \subseteq Reveals(p)
  <2>1. ASSUME NEW c \in MaskedCard PROVE <<key, c.card>> \o c.masks \in Words
    <3>1. c.card \in Nat /\ c.masks \in Seq(Seat) /\ key \in Nat
      BY Numbers DEF MaskedCard
    <3>2. Seat \subseteq Nat
      BY Numbers
    <3>3. c.masks \in Seq(Nat) /\ <<key, c.card>> \in Seq(Nat)
      BY <3>1, <3>2, SeqMonotonic
    <3> DEFINE x == <<key, c.card>>
               y == c.masks
    <3> HIDE DEF x, y
    <3>4. x \in Seq(Nat) /\ y \in Seq(Nat)
      BY <3>3 DEF x, y
    <3>5. x \o y \in Seq(Nat)
      BY <3>4
    <3> QED BY <3>5 DEF x, y, Words
  <2>2. \A pos \in positions : card(pos) \in MaskedCard
    BY <1>4
  <2>3. ASSUME NEW pos \in positions PROVE bytes(pos) \in Reveals(p)
    <3>1. <<key, card(pos).card>> \o card(pos).masks \in Words
      BY <2>1, <2>2
    <3> QED BY <3>1 DEF Reveals, RevealBy
  <2> QED BY <2>3
<1>8. Quiet(Payload(round, p, parts))
  BY <1>7 DEF Quiet
<1>9. wire \subseteq wire' /\ \A x \in wire' : x \in wire \/ Quiet(x)
  BY <1>1, <1>8
<1> HIDE DEF batch
<1> DEFINE t == Collect(p, s, round, batch)
<1>10. Sound(p, t) /\ Keeps(s, t)
  <2>1. Sound(p, s)
    OBVIOUS
  <2> HIDE DEF s
  <2> QED BY <1>3, <1>5, <1>6, <2>1, CollectKeeps
<1>11. peer' = [peer EXCEPT ![p] = t]
  BY <1>1
<1> HIDE DEF t
<1>12. t.shuffles = peer[p].shuffles /\ t.deck = peer[p].deck
  BY <1>2, <1>10 DEF Keeps
<1>13. DealInv'
  BY <1>9, <1>10, <1>11, <1>12, QuietStep
<1> QED
  BY <1>1, <1>10, <1>11, <1>13

\* Each of the three rounds of one's own tokens.
LEMMA RevealsKeep ==
  ASSUME DealInv, NEW p \in Seat,
         \/ RevealHole(p) \/ RevealShowdown(p) \/ \E i \in 1 .. Streets : RevealStreet(p, i)
  PROVE  /\ DealInv' /\ Phase(peer[p]) = "Ready"
         /\ \E round, s, t :
              /\ round \in Round /\ peer' = [peer EXCEPT ![p] = t] /\ Keeps(s, t)
              /\ s = [peer[p] EXCEPT !.gave = @ \union {round}]
<1>1. Sound(p, peer[p])
  BY DEF DealInv, Dealing
<1>2. \A a \in Seat : Range(HolePositions(a)) \subseteq Position
  BY HoleAt
<1>3. "hole" \in Round /\ "showdown" \in Round /\ "hole" \notin Street /\ "showdown" \notin Street
  BY StreetsInOrder DEF Round, StreetName
<1>4. CASE RevealHole(p)
  <2>1. OthersPositions(p) \in SUBSET Position
    BY <1>2 DEF OthersPositions
  <2>2. Sound(p, [peer[p] EXCEPT !.gave = @ \union {"hole"}])
    BY <1>1, GaveKeeps
  <2>3. Reveal(p, "hole", OthersPositions(p))
    BY <1>4 DEF RevealHole
  <2> QED BY <1>3, <2>1, <2>2, <2>3, RevealKeeps
<1>5. CASE RevealShowdown(p)
  <2>1. Range(HolePositions(p)) \in SUBSET Position
    BY <1>2
  <2>2. Sound(p, [peer[p] EXCEPT !.gave = @ \union {"showdown"}])
    BY <1>1, GaveKeeps
  <2>3. Reveal(p, "showdown", Range(HolePositions(p)))
    BY <1>5 DEF RevealShowdown
  <2> QED BY <1>3, <2>1, <2>2, <2>3, RevealKeeps
<1>6. ASSUME NEW i \in 1 .. Streets, RevealStreet(p, i)
      PROVE  /\ DealInv' /\ Phase(peer[p]) = "Ready"
             /\ \E round, s, t :
                  /\ round \in Round /\ peer' = [peer EXCEPT ![p] = t] /\ Keeps(s, t)
                  /\ s = [peer[p] EXCEPT !.gave = @ \union {round}]
  <2>1. Range(BoardPositions(StreetOrder[i])) \in SUBSET Position
    BY StreetPositions
  <2>2. peer[p].done = Before(i) /\ Reveal(p, StreetOrder[i], Range(BoardPositions(StreetOrder[i])))
    BY <1>6 DEF RevealStreet
  <2>3. Sound(p, [peer[p] EXCEPT !.gave = @ \union {StreetOrder[i]}])
    BY <1>1, <2>2, GaveStreetKeeps
  <2>4. StreetOrder[i] \in Round
    BY StreetsInOrder DEF Round
  <2> QED BY <2>1, <2>2, <2>3, <2>4, RevealKeeps
<1> QED
  BY <1>4, <1>5, <1>6

LEMMA InitDeal == Init => DealInv
<1> SUFFICES ASSUME Init PROVE DealInv
  OBVIOUS
<1>1. peer = [p \in Seat |-> Fresh] /\ wire = {}
  BY DEF Init
<1>2. Fresh \in Replica
  <2>1. 0 \in 0 .. N
    BY Numbers
  <2>2. <<>> \in Seq(Position) /\ [s \in Seat |-> <<>>] \in [Seat -> Seq(Position)]
    OBVIOUS
  <2>3. {} \in Tokens
    BY DEF Tokens
  <2> QED BY <2>1, <2>2, <2>3 DEF Fresh, Replica
<1>3. Decked(Fresh) /\ Closed(Fresh) /\ Phase(Fresh) = "Keygen"
  BY DEF Fresh, Decked, Closed, Phase
<1>4. \A p \in Seat : GivesInOrder(p, Fresh)
  BY DEF Fresh, GivesInOrder
<1>5. \A p \in Seat : Sound(p, Fresh)
  BY <1>2, <1>3, <1>4 DEF Sound
<1>6. ShufflesSent(wire, Fresh)
  <2>1. \A a \in Seat : ~(a < 0) /\ a + 1 # 0
    BY Numbers
  <2> QED BY <2>1 DEF ShufflesSent, Fresh
<1>7. OneShuffleEach(wire)
  BY <1>1 DEF OneShuffleEach
<1> QED
  BY <1>1, <1>2, <1>5, <1>6, <1>7 DEF DealInv, Dealing

LEMMA NextDeal == DealInv /\ [Next]_vars => DealInv'
<1> SUFFICES ASSUME DealInv, [Next]_vars PROVE DealInv'
  OBVIOUS
<1>1. CASE Next
  <2>1. PICK p \in Seat : \/ AnnounceKey(p)
                          \/ MakeShuffle(p)
                          \/ RevealHole(p)
                          \/ \E i \in 1 .. Streets : RevealStreet(p, i)
                          \/ RevealShowdown(p)
                          \/ Ingest(p)
    BY <1>1 DEF Next
  <2>2. CASE AnnounceKey(p)
    BY <2>2, AnnounceKeyKeeps
  <2>3. CASE MakeShuffle(p)
    BY <2>3, MakeShuffleKeeps
  <2>4. CASE RevealHole(p) \/ RevealShowdown(p) \/ \E i \in 1 .. Streets : RevealStreet(p, i)
    BY <2>4, RevealsKeep
  <2>5. CASE Ingest(p)
    <3>1. PICK m \in wire : m.from # p /\ (IngestKey(p, m) \/ IngestShuffle(p, m) \/ IngestReveal(p, m))
      BY <2>5 DEF Ingest
    <3> QED BY <3>1, IngestKeyKeeps, IngestShuffleKeeps, IngestRevealKeeps
  <2> QED BY <2>1, <2>2, <2>3, <2>4, <2>5
<1>2. CASE UNCHANGED vars
  BY <1>2 DEF vars, DealInv, Dealing
<1> QED
  BY <1>1, <1>2

\* Whatever the order in which payloads arrive and however often, every replica has the
\* deck its shuffles make it, the payloads on the wire are the ones its peers wrote and
\* one shuffle of each, and what is open is what the deck has there (PeerDeal,
\* deal/src/distributed.rs).
THEOREM ReplicasAreSound == Spec => []DealInv
<1> QED
  BY InitDeal, NextDeal, PTL DEF Spec

\* A replica with a deck has a key, and the deck has its shuffles.
LEMMA DeckOf ==
  ASSUME NEW s, Decked(s), s.deck # <<>>
  PROVE  s.aggregate # {} /\ s.deck \in Mixed(s.shuffles) /\ s.deck \in Deck
BY DEF Decked, Mixed

\* Whoever has applied a shuffle has applied that of a seat last.
LEMMA LastTurn ==
  ASSUME NEW k \in 0 .. N, k # 0
  PROVE  \E a \in Seat : k = a + 1
<1>1. N \in Nat /\ Seat = 0 .. N - 1
  BY Numbers
<1>2. k - 1 \in Seat /\ k = (k - 1) + 1
  BY <1>1
<1> QED
  BY <1>2

\* Two replicas that applied as many shuffles hold the same deck.
LEMMA InStep ==
  ASSUME NEW replicas, NEW sent, Dealing(replicas, sent), NEW p \in Seat, NEW q \in Seat,
         replicas[p].shuffles = replicas[q].shuffles,
         replicas[p].deck # <<>>, replicas[q].deck # <<>>
  PROVE  replicas[p].deck = replicas[q].deck
<1> DEFINE k == replicas[p].shuffles
<1>1. \A r \in Seat : Decked(replicas[r]) /\ ShufflesSent(sent, replicas[r]) /\ replicas[r] \in Replica
  BY DEF Dealing, Sound
<1>2. /\ replicas[p].aggregate # {} /\ replicas[p].deck \in Mixed(k)
      /\ replicas[q].aggregate # {} /\ replicas[q].deck \in Mixed(k)
  BY <1>1, DeckOf
<1>3. CASE k = 0
  BY <1>1, <1>2, <1>3 DEF Decked
<1>4. CASE k # 0
  <2>1. k \in 0 .. N
    BY <1>1 DEF Replica
  <2>2. PICK a \in Seat : k = a + 1
    BY <1>4, <2>1, LastTurn
  <2>3. ShufflePayload(a, replicas[p].deck) \in sent /\ ShufflePayload(a, replicas[q].deck) \in sent
    BY <1>1, <2>2 DEF ShufflesSent
  <2>4. OneShuffleEach(sent)
    BY DEF Dealing
  <2> QED BY <1>2, <2>2, <2>3, <2>4 DEF OneShuffleEach
<1> QED
  BY <1>3, <1>4

\* ReplicasInStep: replicas that applied as many shuffles hold the same face-down deck,
\* for every table size and deck, whatever order the shuffles came in (ingest_shuffle).
THEOREM InStepAlways == Spec => []ReplicasInStep
<1>1. DealInv => ReplicasInStep
  BY InStep DEF ReplicasInStep, DealInv
<1> QED
  BY <1>1, ReplicasAreSound, PTL

-----------------------------------------------------------------------------
(* Payloads that are cut *)

\* What is read of a payload, and it is never nothing.
LEMMA WholeOrNothing ==
  ASSUME NEW read, NEW n, NEW buf, NEW what, Rejects(read, n, buf, what), what # <<>>,
         n \in 0 .. Len(buf), Len(buf) \in Nat
  PROVE  read = <<>> <=> n < Len(buf)
BY DEF Rejects

LEMMA ReadSomething ==
  /\ \A seat, f, g, h : KeyRead(seat, f, g, h) # <<>>
  /\ \A seat, at, f, g, h : RevealRead(seat, at, f, g, h) # <<>>
<1>1. \A seat, f, g, h : KeyRead(seat, f, g, h) # <<>>
  <2> TAKE seat, f, g, h
  <2> DEFINE T == {seat, f, g, h}
             v == <<seat>>
             w == <<f, g, h>>
  <2>1. v \in Seq(T) /\ w \in Seq(T) /\ Len(v) = 1 /\ Len(w) = 3
    OBVIOUS
  <2> HIDE DEF T, v, w
  <2>2. v \o w # <<>>
    BY <2>1
  <2> QED BY <2>2 DEF KeyRead, v, w
<1>2. \A seat, at, f, g, h : RevealRead(seat, at, f, g, h) # <<>>
  <2> TAKE seat, at, f, g, h
  <2> DEFINE T == {seat, at, f, g, h}
             v == <<seat, at>>
             w == <<f, g, h>>
  <2>1. v \in Seq(T) /\ w \in Seq(T) /\ Len(v) = 2 /\ Len(w) = 3
    OBVIOUS
  <2> HIDE DEF T, v, w
  <2>2. v \o w # <<>>
    BY <2>1
  <2> QED BY <2>2 DEF RevealRead, v, w
<1> QED
  BY <1>1, <1>2

LEMMA CutKey ==
  ASSUME NEW a \in Seat, NEW buf \in KeyPayload(a).parts, NEW n \in 0 .. Len(buf)
  PROVE  ReadKey(SubSeq(buf, 1, n)) = <<>> <=> n < Len(buf)
<1> DEFINE what == KeyRead(a, <<KeyOf(a)>>, <<KeyOf(a), Info(a)>>, <<Info(a)>>)
<1>1. Rejects(ReadKey(Start(buf, n)), n, buf, what) /\ Len(buf) \in Nat
  BY KeyPayloadRead
<1>2. what # <<>>
  BY ReadSomething
<1> HIDE DEF what
<1>3. ReadKey(Start(buf, n)) = <<>> <=> n < Len(buf)
  BY <1>1, <1>2, WholeOrNothing
<1> QED
  BY <1>3 DEF Start

LEMMA CutShuffle ==
  ASSUME NEW a \in Seat, NEW d \in Deck, NEW buf \in ShufflePayload(a, d).parts,
         NEW n \in 0 .. Len(buf)
  PROVE  ReadShuffle(SubSeq(buf, 1, n)) = <<>> <=> n < Len(buf)
<1> DEFINE what == ShuffleRead(a, Written(d), <<a>>)
<1>1. Rejects(ReadShuffle(Start(buf, n)), n, buf, what) /\ Len(buf) \in Nat
  BY ShufflePayloadRead
<1>2. what # <<>>
  BY ShuffleReadIs
<1> HIDE DEF what
<1>3. ReadShuffle(Start(buf, n)) = <<>> <=> n < Len(buf)
  BY <1>1, <1>2, WholeOrNothing
<1> QED
  BY <1>3 DEF Start

LEMMA CutReveal ==
  ASSUME NEW a \in Seat, NEW buf \in Reveals(a), NEW n \in 0 .. Len(buf)
  PROVE  ReadReveal(SubSeq(buf, 1, n)) = <<>> <=> n < Len(buf)
<1>1. PICK position \in Position, token \in Words : buf = RevealBy(a, position, token)
  BY DEF Reveals
<1> DEFINE what == RevealRead(a, position, token, <<KeyOf(a)>>, <<KeyOf(a)>>)
<1>2. Rejects(ReadReveal(Start(buf, n)), n, buf, what) /\ Len(buf) \in Nat
  BY <1>1, RevealPayloadRead
<1>3. what # <<>>
  BY ReadSomething
<1> HIDE DEF what
<1>4. ReadReveal(Start(buf, n)) = <<>> <=> n < Len(buf)
  BY <1>2, <1>3, WholeOrNothing
<1> QED
  BY <1>4 DEF Start

\* CutPayloadsAreRefused: no part of a payload is read as a payload, whatever its words
\* are and wherever it is cut (the framing of wire, deal/src/distributed.rs).
THEOREM CutsAreRefused == Spec => []CutPayloadsAreRefused
<1>1. ASSUME DealInv PROVE CutPayloadsAreRefused
  <2>1. SUFFICES ASSUME NEW m \in wire, NEW bytes \in m.parts, NEW n \in 0 .. Len(bytes)
                 PROVE  LET b == SubSeq(bytes, 1, n)
                            read == CASE m.kind = "key" -> ReadKey(b)
                                      [] m.kind = "shuffle" -> ReadShuffle(b)
                                      [] OTHER -> ReadReveal(b)
                        IN read = <<>> <=> n < Len(bytes)
    BY DEF CutPayloadsAreRefused
  <2>2. Sent(peer, m)
    BY <1>1 DEF DealInv, Dealing
  <2>3. CASE m.kind = "key"
    <3>1. PICK a \in Seat : m = KeyPayload(a)
      BY <2>2, <2>3, KindOf
    <3>2. ReadKey(SubSeq(bytes, 1, n)) = <<>> <=> n < Len(bytes)
      BY <3>1, CutKey
    <3> QED BY <2>3, <3>2
  <2>4. CASE m.kind = "shuffle"
    <3>1. PICK a \in Seat : \E d \in Mixed(a + 1) : m = ShufflePayload(a, d)
      BY <2>2, <2>4, KindOf
    <3>2. PICK d \in Deck : m = ShufflePayload(a, d)
      BY <3>1 DEF Mixed
    <3>3. ReadShuffle(SubSeq(bytes, 1, n)) = <<>> <=> n < Len(bytes)
      BY <3>2, CutShuffle
    <3> QED BY <2>4, <3>3
  <2>5. CASE m.kind # "key" /\ m.kind # "shuffle"
    <3>1. PICK a \in Seat : \E round \in Round, parts \in SUBSET Reveals(a) : m = Payload(round, a, parts)
      BY <2>2, <2>5, KindOf
    <3>2. bytes \in Reveals(a)
      BY <3>1 DEF Payload
    <3>3. ReadReveal(SubSeq(bytes, 1, n)) = <<>> <=> n < Len(bytes)
      BY <3>2, CutReveal
    <3> QED BY <2>5, <3>3
  <2> QED BY <2>3, <2>4, <2>5
<1> QED
  BY <1>1, ReplicasAreSound, PTL

-----------------------------------------------------------------------------
(* The cards as the local dealer deals them *)

\* The seat that is served the k-th card, and what the dealing of n cards has done.
Served(k) == (Button + 1 + (k - 1)) % N

Serving(acc, n, cards, V) ==
  /\ acc \in [0 .. n -> V]
  /\ acc[0] = [s \in Seat |-> <<>>]
  /\ \A k \in 1 .. n : acc[k] = [acc[k - 1] EXCEPT ![Served(k)] = Append(@, cards[k - 1])]
  /\ acc[n] = DealHole(cards)

\* deal_hole serves one card after the other.
LEMMA DealHoleRuns ==
  ASSUME NEW cards \in [Position -> Position]
  PROVE  \E acc : Serving(acc, 2 * N, cards, [Seat -> Seq(Position)])
<1> DEFINE V == [Seat -> Seq(Position)]
           q == [i \in 1 .. 2 * N |-> i - 1]
           m == 2 * N
           base == [s \in Seat |-> <<>>]
           Serve(hole, idx) == [hole EXCEPT ![(Button + 1 + idx) % N] = Append(@, cards[idx])]
           step == [x \in (1 .. m) \X V |-> Serve(x[2], q[x[1]])]
           Recursive(g) == g = [t \in SUBSET (1 .. m) |->
                                  IF t = {} THEN base
                                  ELSE LET x == Max(t) IN Serve(g[t \ {x}], q[x])]
           it == CHOOSE g : Recursive(g)
<1>1. m \in Nat /\ DOMAIN q = 1 .. m /\ \A k \in 1 .. m : q[k] = k - 1 /\ q[k] \in Position
  BY Numbers
<1>2. base \in V
  <2>1. <<>> \in Seq(Position)
    OBVIOUS
  <2> QED BY <2>1
<1>3. DealHole(cards) = it[1 .. m]
  BY <1>1 DEF DealHole, FoldLeft, MapThenFoldSet
<1>4. ASSUME NEW k \in 1 .. m, NEW v \in V
      PROVE  step[<<k, v>>] = Serve(v, q[k]) /\ step[<<k, v>>] \in V
  <2>1. step[<<k, v>>] = Serve(v, q[k])
    OBVIOUS
  <2>2. cards[q[k]] \in Position
    BY <1>1
  <2> DEFINE c == cards[q[k]]
             seat == (Button + 1 + q[k]) % N
  <2>3. Serve(v, q[k]) = [v EXCEPT ![seat] = Append(@, c)]
    OBVIOUS
  <2> HIDE DEF c, seat
  <2>4. \A s \in Seat : Append(v[s], c) \in Seq(Position)
    BY <2>2, AppendProperties DEF c
  <2>5. Serve(v, q[k]) \in V
    <3>1. [v EXCEPT ![seat] = Append(@, c)] \in [Seat -> Seq(Position)]
      BY <2>4
    <3> QED BY <2>3, <3>1
  <2> QED BY <2>1, <2>5
<1> HIDE DEF V, step, base, q, m
<1>5. PICK g : Iteration(g, 1 .. m, V, base, Latest, step)
  BY <1>1, <1>2, <1>4, FoldExists
<1>6. \A t \in SUBSET (1 .. m) : t # {} => Max(t) \in 1 .. m /\ Latest[t] = Max(t)
  BY <1>1, LatestOf
<1> HIDE DEF Serve
<1>7. Recursive(g)
  <2>1. \A t \in SUBSET (1 .. m) :
          g[t] = IF t = {} THEN base ELSE Serve(g[t \ {Max(t)}], q[Max(t)])
    BY <1>4, <1>5, <1>6 DEF Iteration
  <2> QED BY <1>5, <2>1 DEF Iteration
<1>8. \A t \in SUBSET (1 .. m) :
        it[t] = IF t = {} THEN base ELSE Serve(it[t \ {Max(t)}], q[Max(t)])
  <2> HIDE DEF it
  <2>1. Recursive(it)
    BY <1>7 DEF it
  <2> QED BY <2>1
<1> HIDE DEF it, Recursive
<1>9. Folds(it, m, V, base, step)
  BY <1>4, <1>6, <1>8 DEF Folds
<1>10. PICK acc : Run(acc, m, V, base, step, it[1 .. m])
  BY <1>1, <1>2, <1>4, <1>9, FoldRuns
<1>11. acc \in [0 .. m -> V] /\ acc[0] = base /\ acc[m] = it[1 .. m]
  BY <1>10 DEF Run
<1>12. ASSUME NEW k \in 1 .. m
       PROVE  acc[k] = [acc[k - 1] EXCEPT ![Served(k)] = Append(@, cards[k - 1])]
  <2>1. acc[k - 1] \in V /\ q[k] = k - 1
    BY <1>1, <1>11
  <2>2. acc[k] = Serve(acc[k - 1], k - 1)
    BY <1>4, <1>10, <2>1 DEF Run
  <2> QED BY <2>2 DEF Serve, Served
<1> QED BY <1>3, <1>11, <1>12 DEF Serving, V, base, m

\* A seat is served the card at its place of each round, and no other.
LEMMA ServedAt ==
  ASSUME NEW o \in Seat, NEW first \in 0 .. N - 1,
         first = IF o > Button THEN o - (Button + 1) ELSE o + N - (Button + 1),
         NEW k \in 1 .. 2 * N
  PROVE  Served(k) \in Seat /\ (Served(k) = o <=> k = first + 1 \/ k = first + N + 1)
<1>1. N \in 2 .. 9 /\ o \in 0 .. N - 1 /\ Button \in 0 .. N - 1 /\ Seat = 0 .. N - 1
  BY Numbers
<1> DEFINE x == Button + 1 + (k - 1)
<1>2. x \in 0 .. 26 /\ x < 3 * N /\ x = Button + k
  BY <1>1
<1>3. \A n \in 2 .. 9, y \in 0 .. 26 :
        y < 3 * n => y % n = IF y < n THEN y ELSE IF y < 2 * n THEN y - n ELSE y - 2 * n
  OBVIOUS
<1>4. Served(k) = x % N
  BY DEF Served
<1> HIDE DEF x
<1>5. x % N = IF x < N THEN x ELSE IF x < 2 * N THEN x - N ELSE x - 2 * N
  BY <1>1, <1>2, <1>3
<1> QED
  BY <1>1, <1>2, <1>4, <1>5

LEMMA TwoCards ==
  ASSUME NEW S, NEW a \in S, NEW b \in S
  PROVE  Append(Append(<<>>, a), b) = <<a, b>>
<1>1. Append(<<>>, a) = <<a>>
  OBVIOUS
<1>2. <<a>> \in Seq(S) /\ Len(<<a>>) = 1 /\ <<a, b>> \in Seq(S) /\ Len(<<a, b>>) = 2
  OBVIOUS
<1>3. Append(<<a>>, b) = <<a, b>>
  <2> DEFINE x == Append(<<a>>, b)
             y == <<a, b>>
  <2>1. x \in Seq(S) /\ Len(x) = 2 /\ x[1] = a /\ x[2] = b
    BY <1>2
  <2>2. \A i \in 1 .. 2 : x[i] = y[i]
    BY <2>1
  <2> HIDE DEF x, y
  <2> QED BY <1>2, <2>1, <2>2, SeqEqual DEF x, y
<1> QED
  BY <1>1, <1>3

\* So it has the two cards of its positions.
LEMMA DealtHole ==
  ASSUME NEW s, s.deck \in Deck, NEW cards, cards = [i \in Position |-> CardAt(s, i)], NEW o \in Seat
  PROVE  DealHole(cards)[o] = CardsAt(s, HolePositions(o))
<1>1. PICK first \in 0 .. N - 1 :
        /\ HolePositions(o) = <<first, first + N>>
        /\ first = IF o > Button THEN o - (Button + 1) ELSE o + N - (Button + 1)
        /\ first \in Position /\ first + N \in Position
  BY HoleAt
<1> DEFINE m == 2 * N
           a == cards[first]
           b == cards[first + N]
<1>2. cards \in [Position -> Position] /\ a = CardAt(s, first) /\ b = CardAt(s, first + N)
  BY <1>1 DEF CardAt, Deck, MaskedCard
<1>3. PICK acc : Serving(acc, m, cards, [Seat -> Seq(Position)])
  BY <1>2, DealHoleRuns
<1> DEFINE h(k) == acc[k][o]
<1>4. m \in Nat /\ N \in 2 .. 9 /\ first < N /\ first \in Nat
  BY Numbers
<1>5. h(0) = <<>> /\ h(m) = DealHole(cards)[o]
  BY <1>3 DEF Serving
<1>6. a \in Position /\ b \in Position
  BY <1>1, <1>2
<1>7. ASSUME NEW k \in 1 .. m
      PROVE  /\ k = first + 1 => h(k) = Append(h(k - 1), a)
             /\ k = first + N + 1 => h(k) = Append(h(k - 1), b)
             /\ k # first + 1 /\ k # first + N + 1 => h(k) = h(k - 1)
  <2>1. Served(k) \in Seat /\ (Served(k) = o <=> k = first + 1 \/ k = first + N + 1)
    BY <1>1, ServedAt
  <2>2. k - 1 \in 0 .. m
    BY <1>4
  <2>3. acc[k - 1] \in [Seat -> Seq(Position)]
    BY <1>3, <2>2 DEF Serving
  <2>4. acc[k] = [acc[k - 1] EXCEPT ![Served(k)] = Append(@, cards[k - 1])]
    BY <1>3 DEF Serving
  <2>5. h(k) = IF Served(k) = o THEN Append(h(k - 1), cards[k - 1]) ELSE h(k - 1)
    BY <2>3, <2>4
  <2>6. /\ k = first + 1 => k - 1 = first
        /\ k = first + N + 1 => k - 1 = first + N
    BY <1>4
  <2> HIDE DEF h
  <2> QED BY <2>1, <2>5, <2>6
<1> HIDE DEF h, m, a, b
<1> DEFINE two == Append(Append(<<>>, a), b)
           P == {k \in Nat : k <= m =>
                   /\ k <= first => h(k) = <<>>
                   /\ k > first /\ k <= first + N => h(k) = Append(<<>>, a)
                   /\ k > first + N => h(k) = two}
<1>8. P = Nat
  <2> HIDE DEF two
  <2>1. 0 \in P
    BY <1>4, <1>5
  <2>2. ASSUME NEW k \in P PROVE k + 1 \in P
    <3> DEFINE j == k + 1
    <3>1. k \in Nat /\ j \in Nat /\ j - 1 = k /\ j = k + 1
      OBVIOUS
    <3> HIDE DEF j
    <3>2. SUFFICES ASSUME j <= m
                   PROVE  /\ j <= first => h(j) = <<>>
                          /\ j > first /\ j <= first + N => h(j) = Append(<<>>, a)
                          /\ j > first + N => h(j) = two
      BY <3>1 DEF j
    <3>3. j \in 1 .. m /\ k <= m
      BY <1>4, <3>1, <3>2
    <3>4. /\ j = first + 1 => h(j) = Append(h(k), a)
          /\ j = first + N + 1 => h(j) = Append(h(k), b)
          /\ j # first + 1 /\ j # first + N + 1 => h(j) = h(k)
      BY <1>7, <3>1, <3>3
    <3>5. /\ k <= first => h(k) = <<>>
          /\ k > first /\ k <= first + N => h(k) = Append(<<>>, a)
          /\ k > first + N => h(k) = two
      BY <3>3
    <3>6. CASE j = first + 1
      <4>1. k <= first /\ ~(j <= first) /\ j > first /\ j <= first + N /\ ~(j > first + N)
        BY <1>4, <3>1, <3>6
      <4> QED BY <3>4, <3>5, <3>6, <4>1
    <3>7. CASE j = first + N + 1
      <4>1. k > first /\ k <= first + N /\ ~(j <= first) /\ ~(j <= first + N) /\ j > first + N
        BY <1>4, <3>1, <3>7
      <4> QED BY <3>4, <3>5, <3>7, <4>1 DEF two
    <3>8. CASE j # first + 1 /\ j # first + N + 1
      BY <1>4, <3>1, <3>4, <3>5, <3>8
    <3> QED BY <3>6, <3>7, <3>8
  <2>3. P \in SUBSET Nat
    OBVIOUS
  <2> HIDE DEF P
  <2> QED BY <2>1, <2>2, <2>3, CountingUp
<1>9. h(m) = two
  <2>1. m \in P /\ m <= m /\ m > first + N
    BY <1>4, <1>8 DEF m
  <2> QED BY <2>1
<1>10. two = <<a, b>>
  BY <1>6, TwoCards
<1>11. CardsAt(s, HolePositions(o)) = <<CardAt(s, first), CardAt(s, first + N)>>
  <2>1. \A x, y : CardsAt(s, <<x, y>>) = <<CardAt(s, x), CardAt(s, y)>>
    BY DEF CardsAt
  <2> QED BY <1>1, <2>1
<1> QED
  BY <1>2, <1>5, <1>9, <1>10, <1>11

\* Some cards from one position on, and how many a street has.
From(cards, first, count) == [i \in 1 .. count |-> cards[first + i - 1]]
CardCount(street) == IF street = "flop" THEN 3 ELSE 1

Boards(acc, cards, V) ==
  /\ acc \in [0 .. Streets -> V]
  /\ acc[0] = [idx |-> 2 * N, board |-> <<>>]
  /\ \A k \in 1 .. Streets :
       LET first == acc[k - 1].idx + 1
           count == CardCount(StreetOrder[k])
       IN acc[k] = [idx |-> first + count, board |-> acc[k - 1].board \o From(cards, first, count)]
  /\ acc[Streets].board = DealBoard(cards)

BoardSoFar(cards) == [idx : Nat, board : Seq({cards[i] : i \in Nat})]

\* deal_community_street burns one card and deals the street, street after street.
LEMMA DealBoardRuns ==
  ASSUME NEW cards
  PROVE  \E acc : Boards(acc, cards, BoardSoFar(cards))
<1> DEFINE V == BoardSoFar(cards)
           X == {cards[i] : i \in Nat}
           q == SubSeq(StreetOrder, 1, Streets)
           m == Streets
           base == [idx |-> 2 * N, board |-> <<>>]
           Street1(sofar, name) ==
             LET first == sofar.idx + 1
                 count == IF name = "flop" THEN 3 ELSE 1
             IN [idx |-> first + count,
                 board |-> sofar.board \o [i \in 1 .. count |-> cards[first + i - 1]]]
           step == [x \in (1 .. m) \X V |-> Street1(x[2], q[x[1]])]
           Recursive(g) == g = [t \in SUBSET (1 .. m) |->
                                  IF t = {} THEN base
                                  ELSE LET x == Max(t) IN Street1(g[t \ {x}], q[x])]
           it == CHOOSE g : Recursive(g)
<1>1. m \in Nat /\ DOMAIN q = 1 .. m /\ \A k \in 1 .. m : q[k] = StreetOrder[k]
  <2> DEFINE order == StreetOrder
  <2>1. order \in Seq(StreetName) /\ Len(order) = 3 /\ \A k \in 1 .. 3 : order[k] \in StreetName
    BY DEF StreetOrder, StreetName
  <2>2. Streets \in 1 .. 3 /\ \A k \in 1 .. Streets : order[k] \in StreetName
    <3>1. Streets \in 1 .. 3
      BY Numbers
    <3>2. \A k \in 1 .. Streets : k \in 1 .. 3
      BY <3>1
    <3> QED BY <2>1, <3>1, <3>2
  <2> HIDE DEF order
  <2>3. /\ q \in Seq(StreetName) /\ Len(q) = Streets - 1 + 1
        /\ \A i \in 1 .. Streets - 1 + 1 : q[i] = order[1 + i - 1]
    BY <2>1, <2>2, SubSeqProperties DEF order
  <2> HIDE DEF q
  <2>4. Streets - 1 + 1 = Streets /\ \A i \in 1 .. Streets : 1 + i - 1 = i
    BY <2>2
  <2> QED BY <2>2, <2>3, <2>4 DEF order
<1>2. base \in V
  BY Numbers DEF BoardSoFar
<1>3. DealBoard(cards) = it[1 .. m].board
  BY <1>1 DEF DealBoard, FoldLeft, MapThenFoldSet
<1>4. ASSUME NEW k \in 1 .. m, NEW v \in V
      PROVE  step[<<k, v>>] = Street1(v, q[k]) /\ step[<<k, v>>] \in V
  <2>1. step[<<k, v>>] = Street1(v, q[k])
    OBVIOUS
  <2> DEFINE first == v.idx + 1
             count == IF q[k] = "flop" THEN 3 ELSE 1
             more == [i \in 1 .. count |-> cards[first + i - 1]]
  <2>2. v.idx \in Nat /\ v.board \in Seq(X)
    BY DEF BoardSoFar
  <2>3. first \in Nat /\ count \in Nat
    BY <2>2
  <2>4. \A i \in 1 .. count : cards[first + i - 1] \in X
    <3> HIDE DEF first, count
    <3> TAKE i \in 1 .. count
    <3>1. first + i - 1 \in Nat
      BY <2>3
    <3> QED BY <3>1
  <2>5. Street1(v, q[k]) = [idx |-> first + count, board |-> v.board \o more]
    OBVIOUS
  <2>9. V = [idx : Nat, board : Seq(X)]
    BY DEF BoardSoFar
  <2> HIDE DEF first, count, X, Street1, V
  <2>6. more \in Seq(X)
    BY <2>3, <2>4
  <2> HIDE DEF more
  <2>7. v.board \o more \in Seq(X) /\ first + count \in Nat
    BY <2>2, <2>3, <2>6
  <2>8. Street1(v, q[k]) \in V
    <3> DEFINE idx == first + count
               board == v.board \o more
    <3>1. Street1(v, q[k]) = [idx |-> idx, board |-> board] /\ idx \in Nat /\ board \in Seq(X)
      BY <2>5, <2>7
    <3> HIDE DEF idx, board
    <3>2. [idx |-> idx, board |-> board] \in [idx : Nat, board : Seq(X)]
      BY <3>1
    <3> QED BY <2>9, <3>1, <3>2
  <2> QED BY <2>1, <2>8
<1> HIDE DEF V, X, step, base, q, m
<1>5. PICK g : Iteration(g, 1 .. m, V, base, Latest, step)
  BY <1>1, <1>2, <1>4, FoldExists
<1>6. \A t \in SUBSET (1 .. m) : t # {} => Max(t) \in 1 .. m /\ Latest[t] = Max(t)
  BY <1>1, LatestOf
<1> HIDE DEF Street1
<1>7. Recursive(g)
  <2>1. \A t \in SUBSET (1 .. m) :
          g[t] = IF t = {} THEN base ELSE Street1(g[t \ {Max(t)}], q[Max(t)])
    BY <1>4, <1>5, <1>6 DEF Iteration
  <2> QED BY <1>5, <2>1 DEF Iteration
<1>8. \A t \in SUBSET (1 .. m) :
        it[t] = IF t = {} THEN base ELSE Street1(it[t \ {Max(t)}], q[Max(t)])
  <2> HIDE DEF it
  <2>1. Recursive(it)
    BY <1>7 DEF it
  <2> QED BY <2>1
<1> HIDE DEF it, Recursive
<1>9. Folds(it, m, V, base, step)
  BY <1>4, <1>6, <1>8 DEF Folds
<1>10. PICK acc : Run(acc, m, V, base, step, it[1 .. m])
  BY <1>1, <1>2, <1>4, <1>9, FoldRuns
<1>11. acc \in [0 .. m -> V] /\ acc[0] = base /\ acc[m] = it[1 .. m]
  BY <1>10 DEF Run
<1>12. ASSUME NEW k \in 1 .. m PROVE acc[k] = Street1(acc[k - 1], StreetOrder[k])
  <2>1. acc[k - 1] \in V /\ q[k] = StreetOrder[k]
    BY <1>1, <1>11
  <2> QED BY <1>4, <1>10, <2>1 DEF Run
<1> QED BY <1>3, <1>11, <1>12 DEF Boards, Street1, V, base, m, From, CardCount

\* The i-th street is the cards that the dealing has come to.
LEMMA StreetDealt ==
  ASSUME NEW s, s.deck \in Deck, NEW cards, cards = [i \in Position |-> CardAt(s, i)],
         NEW k \in 1 .. Streets, NEW first, first = 2 * N + <<1, 5, 7>>[k],
         NEW count, count = CardCount(StreetOrder[k])
  PROVE  From(cards, first, count) = CardsAt(s, BoardPositions(StreetOrder[k]))
<1> DEFINE one(x) == [i \in 1 .. 1 |-> CardAt(s, x)]
           three(x, y, z) == [i \in 1 .. 3 |-> CardAt(s, IF i = 1 THEN x ELSE IF i = 2 THEN y ELSE z)]
<1>1. StreetOrder[1] = "flop" /\ StreetOrder[2] = "turn" /\ StreetOrder[3] = "river"
  BY DEF StreetOrder
<1>2. /\ Streets \in 1 .. 3 /\ Cards >= 2 * N + 2 * Streets + 2 /\ Cards \in Nat /\ N \in 2 .. 9
      /\ Position = 0 .. Cards - 1
  BY Numbers
<1>3. \A x : CardsAt(s, <<x>>) = one(x)
  BY DEF CardsAt
<1>4. \A x, y, z : CardsAt(s, <<x, y, z>>) = three(x, y, z)
  <2> TAKE x, y, z
  <2>1. DOMAIN <<x, y, z>> = 1 .. 3 /\ \A i \in 1 .. 3 :
          <<x, y, z>>[i] = IF i = 1 THEN x ELSE IF i = 2 THEN y ELSE z
    OBVIOUS
  <2> QED BY <2>1 DEF CardsAt
<1>5. CASE k = 1
  <2>1. count = 3 /\ first = 2 * N + 1
    BY <1>1, <1>5 DEF CardCount
  <2>2. \A i \in 1 .. 3 : first + i - 1 \in Position /\
          first + i - 1 = IF i = 1 THEN 2 * N + 1 ELSE IF i = 2 THEN 2 * N + 2 ELSE 2 * N + 3
    BY <1>2, <2>1
  <2>3. \A i \in 1 .. 3 : cards[first + i - 1] = CardAt(s, first + i - 1)
    BY <2>2
  <2>4. From(cards, first, count) = three(2 * N + 1, 2 * N + 2, 2 * N + 3)
    <3>1. \A i \in 1 .. 3 : cards[first + i - 1] =
            CardAt(s, IF i = 1 THEN 2 * N + 1 ELSE IF i = 2 THEN 2 * N + 2 ELSE 2 * N + 3)
      BY <2>2, <2>3
    <3> QED BY <2>1, <3>1 DEF From
  <2>5. BoardPositions(StreetOrder[k]) = <<2 * N + 1, 2 * N + 2, 2 * N + 3>>
    BY <1>1, <1>5 DEF BoardPositions
  <2> HIDE DEF three
  <2> QED BY <1>4, <2>4, <2>5
<1>6. CASE k = 2 \/ k = 3
  <2>1. count = 1 /\ first = IF k = 2 THEN 2 * N + 5 ELSE 2 * N + 7
    BY <1>1, <1>6 DEF CardCount
  <2>2. first \in Position /\ \A i \in 1 .. 1 : first + i - 1 = first
    BY <1>2, <1>6, <2>1
  <2>3. From(cards, first, count) = one(first)
    BY <2>1, <2>2 DEF From
  <2>4. BoardPositions(StreetOrder[k]) = <<first>>
    BY <1>1, <1>6, <2>1 DEF BoardPositions
  <2> HIDE DEF one
  <2> QED BY <1>3, <2>3, <2>4
<1> QED
  BY <1>2, <1>5, <1>6

\* So the board is the one of the replica whose streets are all open.
LEMMA DealtBoard ==
  ASSUME NEW s, s.deck \in Deck, NEW cards, cards = [i \in Position |-> CardAt(s, i)]
  PROVE  DealBoard(cards) = BoardBefore(s, Streets + 1)
<1>1. PICK acc : Boards(acc, cards, BoardSoFar(cards))
  BY DealBoardRuns
<1>2. Streets \in 1 .. 3 /\ N \in 2 .. 9
  BY Numbers
<1> DEFINE idx(k) == acc[k].idx
           board(k) == acc[k].board
<1>3. idx(0) = 2 * N /\ board(0) = <<>> /\ board(Streets) = DealBoard(cards)
  BY <1>1 DEF Boards
<1>4. ASSUME NEW k \in 1 .. Streets
      PROVE  /\ idx(k) = idx(k - 1) + 1 + CardCount(StreetOrder[k])
             /\ board(k) = board(k - 1) \o From(cards, idx(k - 1) + 1, CardCount(StreetOrder[k]))
  <2> DEFINE i == idx(k - 1) + 1 + CardCount(StreetOrder[k])
             b == board(k - 1) \o From(cards, idx(k - 1) + 1, CardCount(StreetOrder[k]))
  <2>1. acc[k] = [idx |-> i, board |-> b]
    BY <1>1 DEF Boards
  <2> HIDE DEF i, b
  <2>2. idx(k) = i /\ board(k) = b
    BY <2>1
  <2> HIDE DEF idx, board
  <2> QED BY <2>2 DEF i, b
<1> HIDE DEF idx, board
<1>5. StreetOrder[1] = "flop" /\ StreetOrder[2] = "turn" /\ StreetOrder[3] = "river"
  BY DEF StreetOrder
<1>6. BoardBefore(s, 1) = <<>>
  BY BoardGrows
<1>7. ASSUME NEW k \in 1 .. Streets, NEW first, first = 2 * N + <<1, 5, 7>>[k],
             idx(k - 1) + 1 = first, board(k - 1) = BoardBefore(s, k)
      PROVE  board(k) = BoardBefore(s, k + 1)
  <2> DEFINE count == CardCount(StreetOrder[k])
  <2>1. board(k) = board(k - 1) \o From(cards, first, count)
    BY <1>4, <1>7
  <2>2. From(cards, first, count) = CardsAt(s, BoardPositions(StreetOrder[k]))
    BY <1>7, StreetDealt
  <2>3. BoardBefore(s, k) \o CardsAt(s, BoardPositions(StreetOrder[k])) = BoardBefore(s, k + 1)
    BY BoardGrows
  <2> QED BY <1>7, <2>1, <2>2, <2>3
<1>8. idx(1) = 2 * N + 4 /\ board(1) = BoardBefore(s, 2)
  <2>1. 1 \in 1 .. Streets /\ 1 - 1 = 0 /\ 1 + 1 = 2
    BY <1>2
  <2>2. idx(0) + 1 = 2 * N + <<1, 5, 7>>[1]
    BY <1>2, <1>3
  <2>3. board(1) = BoardBefore(s, 2)
    BY <1>3, <1>6, <1>7, <2>1, <2>2
  <2>4. idx(1) = idx(0) + 1 + 3
    BY <1>4, <1>5, <2>1 DEF CardCount
  <2> QED BY <1>2, <1>3, <2>3, <2>4
<1>9. Streets >= 2 => idx(2) = 2 * N + 6 /\ board(2) = BoardBefore(s, 3)
  <2> SUFFICES ASSUME Streets >= 2 PROVE idx(2) = 2 * N + 6 /\ board(2) = BoardBefore(s, 3)
    OBVIOUS
  <2>1. 2 \in 1 .. Streets /\ 2 - 1 = 1 /\ 2 + 1 = 3
    BY <1>2
  <2>2. idx(1) + 1 = 2 * N + <<1, 5, 7>>[2]
    BY <1>2, <1>8
  <2>3. board(2) = BoardBefore(s, 3)
    BY <1>7, <1>8, <2>1, <2>2
  <2>4. idx(2) = idx(1) + 1 + 1
    BY <1>4, <1>5, <2>1 DEF CardCount
  <2> QED BY <1>2, <1>8, <2>3, <2>4
<1>10. Streets = 3 => board(3) = BoardBefore(s, 4)
  <2> SUFFICES ASSUME Streets = 3 PROVE board(3) = BoardBefore(s, 4)
    OBVIOUS
  <2>1. 3 \in 1 .. Streets /\ 3 - 1 = 2 /\ 3 + 1 = 4
    BY <1>2
  <2>2. idx(2) + 1 = 2 * N + <<1, 5, 7>>[3]
    BY <1>2, <1>9
  <2> QED BY <1>7, <1>9, <2>1, <2>2
<1>11. CASE Streets = 1
  BY <1>3, <1>8, <1>11
<1>12. CASE Streets = 2
  BY <1>3, <1>9, <1>12
<1>13. CASE Streets = 3
  BY <1>3, <1>10, <1>13
<1> QED
  BY <1>2, <1>11, <1>12, <1>13

\* What is open of a board begins it.
LEMMA BoardBegins ==
  ASSUME NEW s, s.deck \in Deck, NEW i \in 1 .. Streets + 1
  PROVE  IsPrefix(BoardBefore(s, i), BoardBefore(s, Streets + 1))
<1> DEFINE l == BoardBefore(s, i)
           r == BoardBefore(s, Streets + 1)
           n == BoardSize(i)
           m == BoardSize(Streets + 1)
           card(j) == CardAt(s, BoardSlot(j))
<1>1. n \in Nat /\ m \in Nat /\ n <= m
  BY Numbers DEF BoardSize
<1>2. Streets + 1 \in 1 .. Streets + 1
  BY Numbers
<1>3. l \in Seq(Position) /\ r \in Seq(Position)
  BY <1>2, BoardGrows
<1>4. l = [j \in 1 .. n |-> card(j)] /\ r = [j \in 1 .. m |-> card(j)]
  BY DEF BoardBefore
<1> HIDE DEF l, r, n, m, card
<1>5. Len(l) = n /\ Len(r) = m /\ \A j \in 1 .. n : l[j] = r[j]
  BY <1>1, <1>3, <1>4
<1>6. SubSeq(l, 1, n) = l
  BY <1>3, <1>5, SubSeqFull
<1>7. SubSeq(r, 1, n) = l
  <2> DEFINE b == SubSeq(r, 1, n)
  <2>1. \A j \in 1 .. n : j \in 1 .. Len(r) /\ r[j] \in Position
    BY <1>1, <1>3, <1>5
  <2>2. b \in Seq(Position) /\ Len(b) = n /\ \A j \in 1 .. n : b[j] = r[j]
    <3>1. \A j \in 1 .. n : r[j] \in Position
      BY <2>1
    <3>2. /\ b \in Seq(Position) /\ Len(b) = IF 1 <= n THEN n - 1 + 1 ELSE 0
          /\ \A j \in 1 .. n - 1 + 1 : b[j] = r[1 + j - 1]
      BY <1>1, <1>3, <3>1, SubSeqProperties
    <3> HIDE DEF b
    <3> QED BY <1>1, <3>2
  <2> HIDE DEF b
  <2>3. \A j \in 1 .. n : b[j] = l[j]
    BY <1>5, <2>2
  <2>4. b = l
    BY <1>3, <1>5, <2>2, <2>3, SeqEqual
  <2> QED BY <2>4 DEF b
<1>8. IsPrefix(l, r)
  BY <1>1, <1>5, <1>6, <1>7 DEF IsPrefix
<1> QED
  BY <1>8 DEF l, r

\* CardsAsDealt: whatever opens is what the local dealer would have dealt from the deck
\* of the replica (DeckLayout against deal_hole and deal_community_street).
THEOREM DealtAsLocally == Spec => []CardsAsDealt
<1>1. ASSUME DealInv PROVE CardsAsDealt
  <2> SUFFICES ASSUME NEW p \in Seat, Phase(peer[p]) = "Ready"
               PROVE  \E cards \in {[i \in Position |-> CardAt(peer[p], i)]} :
                      \E hole \in {DealHole(cards)} :
                        /\ peer[p].localHole \in {<<>>, hole[p]}
                        /\ \A s \in Seat : peer[p].shown[s] \in {<<>>, hole[s]}
                        /\ IsPrefix(peer[p].board, DealBoard(cards))
    BY DEF CardsAsDealt
  <2> DEFINE s == peer[p]
             cards == [i \in Position |-> CardAt(s, i)]
  <2>1. Opened(p, s) /\ s.deck \in Deck
    <3>1. Sound(p, s)
      BY <1>1 DEF DealInv, Dealing
    <3> QED BY <3>1 DEF Sound, Phase, Decked, Mixed
  <2>2. \A o \in Seat : DealHole(cards)[o] = CardsAt(s, HolePositions(o))
    BY <2>1, DealtHole
  <2>3. DealBoard(cards) = BoardBefore(s, Streets + 1)
    BY <2>1, DealtBoard
  <2>4. PICK i \in 1 .. Streets + 1 : s.board = BoardBefore(s, i)
    BY <2>1 DEF Opened
  <2>5. IsPrefix(s.board, DealBoard(cards))
    BY <2>1, <2>3, <2>4, BoardBegins
  <2>6. /\ s.localHole \in {<<>>, DealHole(cards)[p]}
        /\ \A o \in Seat : s.shown[o] \in {<<>>, DealHole(cards)[o]}
    BY <2>1, <2>2 DEF Opened
  <2> HIDE DEF cards
  <2>7. \E hole \in {DealHole(cards)} :
          /\ s.localHole \in {<<>>, hole[p]}
          /\ \A o \in Seat : s.shown[o] \in {<<>>, hole[o]}
          /\ IsPrefix(s.board, DealBoard(cards))
    BY <2>5, <2>6
  <2> QED BY <2>7 DEF cards
<1> QED
  BY <1>1, ReplicasAreSound, PTL

-----------------------------------------------------------------------------
(* The replicas together are the deal of one process *)

\* The deck no peer is ahead of, as PeerDeal maps it, and what is open anywhere.
Ahead(replicas, p) ==
  /\ replicas[p].deck = <<>> => \A q \in Seat : replicas[q].deck = <<>>
  /\ \A q \in Seat : replicas[q].shuffles <= replicas[p].shuffles
TheDeck(replicas) == replicas[CHOOSE p \in Seat : Ahead(replicas, p)].deck

OpenHand(p, s) == {<<HolePositions(p)[i], s.localHole[i]>> : i \in DOMAIN s.localHole}
OpenShowdown(o, s) == {<<HolePositions(o)[i], s.shown[o][i]>> : i \in DOMAIN s.shown[o]}
OpenBoard(s) == {<<(<<1, 2, 3, 5, 7>>[i]) + 2 * N, s.board[i]>> : i \in DOMAIN s.board}
OpenIn(p, s) ==
  OpenHand(p, s) \union (UNION {OpenShowdown(o, s) : o \in Seat}) \union OpenBoard(s)
AllOpen(replicas) == UNION {OpenIn(p, replicas[p]) : p \in Seat}

\* Some peer is ahead, and all that are have the same deck.
LEMMA AheadDeck ==
  ASSUME NEW replicas, NEW sent, Dealing(replicas, sent)
  PROVE  /\ \E p \in Seat : Ahead(replicas, p)
         /\ \A p \in Seat : Ahead(replicas, p) => replicas[p].deck = TheDeck(replicas)
<1>1. \A q \in Seat : Decked(replicas[q]) /\ replicas[q] \in Replica
  BY DEF Dealing, Sound
<1>2. \A q \in Seat : replicas[q].shuffles \in 0 .. N
  BY <1>1 DEF Replica
<1>3. \A q \in Seat : replicas[q].deck = <<>> => replicas[q].shuffles = 0
  BY <1>1, NoEmptyDeck DEF Decked, Mixed
<1>4. \E p \in Seat : Ahead(replicas, p)
  <2>1. CASE \A q \in Seat : replicas[q].deck = <<>>
    <3>1. 0 \in Seat /\ \A q \in Seat : replicas[q].shuffles = 0
      BY <1>3, <2>1, SeatNumbers
    <3> QED BY <2>1, <3>1 DEF Ahead
  <2>2. CASE \E q \in Seat : replicas[q].deck # <<>>
    <3> DEFINE gap(q) == N - replicas[q].shuffles
               gaps == {gap(q) : q \in {r \in Seat : replicas[r].deck # <<>>}}
    <3>1. N \in Nat /\ \A q \in Seat : gap(q) \in Nat
      <4>1. \A k \in 0 .. N : N - k \in Nat
        BY SeatNumbers
      <4> QED BY <1>2, <4>1, SeatNumbers
    <3>2. gaps \in SUBSET Nat /\ gaps # {}
      BY <2>2, <3>1
    <3>3. \E g \in gaps : \A h \in gaps : g <= h
      <4> HIDE DEF gaps
      <4> QED BY <3>2, LeastNumber
    <3>4. PICK p \in Seat : /\ replicas[p].deck # <<>>
                            /\ \A q \in Seat : replicas[q].deck # <<>> => gap(p) <= gap(q)
      BY <3>3
    <3>5. \A q \in Seat : replicas[q].shuffles <= replicas[p].shuffles
      <4> TAKE q \in Seat
      <4> DEFINE x == replicas[q].shuffles
                 y == replicas[p].shuffles
      <4>1. x \in Nat /\ y \in Nat
        BY <1>2
      <4>2. replicas[q].deck # <<>> => N - y <= N - x
        BY <3>4
      <4>3. replicas[q].deck = <<>> => x = 0
        BY <1>3
      <4> HIDE DEF x, y
      <4>4. x <= y
        BY <3>1, <4>1, <4>2, <4>3
      <4> QED BY <4>4 DEF x, y
    <3> QED BY <3>4, <3>5 DEF Ahead
  <2> QED BY <2>1, <2>2
<1>5. ASSUME NEW p \in Seat, NEW q \in Seat, Ahead(replicas, p), Ahead(replicas, q)
      PROVE  replicas[p].deck = replicas[q].deck
  <2>1. CASE replicas[p].deck = <<>> \/ replicas[q].deck = <<>>
    BY <1>5, <2>1 DEF Ahead
  <2>2. CASE replicas[p].deck # <<>> /\ replicas[q].deck # <<>>
    <3> DEFINE x == replicas[q].shuffles
               y == replicas[p].shuffles
    <3>1. x \in 0 .. N /\ y \in 0 .. N /\ x <= y /\ y <= x
      BY <1>2, <1>5 DEF Ahead
    <3> HIDE DEF x, y
    <3>2. x = y
      BY <3>1
    <3> QED BY <2>2, <3>2, InStep DEF x, y
  <2> QED BY <2>1, <2>2
<1> DEFINE f == CHOOSE p \in Seat : Ahead(replicas, p)
<1>6. f \in Seat /\ Ahead(replicas, f)
  BY <1>4
<1> HIDE DEF f
<1>7. TheDeck(replicas) = replicas[f].deck
  BY DEF TheDeck, f
<1> QED
  BY <1>4, <1>5, <1>6, <1>7

\* A deck that is ready is the one no peer is ahead of, with all shuffles.
LEMMA ReadyIsAhead ==
  ASSUME NEW replicas, NEW sent, Dealing(replicas, sent), NEW p \in Seat,
         Phase(replicas[p]) = "Ready"
  PROVE  /\ TheDeck(replicas) = replicas[p].deck /\ TheDeck(replicas) \in Mixed(N)
         /\ TheDeck(replicas) # <<>>
<1>1. \A q \in Seat : Decked(replicas[q]) /\ replicas[q] \in Replica
  BY DEF Dealing, Sound
<1>2. N \in Nat /\ \A q \in Seat : replicas[q].shuffles \in 0 .. N
  <2>1. \A q \in Seat : replicas[q].shuffles \in 0 .. N
    BY <1>1 DEF Replica
  <2> QED BY <2>1, Numbers
<1>3. replicas[p].aggregate # {} /\ replicas[p].shuffles = N
  BY <1>2 DEF Phase
<1>4. replicas[p].deck \in Mixed(N)
  BY <1>1, <1>3 DEF Decked
<1>5. replicas[p].deck # <<>>
  <2>1. 0 \in Position /\ DOMAIN <<>> = {} /\ DOMAIN replicas[p].deck = Position
    BY <1>4, Numbers DEF Mixed, Deck
  <2> QED BY <2>1
<1>6. Ahead(replicas, p)
  BY <1>2, <1>3, <1>5 DEF Ahead
<1> QED
  BY <1>4, <1>5, <1>6, AheadDeck

LEMMA SeatTurn ==
  ASSUME NEW p \in Seat PROVE p \in Nat /\ p \in 0 .. N /\ p < N
BY Numbers

\* How many shuffles a deck has had.
LEMMA TurnOf ==
  ASSUME NEW k \in 0 .. N, NEW d \in Mixed(k)
  PROVE  Len(d[0].masks) = k
<1>1. 0 \in Position /\ k \in Nat
  BY Numbers
<1>2. d[0].masks = Order(k)
  BY <1>1 DEF Mixed
<1> QED
  BY <1>1, <1>2 DEF Order

\* Whatever is open anywhere is what that deck has there.
LEMMA OpenIsDealt ==
  ASSUME NEW replicas, NEW sent, Dealing(replicas, sent), NEW x \in AllOpen(replicas)
  PROVE  x[2] = TheDeck(replicas)[x[1]].card
<1>1. PICK p \in Seat : x \in OpenIn(p, replicas[p])
  BY DEF AllOpen
<1> DEFINE s == replicas[p]
<1>2. Sound(p, s)
  BY DEF Dealing
<1>3. Phase(s) = "Ready"
  <2>1. SUFFICES ASSUME Closed(s) PROVE FALSE
    BY <1>2 DEF Sound
  <2>2. DOMAIN <<>> = {}
    OBVIOUS
  <2>3. OpenIn(p, s) = {}
    BY <2>1, <2>2 DEF Closed, OpenIn, OpenHand, OpenShowdown, OpenBoard
  <2> QED BY <1>1, <2>3
<1>4. TheDeck(replicas) = s.deck /\ Opened(p, s)
  BY <1>2, <1>3, ReadyIsAhead DEF Sound
<1> DEFINE Dealt(y) == y[2] = s.deck[y[1]].card
<1>5. ASSUME NEW o \in Seat, NEW cards \in {<<>>, CardsAt(s, HolePositions(o))},
             NEW i \in DOMAIN cards
      PROVE  Dealt(<<HolePositions(o)[i], cards[i]>>)
  <2>1. DOMAIN <<>> = {}
    OBVIOUS
  <2>2. cards = CardsAt(s, HolePositions(o))
    BY <1>5, <2>1
  <2>3. cards[i] = s.deck[HolePositions(o)[i]].card
    BY <2>2 DEF CardsAt, CardAt
  <2> QED BY <2>3
<1>6. ASSUME NEW i \in DOMAIN s.board
      PROVE  Dealt(<<(<<1, 2, 3, 5, 7>>[i]) + 2 * N, s.board[i]>>)
  <2>1. PICK k \in 1 .. Streets + 1 : s.board = BoardBefore(s, k)
    BY <1>4 DEF Opened
  <2>2. s.board[i] = CardAt(s, BoardSlot(i))
    BY <1>6, <2>1 DEF BoardBefore
  <2> QED BY <2>2 DEF BoardSlot, CardAt
<1>7. Dealt(x)
  <2>1. CASE x \in OpenHand(p, s)
    BY <1>4, <1>5, <2>1 DEF Opened, OpenHand
  <2>2. ASSUME NEW o \in Seat, x \in OpenShowdown(o, s) PROVE Dealt(x)
    <3>1. s.shown[o] \in {<<>>, CardsAt(s, HolePositions(o))}
      BY <1>4 DEF Opened
    <3> QED BY <1>5, <2>2, <3>1 DEF OpenShowdown
  <2>3. CASE x \in OpenBoard(s)
    BY <1>6, <2>3 DEF OpenBoard
  <2> HIDE DEF Dealt
  <2>4. x \in OpenHand(p, s) \/ (\E o \in Seat : x \in OpenShowdown(o, s)) \/ x \in OpenBoard(s)
    BY <1>1 DEF OpenIn
  <2> QED BY <2>1, <2>2, <2>3, <2>4
<1> QED
  BY <1>4, <1>7

\* A replica that keeps what it has keeps what is open.
LEMMA OpenGrows ==
  ASSUME NEW p \in Seat, NEW s, NEW t, Opened(p, s), Opened(p, t), Keeps(s, t)
  PROVE  OpenIn(p, s) \subseteq OpenIn(p, t)
<1>1. DOMAIN <<>> = {}
  OBVIOUS
<1>2. OpenHand(p, s) \subseteq OpenHand(p, t)
  <2>1. CASE s.localHole = <<>>
    BY <1>1, <2>1 DEF OpenHand
  <2>2. CASE s.localHole # <<>>
    BY <2>2 DEF Keeps, OpenHand
  <2> QED BY <2>1, <2>2
<1>3. \A o \in Seat : OpenShowdown(o, s) \subseteq OpenShowdown(o, t)
  <2> TAKE o \in Seat
  <2>1. CASE s.shown[o] = <<>>
    BY <1>1, <2>1 DEF OpenShowdown
  <2>2. CASE s.shown[o] # <<>>
    BY <2>2 DEF Keeps, OpenShowdown
  <2> QED BY <2>1, <2>2
<1>4. OpenBoard(s) \subseteq OpenBoard(t)
  <2>1. PICK i \in 1 .. Streets + 1 : s.done = Before(i) /\ s.board = BoardBefore(s, i)
    BY DEF Opened
  <2>2. PICK j \in 1 .. Streets + 1 : t.done = Before(j) /\ t.board = BoardBefore(t, j)
    BY DEF Opened
  <2>3. i <= j
    <3>1. SUFFICES ASSUME j < i PROVE FALSE
      BY Numbers
    <3>2. j \in 1 .. Streets /\ j \in 1 .. i - 1
      BY <3>1, Numbers
    <3>3. StreetOrder[j] \in Before(i)
      BY <3>2 DEF Before
    <3>4. StreetOrder[j] \notin Before(j)
      BY <3>2, StreetsInOrder
    <3> QED BY <2>1, <2>2, <3>3, <3>4 DEF Keeps
  <2>4. BoardSize(i) \in Nat /\ BoardSize(j) \in Nat /\ BoardSize(i) <= BoardSize(j)
    BY <2>3, Numbers DEF BoardSize
  <2>5. \A k \in DOMAIN s.board : k \in DOMAIN t.board /\ t.board[k] = s.board[k]
    <3>1. s.deck = t.deck
      BY DEF Keeps
    <3>2. \A k : CardAt(s, BoardSlot(k)) = CardAt(t, BoardSlot(k))
      BY <3>1 DEF CardAt
    <3> QED BY <2>1, <2>2, <2>4, <3>2 DEF BoardBefore
  <2> QED BY <2>5 DEF OpenBoard
<1>5. (UNION {OpenShowdown(o, s) : o \in Seat}) \subseteq UNION {OpenShowdown(o, t) : o \in Seat}
  BY <1>3
<1> QED
  BY <1>2, <1>4, <1>5 DEF OpenIn

\* What the abstract deal sees of a state.
LEMMA Mapped ==
  /\ peer[Furthest].deck = TheDeck(peer) /\ (peer[Furthest].deck)' = TheDeck(peer')
  /\ (UNION {OpenedBy(p) : p \in Seat}) = AllOpen(peer)
  /\ (UNION {OpenedBy(p) : p \in Seat})' = AllOpen(peer')
  /\ Single!Position = Position /\ Single!Seat = Seat
  /\ Single!OpenDeck = OpenDeck
  /\ \A d, perm, by : Single!Remask(d, perm, by) = Remask(d, perm, by)
<1>1. peer[Furthest].deck = TheDeck(peer) /\ (peer[Furthest].deck)' = TheDeck(peer')
  BY DEF Furthest, TheDeck, Ahead
<1>2. \A p \in Seat : OpenedBy(p) = OpenIn(p, peer[p]) /\ OpenedBy(p)' = OpenIn(p, peer'[p])
  BY DEF OpenedBy, OpenIn, OpenHand, OpenShowdown, OpenBoard
<1>3. /\ (UNION {OpenedBy(p) : p \in Seat}) = AllOpen(peer)
      /\ (UNION {OpenedBy(p) : p \in Seat})' = AllOpen(peer')
  BY <1>2 DEF AllOpen
<1>4. Single!Position = Position /\ Single!Seat = Seat
  BY DEF Single!Position, Position, Single!Seat, Seat
<1>5. Single!OpenDeck = OpenDeck
  BY <1>4 DEF Single!OpenDeck, OpenDeck, Single!Masked, Masked
<1>6. \A d, perm, by : Single!Remask(d, perm, by) = Remask(d, perm, by)
  BY <1>4 DEF Single!Remask, Remask, Single!Masked, Masked
<1> QED
  BY <1>1, <1>3, <1>4, <1>5, <1>6

\* A step that opens some cards unmasks them, one that leaves deck and cards stutters.
LEMMA StepUnmasks ==
  ASSUME DealInv, DealInv', NEW p \in Seat, NEW s, NEW t, peer' = [peer EXCEPT ![p] = t],
         Phase(peer[p]) = "Ready", Keeps(s, t),
         s.deck = peer[p].deck, s.shuffles = peer[p].shuffles, s.aggregate = peer[p].aggregate,
         s.localHole = peer[p].localHole, s.shown = peer[p].shown, s.board = peer[p].board,
         s.done = peer[p].done
  PROVE  Single!Unmask
<1>1. Dealing(peer, wire) /\ Dealing(peer', wire')
  BY DEF DealInv
<1>2. peer \in [Seat -> Replica] /\ \A q \in Seat : peer'[q] = IF q = p THEN t ELSE peer[q]
  BY <1>1 DEF Dealing
<1>3. Opened(p, peer[p])
  BY <1>1 DEF Dealing, Sound
<1>4. Phase(t) = "Ready" /\ t.deck = peer[p].deck
  BY DEF Keeps, Phase
<1>5. Opened(p, t)
  BY <1>1, <1>2, <1>4 DEF Dealing, Sound
<1>6. Opened(p, s)
  BY <1>3 DEF Opened, CardsAt, CardAt, BoardBefore
<1>7. OpenIn(p, peer[p]) = OpenIn(p, s)
  BY DEF OpenIn, OpenHand, OpenShowdown, OpenBoard
<1>8. OpenIn(p, peer[p]) \subseteq OpenIn(p, t)
  BY <1>5, <1>6, <1>7, OpenGrows
<1>9. AllOpen(peer) \subseteq AllOpen(peer')
  BY <1>2, <1>8 DEF AllOpen
<1>10. /\ TheDeck(peer) = peer[p].deck /\ TheDeck(peer) \in Mixed(N) /\ TheDeck(peer) # <<>>
  BY <1>1, ReadyIsAhead
<1>11. TheDeck(peer') = t.deck
  BY <1>1, <1>2, <1>4, ReadyIsAhead
<1>12. Len(TheDeck(peer)[0].masks) = N
  <2>1. N \in 0 .. N
    BY Numbers
  <2> QED BY <1>10, <2>1, TurnOf
<1>13. \A x \in AllOpen(peer') : x[2] = TheDeck(peer')[x[1]].card
  BY <1>1, OpenIsDealt
<1>14. TheDeck(peer') = TheDeck(peer)
  BY <1>4, <1>10, <1>11
<1> QED
  BY <1>9, <1>10, <1>12, <1>13, <1>14, Mapped DEF Single!Unmask, Single!Turn

\* A replica that takes in a key.
LEMMA StepKeys ==
  ASSUME DealInv, DealInv', NEW p \in Seat, NEW t, peer' = [peer EXCEPT ![p] = t],
         t.shuffles = peer[p].shuffles, t.localHole = peer[p].localHole,
         t.shown = peer[p].shown, t.board = peer[p].board,
         t.deck = peer[p].deck \/ (peer[p].deck = <<>> /\ t.deck = OpenDeck)
  PROVE  Single!FaceDown \/ UNCHANGED Single!dealVars
<1>1. Dealing(peer, wire) /\ Dealing(peer', wire')
  BY DEF DealInv
<1>2. peer \in [Seat -> Replica] /\ \A q \in Seat : peer'[q] = IF q = p THEN t ELSE peer[q]
  BY <1>1 DEF Dealing
<1>3. AllOpen(peer') = AllOpen(peer)
  <2>1. OpenIn(p, t) = OpenIn(p, peer[p])
    BY DEF OpenIn, OpenHand, OpenShowdown, OpenBoard
  <2> QED BY <1>2, <2>1 DEF AllOpen
<1>4. OpenDeck # <<>>
  <2>1. 0 \in Position /\ DOMAIN <<>> = {} /\ DOMAIN OpenDeck = Position
    BY Numbers DEF OpenDeck
  <2> QED BY <2>1
<1>5. PICK f \in Seat : Ahead(peer, f)
  BY <1>1, AheadDeck
<1>6. TheDeck(peer) = peer[f].deck
  BY <1>1, <1>5, AheadDeck
<1>7. \A q \in Seat : peer'[q].shuffles = peer[q].shuffles
  BY <1>2
<1>8. CASE TheDeck(peer) # <<>>
  <2>1. peer'[f].deck = peer[f].deck
    BY <1>2, <1>6, <1>8
  <2>2. Ahead(peer', f)
    BY <1>5, <1>6, <1>7, <1>8, <2>1 DEF Ahead
  <2>3. TheDeck(peer') = peer'[f].deck
    BY <1>1, <2>2, AheadDeck
  <2>4. TheDeck(peer') = TheDeck(peer)
    BY <1>6, <2>1, <2>3
  <2> QED BY <1>3, <2>4, Mapped DEF Single!dealVars
<1>9. CASE TheDeck(peer) = <<>>
  <2>1. \A q \in Seat : peer[q].deck = <<>>
    BY <1>5, <1>6, <1>9 DEF Ahead
  <2>2. \A q \in Seat : peer[q].shuffles = 0
    <3>1. <<>> \notin Deck
      BY NoEmptyDeck
    <3>2. \A q \in Seat : Decked(peer[q])
      BY <1>1 DEF Dealing, Sound
    <3> QED BY <2>1, <3>1, <3>2 DEF Decked, Mixed
  <2>3. Ahead(peer', p)
    <3>1. 0 <= 0
      OBVIOUS
    <3>2. \A q \in Seat : peer'[q].shuffles <= peer'[p].shuffles
      BY <1>7, <2>2, <3>1
    <3>3. peer'[p].deck = <<>> => \A q \in Seat : peer'[q].deck = <<>>
      BY <1>2, <2>1
    <3> QED BY <3>2, <3>3 DEF Ahead
  <2>4. TheDeck(peer') = t.deck
    BY <1>1, <1>2, <2>3, AheadDeck
  <2>5. CASE t.deck = <<>>
    BY <1>3, <1>9, <2>4, <2>5, Mapped DEF Single!dealVars
  <2>6. CASE t.deck = OpenDeck
    BY <1>3, <1>4, <1>9, <2>4, <2>6, Mapped DEF Single!FaceDown
  <2> QED BY <2>1, <2>5, <2>6
<1> QED
  BY <1>8, <1>9

\* One's own shuffle is made on the deck no peer is ahead of.
LEMMA StepShuffles ==
  ASSUME DealInv, DealInv', NEW p \in Seat, MakeShuffle(p), NEW perm \in Rearrangements,
         peer' = [peer EXCEPT ![p] = [peer[p] EXCEPT !.deck = Remask(peer[p].deck, perm, p),
                                                      !.shuffles = @ + 1]]
  PROVE  Single!Shuffle
<1> DEFINE s == peer[p]
           new == Remask(s.deck, perm, p)
           t == [s EXCEPT !.deck = new, !.shuffles = @ + 1]
<1>1. Dealing(peer, wire) /\ Dealing(peer', wire')
  BY DEF DealInv
<1>2. /\ Phase(s) = "Shuffle" /\ s.shuffles = p /\ s \in Replica /\ Decked(s)
      /\ peer \in [Seat -> Replica]
  BY <1>1 DEF MakeShuffle, MyTurn, Dealing, Sound
<1>3. s.deck \in Mixed(p)
  BY <1>2 DEF Phase, Decked
<1>4. \A d \in Deck : d # <<>>
  BY NoEmptyDeck
<1>5. s.deck # <<>>
  BY <1>3, <1>4 DEF Mixed
<1>6. new \in Mixed(p + 1)
  BY <1>3, RemaskMixes
<1>7. new # <<>>
  BY <1>4, <1>6 DEF Mixed
<1>8. peer' = [peer EXCEPT ![p] = t]
  OBVIOUS
<1> HIDE DEF new
<1>9. /\ t.deck = new /\ t.shuffles = p + 1 /\ t.localHole = s.localHole
      /\ t.shown = s.shown /\ t.board = s.board
  BY <1>2 DEF Replica
<1> HIDE DEF t
<1>10. \A q \in Seat : peer'[q] = IF q = p THEN t ELSE peer[q]
  BY <1>2, <1>8
<1>11. \A q \in Seat : peer[q].shuffles <= p
  <2>1. SUFFICES ASSUME NEW q \in Seat, ~(peer[q].shuffles <= p) PROVE FALSE
    OBVIOUS
  <2>2. peer[q] \in Replica /\ ShufflesSent(wire, peer[q])
    BY <1>1 DEF Dealing
  <2>3. peer[q].shuffles \in Nat
    BY <2>2, SeatNumbers DEF Replica
  <2>4. p < peer[q].shuffles /\ ~(peer[p].shuffles > p)
    <3> DEFINE k == peer[q].shuffles
    <3>1. k \in Nat /\ p \in Nat /\ ~(k <= p) /\ ~(p > p)
      BY <2>1, <2>3, SeatNumbers
    <3> HIDE DEF k
    <3>2. p < k
      BY <3>1
    <3> QED BY <1>2, <3>1, <3>2 DEF k
  <2>5. \E d \in Mixed(p + 1) : ShufflePayload(p, d) \in wire
    BY <2>2, <2>4 DEF ShufflesSent
  <2> QED BY <2>4, <2>5, NotYetShuffled
<1>12. Ahead(peer, p)
  BY <1>2, <1>5, <1>11 DEF Ahead
<1>13. Ahead(peer', p)
  <2>1. \A q \in Seat : peer[q].shuffles \in Nat
    BY <1>2, Numbers DEF Replica
  <2>2. \A q \in Seat : peer'[q].shuffles <= p + 1
    <3> TAKE q \in Seat
    <3> DEFINE x == peer[q].shuffles
               y == peer'[q].shuffles
    <3>1. y = x \/ y = p + 1
      BY <1>9, <1>10
    <3>2. x \in Nat /\ x <= p /\ p \in Nat
      BY <1>11, <2>1, SeatTurn
    <3> HIDE DEF x, y
    <3>3. y <= p + 1
      BY <3>1, <3>2
    <3> QED BY <3>3 DEF y
  <2> QED BY <1>7, <1>9, <1>10, <2>2 DEF Ahead
<1>14. TheDeck(peer) = s.deck /\ TheDeck(peer') = new
  <2>1. TheDeck(peer) = peer[p].deck
    BY <1>1, <1>12, AheadDeck
  <2>2. TheDeck(peer') = peer'[p].deck
    BY <1>1, <1>13, AheadDeck
  <2> QED BY <1>9, <1>10, <2>1, <2>2
<1>15. Len(s.deck[0].masks) = p /\ p < N
  <2>1. p \in 0 .. N /\ p < N
    BY SeatTurn
  <2> QED BY <1>3, <2>1, TurnOf
<1>16. AllOpen(peer') = AllOpen(peer)
  <2>1. OpenIn(p, t) = OpenIn(p, s)
    BY <1>9 DEF OpenIn, OpenHand, OpenShowdown, OpenBoard
  <2> QED BY <1>10, <2>1 DEF AllOpen
<1>17. new = Single!Remask(s.deck, perm, p)
  BY Mapped DEF new
<1> QED
  BY <1>5, <1>7, <1>14, <1>15, <1>16, <1>17, Mapped DEF Single!Shuffle, Single!Turn

\* A shuffle taken over is one that another peer has gone past.
LEMMA StepFollows ==
  ASSUME DealInv, DealInv', NEW p \in Seat, NEW d \in Deck, Phase(peer[p]) = "Shuffle",
         NEW a \in Seat, peer[p].shuffles = a, peer[a].shuffles > a,
         peer' = [peer EXCEPT ![p] = [peer[p] EXCEPT !.deck = d, !.shuffles = @ + 1]]
  PROVE  UNCHANGED Single!dealVars
<1> DEFINE s == peer[p]
           t == [s EXCEPT !.deck = d, !.shuffles = @ + 1]
<1>1. Dealing(peer, wire) /\ Dealing(peer', wire')
  BY DEF DealInv
<1>2. peer \in [Seat -> Replica] /\ s \in Replica /\ \A q \in Seat : peer[q].shuffles \in Nat
  <2>1. peer \in [Seat -> Replica]
    BY <1>1 DEF Dealing
  <2>2. \A r \in Replica : r.shuffles \in Nat
    BY Numbers DEF Replica
  <2> QED BY <2>1, <2>2
<1>3. /\ t.deck = d /\ t.shuffles = a + 1 /\ t.localHole = s.localHole
      /\ t.shown = s.shown /\ t.board = s.board
  BY <1>2 DEF Replica
<1>4. peer' = [peer EXCEPT ![p] = t]
  OBVIOUS
<1> HIDE DEF t
<1>5. \A q \in Seat : peer'[q] = IF q = p THEN t ELSE peer[q]
  BY <1>2, <1>4
<1>6. PICK f \in Seat : Ahead(peer, f)
  BY <1>1, AheadDeck
<1>7. f # p /\ peer[f].shuffles >= a + 1
  <2> DEFINE x == peer[f].shuffles
             y == peer[a].shuffles
  <2>1. x \in Nat /\ y \in Nat /\ a \in Nat /\ y <= x /\ y > a
    BY <1>2, <1>6, SeatTurn DEF Ahead
  <2> HIDE DEF x, y
  <2>2. x >= a + 1 /\ x # a
    BY <2>1
  <2> QED BY <2>2 DEF x
<1>8. peer[f].deck # <<>>
  <2>1. Decked(peer[f]) /\ <<>> \notin Deck
    BY <1>1, NoEmptyDeck DEF Dealing, Sound
  <2>2. peer[f].shuffles # 0
    BY <1>2, <1>7, SeatTurn
  <2> QED BY <2>1, <2>2 DEF Decked, Mixed
<1>9. Ahead(peer', f)
  <2>1. peer'[f] = peer[f]
    BY <1>5, <1>7
  <2>2. ASSUME NEW q \in Seat PROVE peer'[q].shuffles <= peer'[f].shuffles
    <3>1. CASE q = p
      <4>1. peer'[q].shuffles = a + 1
        BY <1>3, <1>5, <3>1
      <4> QED BY <1>2, <1>7, <2>1, <4>1, SeatTurn
    <3>2. CASE q # p
      BY <1>5, <1>6, <2>1, <3>2 DEF Ahead
    <3> QED BY <3>1, <3>2
  <2> QED BY <1>8, <2>1, <2>2 DEF Ahead
<1>10. TheDeck(peer') = TheDeck(peer)
  <2>1. peer'[f] = peer[f]
    BY <1>5, <1>7
  <2>2. TheDeck(peer) = peer[f].deck
    BY <1>1, <1>6, AheadDeck
  <2>3. TheDeck(peer') = peer'[f].deck
    BY <1>1, <1>9, AheadDeck
  <2> QED BY <2>1, <2>2, <2>3
<1>11. AllOpen(peer') = AllOpen(peer)
  <2>1. OpenIn(p, t) = OpenIn(p, s)
    BY <1>3 DEF OpenIn, OpenHand, OpenShowdown, OpenBoard
  <2> QED BY <1>5, <2>1 DEF AllOpen
<1> QED
  BY <1>10, <1>11, Mapped DEF Single!dealVars

LEMMA InitMaps == Init => Single!Init
<1> SUFFICES ASSUME Init PROVE Single!Init
  OBVIOUS
<1>1. \A p \in Seat : peer[p] = Fresh
  BY DEF Init
<1>2. \A p \in Seat : Ahead(peer, p)
  <2>1. 0 <= 0
    OBVIOUS
  <2> QED BY <1>1, <2>1 DEF Ahead, Fresh
<1>3. TheDeck(peer) = <<>>
  <2> DEFINE f == CHOOSE p \in Seat : Ahead(peer, p)
  <2>1. f \in Seat
    BY <1>2, Numbers
  <2> HIDE DEF f
  <2>2. peer[f].deck = <<>>
    BY <1>1, <2>1 DEF Fresh
  <2> QED BY <2>2 DEF TheDeck, f
<1>4. AllOpen(peer) = {}
  <2>1. \A p \in Seat : OpenIn(p, Fresh) = {}
    <3>1. DOMAIN <<>> = {}
      OBVIOUS
    <3> QED BY <3>1 DEF OpenIn, OpenHand, OpenShowdown, OpenBoard, Fresh
  <2> QED BY <1>1, <2>1 DEF AllOpen
<1> QED
  BY <1>3, <1>4, Mapped DEF Single!Init

\* Every step of the peers is one of the deal of one process, or changes nothing there.
LEMMA NextMaps == DealInv /\ DealInv' /\ [Next]_vars => [Single!Next]_Single!dealVars
<1> SUFFICES ASSUME DealInv, DealInv', [Next]_vars PROVE [Single!Next]_Single!dealVars
  OBVIOUS
<1>1. CASE Next
  <2>1. PICK p \in Seat : \/ AnnounceKey(p)
                          \/ MakeShuffle(p)
                          \/ RevealHole(p)
                          \/ \E i \in 1 .. Streets : RevealStreet(p, i)
                          \/ RevealShowdown(p)
                          \/ Ingest(p)
    BY <1>1 DEF Next
  <2>2. peer[p] \in Replica /\ Sound(p, peer[p])
    BY DEF DealInv, Dealing
  <2>3. CASE AnnounceKey(p)
    <3> DEFINE s == [peer[p] EXCEPT !.gave = @ \union {"key"}]
               t == AddKey(s, p, KeyOf(p))
    <3>1. Sound(p, s)
      BY <2>2, GaveKeeps
    <3>2. /\ s.shuffles = peer[p].shuffles /\ s.deck = peer[p].deck
          /\ s.localHole = peer[p].localHole /\ s.shown = peer[p].shown /\ s.board = peer[p].board
      BY <2>2 DEF Replica
    <3>3. peer' = [peer EXCEPT ![p] = t]
      BY <2>3 DEF AnnounceKey, Broadcast
    <3> HIDE DEF s
    <3>4. /\ t.shuffles = s.shuffles /\ t.localHole = s.localHole /\ t.shown = s.shown
          /\ t.board = s.board /\ (t.deck = s.deck \/ (s.deck = <<>> /\ t.deck = OpenDeck))
      BY <3>1, AddKeyKeeps
    <3> HIDE DEF t
    <3>5. Single!FaceDown \/ UNCHANGED Single!dealVars
      BY <3>2, <3>3, <3>4, StepKeys
    <3> QED BY <3>5 DEF Single!Next
  <2>4. CASE MakeShuffle(p)
    <3>1. PICK perm \in Rearrangements :
            peer' = [peer EXCEPT ![p] = [peer[p] EXCEPT !.deck = Remask(peer[p].deck, perm, p),
                                                         !.shuffles = @ + 1]]
      BY <2>4, MakeShuffleKeeps
    <3>2. Single!Shuffle
      BY <2>4, <3>1, StepShuffles
    <3> QED BY <3>2 DEF Single!Next
  <2>5. CASE RevealHole(p) \/ RevealShowdown(p) \/ \E i \in 1 .. Streets : RevealStreet(p, i)
    <3>1. PICK round, s, t :
            /\ round \in Round /\ peer' = [peer EXCEPT ![p] = t] /\ Keeps(s, t)
            /\ s = [peer[p] EXCEPT !.gave = @ \union {round}]
      BY <2>5, RevealsKeep
    <3>2. Phase(peer[p]) = "Ready"
      BY <2>5, RevealsKeep
    <3>3. /\ s.deck = peer[p].deck /\ s.shuffles = peer[p].shuffles
          /\ s.aggregate = peer[p].aggregate /\ s.localHole = peer[p].localHole
          /\ s.shown = peer[p].shown /\ s.board = peer[p].board /\ s.done = peer[p].done
      BY <2>2, <3>1 DEF Replica
    <3>4. Single!Unmask
      BY <3>1, <3>2, <3>3, StepUnmasks
    <3> QED BY <3>4 DEF Single!Next
  <2>6. CASE Ingest(p)
    <3>1. PICK m \in wire : m.from # p /\ (IngestKey(p, m) \/ IngestShuffle(p, m) \/ IngestReveal(p, m))
      BY <2>6 DEF Ingest
    <3>2. CASE IngestKey(p, m)
      <4>1. PICK a \in Seat : peer' = [peer EXCEPT ![p] = AddKey(peer[p], a, KeyOf(a))]
        BY <3>2, IngestKeyKeeps
      <4> DEFINE s == peer[p]
                 t == AddKey(s, a, KeyOf(a))
      <4>2. /\ t.shuffles = s.shuffles /\ t.localHole = s.localHole /\ t.shown = s.shown
            /\ t.board = s.board /\ (t.deck = s.deck \/ (s.deck = <<>> /\ t.deck = OpenDeck))
        BY <2>2, AddKeyKeeps
      <4> HIDE DEF t
      <4>3. peer' = [peer EXCEPT ![p] = t]
        BY <4>1 DEF t
      <4>4. Single!FaceDown \/ UNCHANGED Single!dealVars
        BY <4>2, <4>3, StepKeys
      <4> QED BY <4>4 DEF Single!Next
    <3>3. CASE IngestShuffle(p, m)
      <4>1. Phase(peer[p]) = "Shuffle"
        BY <3>3 DEF IngestShuffle
      <4>2. PICK a \in Seat : /\ peer[p].shuffles = a /\ peer[a].shuffles > a
                              /\ \E d \in Deck : peer' = [peer EXCEPT ![p] =
                                   [peer[p] EXCEPT !.deck = d, !.shuffles = @ + 1]]
        BY <3>3, IngestShuffleKeeps
      <4>3. UNCHANGED Single!dealVars
        BY <4>1, <4>2, StepFollows
      <4> QED BY <4>3
    <3>4. CASE IngestReveal(p, m)
      <4>1. PICK t : peer' = [peer EXCEPT ![p] = t] /\ Keeps(peer[p], t)
        BY <3>1, <3>4, IngestRevealKeeps
      <4>2. Phase(peer[p]) = "Ready"
        BY <3>1, <3>4, IngestRevealKeeps
      <4>3. Single!Unmask
        BY <4>1, <4>2, StepUnmasks
      <4> QED BY <4>3 DEF Single!Next
    <3> QED BY <3>1, <3>2, <3>3, <3>4
  <2> QED BY <2>1, <2>3, <2>4, <2>5, <2>6
<1>2. CASE UNCHANGED vars
  <2>1. TheDeck(peer') = TheDeck(peer) /\ AllOpen(peer') = AllOpen(peer)
    BY <1>2 DEF vars
  <2> QED BY <2>1, Mapped DEF Single!dealVars
<1> QED
  BY <1>1, <1>2

\* ImplementsSingleDeal: for every table and deck, the replicas together are the deal of one
\* process: one deck, shuffled once by each seat in turn, and no card opens before the last
\* shuffle or as another one than that deck has (deal/src/mental.rs).
THEOREM DealsAsOneProcess == Spec => ImplementsSingleDeal
<1> QED
  BY InitMaps, NextMaps, ReplicasAreSound, PTL DEF Spec, ImplementsSingleDeal, Single!Spec

=============================================================================
