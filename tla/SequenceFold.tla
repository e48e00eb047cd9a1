---------------------------- MODULE SequenceFold ----------------------------
(***************************************************************************)
(* What FoldLeft computes, for any step Op: the fold passes through one    *)
(* value per element, so what the base is and every step keeps, the result *)
(* is.  The library defines FoldLeft by a recursive function over sets of  *)
(* positions; the proofs build that function and stand on the least        *)
(* counterexample instead of on induction.                                 *)
(***************************************************************************)
EXTENDS Integers, Sequences

CONSTANT Op(_, _)  \* One step: the value so far and the next element.

Greatest(S) == CHOOSE x \in S : \A y \in S : x >= y

\* FoldLeft(Op, base, seq), as the library defines it.
Folded(base, seq) ==
  LET iter[s \in SUBSET DOMAIN seq] ==
        IF s = {} THEN base
        ELSE LET x == Greatest(s) IN Op(iter[s \ {x}], seq[x])
  IN  iter[DOMAIN seq]

\* Every non-empty set of naturals has a least element: a fact of the library of
\* proofs, for the modules that use the theorems to cite.
LeastExists ==
  \A T \in SUBSET Nat : T # {} => \E x \in T : \A y \in T : x <= y

\* The same of one set.
LEMMA LeastOf ==
  ASSUME LeastExists, NEW T, T \subseteq Nat, T # {}
  PROVE  \E x \in T : \A y \in T : x <= y
  BY DEF LeastExists

\* The recursion by which FoldLeft is defined, over the sets of positions it
\* has not used yet.
IsFold(g, base, seq, n) ==
  g = [s \in SUBSET (1..n) |-> IF s = {} THEN base ELSE Op(g[s \ {Greatest(s)}], seq[Greatest(s)])]

\* The greatest of some positions.
LEMMA GreatestPosition ==
  ASSUME LeastExists, NEW n \in Nat, NEW s, s \subseteq 1..n, s # {}
  PROVE  Greatest(s) \in s /\ \A x \in s : x <= Greatest(s)
<1> DEFINE M == {n - x : x \in s}
<1>1. M \subseteq Nat /\ M # {}
  <2>1. \A x \in s : n - x \in Nat
    OBVIOUS
  <2> QED
    BY <2>1
<1>2. PICK m \in M : \A k \in M : m <= k
  BY <1>1, LeastOf
<1>3. PICK x \in s : m = n - x
  OBVIOUS
<1>4. ASSUME NEW y \in s PROVE x >= y
  <2>1. n - y \in M
    OBVIOUS
  <2>2. n - x <= n - y
    BY <1>2, <1>3, <2>1
  <2>3. x \in Int /\ y \in Int
    OBVIOUS
  <2> QED
    BY <2>2, <2>3
<1> HIDE DEF M
<1>5. \E z \in s : \A y \in s : z >= y
  BY <1>4
<1>6. Greatest(s) \in s /\ \A y \in s : Greatest(s) >= y
  BY <1>5 DEF Greatest
<1> QED
  BY <1>6

\* The last position is the greatest.
LEMMA MaxWith ==
  ASSUME LeastExists, NEW n \in Nat \ {0}, NEW s, s \subseteq 1..n, n \in s
  PROVE  Greatest(s) = n
<1>1. Greatest(s) \in s /\ n <= Greatest(s)
  BY GreatestPosition
<1>2. Greatest(s) \in 1..n
  BY <1>1
<1> HIDE DEF Greatest
<1> QED
  BY <1>1, <1>2

\* The recursion has a solution for every number of positions.
LEMMA FoldExists ==
  ASSUME LeastExists, NEW base, NEW seq, NEW n \in Nat
  PROVE  \E g : IsFold(g, base, seq, n)
<1> DEFINE Bad == {k \in Nat : ~ \E g : IsFold(g, base, seq, k)}
<1>1. SUFFICES ASSUME Bad # {} PROVE FALSE
  OBVIOUS
<1>2. PICK k \in Bad : \A j \in Bad : k <= j
  BY <1>1, LeastOf
<1>3. k # 0
  <2> DEFINE g0 == [s \in SUBSET (1..0) |-> base]
  <2>1. \A s \in SUBSET (1..0) : s = {}
    OBVIOUS
  <2>2. IsFold(g0, base, seq, 0)
    BY <2>1 DEF IsFold
  <2> QED
    BY <2>2
<1>4. k - 1 \in Nat /\ k - 1 \notin Bad
  BY <1>2, <1>3
<1>5. PICK g : IsFold(g, base, seq, k - 1)
  BY <1>4
<1> DEFINE h == [s \in SUBSET (1..k) |-> IF k \in s THEN Op(g[s \ {k}], seq[k]) ELSE g[s]]
<1>6. ASSUME NEW s \in SUBSET (1..k)
      PROVE  h[s] = IF s = {} THEN base ELSE Op(h[s \ {Greatest(s)}], seq[Greatest(s)])
  <2>1. CASE k \in s
    <3>1. Greatest(s) = k
      BY <1>3, <2>1, MaxWith
    <3>2. s \ {k} \in SUBSET (1..k) /\ k \notin s \ {k}
      OBVIOUS
    <3>3. h[s] = Op(g[s \ {k}], seq[k])
      BY <2>1
    <3>4. h[s \ {k}] = g[s \ {k}]
      BY <3>2
    <3> QED
      BY <3>1, <3>3, <3>4, <2>1
  <2>2. CASE k \notin s
    <3>1. s \in SUBSET (1 .. k - 1)
      BY <2>2
    <3>2. h[s] = g[s]
      BY <2>2
    <3>3. g[s] = IF s = {} THEN base ELSE Op(g[s \ {Greatest(s)}], seq[Greatest(s)])
      BY <3>1, <1>5 DEF IsFold
    <3>4. h[s \ {Greatest(s)}] = g[s \ {Greatest(s)}]
      BY <2>2
    <3> QED
      BY <3>2, <3>3, <3>4
  <2> QED
    BY <2>1, <2>2
<1>7. IsFold(h, base, seq, k)
  <2> DEFINE e(s) == IF s = {} THEN base ELSE Op(h[s \ {Greatest(s)}], seq[Greatest(s)])
  <2>1. h = [s \in SUBSET (1..k) |-> h[s]]
    OBVIOUS
  <2>2. \A s \in SUBSET (1..k) : h[s] = e(s)
    BY <1>6
  <2> HIDE DEF h
  <2>3. h = [s \in SUBSET (1..k) |-> e(s)]
    BY <2>1, <2>2
  <2> QED
    BY <2>3 DEF IsFold
<1> QED
  BY <1>7

\* The fold is that solution at the set of all positions.
LEMMA FoldValue ==
  ASSUME LeastExists, NEW base, NEW seq, NEW n \in Nat, DOMAIN seq = 1..n
  PROVE  \E g : IsFold(g, base, seq, n) /\ Folded(base, seq) = g[1..n]
<1> DEFINE g == CHOOSE g : IsFold(g, base, seq, n)
<1>1. IsFold(g, base, seq, n)
  BY FoldExists
<1>2. Folded(base, seq) = g[1..n]
  BY DEF Folded, IsFold
<1> QED
  BY <1>1, <1>2

\* The values a fold passes through.
Passes(v, base, seq, n) ==
  /\ v[0] = base
  /\ \A i \in 1..n : v[i] = Op(v[i - 1], seq[i])
  /\ Folded(base, seq) = v[n]

\* A fold takes the elements one by one, from the first to the last.
THEOREM FoldSteps ==
  ASSUME LeastExists, NEW base, NEW seq, NEW n \in Nat, DOMAIN seq = 1..n
  PROVE  \E v : Passes(v, base, seq, n)
<1>1. PICK g : IsFold(g, base, seq, n) /\ Folded(base, seq) = g[1..n]
  BY FoldValue
<1> DEFINE v == [i \in 0..n |-> g[1..i]]
<1>2. v[0] = base
  <2>1. 1..0 = {} /\ {} \in SUBSET (1..n)
    OBVIOUS
  <2>2. g[{}] = base
    BY <1>1, <2>1 DEF IsFold
  <2>3. v[0] = g[1..0]
    OBVIOUS
  <2> QED
    BY <2>1, <2>2, <2>3
<1>3. ASSUME NEW i \in 1..n PROVE v[i] = Op(v[i - 1], seq[i])
  <2>0. i \in Nat \ {0} /\ i \in 1..i /\ \A j \in 1..i : j \in 1..n
    OBVIOUS
  <2>1. 1..i \in SUBSET (1..n) /\ 1..i # {} /\ i \in 1..i /\ i \in Nat \ {0}
    BY <2>0
  <2>2. Greatest(1..i) = i
    BY <2>1, MaxWith
  <2>3. (1..i) \ {i} = 1 .. i - 1
    OBVIOUS
  <2>4. g[1..i] = Op(g[1 .. i - 1], seq[i])
    BY <1>1, <2>1, <2>2, <2>3 DEF IsFold
  <2>5. v[i] = g[1..i] /\ v[i - 1] = g[1 .. i - 1]
    OBVIOUS
  <2> QED
    BY <2>4, <2>5
<1>4. v[n] = g[1..n]
  OBVIOUS
<1> HIDE DEF v
<1>5. Passes(v, base, seq, n)
  BY <1>1, <1>2, <1>3, <1>4 DEF Passes
<1> QED
  BY <1>5

\* What the base is and every step preserves holds of the result.
THEOREM FoldInvariant ==
  ASSUME LeastExists, NEW R, NEW T, NEW base \in R, NEW seq \in Seq(T),
         \A r \in R, x \in T : Op(r, x) \in R
  PROVE  Folded(base, seq) \in R
<1>1. Len(seq) \in Nat /\ DOMAIN seq = 1..Len(seq) /\ \A i \in 1..Len(seq) : seq[i] \in T
  OBVIOUS
<1>2. PICK v : Passes(v, base, seq, Len(seq))
  BY <1>1, FoldSteps
<1> DEFINE Bad == {k \in Nat : k <= Len(seq) /\ v[k] \notin R}
<1>3. SUFFICES ASSUME Bad # {} PROVE FALSE
  BY <1>1, <1>2 DEF Passes
<1>4. PICK k \in Bad : \A j \in Bad : k <= j
  <2>1. Bad \subseteq Nat
    OBVIOUS
  <2> HIDE DEF Bad
  <2> QED
    BY <1>3, <2>1, LeastOf
<1>5. k # 0
  BY <1>2 DEF Passes
<1>6. k \in 1..Len(seq) /\ k - 1 \in Nat /\ k - 1 <= Len(seq) /\ k - 1 \notin Bad
  BY <1>1, <1>4, <1>5
<1>7. v[k - 1] \in R
  BY <1>6
<1> QED
  BY <1>1, <1>2, <1>6, <1>7 DEF Passes

\* The same when what holds depends on how many elements were taken: R[i] is what
\* holds after i of them.
THEOREM FoldIndexed ==
  ASSUME LeastExists, NEW R, NEW T, NEW seq \in Seq(T), NEW base \in R[0],
         \A i \in 1..Len(seq) : \A r \in R[i - 1] : Op(r, seq[i]) \in R[i]
  PROVE  Folded(base, seq) \in R[Len(seq)]
<1> DEFINE n == Len(seq)
<1>1. n \in Nat /\ DOMAIN seq = 1..n
  OBVIOUS
<1> HIDE DEF n
<1>2. PICK v : Passes(v, base, seq, n)
  BY <1>1, FoldSteps
<1> DEFINE Bad == {k \in Nat : k <= n /\ v[k] \notin R[k]}
<1>3. SUFFICES ASSUME Bad # {} PROVE FALSE
  BY <1>1, <1>2 DEF Passes, n
<1>4. PICK k \in Bad : \A j \in Bad : k <= j
  <2>1. Bad \subseteq Nat
    OBVIOUS
  <2> HIDE DEF Bad
  <2> QED
    BY <1>3, <2>1, LeastOf
<1>5. k # 0
  BY <1>2 DEF Passes
<1>6. k \in 1..n /\ k - 1 \in Nat /\ k - 1 <= n /\ k - 1 \notin Bad
  BY <1>1, <1>4, <1>5
<1>7. v[k - 1] \in R[k - 1]
  BY <1>6
<1>8. Op(v[k - 1], seq[k]) \in R[k]
  BY <1>6, <1>7 DEF n
<1> QED
  BY <1>1, <1>2, <1>6, <1>8 DEF Passes

\* Nothing to fold leaves the base.
THEOREM FoldNothing ==
  ASSUME LeastExists, NEW base
  PROVE  Folded(base, <<>>) = base
<1>1. 0 \in Nat /\ DOMAIN <<>> = 1..0
  OBVIOUS
<1> QED
  BY <1>1, FoldSteps DEF Passes

\* What a sequence is, apart from what it is for.
LEMMA SequenceFacts ==
  ASSUME NEW T, NEW seq \in Seq(T)
  PROVE  Len(seq) \in Nat /\ DOMAIN seq = 1..Len(seq) /\ \A i \in 1..Len(seq) : seq[i] \in T
  OBVIOUS

RelatedSteps(R, T) == \A r \in R : \A x \in T : <<Op(r[1], x), Op(r[2], x)>> \in R

\* Two folds over the same elements whose bases are related, by what every step
\* keeps, have related results.
THEOREM FoldRelated ==
  ASSUME LeastExists, NEW R, NEW T, NEW a, NEW b, <<a, b>> \in R, NEW seq \in Seq(T),
         RelatedSteps(R, T)
  PROVE  <<Folded(a, seq), Folded(b, seq)>> \in R
<1> DEFINE n == Len(seq)
<1>1. n \in Nat /\ DOMAIN seq = 1..n /\ \A i \in 1..n : seq[i] \in T
  BY SequenceFacts
<1> HIDE DEF n
<1>2. PICK v : Passes(v, a, seq, n)
  BY <1>1, FoldSteps
<1>3. PICK w : Passes(w, b, seq, n)
  BY <1>1, FoldSteps
<1> DEFINE Bad == {k \in Nat : k <= n /\ <<v[k], w[k]>> \notin R}
<1>4. SUFFICES ASSUME Bad # {} PROVE FALSE
  <2>1. Folded(a, seq) = v[n] /\ Folded(b, seq) = w[n]
    BY <1>2, <1>3 DEF Passes
  <2>2. Bad = {} => <<v[n], w[n]>> \in R
    BY <1>1
  <2> QED
    BY <2>1, <2>2
<1>5. PICK k \in Bad : \A j \in Bad : k <= j
  <2>1. Bad \subseteq Nat
    OBVIOUS
  <2> HIDE DEF Bad
  <2> QED
    BY <1>4, <2>1, LeastOf
<1>6. k # 0
  BY <1>2, <1>3 DEF Passes
<1>7. k \in 1..n /\ k - 1 \in Nat /\ k - 1 <= n /\ k - 1 \notin Bad
  <2>1. k \in Nat /\ k <= n
    OBVIOUS
  <2>2. k \in 1..n /\ k - 1 \in Nat /\ k - 1 <= n
    BY <1>1, <1>6, <2>1
  <2> QED
    BY <1>5, <2>1, <2>2
<1>8. <<v[k - 1], w[k - 1]>> \in R
  BY <1>7
<1>9. <<Op(v[k - 1], seq[k]), Op(w[k - 1], seq[k])>> \in R
  <2>1. seq[k] \in T
    BY <1>1, <1>7
  <2> QED
    BY <1>8, <2>1 DEF RelatedSteps
<1>10. v[k] = Op(v[k - 1], seq[k]) /\ w[k] = Op(w[k - 1], seq[k])
  BY <1>2, <1>3, <1>7 DEF Passes
<1>11. <<v[k], w[k]>> \in R
  BY <1>9, <1>10
<1> QED
  BY <1>5, <1>11

\* What a fold passes through is determined by where it begins.
LEMMA SameSteps ==
  ASSUME LeastExists, NEW n \in Nat, NEW v, NEW w, v[0] = w[0],
         \A i \in 1..n : v[i - 1] = w[i - 1] => v[i] = w[i]
  PROVE  v[n] = w[n]
<1> DEFINE Bad == {k \in Nat : k <= n /\ v[k] # w[k]}
<1>1. SUFFICES ASSUME Bad # {} PROVE FALSE
  OBVIOUS
<1>2. PICK k \in Bad : \A j \in Bad : k <= j
  <2>1. Bad \subseteq Nat
    OBVIOUS
  <2> HIDE DEF Bad
  <2> QED
    BY <1>1, <2>1, LeastOf
<1>3. k # 0 /\ k \in Nat /\ k <= n
  OBVIOUS
<1>4. k \in 1..n /\ k - 1 \in Nat /\ k - 1 <= n
  BY <1>3
<1>5. k - 1 \notin Bad
  BY <1>2, <1>4
<1>6. v[k - 1] = w[k - 1]
  BY <1>4, <1>5
<1> QED
  BY <1>4, <1>6

\* A fold over two parts continues, over the second, where the first ended.
THEOREM FoldConcat ==
  ASSUME LeastExists, NEW base, NEW T, NEW s \in Seq(T), NEW t \in Seq(T)
  PROVE  Folded(base, s \o t) = Folded(Folded(base, s), t)
<1> DEFINE m == Len(s)
           n == Len(t)
           all == s \o t
           mid == Folded(base, s)
           len == m + n
<1>1. /\ m \in Nat /\ n \in Nat /\ DOMAIN s = 1..m /\ DOMAIN t = 1..n
      /\ DOMAIN all = 1..len /\ len \in Nat
      /\ \A i \in 1..m : all[i] = s[i]
      /\ \A i \in 1..n : all[m + i] = t[i]
  OBVIOUS
<1> HIDE DEF m, n, all
<1>2. PICK v : Passes(v, base, s, m)
  BY <1>1, FoldSteps
<1>3. PICK w : Passes(w, mid, t, n)
  BY <1>1, FoldSteps
<1>4. PICK u : Passes(u, base, all, len)
  BY <1>1, FoldSteps
<1> HIDE DEF mid
<1>5. u[m] = v[m]
  <2>1. ASSUME NEW i \in 1..m, u[i - 1] = v[i - 1] PROVE u[i] = v[i]
    <3>1. i \in 1..len
      BY <1>1
    <3>2. u[i] = Op(u[i - 1], all[i]) /\ v[i] = Op(v[i - 1], s[i])
      BY <1>2, <1>4, <3>1 DEF Passes
    <3> QED
      BY <1>1, <2>1, <3>2
  <2>2. u[0] = v[0]
    BY <1>2, <1>4 DEF Passes
  <2> QED
    BY <1>1, <2>1, <2>2, SameSteps
<1> DEFINE later == [i \in 0..n |-> u[m + i]]
<1>6. later[n] = w[n]
  <2>1. ASSUME NEW i \in 1..n, later[i - 1] = w[i - 1] PROVE later[i] = w[i]
    <3>1. m + i \in 1..len /\ i \in 0..n /\ i - 1 \in 0..n /\ (m + i) - 1 = m + (i - 1)
      BY <1>1
    <3>2. u[m + i] = Op(u[(m + i) - 1], all[m + i])
      <4>1. \A h \in 1..len : u[h] = Op(u[h - 1], all[h])
        BY <1>4 DEF Passes
      <4> HIDE DEF len
      <4>2. PICK j \in 1..len : j = m + i
        BY <3>1
      <4>3. u[j] = Op(u[j - 1], all[j])
        BY <4>1
      <4> QED
        BY <4>2, <4>3
    <3>3. w[i] = Op(w[i - 1], t[i])
      BY <1>3 DEF Passes
    <3> QED
      BY <1>1, <2>1, <3>1, <3>2, <3>3
  <2>2. later[0] = w[0]
    <3>1. later[0] = u[m]
      BY <1>1
    <3> QED
      BY <1>2, <1>3, <1>5, <3>1 DEF Passes, mid
  <2> HIDE DEF later
  <2> QED
    BY <1>1, <2>1, <2>2, SameSteps
<1>7. later[n] = u[len]
  BY <1>1
<1> QED
  BY <1>3, <1>4, <1>6, <1>7 DEF Passes, all, mid

\* One element is one step.
THEOREM FoldOne ==
  ASSUME LeastExists, NEW base, NEW x
  PROVE  Folded(base, <<x>>) = Op(base, x)
<1>1. 1 \in Nat /\ DOMAIN <<x>> = 1..1 /\ 1 \in 1..1 /\ 1 - 1 = 0 /\ <<x>>[1] = x
  OBVIOUS
<1>2. PICK v : Passes(v, base, <<x>>, 1)
  BY <1>1, FoldSteps
<1> QED
  BY <1>1, <1>2 DEF Passes
=============================================================================
