------------------------- MODULE HostListsLemmas -------------------------
(***************************************************************************)
(* What the operators of HostLists do to every list of every length.       *)
(*                                                                         *)
(* A loop of HostLists is a recursive function over 0..n.  Its lemmas come *)
(* from two facts, both stated over sets so that the provers can apply     *)
(* them: Induction on the naturals up to n, and LoopExists, which says     *)
(* that a recursively defined function over 0..n exists.                   *)
(***************************************************************************)
EXTENDS HostLists, FiniteSetTheorems, SequenceTheorems, WellFoundedInduction, TLAPS

-----------------------------------------------------------------------------
(***************************************************************************)
(* Induction and loops.                                                    *)
(***************************************************************************)

\* A set of naturals that is not empty has a least element.
LEMMA Least ==
  ASSUME NEW T, T \subseteq Nat, T # {}
  PROVE  \E x \in T : \A y \in T : x <= y
<1> DEFINE R == OpToRel(<, Nat)
<1>1. IsWellFoundedOn(R, Nat)
  BY NatLessThanWellFounded
<1>2. \A x, y \in Nat : x < y => <<x, y>> \in R
  BY DEF OpToRel
<1> HIDE DEF R
<1>3. PICK x \in T : \A y \in T : ~ (<<y, x>> \in R)
  BY <1>1, WFMin, Zenon
<1>4. \A y \in T : ~(y < x)
  BY <1>2, <1>3, Zenon
<1> QED BY <1>4

\* Induction over 0..n, with a set in place of a predicate.
LEMMA Induction ==
  ASSUME NEW n \in Nat, NEW T,
         0 \in T,
         \A k \in 1..n : k - 1 \in T => k \in T
  PROVE  \A k \in 0..n : k \in T
<1> DEFINE Bad == {k \in 0..n : k \notin T}
<1>1. SUFFICES ASSUME Bad # {} PROVE FALSE
  OBVIOUS
<1>2. Bad \subseteq Nat
  OBVIOUS
<1>3. PICK x \in Bad : \A y \in Bad : x <= y
  <2> HIDE DEF Bad
  <2> QED BY <1>1, <1>2, Least
<1>4. x \in 1..n /\ x - 1 \in 0..n /\ ~(x <= x - 1)
  BY <1>3
<1>5. x - 1 \notin Bad
  BY <1>3, <1>4
<1> QED BY <1>3, <1>4, <1>5

\* g gives the values a loop of n rounds goes through.
IsRun(g, n, A, start, body) ==
  /\ g \in [0..n -> A]
  /\ g[0] = start
  /\ \A k \in 1..n : g[k] = body[k][g[k - 1]]

\* A loop of n rounds over values of A, each a function of the value before
\* it, has a run.
LEMMA LoopExists ==
  ASSUME NEW n \in Nat, NEW A, NEW start \in A,
         NEW body, body \in [1..n -> [A -> A]]
  PROVE  \E g : IsRun(g, n, A, start, body)
<1> DEFINE Run(g, m) == /\ g \in [0..m -> A]
                        /\ g[0] = start
                        /\ \A k \in 1..m : g[k] = body[k][g[k - 1]]
           T == {m \in 0..n : \E g : Run(g, m)}
<1>1. 0 \in T
  <2>1. Run([k \in 0..0 |-> start], 0)
    OBVIOUS
  <2> HIDE DEF Run
  <2> QED BY <2>1
<1>2. ASSUME NEW m \in 1..n, m - 1 \in T PROVE m \in T
  <2>1. PICK g : Run(g, m - 1)
    BY <1>2
  <2> DEFINE h == [k \in 0..m |-> IF k = m THEN body[m][g[m - 1]] ELSE g[k]]
  <2>2. m - 1 \in 0..(m - 1) /\ g[m - 1] \in A /\ body[m] \in [A -> A]
    BY <2>1
  <2>3. h \in [0..m -> A]
    BY <2>1, <2>2
  <2>4. h[0] = start
    BY <2>1
  <2>5. ASSUME NEW k \in 1..m PROVE h[k] = body[k][h[k - 1]]
    BY <2>1
  <2>6. Run(h, m)
    <3> HIDE DEF h
    <3> QED BY <2>3, <2>4, <2>5
  <2> HIDE DEF Run
  <2> QED BY <2>6
<1>3. \A m \in 0..n : m \in T
  <2> HIDE DEF T
  <2> QED BY <1>1, <1>2, Induction, Zenon
<1>4. n \in T
  <2> HIDE DEF T
  <2> QED BY <1>3
<1>5. PICK g : Run(g, n)
  BY <1>4
<1>6. IsRun(g, n, A, start, body)
  BY <1>5 DEF IsRun
<1> QED BY <1>6

-----------------------------------------------------------------------------
(***************************************************************************)
(* Sequences.                                                              *)
(***************************************************************************)

\* What is left of a sequence without its entry at i.
LEMMA RemoveAtIs ==
  ASSUME NEW A, NEW list \in Seq(A), NEW i \in 1..Len(list)
  PROVE  /\ RemoveAt(list, i) \in Seq(A)
         /\ Len(RemoveAt(list, i)) = Len(list) - 1
         /\ \A j \in 1..(Len(list) - 1) :
              RemoveAt(list, i)[j] = IF j < i THEN list[j] ELSE list[j + 1]
<1> DEFINE p == SubSeq(list, 1, i - 1)
           q == SubSeq(list, i + 1, Len(list))
<1>1. Len(list) \in Nat
  OBVIOUS
<1>2. /\ p \in Seq(A) /\ Len(p) = i - 1
      /\ \A j \in 1..(i - 1) : p[j] = list[j]
  BY SubSeqProperties
<1>3. /\ q \in Seq(A) /\ Len(q) = Len(list) - i
      /\ \A j \in 1..(Len(list) - i) : q[j] = list[i + j]
  BY SubSeqProperties
<1>4. RemoveAt(list, i) = p \o q
  BY DEF RemoveAt
<1> HIDE DEF p, q
<1>5. /\ p \o q \in Seq(A) /\ Len(p \o q) = Len(p) + Len(q)
      /\ \A j \in 1..Len(p) + Len(q) : (p \o q)[j] = IF j <= Len(p) THEN p[j] ELSE q[j - Len(p)]
  BY <1>2, <1>3, ConcatProperties
<1> QED BY <1>1, <1>2, <1>3, <1>4, <1>5

\* What is in a sequence, and in one with an entry more.
LEMMA SetOf ==
  ASSUME NEW A, NEW list \in Seq(A)
  PROVE  /\ ToSet(list) = {list[i] : i \in 1..Len(list)}
         /\ ToSet(list) \subseteq A
         /\ \A x : Contains(list, x) <=> x \in ToSet(list)
         /\ (ToSet(list) = {}) <=> (list = <<>>)
<1>1. DOMAIN list = 1..Len(list) /\ Len(list) \in Nat /\ \A i \in 1..Len(list) : list[i] \in A
  OBVIOUS
<1>2. ToSet(list) = {list[i] : i \in 1..Len(list)}
  BY <1>1 DEF ToSet
<1>3. \A x : Contains(list, x) <=> x \in ToSet(list)
  BY <1>2 DEF Contains
<1>4. (ToSet(list) = {}) <=> (list = <<>>)
  <2>1. (ToSet(list) = {}) <=> (Len(list) = 0)
    BY <1>1, <1>2
  <2> QED BY <2>1, EmptySeq
<1> QED BY <1>1, <1>2, <1>3, <1>4

\* Appending an entry adds it to the set of entries.
LEMMA SetOfAppend ==
  ASSUME NEW A, NEW list \in Seq(A), NEW x \in A
  PROVE  ToSet(Append(list, x)) = ToSet(list) \cup {x}
<1> DEFINE r == Append(list, x)
<1>1. /\ r \in Seq(A) /\ Len(r) = Len(list) + 1 /\ r[Len(list) + 1] = x
      /\ \A i \in 1..Len(list) : r[i] = list[i]
  BY AppendProperties
<1>2. Len(list) \in Nat
  OBVIOUS
<1> HIDE DEF r
<1>3. ToSet(r) \subseteq ToSet(list) \cup {x}
  BY <1>1, <1>2, SetOf
<1>4. ToSet(list) \cup {x} \subseteq ToSet(r)
  BY <1>1, <1>2, SetOf
<1> QED BY <1>3, <1>4 DEF r

\* The entries of two lists together are those of one or of the other.
LEMMA SetOfConcat ==
  ASSUME NEW A, NEW p \in Seq(A), NEW q \in Seq(A)
  PROVE  ToSet(p \o q) = ToSet(p) \cup ToSet(q)
<1> DEFINE r == p \o q
<1>1. /\ r \in Seq(A) /\ Len(r) = Len(p) + Len(q)
      /\ \A i \in 1..Len(p) : r[i] = p[i]
      /\ \A i \in 1..Len(q) : r[Len(p) + i] = q[i]
  BY ConcatProperties
<1>2. Len(p) \in Nat /\ Len(q) \in Nat
  OBVIOUS
<1> HIDE DEF r
<1>3. \A i \in 1..Len(r) : r[i] \in ToSet(p) \cup ToSet(q)
  <2> TAKE i \in 1..Len(r)
  <2>1. CASE i <= Len(p)
    BY <1>1, <1>2, <2>1, SetOf
  <2>2. CASE i > Len(p)
    <3>1. i - Len(p) \in 1..Len(q) /\ i = Len(p) + (i - Len(p))
      BY <1>1, <1>2, <2>2
    <3>2. r[i] = q[i - Len(p)]
      BY <1>1, <3>1
    <3> QED BY <3>1, <3>2, SetOf
  <2> QED BY <1>1, <1>2, <2>1, <2>2
<1>4. ToSet(r) \subseteq ToSet(p) \cup ToSet(q)
  BY <1>1, <1>3, SetOf
<1>5. ToSet(p) \subseteq ToSet(r)
  BY <1>1, <1>2, SetOf
<1>6. ToSet(q) \subseteq ToSet(r)
  <2>1. \A i \in 1..Len(q) : Len(p) + i \in 1..Len(r)
    BY <1>1, <1>2
  <2>2. \A m \in 1..Len(r) : r[m] \in ToSet(r)
    BY <1>1, SetOf
  <2>3. \A i \in 1..Len(q) : q[i] \in ToSet(r)
    BY <1>1, <2>1, <2>2
  <2> QED BY <2>3, SetOf
<1> QED BY <1>4, <1>5, <1>6 DEF r

-----------------------------------------------------------------------------
(***************************************************************************)
(* SortStrings.  The hosts of s below h, and those not above it, are       *)
(* counted; the ordered list has h at the positions between the counts.    *)
(***************************************************************************)
\* No entry stands after a greater one, as sort.Strings leaves them.
Ordered(s) == \A i, j \in DOMAIN s : i < j => s[i] <= s[j]

\* The positions of entries below h, and of those not above it.
Below(s, h) == {j \in DOMAIN s : s[j] < h}
UpTo(s, h) == {j \in DOMAIN s : s[j] <= h}

\* How many numbers an interval of naturals has.
LEMMA Interval ==
  ASSUME NEW a \in Nat, NEW b \in Nat, a <= b + 1
  PROVE  IsFiniteSet(a..b) /\ Cardinality(a..b) = b - a + 1
<1>1. a \in Int /\ b \in Int
  OBVIOUS
<1>2. IsFiniteSet(a..b) /\ Cardinality(a..b) = IF a > b THEN 0 ELSE b - a + 1
  BY <1>1, FS_Interval
<1> QED BY <1>2

\* There are no more positions of some kind than entries.
LEMMA Positions ==
  ASSUME NEW A, NEW s \in Seq(A), NEW D \in SUBSET DOMAIN s
  PROVE  IsFiniteSet(D) /\ Cardinality(D) \in Nat /\ Cardinality(D) <= Len(s)
<1>1. DOMAIN s = 1..Len(s) /\ Len(s) \in Nat
  OBVIOUS
<1>2. IsFiniteSet(1..Len(s)) /\ Cardinality(1..Len(s)) = Len(s)
  BY <1>1, Interval
<1>3. D \in SUBSET (1..Len(s))
  BY <1>1
<1>4. IsFiniteSet(D) /\ Cardinality(D) <= Len(s)
  BY <1>2, <1>3, FS_Subset
<1> QED BY <1>4, FS_CardinalityType

\* Among some positions of a list there is one of a greatest entry.
LEMMA Greatest ==
  ASSUME NEW s \in Seq(Nat), NEW D \in SUBSET DOMAIN s, D # {}
  PROVE  \E m \in D : \A j \in D : s[j] <= s[m]
<1> DEFINE n == Len(s)
           First(k) == {j \in D : j <= k}
           T == {k \in 0..n : First(k) = {} \/ \E m \in First(k) : \A j \in First(k) : s[j] <= s[m]}
<1>1. n \in Nat /\ D \subseteq 1..n /\ \A j \in D : s[j] \in Nat
  OBVIOUS
<1> HIDE DEF n
<1>2. 0 \in T
  BY <1>1
<1>3. ASSUME NEW k \in 1..n, k - 1 \in T PROVE k \in T
  <2>1. k \in 0..n /\ k - 1 \in 0..n
    BY <1>1
  <2>2. CASE k \notin D
    <3>1. First(k) = First(k - 1)
      BY <1>1, <2>2
    <3> HIDE DEF First
    <3> QED BY <1>3, <2>1, <3>1
  <2>3. CASE k \in D
    <3>1. First(k) = First(k - 1) \cup {k}
      BY <1>1, <2>3
    <3>2. \A j \in First(k - 1) \cup {k} : s[j] \in Nat
      BY <1>1, <2>3
    <3> HIDE DEF First
    <3>3. CASE First(k - 1) = {}
      <4>1. k \in First(k) /\ \A j \in First(k) : s[j] <= s[k]
        BY <3>1, <3>2, <3>3
      <4> QED BY <2>1, <4>1
    <3>4. CASE First(k - 1) # {}
      <4>1. PICK m \in First(k - 1) : \A j \in First(k - 1) : s[j] <= s[m]
        BY <1>3, <3>4
      <4>2. CASE s[k] <= s[m]
        <5>1. m \in First(k) /\ \A j \in First(k) : s[j] <= s[m]
          BY <3>1, <3>2, <4>1, <4>2
        <5> QED BY <2>1, <5>1
      <4>3. CASE ~(s[k] <= s[m])
        <5>1. k \in First(k) /\ \A j \in First(k) : s[j] <= s[k]
          BY <3>1, <3>2, <4>1, <4>3
        <5> QED BY <2>1, <5>1
      <4> QED BY <4>2, <4>3
    <3> QED BY <3>3, <3>4
  <2> QED BY <2>2, <2>3
<1>4. n \in T
  <2> HIDE DEF T
  <2>1. \A k \in 0..n : k \in T
    BY <1>1, <1>2, <1>3, Induction, Zenon
  <2> QED BY <1>1, <2>1
<1>5. First(n) = D
  BY <1>1
<1> HIDE DEF First
<1> QED BY <1>4, <1>5

\* How the two counts of a host relate to each other, to how often the host
\* occurs and to the counts of a greater host.
LEMMA Counts ==
  ASSUME NEW s \in Seq(Nat), NEW h \in Nat
  PROVE  /\ Cardinality(Below(s, h)) \in Nat
         /\ Cardinality(UpTo(s, h)) \in Nat
         /\ Cardinality(Below(s, h)) <= Cardinality(UpTo(s, h))
         /\ Cardinality(UpTo(s, h)) <= Len(s)
         /\ Cardinality(Occurrences(s, h)) = Cardinality(UpTo(s, h)) - Cardinality(Below(s, h))
         /\ \A g \in Nat : h < g => Cardinality(UpTo(s, h)) <= Cardinality(Below(s, g))
<1> DEFINE d == DOMAIN s
<1>1. \A j \in d : s[j] \in Nat
  OBVIOUS
<1>2. Below(s, h) \in SUBSET UpTo(s, h) /\ Below(s, h) \in SUBSET d /\ UpTo(s, h) \in SUBSET d
  BY <1>1 DEF Below, UpTo
<1>3. IsFiniteSet(UpTo(s, h)) /\ Cardinality(UpTo(s, h)) \in Nat /\ Cardinality(UpTo(s, h)) <= Len(s)
  BY <1>2, Positions
<1>4. Cardinality(Below(s, h)) \in Nat
  BY <1>2, Positions
<1>5. Cardinality(Below(s, h)) <= Cardinality(UpTo(s, h))
  BY <1>2, <1>3, FS_Subset
<1>6. Cardinality(Occurrences(s, h)) = Cardinality(UpTo(s, h)) - Cardinality(Below(s, h))
  <2>1. Occurrences(s, h) = UpTo(s, h) \ Below(s, h)
    BY <1>1 DEF Below, UpTo, Occurrences
  <2>2. UpTo(s, h) \cap Below(s, h) = Below(s, h)
    BY <1>2
  <2> QED BY <1>3, <2>1, <2>2, FS_Difference
<1>7. ASSUME NEW g \in Nat, h < g PROVE Cardinality(UpTo(s, h)) <= Cardinality(Below(s, g))
  <2>1. UpTo(s, h) \in SUBSET Below(s, g) /\ Below(s, g) \in SUBSET d
    BY <1>1, <1>7 DEF Below, UpTo
  <2>2. IsFiniteSet(Below(s, g))
    BY <2>1, Positions
  <2> QED BY <2>1, <2>2, FS_Subset
<1> QED BY <1>3, <1>4, <1>5, <1>6, <1>7

\* There is a host for every position.
LEMMA RankExists ==
  ASSUME NEW s \in Seq(Nat), NEW i \in DOMAIN s
  PROVE  \E h \in ToSet(s) : Cardinality(Below(s, h)) < i /\ i <= Cardinality(UpTo(s, h))
<1> DEFINE C == {h \in ToSet(s) : i <= Cardinality(UpTo(s, h))}
<1>1. /\ DOMAIN s = 1..Len(s) /\ Len(s) \in Nat /\ i \in Nat /\ 1 <= i /\ i <= Len(s)
      /\ ToSet(s) \subseteq Nat /\ \A j \in DOMAIN s : s[j] \in ToSet(s) /\ s[j] \in Nat
  BY SetOf
<1>2. C # {}
  <2>1. PICK m \in DOMAIN s : \A j \in DOMAIN s : s[j] <= s[m]
    BY Greatest
  <2>2. UpTo(s, s[m]) = 1..Len(s)
    BY <1>1, <2>1 DEF UpTo
  <2>3. Cardinality(UpTo(s, s[m])) = Len(s)
    BY <1>1, <2>2, Interval
  <2>4. s[m] \in C
    BY <1>1, <2>1, <2>3
  <2> QED BY <2>4
<1>3. C \subseteq Nat
  BY <1>1
<1>4. PICK x \in C : \A y \in C : x <= y
  <2> HIDE DEF C
  <2> QED BY <1>2, <1>3, Least
<1>5. Cardinality(Below(s, x)) < i
  <2>1. SUFFICES ASSUME ~(Cardinality(Below(s, x)) < i) PROVE FALSE
    OBVIOUS
  <2>2. x \in Nat /\ Cardinality(Below(s, x)) \in Nat
    BY <1>3, Counts
  <2>3. Below(s, x) # {} /\ Below(s, x) \in SUBSET DOMAIN s
    <3>1. Cardinality(Below(s, x)) # 0
      BY <1>1, <2>1, <2>2
    <3> QED BY <3>1, FS_EmptySet DEF Below
  <2>4. PICK m \in Below(s, x) : \A j \in Below(s, x) : s[j] <= s[m]
    BY <2>3, Greatest
  <2>5. m \in DOMAIN s /\ s[m] < x
    BY <2>4 DEF Below
  <2>6. Below(s, x) \in SUBSET UpTo(s, s[m])
    BY <2>4 DEF Below, UpTo
  <2>7. Cardinality(Below(s, x)) <= Cardinality(UpTo(s, s[m])) /\ Cardinality(UpTo(s, s[m])) \in Nat
    <3>1. UpTo(s, s[m]) \in SUBSET DOMAIN s
      BY DEF UpTo
    <3>2. IsFiniteSet(UpTo(s, s[m])) /\ Cardinality(UpTo(s, s[m])) \in Nat
      BY <3>1, Positions
    <3> QED BY <2>6, <3>2, FS_Subset
  <2>8. s[m] \in C
    BY <1>1, <2>1, <2>2, <2>5, <2>7
  <2>9. x <= s[m] /\ s[m] \in Nat
    BY <1>1, <1>4, <2>5, <2>8
  <2> QED BY <2>2, <2>5, <2>9
<1> QED BY <1>4, <1>5

\* The sorted list is ordered and has every host as often as the list.
LEMMA SortIs ==
  ASSUME NEW A \in SUBSET Nat, NEW s \in Seq(A)
  PROVE  /\ SortStrings(s) \in Seq(A)
         /\ Len(SortStrings(s)) = Len(s)
         /\ Ordered(SortStrings(s))
         /\ ToSet(SortStrings(s)) = ToSet(s)
         /\ \A h \in Nat : Cardinality(Occurrences(SortStrings(s), h)) = Cardinality(Occurrences(s, h))
<1> DEFINE n == Len(s)
           t == SortStrings(s)
<1>1. /\ DOMAIN s = 1..n /\ n \in Nat /\ s \in Seq(Nat)
      /\ ToSet(s) \subseteq A /\ ToSet(s) = {s[j] : j \in 1..n}
  <2>1. DOMAIN s = 1..n /\ n \in Nat
    OBVIOUS
  <2>2. s \in Seq(Nat)
    BY SeqMonotonic
  <2> QED BY <2>1, <2>2, SetOf
<1>2. \A i \in 1..n :
        /\ t[i] \in ToSet(s)
        /\ Cardinality(Below(s, t[i])) < i /\ i <= Cardinality(UpTo(s, t[i]))
  <2> TAKE i \in 1..n
  <2> DEFINE Ranked(h) == Cardinality(Below(s, h)) < i /\ i <= Cardinality(UpTo(s, h))
  <2>1. \E h \in ToSet(s) : Ranked(h)
    BY <1>1, RankExists
  <2>2. t[i] = CHOOSE h \in ToSet(s) : Ranked(h)
    BY <1>1 DEF SortStrings, Below, UpTo
  <2> HIDE DEF Ranked, t
  <2>3. t[i] \in ToSet(s) /\ Ranked(t[i])
    BY <2>1, <2>2
  <2> QED BY <2>3 DEF Ranked
<1>3. DOMAIN t = 1..n
  BY <1>1 DEF SortStrings
<1>4. t \in [1..n -> A]
  <2> DEFINE F(i) == CHOOSE h \in ToSet(s) : /\ Cardinality({j \in DOMAIN s : s[j] < h}) < i
                                             /\ i <= Cardinality({j \in DOMAIN s : s[j] <= h})
  <2>1. t = [i \in DOMAIN s |-> F(i)]
    BY DEF SortStrings
  <2> HIDE DEF t, F
  <2>2. \A i \in 1..n : F(i) \in A
    BY <1>1, <1>2, <2>1
  <2> QED BY <1>1, <2>1, <2>2
<1> HIDE DEF t, n
<1>5. t \in Seq(A) /\ Len(t) = n
  <2>1. t \in Seq(A)
    BY <1>1, <1>4, SeqDef
  <2> QED BY <1>1, <1>3, <2>1, LenProperties
<1>6. n \in Nat /\ \A i \in 1..n : t[i] \in Nat /\ i \in Nat
  <2>1. n \in Nat
    BY <1>1
  <2>2. ASSUME NEW i \in 1..n PROVE t[i] \in A /\ i \in Nat
    BY <1>4, <2>1
  <2> QED BY <2>1, <2>2
\* a host with a smaller one after it would be counted out of its place
<1>7. ASSUME NEW i \in 1..n, NEW h \in Nat
      PROVE  /\ t[i] < h => i <= Cardinality(Below(s, h))
             /\ h < t[i] => Cardinality(UpTo(s, h)) < i
  <2>1. /\ Cardinality(Below(s, h)) \in Nat /\ Cardinality(UpTo(s, h)) \in Nat
        /\ Cardinality(Below(s, t[i])) \in Nat /\ Cardinality(UpTo(s, t[i])) \in Nat
        /\ t[i] < h => Cardinality(UpTo(s, t[i])) <= Cardinality(Below(s, h))
        /\ h < t[i] => Cardinality(UpTo(s, h)) <= Cardinality(Below(s, t[i]))
    BY <1>1, <1>6, Counts
  <2> QED BY <1>2, <1>6, <2>1
<1>8. Ordered(t)
  <2>1. ASSUME NEW i \in 1..n, NEW j \in 1..n, i < j PROVE t[i] <= t[j]
    <3>1. SUFFICES ASSUME t[j] < t[i] PROVE FALSE
      BY <1>6
    <3>2. j <= Cardinality(Below(s, t[i])) /\ Cardinality(Below(s, t[i])) < i
      BY <1>2, <1>6, <1>7, <3>1
    <3>3. Cardinality(Below(s, t[i])) \in Nat
      BY <1>1, <1>6, Counts
    <3> QED BY <1>6, <2>1, <3>2, <3>3
  <2> QED BY <1>3, <2>1 DEF Ordered
<1>9. ASSUME NEW h \in Nat
      PROVE  Cardinality(Occurrences(t, h)) = Cardinality(Occurrences(s, h))
  <2> DEFINE lo == Cardinality(Below(s, h))
             hi == Cardinality(UpTo(s, h))
  <2>1. lo \in Nat /\ hi \in Nat /\ lo <= hi /\ hi <= n /\ Cardinality(Occurrences(s, h)) = hi - lo
    BY <1>1, Counts DEF n
  <2>2. \A i \in 1..n : t[i] = h <=> i \in (lo + 1)..hi
    <3> TAKE i \in 1..n
    <3>1. CASE t[i] = h
      BY <1>2, <1>6, <2>1, <3>1
    <3>2. CASE t[i] < h
      BY <1>6, <1>7, <2>1, <3>2
    <3>3. CASE h < t[i]
      BY <1>6, <1>7, <2>1, <3>3
    <3> QED BY <1>6, <3>1, <3>2, <3>3
  <2> HIDE DEF lo, hi
  <2>3. Occurrences(t, h) = (lo + 1)..hi
    BY <1>1, <1>3, <2>1, <2>2 DEF Occurrences
  <2>4. Cardinality((lo + 1)..hi) = hi - lo
    BY <2>1, Interval
  <2> QED BY <2>1, <2>3, <2>4
<1>10. ToSet(t) = ToSet(s)
  <2>1. \A h \in Nat : Occurrences(t, h) = {} <=> Occurrences(s, h) = {}
    <3> TAKE h \in Nat
    <3>1. Occurrences(t, h) \in SUBSET DOMAIN t /\ Occurrences(s, h) \in SUBSET DOMAIN s
      BY DEF Occurrences
    <3>2. IsFiniteSet(Occurrences(t, h)) /\ IsFiniteSet(Occurrences(s, h))
      BY <1>5, <3>1, Positions
    <3> QED BY <1>9, <3>2, FS_EmptySet
  <2>2. \A h \in Nat : /\ h \in ToSet(t) <=> Occurrences(t, h) # {}
                       /\ h \in ToSet(s) <=> Occurrences(s, h) # {}
    BY DEF ToSet, Occurrences
  <2>3. ToSet(t) \subseteq Nat /\ ToSet(s) \subseteq Nat
    BY <1>1, <1>5, SetOf
  <2> QED BY <2>1, <2>2, <2>3
<1> QED BY <1>5, <1>8, <1>9, <1>10 DEF n, t

-----------------------------------------------------------------------------
(***************************************************************************)
(* Kept.                                                                   *)
(***************************************************************************)
\* run gives the list that the loop of Kept has appended after each round.
KeptRun(run, A, list, S) ==
  /\ run \in [0..Len(list) -> Seq(A)]
  /\ run[0] = <<>>
  /\ \A k \in 1..Len(list) :
       run[k] = IF list[k] \in S THEN Append(run[k - 1], list[k]) ELSE run[k - 1]
  /\ Kept(list, S) = run[Len(list)]

\* The recursive function in Kept exists, so that Kept is what its loop leaves.
LEMMA KeptLoop ==
  ASSUME NEW A, NEW list \in Seq(A), NEW S
  PROVE  \E run : KeptRun(run, A, list, S)
<1> DEFINE n == Len(list)
           B == Seq(A)
           start == <<>>
           Step(k, b) == IF list[k] \in S THEN Append(b, list[k]) ELSE b
           Loop(g) == g = [k \in 0..n |-> IF k = 0 THEN start ELSE Step(k, g[k - 1])]
           body == [k \in 1..n |-> [b \in B |-> Step(k, b)]]
           run == CHOOSE g : Loop(g)
<1>1. n \in Nat /\ start \in B /\ \A k \in 1..n : list[k] \in A
  OBVIOUS
<1>2. \A k \in 1..n, b \in B : Step(k, b) \in B
  BY <1>1
<1>3. Kept(list, S) = run[n]
  BY DEF Kept
<1> HIDE DEF n, start, Step, B
<1>4. body \in [1..n -> [B -> B]]
  BY <1>2
<1>5. \A k \in 1..n, b \in B : body[k][b] = Step(k, b)
  OBVIOUS
<1> HIDE DEF body
<1>6. PICK g \in [0..n -> B] : g[0] = start /\ \A k \in 1..n : g[k] = body[k][g[k - 1]]
  <2>1. n \in Nat /\ start \in B /\ body \in [1..n -> [B -> B]]
    BY <1>1, <1>4
  <2>2. PICK g : IsRun(g, n, B, start, body)
    BY <2>1, LoopExists
  <2>3. g \in [0..n -> B] /\ g[0] = start /\ \A k \in 1..n : g[k] = body[k][g[k - 1]]
    BY <2>2 DEF IsRun
  <2> QED BY <2>3
<1>7. \A k \in 1..n : g[k] = Step(k, g[k - 1])
  BY <1>1, <1>5, <1>6
<1>8. Loop(g)
  BY <1>1, <1>6, <1>7
<1> HIDE DEF Loop
<1>9. Loop(run)
  BY <1>8
<1> USE DEF Loop
<1> HIDE DEF run
<1>10. run[0] = start /\ \A k \in 1..n : run[k] = Step(k, run[k - 1])
  BY <1>1, <1>9
<1> DEFINE T == {k \in 0..n : run[k] \in B}
<1>11. 0 \in T
  BY <1>1, <1>10
<1>12. \A k \in 1..n : k - 1 \in T => k \in T
  BY <1>1, <1>2, <1>10
<1>13. \A k \in 0..n : k \in T
  <2> HIDE DEF T
  <2> QED BY <1>1, <1>11, <1>12, Induction, Zenon
<1>14. run \in [0..n -> B]
  BY <1>9, <1>13
<1> USE DEF n, start, Step, B
<1>15. KeptRun(run, A, list, S)
  BY <1>3, <1>10, <1>14 DEF KeptRun
<1> QED BY <1>15

\* What the loop keeps.
LEMMA KeptIs ==
  ASSUME NEW A, NEW list \in Seq(A), NEW S
  PROVE  /\ Kept(list, S) \in Seq(A)
         /\ ToSet(Kept(list, S)) = ToSet(list) \cap S
<1> DEFINE n == Len(list)
<1>0. PICK run : KeptRun(run, A, list, S)
  BY KeptLoop
<1>1. /\ run \in [0..n -> Seq(A)]
      /\ run[0] = <<>>
      /\ \A k \in 1..n :
           run[k] = IF list[k] \in S THEN Append(run[k - 1], list[k]) ELSE run[k - 1]
      /\ Kept(list, S) = run[n]
  BY <1>0 DEF KeptRun
<1>2. n \in Nat /\ (\A k \in 1..n : list[k] \in A) /\ ToSet(list) = {list[j] : j \in 1..n}
  BY SetOf
<1> HIDE DEF n
<1> DEFINE T == {k \in 0..n : ToSet(run[k]) = {list[j] : j \in 1..k} \cap S}
<1>3. 0 \in T
  <2>1. ToSet(run[0]) = {}
    BY <1>1 DEF ToSet
  <2> QED BY <1>2, <2>1
<1>4. ASSUME NEW k \in 1..n, k - 1 \in T PROVE k \in T
  <2>1. run[k - 1] \in Seq(A) /\ list[k] \in A /\ k - 1 \in 0..n /\ k \in 0..n
    BY <1>1, <1>2
  <2>2. ToSet(run[k - 1]) = {list[j] : j \in 1..(k - 1)} \cap S
    BY <1>4
  <2>3. {list[j] : j \in 1..k} = {list[j] : j \in 1..(k - 1)} \cup {list[k]}
    BY <1>2
  <2>4. ToSet(run[k]) = {list[j] : j \in 1..k} \cap S
    <3>1. CASE list[k] \in S
      <4>1. ToSet(run[k]) = ToSet(run[k - 1]) \cup {list[k]}
        BY <1>1, <2>1, <3>1, SetOfAppend
      <4> QED BY <2>2, <2>3, <3>1, <4>1
    <3>2. CASE list[k] \notin S
      BY <1>1, <2>2, <2>3, <3>2
    <3> QED BY <3>1, <3>2
  <2> QED BY <2>1, <2>4
<1>5. \A k \in 0..n : k \in T
  <2> HIDE DEF T
  <2> QED BY <1>2, <1>3, <1>4, Induction, Zenon
<1>6. n \in T
  <2> HIDE DEF T
  <2> QED BY <1>2, <1>5
<1> QED BY <1>1, <1>2, <1>6

-----------------------------------------------------------------------------
(***************************************************************************)
(* removeDuplicateElement.                                                 *)
(***************************************************************************)
\* run gives the list that removeDuplicateElement has built after each round.
RemoveDuplicateRun(run, A, list) ==
  /\ run \in [0..Len(list) -> Seq(A)]
  /\ run[0] = <<>>
  /\ \A k \in 1..Len(list) :
       run[k] = IF Contains(run[k - 1], list[k]) THEN run[k - 1]
                ELSE Append(run[k - 1], list[k])
  /\ removeDuplicateElement(list) = run[Len(list)]

\* The recursive function in removeDuplicateElement exists.
LEMMA RemoveDuplicateLoop ==
  ASSUME NEW A, NEW list \in Seq(A)
  PROVE  \E run : RemoveDuplicateRun(run, A, list)
<1> DEFINE n == Len(list)
           B == Seq(A)
           start == <<>>
           Step(k, b) == IF Contains(b, list[k]) THEN b ELSE Append(b, list[k])
           Loop(g) == g = [k \in 0..n |-> IF k = 0 THEN start ELSE Step(k, g[k - 1])]
           body == [k \in 1..n |-> [b \in B |-> Step(k, b)]]
           run == CHOOSE g : Loop(g)
<1>1. n \in Nat /\ start \in B /\ \A k \in 1..n : list[k] \in A
  OBVIOUS
<1>2. \A k \in 1..n, b \in B : Step(k, b) \in B
  BY <1>1
<1>3. removeDuplicateElement(list) = run[n]
  BY DEF removeDuplicateElement
<1> HIDE DEF n, start, Step, B
<1>4. body \in [1..n -> [B -> B]]
  BY <1>2
<1>5. \A k \in 1..n, b \in B : body[k][b] = Step(k, b)
  OBVIOUS
<1> HIDE DEF body
<1>6. PICK g \in [0..n -> B] : g[0] = start /\ \A k \in 1..n : g[k] = body[k][g[k - 1]]
  <2>1. n \in Nat /\ start \in B /\ body \in [1..n -> [B -> B]]
    BY <1>1, <1>4
  <2>2. PICK g : IsRun(g, n, B, start, body)
    BY <2>1, LoopExists
  <2>3. g \in [0..n -> B] /\ g[0] = start /\ \A k \in 1..n : g[k] = body[k][g[k - 1]]
    BY <2>2 DEF IsRun
  <2> QED BY <2>3
<1>7. \A k \in 1..n : g[k] = Step(k, g[k - 1])
  BY <1>1, <1>5, <1>6
<1>8. Loop(g)
  BY <1>1, <1>6, <1>7
<1> HIDE DEF Loop
<1>9. Loop(run)
  BY <1>8
<1> USE DEF Loop
<1> HIDE DEF run
<1>10. run[0] = start /\ \A k \in 1..n : run[k] = Step(k, run[k - 1])
  BY <1>1, <1>9
<1> DEFINE T == {k \in 0..n : run[k] \in B}
<1>11. 0 \in T
  BY <1>1, <1>10
<1>12. \A k \in 1..n : k - 1 \in T => k \in T
  BY <1>1, <1>2, <1>10
<1>13. \A k \in 0..n : k \in T
  <2> HIDE DEF T
  <2> QED BY <1>1, <1>11, <1>12, Induction, Zenon
<1>14. run \in [0..n -> B]
  BY <1>9, <1>13
<1> USE DEF n, start, Step, B
<1>15. RemoveDuplicateRun(run, A, list)
  BY <1>3, <1>10, <1>14 DEF RemoveDuplicateRun
<1> QED BY <1>15

\* It keeps every entry, and none twice.
LEMMA RemoveDuplicateIs ==
  ASSUME NEW A, NEW list \in Seq(A)
  PROVE  /\ removeDuplicateElement(list) \in Seq(A)
         /\ ToSet(removeDuplicateElement(list)) = ToSet(list)
         /\ IsInjective(removeDuplicateElement(list))
<1> DEFINE n == Len(list)
<1>0. PICK run : RemoveDuplicateRun(run, A, list)
  BY RemoveDuplicateLoop
<1>1. /\ run \in [0..n -> Seq(A)]
      /\ run[0] = <<>>
      /\ \A k \in 1..n :
           run[k] = IF Contains(run[k - 1], list[k]) THEN run[k - 1]
                    ELSE Append(run[k - 1], list[k])
      /\ removeDuplicateElement(list) = run[n]
  BY <1>0 DEF RemoveDuplicateRun
<1>2. n \in Nat /\ (\A k \in 1..n : list[k] \in A) /\ ToSet(list) = {list[j] : j \in 1..n}
  BY SetOf
<1> HIDE DEF n
<1> DEFINE T == {k \in 0..n : ToSet(run[k]) = {list[j] : j \in 1..k} /\ IsInjective(run[k])}
<1>3. 0 \in T
  <2>1. ToSet(run[0]) = {} /\ IsInjective(run[0])
    BY <1>1 DEF ToSet, IsInjective
  <2> QED BY <1>2, <2>1
<1>4. ASSUME NEW k \in 1..n, k - 1 \in T PROVE k \in T
  <2> DEFINE b == run[k - 1]
             x == list[k]
  <2>1. b \in Seq(A) /\ x \in A /\ k - 1 \in 0..n /\ k \in 0..n
    BY <1>1, <1>2
  <2>2. ToSet(b) = {list[j] : j \in 1..(k - 1)} /\ IsInjective(b)
    BY <1>4
  <2>3. {list[j] : j \in 1..k} = {list[j] : j \in 1..(k - 1)} \cup {x}
    <3>1. 1..k = 1..(k - 1) \cup {k}
      BY <1>2
    <3> QED BY <3>1
  <2>4. run[k] = IF x \in ToSet(b) THEN b ELSE Append(b, x)
    <3>1. run[k] = IF Contains(b, x) THEN b ELSE Append(b, x)
      BY <1>1
    <3>2. Contains(b, x) <=> x \in ToSet(b)
      BY <2>1, SetOf
    <3> QED BY <3>1, <3>2
  <2> HIDE DEF b, x
  <2>5. CASE x \in ToSet(b)
    BY <2>1, <2>2, <2>3, <2>4, <2>5
  <2>6. CASE x \notin ToSet(b)
    <3>1. ToSet(run[k]) = ToSet(b) \cup {x}
      BY <2>1, <2>4, <2>6, SetOfAppend
    <3>2. IsInjective(run[k])
      <4>1. /\ run[k] \in Seq(A) /\ Len(run[k]) = Len(b) + 1 /\ run[k][Len(b) + 1] = x
            /\ \A i \in 1..Len(b) : run[k][i] = b[i] /\ b[i] # x
        BY <2>1, <2>4, <2>6, AppendProperties, SetOf
      <4>2. DOMAIN run[k] = 1..(Len(b) + 1) /\ DOMAIN b = 1..Len(b) /\ Len(b) \in Nat
        BY <2>1, <4>1
      <4> QED BY <2>2, <4>1, <4>2 DEF IsInjective
    <3> QED BY <2>1, <2>2, <2>3, <3>1, <3>2
  <2> QED BY <2>5, <2>6
<1>5. \A k \in 0..n : k \in T
  <2> HIDE DEF T
  <2> QED BY <1>2, <1>3, <1>4, Induction, Zenon
<1>6. n \in T
  <2> HIDE DEF T
  <2> QED BY <1>2, <1>5
<1> QED BY <1>1, <1>2, <1>6

-----------------------------------------------------------------------------
(***************************************************************************)
(* SearchStrings.                                                          *)
(***************************************************************************)
\* run gives the bounds of the binary search after each round.
SearchRun(run, s, h) ==
  /\ run \in [0..Len(s) -> [lo : 0..Len(s), hi : 0..Len(s)]]
  /\ run[0] = [lo |-> 0, hi |-> Len(s)]
  /\ \A k \in 1..Len(s) :
       LET b   == run[k - 1]
           mid == (b.lo + b.hi) \div 2
       IN  run[k] = IF b.lo >= b.hi THEN b
                    ELSE IF s[mid + 1] < h THEN [lo |-> mid + 1, hi |-> b.hi]
                    ELSE [lo |-> b.lo, hi |-> mid]
  /\ SearchStrings(s, h) = run[Len(s)].lo

\* The recursive function in SearchStrings exists.
LEMMA SearchLoop ==
  ASSUME NEW s \in Seq(Nat), NEW h \in Nat
  PROVE  \E run : SearchRun(run, s, h)
<1> DEFINE n == Len(s)
           B == [lo : 0..n, hi : 0..n]
           start == [lo |-> 0, hi |-> n]
           Step(k, b) == LET mid == (b.lo + b.hi) \div 2
                         IN  IF b.lo >= b.hi THEN b
                             ELSE IF s[mid + 1] < h THEN [lo |-> mid + 1, hi |-> b.hi]
                             ELSE [lo |-> b.lo, hi |-> mid]
           Loop(g) == g = [k \in 0..n |-> IF k = 0 THEN start ELSE Step(k, g[k - 1])]
           body == [k \in 1..n |-> [b \in B |-> Step(k, b)]]
           run == CHOOSE g : Loop(g)
<1>1. n \in Nat /\ start \in B
  OBVIOUS
<1>2. \A k \in 1..n, b \in B : Step(k, b) \in B
  BY <1>1
<1>3. SearchStrings(s, h) = run[n].lo
  BY DEF SearchStrings
<1> HIDE DEF n, start, Step, B
<1>4. body \in [1..n -> [B -> B]]
  BY <1>2
<1>5. \A k \in 1..n, b \in B : body[k][b] = Step(k, b)
  OBVIOUS
<1> HIDE DEF body
<1>6. PICK g \in [0..n -> B] : g[0] = start /\ \A k \in 1..n : g[k] = body[k][g[k - 1]]
  <2>1. n \in Nat /\ start \in B /\ body \in [1..n -> [B -> B]]
    BY <1>1, <1>4
  <2>2. PICK g : IsRun(g, n, B, start, body)
    BY <2>1, LoopExists
  <2>3. g \in [0..n -> B] /\ g[0] = start /\ \A k \in 1..n : g[k] = body[k][g[k - 1]]
    BY <2>2 DEF IsRun
  <2> QED BY <2>3
<1>7. \A k \in 1..n : g[k] = Step(k, g[k - 1])
  BY <1>1, <1>5, <1>6
<1>8. Loop(g)
  BY <1>1, <1>6, <1>7
<1> HIDE DEF Loop
<1>9. Loop(run)
  BY <1>8
<1> USE DEF Loop
<1> HIDE DEF run
<1>10. run[0] = start /\ \A k \in 1..n : run[k] = Step(k, run[k - 1])
  BY <1>1, <1>9
<1> DEFINE T == {k \in 0..n : run[k] \in B}
<1>11. 0 \in T
  BY <1>1, <1>10
<1>12. \A k \in 1..n : k - 1 \in T => k \in T
  BY <1>1, <1>2, <1>10
<1>13. \A k \in 0..n : k \in T
  <2> HIDE DEF T
  <2> QED BY <1>1, <1>11, <1>12, Induction, Zenon
<1>14. run \in [0..n -> B]
  BY <1>9, <1>13
<1> USE DEF n, start, Step, B
<1>15. SearchRun(run, s, h)
  BY <1>3, <1>10, <1>14 DEF SearchRun
<1> QED BY <1>15

\* What is known of lo and hi after k rounds.
Narrowed(lo, hi, s, h, k) ==
  /\ lo <= hi /\ hi - lo <= Len(s) - k
  /\ \A j \in 1..lo : s[j] < h
  /\ \A j \in (hi + 1)..Len(s) : h <= s[j]

\* The middle lies between the bounds, and below the upper one.
LEMMA Middle ==
  ASSUME NEW lo \in Nat, NEW hi \in Nat, lo < hi
  PROVE  LET mid == (lo + hi) \div 2 IN mid \in Nat /\ lo <= mid /\ mid < hi
OBVIOUS

\* One round.
LEMMA SearchRound ==
  ASSUME NEW s \in Seq(Nat), NEW h \in Nat, NEW k \in 1..Len(s), Ordered(s),
         NEW lo \in 0..Len(s), NEW hi \in 0..Len(s), NEW mid \in Nat,
         Narrowed(lo, hi, s, h, k - 1), lo <= mid, mid < hi
  PROVE  /\ s[mid + 1] < h => Narrowed(mid + 1, hi, s, h, k)
         /\ ~(s[mid + 1] < h) => Narrowed(lo, mid, s, h, k)
<1>1. Len(s) \in Nat /\ DOMAIN s = 1..Len(s) /\ \A j \in 1..Len(s) : s[j] \in Nat
  OBVIOUS
<1>2. \A i, j \in 1..Len(s) : i < j => s[i] <= s[j]
  BY <1>1 DEF Ordered
<1>3. mid + 1 \in 1..Len(s)
  BY <1>1
<1>4. ASSUME s[mid + 1] < h PROVE Narrowed(mid + 1, hi, s, h, k)
  <2>1. ASSUME NEW j \in 1..(mid + 1) PROVE s[j] < h
    <3>1. j \in 1..Len(s) /\ (j = mid + 1 \/ j < mid + 1)
      BY <1>1, <1>3
    <3>2. s[j] <= s[mid + 1] /\ s[j] \in Nat /\ s[mid + 1] \in Nat
      BY <1>1, <1>2, <1>3, <3>1
    <3> QED BY <1>4, <3>2
  <2>2. mid + 1 <= hi /\ hi - (mid + 1) <= Len(s) - k
    BY <1>1 DEF Narrowed
  <2> QED BY <2>1, <2>2 DEF Narrowed
<1>5. ASSUME ~(s[mid + 1] < h) PROVE Narrowed(lo, mid, s, h, k)
  <2>1. ASSUME NEW j \in (mid + 1)..Len(s) PROVE h <= s[j]
    <3>1. j \in 1..Len(s) /\ (j = mid + 1 \/ mid + 1 < j)
      BY <1>1, <1>3
    <3>2. s[mid + 1] <= s[j] /\ s[j] \in Nat /\ s[mid + 1] \in Nat
      BY <1>1, <1>2, <1>3, <3>1
    <3> QED BY <1>5, <3>2
  <2>2. lo <= mid /\ mid - lo <= Len(s) - k
    BY <1>1 DEF Narrowed
  <2> QED BY <2>1, <2>2 DEF Narrowed
<1> QED BY <1>4, <1>5

\* In an ordered list the search finds exactly what is there.
LEMMA FoundIs ==
  ASSUME NEW s \in Seq(Nat), NEW h \in Nat, Ordered(s)
  PROVE  Found(s, h) <=> h \in ToSet(s)
<1> DEFINE n == Len(s)
<1>0. PICK run : SearchRun(run, s, h)
  BY SearchLoop
<1>1. /\ run \in [0..n -> [lo : 0..n, hi : 0..n]]
      /\ run[0] = [lo |-> 0, hi |-> n]
      /\ \A k \in 1..n :
           LET b   == run[k - 1]
               mid == (b.lo + b.hi) \div 2
           IN  run[k] = IF b.lo >= b.hi THEN b
                        ELSE IF s[mid + 1] < h THEN [lo |-> mid + 1, hi |-> b.hi]
                        ELSE [lo |-> b.lo, hi |-> mid]
      /\ SearchStrings(s, h) = run[n].lo
  BY <1>0 DEF SearchRun
<1>2. n \in Nat /\ (\A j \in 1..n : s[j] \in Nat) /\ ToSet(s) = {s[j] : j \in 1..n} /\ DOMAIN s = 1..n
  BY SetOf
<1> DEFINE T == {k \in 0..n : Narrowed(run[k].lo, run[k].hi, s, h, k)}
<1>3. 0 \in T
  BY <1>1, <1>2 DEF Narrowed
<1>4. ASSUME NEW k \in 1..n, k - 1 \in T PROVE k \in T
  <2> DEFINE b == run[k - 1]
             lo == b.lo
             hi == b.hi
             mid == (lo + hi) \div 2
  <2>1. b \in [lo : 0..n, hi : 0..n] /\ lo \in 0..n /\ hi \in 0..n /\ k \in 0..n
    <3>1. k - 1 \in 0..n /\ k \in 0..n
      BY <1>2
    <3> QED BY <1>1, <3>1
  <2>2. Narrowed(lo, hi, s, h, k - 1)
    BY <1>4
  <2>3. run[k] = IF lo >= hi THEN b
                 ELSE IF s[mid + 1] < h THEN [lo |-> mid + 1, hi |-> hi]
                 ELSE [lo |-> lo, hi |-> mid]
    BY <1>1
  <2> HIDE DEF lo, hi
  <2>4. CASE lo >= hi
    <3>1. run[k] = b
      BY <2>3, <2>4
    <3>2. Narrowed(lo, hi, s, h, k)
      <4>1. /\ lo <= hi
            /\ \A j \in 1..lo : s[j] < h
            /\ \A j \in (hi + 1)..Len(s) : h <= s[j]
        BY <2>2 DEF Narrowed
      <4>2. hi - lo <= Len(s) - k
        <5> HIDE DEF b
        <5>1. lo \in Int /\ hi \in Int /\ lo <= hi /\ hi <= lo
          BY <1>2, <2>1, <2>4, <4>1
        <5>2. n \in Int /\ k \in Int /\ k <= n
          BY <1>2
        <5>3. hi - lo = 0 /\ 0 <= n - k
          BY <5>1, <5>2
        <5> QED BY <5>3
      <4> HIDE DEF b
      <4> QED BY <4>1, <4>2 DEF Narrowed
    <3> QED BY <2>1, <3>1, <3>2 DEF lo, hi
  <2>5. CASE ~(lo >= hi)
    <3>1. mid \in Nat /\ lo <= mid /\ mid < hi
      BY <1>2, <2>1, <2>5, Middle
    <3> HIDE DEF mid
    <3>2. /\ s[mid + 1] < h => Narrowed(mid + 1, hi, s, h, k)
          /\ ~(s[mid + 1] < h) => Narrowed(lo, mid, s, h, k)
      BY <2>1, <2>2, <3>1, SearchRound
    <3>3. Narrowed(run[k].lo, run[k].hi, s, h, k)
      <4>1. CASE s[mid + 1] < h
        <5>1. run[k] = [lo |-> mid + 1, hi |-> hi]
          BY <2>3, <2>5, <4>1
        <5> QED BY <3>2, <4>1, <5>1
      <4>2. CASE ~(s[mid + 1] < h)
        <5>1. run[k] = [lo |-> lo, hi |-> mid]
          BY <2>3, <2>5, <4>2
        <5> QED BY <3>2, <4>2, <5>1
      <4> QED BY <4>1, <4>2
    <3> QED BY <2>1, <3>3
  <2> QED BY <2>4, <2>5
<1>5. n \in T
  <2> HIDE DEF T
  <2>1. \A k \in 0..n : k \in T
    BY <1>2, <1>3, <1>4, Induction, Zenon
  <2> QED BY <1>2, <2>1
<1> DEFINE i == SearchStrings(s, h)
<1>6. /\ i \in 0..n
      /\ \A j \in 1..i : s[j] < h
      /\ \A j \in (i + 1)..n : h <= s[j]
  <2>1. /\ run[n].lo \in 0..n /\ run[n].hi \in 0..n
        /\ Narrowed(run[n].lo, run[n].hi, s, h, n)
    BY <1>1, <1>2, <1>5
  <2>2. run[n].lo = run[n].hi
    BY <1>2, <2>1 DEF Narrowed
  <2> QED BY <1>1, <2>1, <2>2 DEF Narrowed
<1>7. Found(s, h) <=> i < n /\ s[i + 1] = h
  BY DEF Found
<1> HIDE DEF i, n, T
<1>8. ASSUME h \in ToSet(s) PROVE i < n /\ s[i + 1] = h
  <2>1. PICK j \in 1..n : s[j] = h
    BY <1>2, <1>8
  <2>2. i < j
    BY <1>2, <1>6, <2>1
  <2>3. i < n /\ i + 1 \in 1..n /\ (i + 1 = j \/ i + 1 < j)
    BY <1>2, <1>6, <2>1, <2>2
  <2>4. h <= s[i + 1]
    BY <1>2, <1>6, <2>3
  <2>5. s[i + 1] <= s[j]
    BY <1>2, <2>1, <2>3 DEF Ordered
  <2> QED BY <1>2, <2>1, <2>3, <2>4, <2>5
<1>9. ASSUME i < n, s[i + 1] = h PROVE h \in ToSet(s)
  BY <1>2, <1>6, <1>9
<1> QED BY <1>7, <1>8, <1>9

-----------------------------------------------------------------------------
(***************************************************************************)
(* splice.                                                                 *)
(***************************************************************************)
\* run gives the list and the index of the splicing loop after each round.
SpliceRun(run, A, list, hosts) ==
  /\ run \in [0..Len(list) -> [list : Seq(A), i : Nat \ {0}]]
  /\ run[0] = [list |-> list, i |-> 1]
  /\ \A k \in 1..Len(list) :
       LET b == run[k - 1]
       IN  run[k] = IF b.i > Len(b.list) THEN b
                    ELSE IF Found(hosts, b.list[b.i])
                      THEN [list |-> RemoveAt(b.list, b.i), i |-> b.i]
                    ELSE [list |-> b.list, i |-> b.i + 1]
  /\ splice(list, hosts) = run[Len(list)].list

\* The recursive function in splice exists.
LEMMA SpliceLoop ==
  ASSUME NEW A, NEW list \in Seq(A), NEW hosts
  PROVE  \E run : SpliceRun(run, A, list, hosts)
<1> DEFINE n == Len(list)
           B == [list : Seq(A), i : Nat \ {0}]
           start == [list |-> list, i |-> 1]
           Step(k, b) == IF b.i > Len(b.list) THEN b
                         ELSE IF Found(hosts, b.list[b.i])
                           THEN [list |-> RemoveAt(b.list, b.i), i |-> b.i]
                         ELSE [list |-> b.list, i |-> b.i + 1]
           Loop(g) == g = [k \in 0..n |-> IF k = 0 THEN start ELSE Step(k, g[k - 1])]
           body == [k \in 1..n |-> [b \in B |-> Step(k, b)]]
           run == CHOOSE g : Loop(g)
<1>1. n \in Nat /\ start \in B
  OBVIOUS
<1>2. \A k \in 1..n, b \in B : Step(k, b) \in B
  BY <1>1, RemoveAtIs
<1>3. splice(list, hosts) = run[n].list
  BY DEF splice
<1> HIDE DEF n, start, Step, B
<1>4. body \in [1..n -> [B -> B]]
  BY <1>2
<1>5. \A k \in 1..n, b \in B : body[k][b] = Step(k, b)
  OBVIOUS
<1> HIDE DEF body
<1>6. PICK g \in [0..n -> B] : g[0] = start /\ \A k \in 1..n : g[k] = body[k][g[k - 1]]
  <2>1. n \in Nat /\ start \in B /\ body \in [1..n -> [B -> B]]
    BY <1>1, <1>4
  <2>2. PICK g : IsRun(g, n, B, start, body)
    BY <2>1, LoopExists
  <2>3. g \in [0..n -> B] /\ g[0] = start /\ \A k \in 1..n : g[k] = body[k][g[k - 1]]
    BY <2>2 DEF IsRun
  <2> QED BY <2>3
<1>7. \A k \in 1..n : g[k] = Step(k, g[k - 1])
  BY <1>1, <1>5, <1>6
<1>8. Loop(g)
  BY <1>1, <1>6, <1>7
<1> HIDE DEF Loop
<1>9. Loop(run)
  BY <1>8
<1> USE DEF Loop
<1> HIDE DEF run
<1>10. run[0] = start /\ \A k \in 1..n : run[k] = Step(k, run[k - 1])
  BY <1>1, <1>9
<1> DEFINE T == {k \in 0..n : run[k] \in B}
<1>11. 0 \in T
  BY <1>1, <1>10
<1>12. \A k \in 1..n : k - 1 \in T => k \in T
  BY <1>1, <1>2, <1>10
<1>13. \A k \in 0..n : k \in T
  <2> HIDE DEF T
  <2> QED BY <1>1, <1>11, <1>12, Induction, Zenon
<1>14. run \in [0..n -> B]
  BY <1>9, <1>13
<1> USE DEF n, start, Step, B
<1>15. SpliceRun(run, A, list, hosts)
  BY <1>3, <1>10, <1>14 DEF SpliceRun
<1> QED BY <1>15

\* Removing an entry.
LEMMA RemoveAtSet ==
  ASSUME NEW A, NEW list \in Seq(A), NEW i \in 1..Len(list)
  PROVE  ToSet(list) = ToSet(RemoveAt(list, i)) \cup {list[i]}
<1> DEFINE n == Len(list)
           r == RemoveAt(list, i)
<1>1. /\ n \in Nat /\ i \in 1..n /\ ToSet(list) = {list[j] : j \in 1..n}
      /\ r \in Seq(A) /\ Len(r) = n - 1 /\ ToSet(r) = {r[j] : j \in 1..(n - 1)}
      /\ \A j \in 1..(n - 1) : r[j] = IF j < i THEN list[j] ELSE list[j + 1]
  <2>1. /\ r \in Seq(A) /\ Len(r) = n - 1
        /\ \A j \in 1..(n - 1) : r[j] = IF j < i THEN list[j] ELSE list[j + 1]
    BY RemoveAtIs
  <2>2. n \in Nat /\ i \in 1..n /\ ToSet(list) = {list[j] : j \in 1..n}
    BY SetOf
  <2> HIDE DEF r, n
  <2>3. ToSet(r) = {r[j] : j \in 1..(n - 1)}
    BY <2>1, SetOf
  <2> QED BY <2>1, <2>2, <2>3
<1> HIDE DEF n, r
<1>2. ASSUME NEW j \in 1..n PROVE list[j] \in ToSet(r) \cup {list[i]}
  <2>1. CASE j < i
    <3>1. j \in 1..(n - 1) /\ r[j] = list[j]
      BY <1>1, <2>1
    <3> QED BY <1>1, <3>1
  <2>2. CASE i < j
    <3>1. j - 1 \in 1..(n - 1) /\ ~(j - 1 < i) /\ (j - 1) + 1 = j
      BY <1>1, <2>2
    <3>2. r[j - 1] = list[j]
      BY <1>1, <3>1
    <3> QED BY <1>1, <3>1, <3>2
  <2> QED BY <1>1, <2>1, <2>2
<1>3. ASSUME NEW j \in 1..(n - 1) PROVE r[j] \in ToSet(list)
  <2>1. j \in 1..n /\ j + 1 \in 1..n
    BY <1>1
  <2>2. r[j] = list[j] \/ r[j] = list[j + 1]
    BY <1>1
  <2> QED BY <1>1, <2>1, <2>2
<1> QED BY <1>1, <1>2, <1>3 DEF r

\* No host occurs more often when an entry has been taken out.
LEMMA RemoveAtCount ==
  ASSUME NEW A, NEW list \in Seq(A), NEW i \in 1..Len(list), NEW h
  PROVE  Cardinality(Occurrences(RemoveAt(list, i), h)) <= Cardinality(Occurrences(list, h))
<1> DEFINE n == Len(list)
           r == RemoveAt(list, i)
           S == Occurrences(r, h)
           T == Occurrences(list, h)
           f == [j \in S |-> IF j < i THEN j ELSE j + 1]
<1>1. /\ n \in Nat /\ i \in 1..n /\ DOMAIN list = 1..n /\ DOMAIN r = 1..(n - 1)
      /\ \A j \in 1..(n - 1) : r[j] = IF j < i THEN list[j] ELSE list[j + 1]
  <2>1. r \in Seq(A) /\ Len(r) = n - 1
    BY RemoveAtIs
  <2> HIDE DEF r
  <2>2. n \in Nat /\ i \in 1..n /\ DOMAIN list = 1..n /\ DOMAIN r = 1..(n - 1)
    BY <2>1
  <2> QED BY <2>2, RemoveAtIs DEF r
<1> HIDE DEF n, r
<1>2. S = {j \in 1..(n - 1) : r[j] = h} /\ T = {j \in 1..n : list[j] = h}
  BY <1>1 DEF Occurrences
<1>3. IsFiniteSet(T)
  <2>1. T \in SUBSET DOMAIN list
    BY DEF Occurrences
  <2> QED BY <2>1, Positions
<1> HIDE DEF S, T
<1>4. \A j \in S : j \in Nat /\ f[j] \in T
  BY <1>1, <1>2
<1>5. f \in Injection(S, T)
  <2>1. f \in [S -> T]
    BY <1>4
  <2>2. \A j, k \in S : f[j] = f[k] => j = k
    BY <1>1, <1>4
  <2>3. DOMAIN f = S
    OBVIOUS
  <2> HIDE DEF f
  <2> QED BY <2>1, <2>2, <2>3 DEF Injection, IsInjective
<1>6. Cardinality(S) <= Cardinality(T)
  <2> HIDE DEF f
  <2> QED BY <1>3, <1>5, FS_Injection
<1> QED BY <1>6 DEF S, T, r

\* What is known after k rounds: what was passed over is not to be removed,
\* what is gone was, and the rest of the list is as long as the loop.
Spliced(b, i, list, hosts, k) ==
  /\ i \in 1..(Len(b) + 1) /\ Len(b) - (i - 1) = Len(list) - k
  /\ Len(b) <= Len(list)
  /\ \A j \in 1..(i - 1) : b[j] \notin ToSet(hosts)
  /\ ToSet(b) \ ToSet(hosts) = ToSet(list) \ ToSet(hosts)
  /\ \A h \in Nat : Cardinality(Occurrences(b, h)) <= Cardinality(Occurrences(list, h))

\* One round.
LEMMA SpliceRound ==
  ASSUME NEW A \in SUBSET Nat, NEW list \in Seq(A), NEW hosts, NEW k \in 1..Len(list),
         NEW b \in Seq(A), NEW i, Spliced(b, i, list, hosts, k - 1)
  PROVE  /\ i \in 1..Len(b)
         /\ b[i] \in ToSet(hosts) => Spliced(RemoveAt(b, i), i, list, hosts, k)
         /\ b[i] \notin ToSet(hosts) => Spliced(b, i + 1, list, hosts, k)
<1>1. Len(list) \in Nat /\ Len(b) \in Nat
  OBVIOUS
<1>2. i \in 1..Len(b)
  BY <1>1 DEF Spliced
<1>3. ASSUME b[i] \in ToSet(hosts) PROVE Spliced(RemoveAt(b, i), i, list, hosts, k)
  <2> DEFINE r == RemoveAt(b, i)
  <2>1. /\ r \in Seq(A) /\ Len(r) = Len(b) - 1
        /\ \A j \in 1..(Len(b) - 1) : r[j] = IF j < i THEN b[j] ELSE b[j + 1]
    BY <1>2, RemoveAtIs
  <2>2. ToSet(b) = ToSet(r) \cup {b[i]}
    BY <1>2, RemoveAtSet
  <2>3. ASSUME NEW h \in Nat
        PROVE  Cardinality(Occurrences(r, h)) <= Cardinality(Occurrences(list, h))
    <3>1. Cardinality(Occurrences(r, h)) <= Cardinality(Occurrences(b, h))
      BY <1>2, RemoveAtCount
    <3>2. Cardinality(Occurrences(b, h)) <= Cardinality(Occurrences(list, h))
      BY DEF Spliced
    <3> DEFINE x == Occurrences(r, h)
               y == Occurrences(b, h)
               z == Occurrences(list, h)
    <3>3. x \in SUBSET DOMAIN r /\ y \in SUBSET DOMAIN b /\ z \in SUBSET DOMAIN list
      BY DEF Occurrences
    <3> HIDE DEF x, y, z, r
    <3>4. Cardinality(x) \in Nat /\ Cardinality(y) \in Nat /\ Cardinality(z) \in Nat
      BY <2>1, <3>3, Positions
    <3> QED BY <3>1, <3>2, <3>4 DEF x, y, z
  <2> HIDE DEF r
  <2>4. i \in 1..(Len(r) + 1) /\ Len(r) - (i - 1) = Len(list) - k /\ Len(r) <= Len(list)
    BY <1>1, <1>2, <2>1 DEF Spliced
  <2>5. \A j \in 1..(i - 1) : r[j] \notin ToSet(hosts)
    BY <1>1, <1>2, <2>1 DEF Spliced
  <2>6. ToSet(r) \ ToSet(hosts) = ToSet(list) \ ToSet(hosts)
    BY <1>3, <2>2 DEF Spliced
  <2>7. Spliced(r, i, list, hosts, k)
    BY <2>3, <2>4, <2>5, <2>6 DEF Spliced
  <2> QED BY <2>7 DEF r
<1>4. ASSUME b[i] \notin ToSet(hosts) PROVE Spliced(b, i + 1, list, hosts, k)
  <2>1. \A j \in 1..((i + 1) - 1) : b[j] \notin ToSet(hosts)
    <3> TAKE j \in 1..((i + 1) - 1)
    <3>1. j = i \/ j \in 1..(i - 1)
      BY <1>2
    <3> QED BY <1>4, <3>1 DEF Spliced
  <2>2. i + 1 \in 1..(Len(b) + 1) /\ Len(b) - ((i + 1) - 1) = Len(list) - k
    BY <1>1, <1>2 DEF Spliced
  <2> QED BY <2>1, <2>2 DEF Spliced
<1> QED BY <1>2, <1>3, <1>4

\* Splicing an ordered list out of another removes its hosts and no other.
LEMMA SpliceIs ==
  ASSUME NEW A \in SUBSET Nat, NEW list \in Seq(A), NEW hosts \in Seq(Nat), Ordered(hosts)
  PROVE  /\ splice(list, hosts) \in Seq(A)
         /\ Len(splice(list, hosts)) <= Len(list)
         /\ ToSet(splice(list, hosts)) = ToSet(list) \ ToSet(hosts)
         /\ \A h \in Nat : Cardinality(Occurrences(splice(list, hosts), h))
                             <= Cardinality(Occurrences(list, h))
<1> DEFINE n == Len(list)
<1>0. PICK run : SpliceRun(run, A, list, hosts)
  BY SpliceLoop
<1>1. /\ run \in [0..n -> [list : Seq(A), i : Nat \ {0}]]
      /\ run[0] = [list |-> list, i |-> 1]
      /\ \A k \in 1..n :
           LET b == run[k - 1]
           IN  run[k] = IF b.i > Len(b.list) THEN b
                        ELSE IF Found(hosts, b.list[b.i])
                          THEN [list |-> RemoveAt(b.list, b.i), i |-> b.i]
                        ELSE [list |-> b.list, i |-> b.i + 1]
      /\ splice(list, hosts) = run[n].list
  BY <1>0 DEF SpliceRun
<1>2. n \in Nat
  OBVIOUS
<1> DEFINE T == {k \in 0..n : Spliced(run[k].list, run[k].i, list, hosts, k)}
<1>3. 0 \in T
  <2>1. \A h \in Nat : Cardinality(Occurrences(list, h)) <= Cardinality(Occurrences(list, h))
    <3> TAKE h \in Nat
    <3>1. Occurrences(list, h) \in SUBSET DOMAIN list
      BY DEF Occurrences
    <3>2. Cardinality(Occurrences(list, h)) \in Nat
      BY <3>1, Positions
    <3> QED BY <3>2
  <2>2. Spliced(list, 1, list, hosts, 0)
    BY <1>2, <2>1 DEF Spliced
  <2> QED BY <1>1, <1>2, <2>2
<1>4. ASSUME NEW k \in 1..n, k - 1 \in T PROVE k \in T
  <2> DEFINE b == run[k - 1].list
             i == run[k - 1].i
  <2>1. b \in Seq(A) /\ k \in 0..n
    <3>1. k - 1 \in 0..n /\ k \in 0..n
      BY <1>2
    <3> QED BY <1>1, <3>1
  <2>2. Spliced(b, i, list, hosts, k - 1)
    BY <1>4
  <2>3. run[k] = IF i > Len(b) THEN run[k - 1]
                 ELSE IF Found(hosts, b[i]) THEN [list |-> RemoveAt(b, i), i |-> i]
                 ELSE [list |-> b, i |-> i + 1]
    BY <1>1
  <2> HIDE DEF b, i
  <2>4. /\ i \in 1..Len(b)
        /\ b[i] \in ToSet(hosts) => Spliced(RemoveAt(b, i), i, list, hosts, k)
        /\ b[i] \notin ToSet(hosts) => Spliced(b, i + 1, list, hosts, k)
    BY <2>1, <2>2, SpliceRound
  <2>5. b[i] \in Nat /\ ~(i > Len(b))
    <3>1. i \in 1..Len(b)
      BY <2>4
    <3>2. b[i] \in A
      BY <2>1, <3>1
    <3>3. Len(b) \in Nat
      BY <2>1
    <3>4. ~(i > Len(b))
      BY <3>1, <3>3
    <3> QED BY <3>2, <3>4
  <2>6. Found(hosts, b[i]) <=> b[i] \in ToSet(hosts)
    BY <2>5, FoundIs
  <2>7. CASE b[i] \in ToSet(hosts)
    <3>1. run[k] = [list |-> RemoveAt(b, i), i |-> i]
      BY <2>3, <2>5, <2>6, <2>7
    <3> QED BY <2>1, <2>4, <2>7, <3>1
  <2>8. CASE b[i] \notin ToSet(hosts)
    <3>1. run[k] = [list |-> b, i |-> i + 1]
      BY <2>3, <2>5, <2>6, <2>8
    <3> QED BY <2>1, <2>4, <2>8, <3>1
  <2> QED BY <2>7, <2>8
<1>5. n \in T
  <2> HIDE DEF T
  <2>1. \A k \in 0..n : k \in T
    BY <1>2, <1>3, <1>4, Induction, Zenon
  <2> QED BY <1>2, <2>1
<1> DEFINE r == run[n].list
<1>6. r \in Seq(A) /\ Spliced(r, run[n].i, list, hosts, n)
  BY <1>1, <1>2, <1>5
<1> HIDE DEF T, r
<1>7. run[n].i = Len(r) + 1
  BY <1>2, <1>6 DEF Spliced
<1>8. \A j \in 1..Len(r) : r[j] \notin ToSet(hosts)
  BY <1>6, <1>7 DEF Spliced
<1>9. ToSet(r) = ToSet(list) \ ToSet(hosts)
  <2>1. ToSet(r) = {r[j] : j \in 1..Len(r)}
    BY <1>6, SetOf
  <2>2. ToSet(r) \ ToSet(hosts) = ToSet(list) \ ToSet(hosts)
    BY <1>6 DEF Spliced
  <2> QED BY <1>8, <2>1, <2>2
<1>10. splice(list, hosts) = r
  BY <1>1 DEF r
<1> QED BY <1>6, <1>9, <1>10 DEF Spliced

============================================================================
