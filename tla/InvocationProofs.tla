------------------------- MODULE InvocationProofs -------------------------
(***************************************************************************)
(* Proofs about Invocation: what ParseHost makes of a destination, however *)
(* it is spelled, and what that means for the lists, for every set of      *)
(* LazySidecars, workloads and calls.                                      *)
(***************************************************************************)
EXTENDS Invocation, SequenceTheorems, TLAPS

-----------------------------------------------------------------------------
(***************************************************************************)
(* Package strings, on tokens.                                             *)
(***************************************************************************)
\* The least and the greatest element of a set.
LEMMA MinIs ==
  ASSUME NEW S \in SUBSET Nat, NEW m \in S, \A i \in S : m <= i
  PROVE  Min(S) = m
<1>1. \E x \in S : \A y \in S : x =< y
  OBVIOUS
<1>2. Min(S) \in S /\ \A y \in S : Min(S) =< y
  BY <1>1 DEF Min
<1>3. Min(S) \in Nat /\ m \in Nat /\ m <= Min(S) /\ Min(S) <= m
  BY <1>2
<1> QED BY <1>3

LEMMA MaxIs ==
  ASSUME NEW S \in SUBSET Nat, NEW m \in S, \A i \in S : m >= i
  PROVE  Max(S) = m
<1>1. \E x \in S : \A y \in S : x >= y
  OBVIOUS
<1>2. Max(S) \in S /\ \A y \in S : Max(S) >= y
  BY <1>1 DEF Max
<1>3. Max(S) \in Nat /\ m \in Nat /\ m >= Max(S) /\ Max(S) >= m
  BY <1>2
<1> QED BY <1>3

\* A function on 1..k is a sequence.
LEMMA FunctionIsSeq ==
  ASSUME NEW S, NEW k \in Nat, NEW f \in [1..k -> S]
  PROVE  f \in Seq(S)
BY SeqDef

\* Taking back what was put between two sequences.
LEMMA MiddleOf ==
  ASSUME NEW T, NEW p \in Seq(T), NEW s \in Seq(T), NEW q \in Seq(T), s # <<>>
  PROVE  SubSeq(p \o s \o q, Len(p) + 1, Len(p) + Len(s)) = s
<1> DEFINE w == p \o s \o q
           u == SubSeq(w, Len(p) + 1, Len(p) + Len(s))
<1>1. Len(p) \in Nat /\ Len(s) \in Nat /\ Len(q) \in Nat
  BY LenProperties
<1>2. /\ w \in Seq(T) /\ Len(w) = Len(p) + Len(s) + Len(q)
      /\ \A i \in 1..Len(s) : w[Len(p) + i] = s[i]
  <2>1. p \o s \in Seq(T) /\ Len(p \o s) = Len(p) + Len(s)
    BY ConcatProperties
  <2>2. \A i \in 1..Len(s) : (p \o s)[Len(p) + i] = s[i]
    BY <1>1, ConcatProperties
  <2>3. \A i \in 1..Len(p) + Len(s) : w[i] = (p \o s)[i]
    BY <1>1, <2>1, ConcatProperties
  <2> QED BY <1>1, <2>1, <2>2, <2>3, ConcatProperties
<1> HIDE DEF w
<1>3. \A i \in Len(p) + 1..Len(p) + Len(s) : w[i] \in T
  BY <1>1, <1>2, ElementOfSeq
<1>4. u \in Seq(T) /\ Len(u) = Len(s) /\ \A i \in 1..Len(s) : u[i] = s[i]
  <2>1. Len(s) > 0 /\ Len(p) + 1 \in Int /\ Len(p) + Len(s) \in Int
    BY <1>1, EmptySeq
  <2>2. /\ u \in Seq(T)
        /\ Len(u) = IF Len(p) + 1 <= Len(p) + Len(s)
                    THEN Len(p) + Len(s) - (Len(p) + 1) + 1 ELSE 0
        /\ \A i \in 1..Len(p) + Len(s) - (Len(p) + 1) + 1 : u[i] = w[Len(p) + 1 + i - 1]
    BY <1>3, <2>1, SubSeqProperties
  <2> HIDE DEF u
  <2>3. Len(p) + Len(s) - (Len(p) + 1) + 1 = Len(s) /\ Len(p) + 1 <= Len(p) + Len(s)
    BY <1>1, <2>1
  <2>4. \A i \in 1..Len(s) : u[i] = w[Len(p) + i]
    BY <1>1, <2>2, <2>3
  <2> QED BY <1>2, <2>2, <2>3, <2>4
<1> HIDE DEF u
<1>5. u = s
  BY <1>4, SeqEqual
<1> QED BY <1>5 DEF u, w

\* The start of two sequences.
LEMMA StartOf ==
  ASSUME NEW T, NEW p \in Seq(T), NEW q \in Seq(T)
  PROVE  SubSeq(p \o q, 1, Len(p)) = p
<1>1. CASE p = <<>>
  <2>1. Len(p) = 0
    BY <1>1, EmptySeq
  <2> QED BY <1>1, <2>1, SubSeqEmpty
<1>2. CASE p # <<>>
  <2>1. <<>> \o p = p /\ Len(<<>>) = 0 /\ <<>> \in Seq(T) /\ Len(p) \in Nat
    BY ConcatEmptySeq, EmptySeq, LenProperties
  <2>2. SubSeq(<<>> \o p \o q, Len(<<>>) + 1, Len(<<>>) + Len(p)) = p
    BY <1>2, <2>1, MiddleOf
  <2> QED BY <2>1, <2>2
<1> QED BY <1>1, <1>2

\* Indexing a concatenation of three.
LEMMA ThreeParts ==
  ASSUME NEW T, NEW p \in Seq(T), NEW s \in Seq(T), NEW q \in Seq(T)
  PROVE  /\ p \o s \o q \in Seq(T)
         /\ Len(p \o s \o q) = Len(p) + Len(s) + Len(q)
         /\ DOMAIN (p \o s \o q) = 1..Len(p) + Len(s) + Len(q)
         /\ \A i \in 1..Len(p) : (p \o s \o q)[i] = p[i]
         /\ \A i \in Len(p) + 1..Len(p) + Len(s) : (p \o s \o q)[i] = s[i - Len(p)]
         /\ \A i \in Len(p) + Len(s) + 1..Len(p) + Len(s) + Len(q) :
              (p \o s \o q)[i] = q[i - Len(p) - Len(s)]
<1>1. Len(p) \in Nat /\ Len(s) \in Nat /\ Len(q) \in Nat
  BY LenProperties
<1> DEFINE t == p \o s
<1>2. /\ t \in Seq(T) /\ Len(t) = Len(p) + Len(s)
      /\ \A i \in 1..Len(p) + Len(s) : t[i] = IF i <= Len(p) THEN p[i] ELSE s[i - Len(p)]
  BY ConcatProperties
<1> HIDE DEF t
<1> DEFINE w == t \o q
<1>3. /\ w \in Seq(T) /\ Len(w) = Len(t) + Len(q)
      /\ \A i \in 1..Len(t) + Len(q) : w[i] = IF i <= Len(t) THEN t[i] ELSE q[i - Len(t)]
  <2>1. t \in Seq(T)
    BY <1>2
  <2> QED BY ONLY <2>1, ConcatProperties, q \in Seq(T)
<1>4. DOMAIN w = 1..Len(w)
  BY <1>3, LenProperties
<1> HIDE DEF w
<1>5. \A i \in 1..Len(p) : w[i] = p[i]
  BY <1>1, <1>2, <1>3
<1>6. \A i \in Len(p) + 1..Len(p) + Len(s) : w[i] = s[i - Len(p)]
  BY <1>1, <1>2, <1>3
<1>7. \A i \in Len(p) + Len(s) + 1..Len(p) + Len(s) + Len(q) : w[i] = q[i - Len(p) - Len(s)]
  BY <1>1, <1>2, <1>3
<1> QED BY <1>2, <1>3, <1>4, <1>5, <1>6, <1>7 DEF w, t

\* Splitting at a separator takes what comes before the first one.
LEMMA BeforeFirst ==
  ASSUME NEW sep, NEW T, NEW p \in Seq(T), NEW q \in Seq(T),
         \A i \in 1..Len(p) : p[i] # sep, q = <<>> \/ q[1] = sep
  PROVE  Before(p \o q, sep) = p
<1> DEFINE w == p \o q
           I == {i \in 1..Len(w) : w[i] = sep}
<1>1. Len(p) \in Nat /\ Len(q) \in Nat /\ Len(w) = Len(p) + Len(q)
  BY LenProperties, ConcatProperties
<1>2. /\ \A i \in 1..Len(p) : w[i] # sep
      /\ \A i \in Len(p) + 1..Len(w) : w[i] = q[i - Len(p)]
  BY <1>1, ConcatProperties
<1>3. Before(w, sep) = IF I = {} \/ Min(I) = 0 THEN w ELSE SubSeq(w, 1, Min(I) - 1)
  BY DEF Before, SelectInSeq
<1>4. CASE q = <<>>
  <2>1. w = p
    BY <1>4, ConcatEmptySeq
  <2>2. I = {}
    BY <1>2, <2>1
  <2> QED BY <1>3, <2>1, <2>2
<1>5. CASE q # <<>>
  <2>1. Len(q) > 0
    BY <1>5, EmptySeq
  <2>2. SubSeq(w, 1, Len(p)) = p
    BY StartOf
  <2> HIDE DEF w
  <2>3. Len(p) + 1 \in I /\ I \in SUBSET Nat /\ \A i \in I : Len(p) + 1 <= i
    BY <1>1, <1>2, <1>5, <2>1
  <2>4. Min(I) = Len(p) + 1
    BY <2>3, MinIs
  <2>5. Min(I) # 0 /\ Min(I) - 1 = Len(p) /\ I # {}
    BY <1>1, <2>3, <2>4
  <2> HIDE DEF I
  <2> QED BY <1>3, <2>2, <2>5 DEF w
<1> QED BY <1>4, <1>5

\* Trimming takes the separators away from both ends, and nothing else.
LEMMA TrimEnds ==
  ASSUME NEW sep, NEW T, NEW p \in Seq(T), NEW s \in Seq(T), NEW q \in Seq(T),
         \A i \in 1..Len(p) : p[i] = sep, \A i \in 1..Len(q) : q[i] = sep,
         s # <<>>, s[1] # sep, s[Len(s)] # sep
  PROVE  Trim(p \o s \o q, sep) = s
<1> DEFINE w == p \o s \o q
           kept == {i \in DOMAIN w : w[i] # sep}
<1>1. Len(p) \in Nat /\ Len(s) \in Nat /\ Len(q) \in Nat /\ Len(s) > 0
  BY LenProperties, EmptySeq
<1>2. /\ DOMAIN w = 1..Len(p) + Len(s) + Len(q)
      /\ \A i \in 1..Len(p) : w[i] = sep
      /\ w[Len(p) + 1] = s[1] /\ w[Len(p) + Len(s)] = s[Len(s)]
      /\ \A i \in Len(p) + Len(s) + 1..Len(p) + Len(s) + Len(q) : w[i] = sep
  <2>1. /\ DOMAIN w = 1..Len(p) + Len(s) + Len(q)
        /\ \A i \in 1..Len(p) : w[i] = p[i]
        /\ \A i \in Len(p) + 1..Len(p) + Len(s) : w[i] = s[i - Len(p)]
        /\ \A i \in Len(p) + Len(s) + 1..Len(p) + Len(s) + Len(q) :
             w[i] = q[i - Len(p) - Len(s)]
    BY ThreeParts
  <2> HIDE DEF w
  <2>2. w[Len(p) + 1] = s[1] /\ w[Len(p) + Len(s)] = s[Len(s)]
    <3>1. (Len(p) + 1) - Len(p) = 1 /\ (Len(p) + Len(s)) - Len(p) = Len(s)
      BY <1>1
    <3>2. Len(p) + 1 \in Len(p) + 1..Len(p) + Len(s) /\ Len(p) + Len(s) \in Len(p) + 1..Len(p) + Len(s)
      BY <1>1
    <3> QED BY <2>1, <3>1, <3>2
  <2>3. \A i \in Len(p) + Len(s) + 1..Len(p) + Len(s) + Len(q) : w[i] = sep
    BY <1>1, <2>1
  <2> QED BY <2>1, <2>2, <2>3
<1>3. Trim(w, sep) = IF kept = {} THEN <<>> ELSE SubSeq(w, Min(kept), Max(kept))
  BY DEF Trim
<1>4. SubSeq(w, Len(p) + 1, Len(p) + Len(s)) = s
  BY MiddleOf
<1> HIDE DEF w
<1>5. /\ kept \in SUBSET Nat
      /\ Len(p) + 1 \in kept /\ \A i \in kept : Len(p) + 1 <= i
      /\ Len(p) + Len(s) \in kept /\ \A i \in kept : Len(p) + Len(s) >= i
  BY <1>1, <1>2
<1> HIDE DEF kept
<1>6. Min(kept) = Len(p) + 1 /\ Max(kept) = Len(p) + Len(s) /\ kept # {}
  BY <1>5, MinIs, MaxIs
<1> QED BY <1>3, <1>4, <1>6 DEF w

\* A suffix that is there is cut off, one that is too long is not there.
LEMMA TrimSuffixThere ==
  ASSUME NEW T, NEW s \in Seq(T), NEW f \in Seq(T)
  PROVE  TrimSuffix(s \o f, f) = s
<1> DEFINE w == s \o f
<1>1. /\ Len(s) \in Nat /\ Len(f) \in Nat
      /\ w \in Seq(T) /\ Len(w) = Len(s) + Len(f)
      /\ \A i \in 1..Len(f) : w[Len(s) + i] = f[i]
  BY LenProperties, ConcatProperties
<1>2. SubSeq(w, 1, Len(s)) = s
  BY StartOf
<1> HIDE DEF w
<1>3. /\ Reverse(w) = [i \in 1..Len(w) |-> w[(Len(w) - i) + 1]]
      /\ Reverse(f) = [i \in 1..Len(f) |-> f[(Len(f) - i) + 1]]
  BY DEF Reverse
<1>4. /\ Reverse(w) \in Seq(T) /\ Len(Reverse(w)) = Len(w)
      /\ Reverse(f) \in Seq(T) /\ Len(Reverse(f)) = Len(f)
      /\ \A i \in 1..Len(f) : Reverse(w)[i] = Reverse(f)[i]
  <2>1. \A i \in 1..Len(w) : w[(Len(w) - i) + 1] \in T
    BY <1>1, ElementOfSeq
  <2>2. \A i \in 1..Len(f) : f[(Len(f) - i) + 1] \in T
    BY <1>1, ElementOfSeq
  <2>3. Reverse(w) \in [1..Len(w) -> T] /\ Reverse(f) \in [1..Len(f) -> T]
    BY <1>3, <2>1, <2>2
  <2>4. Reverse(w) \in Seq(T) /\ Reverse(f) \in Seq(T)
    <3>1. Len(w) \in Nat
      BY <1>1
    <3>2. Reverse(w) \in Seq(T)
      BY ONLY <2>3, <3>1, FunctionIsSeq
    <3>3. Reverse(f) \in Seq(T)
      BY ONLY <1>1, <2>3, FunctionIsSeq
    <3> QED BY <3>2, <3>3
  <2>5. Len(Reverse(w)) = Len(w) /\ Len(Reverse(f)) = Len(f)
    BY <1>1, <2>3, <2>4, LenProperties
  <2>6. \A i \in 1..Len(f) : Reverse(w)[i] = Reverse(f)[i]
    BY <1>1, <1>3
  <2> QED BY <2>4, <2>5, <2>6
<1>5. SubSeq(Reverse(f), 1, Len(f)) = SubSeq(Reverse(w), 1, Len(f))
  <2> DEFINE r == Reverse(w)
             g == Reverse(f)
  <2>1. /\ \A i \in 1..Len(f) : g[i] \in T /\ r[i] \in T
        /\ 1 \in Int /\ Len(f) \in Int
    BY <1>1, <1>4, ElementOfSeq
  <2> HIDE DEF r, g
  <2>2. /\ SubSeq(g, 1, Len(f)) \in Seq(T) /\ SubSeq(r, 1, Len(f)) \in Seq(T)
        /\ Len(SubSeq(g, 1, Len(f))) = Len(SubSeq(r, 1, Len(f)))
        /\ Len(SubSeq(g, 1, Len(f))) = Len(f)
        /\ \A i \in 1..Len(f) : SubSeq(g, 1, Len(f))[i] = g[i] /\ SubSeq(r, 1, Len(f))[i] = r[i]
    <3>1. /\ SubSeq(g, 1, Len(f)) \in Seq(T)
          /\ Len(SubSeq(g, 1, Len(f))) = IF 1 <= Len(f) THEN Len(f) - 1 + 1 ELSE 0
          /\ \A i \in 1..Len(f) - 1 + 1 : SubSeq(g, 1, Len(f))[i] = g[1 + i - 1]
      BY <2>1, SubSeqProperties
    <3>2. /\ SubSeq(r, 1, Len(f)) \in Seq(T)
          /\ Len(SubSeq(r, 1, Len(f))) = IF 1 <= Len(f) THEN Len(f) - 1 + 1 ELSE 0
          /\ \A i \in 1..Len(f) - 1 + 1 : SubSeq(r, 1, Len(f))[i] = r[1 + i - 1]
      BY <2>1, SubSeqProperties
    <3> QED BY <1>1, <3>1, <3>2
  <2>3. \A i \in 1..Len(f) : g[i] = r[i]
    BY <1>4 DEF r, g
  <2>4. SubSeq(g, 1, Len(f)) = SubSeq(r, 1, Len(f))
    BY <2>2, <2>3, SeqEqual
  <2> QED BY <2>4 DEF r, g
<1>6. IsSuffix(f, w)
  BY <1>1, <1>4, <1>5 DEF IsSuffix, IsPrefix
<1>7. Len(w) - Len(f) = Len(s)
  BY <1>1
<1> QED BY <1>2, <1>6, <1>7 DEF TrimSuffix, w

LEMMA TrimSuffixTooLong ==
  ASSUME NEW T, NEW s \in Seq(T), NEW f \in Seq(T), Len(s) < Len(f)
  PROVE  TrimSuffix(s, f) = s
<1>1. Len(s) \in Nat /\ Len(f) \in Nat
  BY LenProperties
<1>2. /\ Reverse(s) = [i \in 1..Len(s) |-> s[(Len(s) - i) + 1]]
      /\ Reverse(f) = [i \in 1..Len(f) |-> f[(Len(f) - i) + 1]]
  BY DEF Reverse
<1>3. Len(Reverse(s)) = Len(s) /\ Len(Reverse(f)) = Len(f)
  BY <1>1, <1>2
<1> QED BY <1>1, <1>3 DEF TrimSuffix, IsSuffix, IsPrefix

-----------------------------------------------------------------------------
(***************************************************************************)
(* How ParseHost takes a destination apart.                                *)
(***************************************************************************)
Lead(d) == IF d.dot = "leading" THEN <<".">> ELSE <<>>
Stem(d) == <<d.name>> \o (IF d.ns # "" THEN <<".", d.ns>> ELSE <<>>)
Ending(d) == IF d.suffix THEN FQDNSuffix ELSE <<>>
Trail(d) == IF d.dot = "trailing" THEN <<".">> ELSE <<>>
Port(d) == IF d.port THEN <<":", "80">> ELSE <<>>
Path(d) == IF d.path THEN <<"/", "ping">> ELSE <<>>
Body(d) == Lead(d) \o Stem(d) \o Ending(d) \o Trail(d)

\* What a host is made of, a host with its port, and one with its path.
HostTokens == Text \cup {"."}
PortTokens == HostTokens \cup {":", "80"}
Tokens == PortTokens \cup {"/", "ping"}

LEMMA TokensAre ==
  /\ HostTokens \subseteq PortTokens /\ PortTokens \subseteq Tokens
  /\ Text \subseteq HostTokens
  /\ {".", "svc", "cluster", "local"} \subseteq HostTokens
  /\ "/" \notin HostTokens /\ ":" \notin HostTokens /\ "." \notin Text /\ "/" \notin PortTokens
BY InvocationAssumption DEF HostTokens, PortTokens, Tokens, Separators

\* What is joined of two sequences, given by its elements.
LEMMA Joined ==
  ASSUME NEW T, NEW x \in Seq(T), NEW y \in Seq(T), NEW z \in Seq(T),
         Len(z) = Len(x) + Len(y), \A i \in 1..Len(x) : z[i] = x[i],
         \A i \in 1..Len(y) : z[Len(x) + i] = y[i]
  PROVE  x \o y = z
<1> DEFINE w == x \o y
<1>1. /\ w \in Seq(T) /\ Len(w) = Len(x) + Len(y)
      /\ \A i \in 1..Len(x) + Len(y) : w[i] = IF i <= Len(x) THEN x[i] ELSE y[i - Len(x)]
  BY ConcatProperties
<1>2. Len(x) \in Nat /\ Len(y) \in Nat
  BY LenProperties
<1> HIDE DEF w
<1>3. \A i \in 1..Len(w) : w[i] = z[i]
  <2> SUFFICES ASSUME NEW i \in 1..Len(w) PROVE w[i] = z[i]
    OBVIOUS
  <2>1. CASE i <= Len(x)
    BY <1>1, <1>2, <2>1
  <2>2. CASE ~(i <= Len(x))
    <3>1. i - Len(x) \in 1..Len(y) /\ Len(x) + (i - Len(x)) = i
      BY <1>1, <1>2, <2>2
    <3> QED BY <1>1, <2>2, <3>1
  <2> QED BY <2>1, <2>2
<1>4. w = z
  BY <1>1, <1>3, SeqEqual
<1> QED BY <1>4 DEF w

LEMMA SuffixIs ==
  /\ FQDNSuffix \in Seq(HostTokens)
  /\ Len(FQDNSuffix) = 6
  /\ FQDNSuffix[1] = "." /\ FQDNSuffix[2] = "svc" /\ FQDNSuffix[3] = "."
  /\ FQDNSuffix[4] = "cluster" /\ FQDNSuffix[5] = "." /\ FQDNSuffix[6] = "local"
BY TokensAre DEF FQDNSuffix

LEMMA StemIs ==
  ASSUME NEW d \in Destination
  PROVE  /\ d.ns = "" => Stem(d) = <<d.name>>
         /\ d.ns # "" => Stem(d) = <<d.name, ".", d.ns>>
         /\ Stem(d) \in Seq(HostTokens) /\ Len(Stem(d)) \in {1, 3} /\ Stem(d) # <<>>
         /\ Stem(d)[1] # "." /\ Stem(d)[Len(Stem(d))] # "."
<1>1. d.name \in HostTokens /\ d.ns \in HostTokens /\ "." \in HostTokens
  BY TokensAre DEF Destination
<1>2. d.name # "." /\ d.ns # "."
  BY TokensAre DEF Destination
<1>3. CASE d.ns = ""
  <2>1. <<d.name>> \in Seq(HostTokens)
    BY <1>1
  <2>2. Stem(d) = <<d.name>>
    BY <1>3, <2>1, ConcatEmptySeq DEF Stem
  <2>3. Len(<<d.name>>) = 1 /\ <<d.name>>[1] = d.name /\ <<d.name>> # <<>>
    OBVIOUS
  <2> QED BY <1>2, <1>3, <2>1, <2>2, <2>3
<1>4. CASE d.ns # ""
  <2> DEFINE x == <<d.name>>
             y == <<".", d.ns>>
             z == <<d.name, ".", d.ns>>
  <2>1. /\ x \in Seq(HostTokens) /\ y \in Seq(HostTokens) /\ z \in Seq(HostTokens)
        /\ Len(x) = 1 /\ Len(y) = 2 /\ Len(z) = 3
    BY <1>1
  <2>2. z[1] = x[1] /\ z[2] = y[1] /\ z[3] = y[2] /\ z[1] = d.name /\ z[3] = d.ns
    OBVIOUS
  <2>3. Stem(d) = x \o y
    BY <1>4 DEF Stem
  <2> HIDE DEF x, y, z
  <2>4. x \o y = z
    <3>1. /\ Len(z) = Len(x) + Len(y) /\ \A i \in 1..Len(x) : z[i] = x[i]
          /\ \A i \in 1..Len(y) : z[Len(x) + i] = y[i]
      <4>1. Len(x) = 1 /\ Len(y) = 2 /\ Len(z) = 3
        BY <2>1
      <4>2. \A i \in 1..1 : z[i] = x[i]
        <5>1. \A i \in 1..1 : i = 1
          OBVIOUS
        <5> QED BY <2>2, <5>1
      <4>3. \A i \in 1..2 : z[1 + i] = y[i]
        <5>1. \A i \in 1..2 : i = 1 \/ i = 2
          OBVIOUS
        <5>2. 1 + 1 = 2 /\ 1 + 2 = 3
          OBVIOUS
        <5> QED BY <2>2, <5>1, <5>2
      <4> QED BY <4>1, <4>2, <4>3
    <3> QED BY <2>1, <3>1, Joined
  <2>5. z # <<>>
    BY <2>1, EmptySeq
  <2> QED BY <1>2, <1>4, <2>1, <2>2, <2>3, <2>4, <2>5 DEF z
<1> QED BY <1>3, <1>4

LEMMA PartsTyped ==
  ASSUME NEW d \in Destination
  PROVE  /\ Lead(d) \in Seq(HostTokens) /\ Ending(d) \in Seq(HostTokens)
         /\ Trail(d) \in Seq(HostTokens) /\ Body(d) \in Seq(HostTokens)
         /\ Port(d) \in Seq(PortTokens) /\ Path(d) \in Seq(Tokens)
<1>1. /\ Lead(d) \in Seq(HostTokens) /\ Ending(d) \in Seq(HostTokens)
      /\ Trail(d) \in Seq(HostTokens)
  <2>1. <<".">> \in Seq(HostTokens) /\ <<>> \in Seq(HostTokens)
    BY TokensAre
  <2> QED BY <2>1, SuffixIs DEF Lead, Ending, Trail
<1>2. Port(d) \in Seq(PortTokens) /\ Path(d) \in Seq(Tokens)
  <2>1. <<":", "80">> \in Seq(PortTokens) /\ <<>> \in Seq(PortTokens)
    BY DEF PortTokens
  <2>2. <<"/", "ping">> \in Seq(Tokens) /\ <<>> \in Seq(Tokens)
    BY DEF Tokens
  <2> QED BY <2>1, <2>2 DEF Port, Path
<1>3. Body(d) \in Seq(HostTokens)
  <2>1. Lead(d) \o Stem(d) \in Seq(HostTokens)
    BY <1>1, StemIs, ConcatProperties
  <2>2. Lead(d) \o Stem(d) \o Ending(d) \in Seq(HostTokens)
    BY <1>1, <2>1, ConcatProperties
  <2> QED BY <1>1, <2>2, ConcatProperties DEF Body
<1> QED BY <1>1, <1>2, <1>3

LEMMA SpellParts ==
  ASSUME NEW d \in Destination
  PROVE  Spell(d) = Body(d) \o Port(d) \o Path(d)
<1> DEFINE x == <<d.name>>
           y == IF d.ns # "" THEN <<".", d.ns>> ELSE <<>>
           l == Lead(d)
<1>1. l \in Seq(HostTokens) /\ x \in Seq(HostTokens) /\ y \in Seq(HostTokens)
  <2>1. d.name \in HostTokens /\ d.ns \in HostTokens /\ "." \in HostTokens
    BY TokensAre DEF Destination
  <2>2. <<d.name>> \in Seq(HostTokens) /\ <<".", d.ns>> \in Seq(HostTokens) /\ <<>> \in Seq(HostTokens)
    BY <2>1
  <2> QED BY <2>2, PartsTyped
<1>2. Stem(d) = x \o y
  BY DEF Stem
<1>3. Spell(d) = (l \o x) \o y \o Ending(d) \o Trail(d) \o Port(d) \o Path(d)
  BY DEF Spell, Lead, Ending, Trail, Port, Path
<1>4. Body(d) = l \o (x \o y) \o Ending(d) \o Trail(d)
  BY <1>2 DEF Body
<1> HIDE DEF l, x, y
<1>5. (l \o x) \o y = l \o (x \o y)
  BY <1>1, ConcatAssociative
<1> QED BY <1>3, <1>4, <1>5

\* Neither end of a body or of its port is a colon: Trim changes nothing.
LEMMA TrimColons ==
  ASSUME NEW d \in Destination
  PROVE  Trim(Body(d) \o Port(d), ":") = Body(d) \o Port(d)
<1> DEFINE s == Body(d) \o Port(d)
<1>1. /\ Body(d) \in Seq(PortTokens) /\ Port(d) \in Seq(PortTokens)
      /\ Len(Body(d)) \in Nat /\ Len(Body(d)) > 0
      /\ \A i \in 1..Len(Body(d)) : Body(d)[i] # ":"
  <2>1. Body(d) \in Seq(HostTokens) /\ Port(d) \in Seq(PortTokens)
    BY PartsTyped
  <2>2. Body(d) # <<>>
    <3>1. Lead(d) \o Stem(d) # <<>>
      <4>1. Lead(d) \in Seq(HostTokens) /\ Stem(d) \in Seq(HostTokens) /\ Stem(d) # <<>>
        BY PartsTyped, StemIs
      <4> QED BY <4>1, ConcatEqualIffEmpty
    <3>2. Lead(d) \o Stem(d) \in Seq(HostTokens)
      BY PartsTyped, StemIs, ConcatProperties
    <3>3. Lead(d) \o Stem(d) \o Ending(d) # <<>>
      BY <3>1, <3>2, PartsTyped, ConcatEqualIffEmpty
    <3>4. Lead(d) \o Stem(d) \o Ending(d) \in Seq(HostTokens)
      BY <3>2, PartsTyped, ConcatProperties
    <3> QED BY <3>3, <3>4, PartsTyped, ConcatEqualIffEmpty DEF Body
  <2>3. Body(d) \in Seq(PortTokens)
    BY <2>1, TokensAre, SeqMonotonic
  <2>4. \A i \in 1..Len(Body(d)) : Body(d)[i] # ":"
    BY <2>1, TokensAre, ElementOfSeq
  <2>5. Len(Body(d)) \in Nat /\ Len(Body(d)) > 0
    BY <2>1, <2>2, EmptySeq
  <2> QED BY <2>1, <2>3, <2>4, <2>5
<1>2. /\ s \in Seq(PortTokens) /\ Len(s) = Len(Body(d)) + Len(Port(d))
      /\ \A i \in 1..Len(Body(d)) + Len(Port(d)) :
           s[i] = IF i <= Len(Body(d)) THEN Body(d)[i] ELSE Port(d)[i - Len(Body(d))]
  BY <1>1, ConcatProperties
<1>3. Len(Port(d)) = 0 \/ (Len(Port(d)) = 2 /\ Port(d)[2] = "80")
  <2> DEFINE written == <<":", "80">>
  <2>1. Len(written) = 2 /\ written[2] = "80" /\ Len(<<>>) = 0
    OBVIOUS
  <2>2. Port(d) = <<>> \/ Port(d) = written
    BY DEF Port
  <2> HIDE DEF written
  <2> QED BY <2>1, <2>2
<1> HIDE DEF s
<1>4. s[1] # ":" /\ s[Len(s)] # ":" /\ s # <<>>
  <2>1. s[1] = Body(d)[1] /\ s[1] # ":"
    BY <1>1, <1>2, <1>3
  <2>2. CASE Len(Port(d)) = 2 /\ Port(d)[2] = "80"
    <3>1. Len(s) = Len(Body(d)) + 2 /\ ~(Len(s) <= Len(Body(d))) /\ Len(s) - Len(Body(d)) = 2
      BY <1>1, <1>2, <1>3, <2>2
    <3>2. s[Len(s)] = "80"
      BY <1>1, <1>2, <1>3, <2>2, <3>1
    <3> QED BY <1>1, <2>1, <3>1, <3>2, EmptySeq
  <2>3. CASE Len(Port(d)) = 0
    <3>1. Len(s) = Len(Body(d))
      BY <1>1, <1>2, <1>3, <2>3
    <3>2. s[Len(s)] # ":"
      BY <1>1, <1>2, <1>3, <2>3, <3>1
    <3> QED BY <1>1, <2>1, <3>1, <3>2, EmptySeq
  <2> QED BY <1>3, <2>2, <2>3
<1>5. <<>> \in Seq(PortTokens) /\ \A i \in 1..Len(<<>>) : <<>>[i] = ":"
  BY EmptySeq
<1>6. Trim(<<>> \o s \o <<>>, ":") = s
  BY <1>2, <1>4, <1>5, TrimEnds
<1>7. <<>> \o s \o <<>> = s
  BY <1>2, ConcatEmptySeq
<1> QED BY <1>6, <1>7 DEF s

\* The host of a destination: neither path nor port.
LEMMA HostOf ==
  ASSUME NEW d \in Destination
  PROVE  Before(Trim(Before(Spell(d), "/"), ":"), ":") = Body(d)
<1>1. Before(Spell(d), "/") = Body(d) \o Port(d)
  <2> DEFINE p == Body(d) \o Port(d)
             q == Path(d)
  <2>1. p \in Seq(PortTokens)
    <3>1. Body(d) \in Seq(PortTokens)
      BY PartsTyped, TokensAre, SeqMonotonic
    <3> QED BY <3>1, PartsTyped, ConcatProperties
  <2>2. p \in Seq(Tokens) /\ \A i \in 1..Len(p) : p[i] # "/"
    <3>1. p \in Seq(Tokens)
      BY <2>1, TokensAre, SeqMonotonic
    <3>2. \A i \in 1..Len(p) : p[i] \in PortTokens
      BY <2>1, ElementOfSeq
    <3> QED BY <3>1, <3>2, TokensAre
  <2>3. q \in Seq(Tokens) /\ (q = <<>> \/ q[1] = "/")
    <3>1. <<"/", "ping">>[1] = "/"
      OBVIOUS
    <3> QED BY <3>1, PartsTyped DEF Path
  <2>4. Spell(d) = p \o q
    BY SpellParts
  <2> HIDE DEF p, q
  <2>5. Before(p \o q, "/") = p
    BY <2>2, <2>3, BeforeFirst
  <2> QED BY <2>4, <2>5 DEF p
<1>2. Before(Body(d) \o Port(d), ":") = Body(d)
  <2>1. Body(d) \in Seq(PortTokens) /\ \A i \in 1..Len(Body(d)) : Body(d)[i] # ":"
    <3>1. Body(d) \in Seq(PortTokens)
      BY PartsTyped, TokensAre, SeqMonotonic
    <3>2. \A i \in 1..Len(Body(d)) : Body(d)[i] \in HostTokens
      BY PartsTyped, ElementOfSeq
    <3> QED BY <3>1, <3>2, TokensAre
  <2>2. Port(d) \in Seq(PortTokens) /\ (Port(d) = <<>> \/ Port(d)[1] = ":")
    <3>1. <<":", "80">>[1] = ":"
      OBVIOUS
    <3> QED BY <3>1, PartsTyped DEF Port
  <2> QED BY <2>1, <2>2, BeforeFirst
<1> QED BY <1>1, <1>2, TrimColons

\* Its suffix and its stray dots go, the name and the namespace stay.
LEMMA StemOf ==
  ASSUME NEW d \in Destination
  PROVE  Trim(TrimSuffix(Body(d), FQDNSuffix), ".") = Stem(d)
<1> DEFINE l == Lead(d)
           s == Stem(d)
           t == Trail(d)
<1>1. l \in Seq(HostTokens) /\ s \in Seq(HostTokens) /\ t \in Seq(HostTokens)
  BY PartsTyped, StemIs
<1>2. /\ Len(l) \in {0, 1} /\ \A i \in 1..Len(l) : l[i] = "."
      /\ Len(t) \in {0, 1} /\ \A i \in 1..Len(t) : t[i] = "."
  <2> DEFINE dot == <<".">>
  <2>1. Len(dot) = 1 /\ dot[1] = "." /\ Len(<<>>) = 0
    OBVIOUS
  <2>2. (l = <<>> \/ l = dot) /\ (t = <<>> \/ t = dot)
    BY DEF Lead, Trail
  <2> HIDE DEF l, t, dot
  <2>3. /\ Len(l) = 0 \/ (Len(l) = 1 /\ l[1] = ".")
        /\ Len(t) = 0 \/ (Len(t) = 1 /\ t[1] = ".")
    BY <2>1, <2>2
  <2> QED BY <2>3
<1>3. s # <<>> /\ s[1] # "." /\ s[Len(s)] # "." /\ Len(s) \in {1, 3}
  BY StemIs
<1>4. Body(d) = l \o s \o Ending(d) \o t
  BY DEF Body
<1>5. d.suffix => t = <<>>
  BY DEF Destination, Trail
<1>6. /\ d.suffix => Ending(d) = FQDNSuffix
      /\ ~d.suffix => Ending(d) = <<>>
  BY DEF Ending
<1> HIDE DEF l, s, t
<1>7. l \o s \in Seq(HostTokens) /\ Len(l \o s) = Len(l) + Len(s)
  BY <1>1, ConcatProperties
<1>8. Trim(l \o s \o t, ".") = s
  BY <1>1, <1>2, <1>3, TrimEnds
<1>9. TrimSuffix(Body(d), FQDNSuffix) = l \o s \o t
  <2>1. CASE d.suffix
    <3>1. l \o s \o FQDNSuffix \in Seq(HostTokens)
      BY <1>7, SuffixIs, ConcatProperties
    <3>2. Body(d) = (l \o s) \o FQDNSuffix /\ l \o s \o t = l \o s
      BY <1>4, <1>5, <1>6, <1>7, <2>1, <3>1, ConcatEmptySeq
    <3>3. TrimSuffix((l \o s) \o FQDNSuffix, FQDNSuffix) = l \o s
      BY <1>7, SuffixIs, TrimSuffixThere
    <3> QED BY <3>2, <3>3
  <2>2. CASE ~d.suffix
    <3>1. Body(d) = l \o s \o t
      BY <1>4, <1>6, <1>7, <2>2, ConcatEmptySeq
    <3>2. l \o s \o t \in Seq(HostTokens) /\ Len(l \o s \o t) = Len(l) + Len(s) + Len(t)
      BY <1>1, <1>7, ConcatProperties
    <3>3. Len(l \o s \o t) < Len(FQDNSuffix)
      <4>1. Len(l) <= 1 /\ Len(s) <= 3 /\ Len(t) <= 1 /\ Len(FQDNSuffix) = 6
        BY <1>2, <1>3, SuffixIs
      <4>2. Len(l) \in Nat /\ Len(s) \in Nat /\ Len(t) \in Nat
        BY <1>1, LenProperties
      <4> QED BY <3>2, <4>1, <4>2
    <3> QED BY <3>1, <3>2, <3>3, SuffixIs, TrimSuffixTooLong
  <2> QED BY <2>1, <2>2
<1> QED BY <1>8, <1>9 DEF s

-----------------------------------------------------------------------------
(***************************************************************************)
(* What ParseHost makes of a destination: the same of every spelling.      *)
(***************************************************************************)
HostOfService(ns, name) == <<ns, "/", name, ".", ns>> \o FQDNSuffix
HostOfNoNamespace(name) == <<"/", name, ".">> \o FQDNSuffix

\* The namespace a call means: its destination's, or else the caller's.
NamespaceMeant(src, d) == IF d.ns = "" THEN src ELSE d.ns

LEMMA SuffixOfHost ==
  /\ FQDNSuffix \in Seq(Text \cup Separators)
  /\ Text \subseteq Text \cup Separators /\ {"/", "."} \subseteq Text \cup Separators
<1>1. HostTokens \subseteq Text \cup Separators
  BY DEF HostTokens, Separators
<1> QED BY <1>1, SuffixIs, SeqMonotonic DEF Separators

LEMMA JoinedOne ==
  ASSUME NEW T, NEW x \in Seq(T), NEW e \in T, NEW z \in Seq(T),
         Len(z) = Len(x) + 1, \A i \in 1..Len(x) : z[i] = x[i], z[Len(x) + 1] = e
  PROVE  x \o <<e>> = z
<1> DEFINE y == <<e>>
<1>1. y \in Seq(T) /\ Len(y) = 1 /\ y[1] = e
  OBVIOUS
<1>2. \A i \in 1..1 : i = 1
  OBVIOUS
<1> HIDE DEF y
<1>3. /\ Len(z) = Len(x) + Len(y)
      /\ \A i \in 1..Len(y) : z[Len(x) + i] = y[i]
  BY <1>1, <1>2
<1>4. x \o y = z
  BY <1>1, <1>3, Joined
<1> QED BY <1>4 DEF y

\* Appending to a sequence that is written out.
LEMMA OneMore ==
  ASSUME NEW T, NEW a \in T, NEW b \in T, NEW c \in T, NEW d \in T, NEW e \in T
  PROVE  /\ <<a>> \o <<b>> = <<a, b>>
         /\ <<a, b>> \o <<c>> = <<a, b, c>>
         /\ <<a, b, c>> \o <<d>> = <<a, b, c, d>>
         /\ <<a, b, c, d>> \o <<e>> = <<a, b, c, d, e>>
<1>1. <<a>> \o <<b>> = <<a, b>>
  <2> DEFINE x == <<a>>
             z == <<a, b>>
  <2>1. x \in Seq(T) /\ z \in Seq(T)
    OBVIOUS
  <2>2. Len(x) = 1 /\ Len(z) = 2 /\ z[2] = b /\ z[1] = x[1]
    OBVIOUS
  <2>3. \A i \in 1..1 : i = 1
    OBVIOUS
  <2> HIDE DEF x, z
  <2>4. (\A i \in 1..Len(x) : z[i] = x[i]) /\ Len(z) = Len(x) + 1 /\ z[Len(x) + 1] = b
    BY <2>2, <2>3
  <2>5. x \o <<b>> = z
    BY <2>1, <2>4, JoinedOne
  <2> QED BY <2>5 DEF x, z
<1>2. <<a, b>> \o <<c>> = <<a, b, c>>
  <2> DEFINE x == <<a, b>>
             z == <<a, b, c>>
  <2>1. x \in Seq(T) /\ z \in Seq(T)
    OBVIOUS
  <2>2. Len(x) = 2 /\ Len(z) = 3 /\ z[3] = c /\ z[1] = x[1] /\ z[2] = x[2]
    OBVIOUS
  <2>3. \A i \in 1..2 : i = 1 \/ i = 2
    OBVIOUS
  <2> HIDE DEF x, z
  <2>4. (\A i \in 1..Len(x) : z[i] = x[i]) /\ Len(z) = Len(x) + 1 /\ z[Len(x) + 1] = c
    BY <2>2, <2>3
  <2>5. x \o <<c>> = z
    BY <2>1, <2>4, JoinedOne
  <2> QED BY <2>5 DEF x, z
<1>3. <<a, b, c>> \o <<d>> = <<a, b, c, d>>
  <2> DEFINE x == <<a, b, c>>
             z == <<a, b, c, d>>
  <2>1. x \in Seq(T) /\ z \in Seq(T)
    OBVIOUS
  <2>2. Len(x) = 3 /\ Len(z) = 4 /\ z[4] = d /\ z[1] = x[1] /\ z[2] = x[2] /\ z[3] = x[3]
    OBVIOUS
  <2>3. \A i \in 1..3 : i = 1 \/ i = 2 \/ i = 3
    OBVIOUS
  <2> HIDE DEF x, z
  <2>4. (\A i \in 1..Len(x) : z[i] = x[i]) /\ Len(z) = Len(x) + 1 /\ z[Len(x) + 1] = d
    BY <2>2, <2>3
  <2>5. x \o <<d>> = z
    BY <2>1, <2>4, JoinedOne
  <2> QED BY <2>5 DEF x, z
<1>4. <<a, b, c, d>> \o <<e>> = <<a, b, c, d, e>>
  <2> DEFINE x == <<a, b, c, d>>
             z == <<a, b, c, d, e>>
  <2>1. x \in Seq(T) /\ z \in Seq(T)
    OBVIOUS
  <2>2. Len(x) = 4 /\ Len(z) = 5 /\ z[5] = e /\ z[1] = x[1] /\ z[2] = x[2] /\ z[3] = x[3] /\ z[4] = x[4]
    OBVIOUS
  <2>3. \A i \in 1..4 : i = 1 \/ i = 2 \/ i = 3 \/ i = 4
    OBVIOUS
  <2> HIDE DEF x, z
  <2>4. (\A i \in 1..Len(x) : z[i] = x[i]) /\ Len(z) = Len(x) + 1 /\ z[Len(x) + 1] = e
    BY <2>2, <2>3
  <2>5. x \o <<e>> = z
    BY <2>1, <2>4, JoinedOne
  <2> QED BY <2>5 DEF x, z
<1> QED BY <1>1, <1>2, <1>3, <1>4

\* ParseHost names the service that is meant, however it is spelled; without
\* any namespace it makes a host of none.
LEMMA ParseHostIs ==
  ASSUME NEW d \in Destination, NEW src \in Text
  PROVE  /\ NamespaceMeant(src, d) # ""
              => ParseHost(src, Spell(d)) = HostOfService(NamespaceMeant(src, d), d.name)
         /\ NamespaceMeant(src, d) = ""
              => ParseHost(src, Spell(d)) = HostOfNoNamespace(d.name)
<1> DEFINE T == Text \cup Separators
           n == d.name
           ns == d.ns
<1>1. /\ n \in T /\ ns \in T /\ src \in T /\ "/" \in T /\ "." \in T /\ n # "."
      /\ FQDNSuffix \in Seq(T)
  BY SuffixOfHost, TokensAre DEF Destination
<1>2. ParseHost(src, Spell(d)) =
        IF Contains(Stem(d), ".")
        THEN <<Last(Stem(d)), "/">> \o Stem(d) \o FQDNSuffix
        ELSE Name(src) \o <<"/">> \o Stem(d) \o <<".">> \o Name(src) \o FQDNSuffix
  BY HostOf, StemOf DEF ParseHost
<1>3. CASE ns # ""
  <2>1. Stem(d) = <<n, ".", ns>>
    BY <1>3, StemIs
  <2>2. Contains(<<n, ".", ns>>, ".") /\ Last(<<n, ".", ns>>) = ns
    <3> DEFINE z == <<n, ".", ns>>
    <3>1. Len(z) = 3 /\ z[2] = "." /\ z[3] = ns
      OBVIOUS
    <3> HIDE DEF z
    <3>2. Contains(z, ".") /\ Last(z) = ns
      BY <3>1 DEF Contains, Last
    <3> QED BY <3>2 DEF z
  <2>3. ParseHost(src, Spell(d)) = <<ns, "/">> \o <<n, ".", ns>> \o FQDNSuffix
    BY <1>2, <2>1, <2>2
  <2>4. <<ns, "/">> \o <<n, ".", ns>> = <<ns, "/", n, ".", ns>>
    <3> DEFINE x == <<ns, "/">>
               y == <<n, ".", ns>>
               z == <<ns, "/", n, ".", ns>>
    <3>1. x \in Seq(T) /\ y \in Seq(T) /\ z \in Seq(T)
      BY <1>1
    <3>2. /\ Len(x) = 2 /\ Len(y) = 3 /\ Len(z) = 5
          /\ z[1] = x[1] /\ z[2] = x[2] /\ z[3] = y[1] /\ z[4] = y[2] /\ z[5] = y[3]
      OBVIOUS
    <3> HIDE DEF x, y, z, T
    <3>3. \A i \in 1..Len(x) : z[i] = x[i]
      <4>1. \A i \in 1..2 : i = 1 \/ i = 2
        OBVIOUS
      <4> QED BY <3>2, <4>1
    <3>4. \A i \in 1..Len(y) : z[Len(x) + i] = y[i]
      <4>1. \A i \in 1..3 : i = 1 \/ i = 2 \/ i = 3
        OBVIOUS
      <4>2. 2 + 1 = 3 /\ 2 + 2 = 4 /\ 2 + 3 = 5
        OBVIOUS
      <4> QED BY <3>2, <4>1, <4>2
    <3>5. Len(z) = Len(x) + Len(y)
      BY <3>2
    <3>6. x \o y = z
      BY <3>1, <3>3, <3>4, <3>5, Joined
    <3> QED BY <3>6 DEF x, y, z
  <2>5. NamespaceMeant(src, d) = ns
    BY <1>3 DEF NamespaceMeant
  <2> QED BY <1>3, <2>3, <2>4, <2>5 DEF HostOfService
<1>4. CASE ns = ""
  <2>1. Stem(d) = <<n>>
    BY <1>4, StemIs
  <2>2. ~Contains(<<n>>, ".")
    <3> DEFINE z == <<n>>
    <3>1. Len(z) = 1 /\ z[1] = n
      OBVIOUS
    <3>2. \A i \in 1..1 : i = 1
      OBVIOUS
    <3> HIDE DEF z
    <3>3. ~Contains(z, ".")
      BY <1>1, <3>1, <3>2 DEF Contains
    <3> QED BY <3>3 DEF z
  <2>3. ParseHost(src, Spell(d)) = Name(src) \o <<"/">> \o <<n>> \o <<".">> \o Name(src) \o FQDNSuffix
    BY <1>2, <2>1, <2>2
  <2>4. NamespaceMeant(src, d) = src
    BY <1>4 DEF NamespaceMeant
  <2>5. CASE src # ""
    <3>1. Name(src) = <<src>>
      BY <2>5 DEF Name
    <3>2. <<src>> \o <<"/">> \o <<n>> \o <<".">> \o <<src>> = <<src, "/", n, ".", src>>
      <4>1. /\ <<src>> \o <<"/">> = <<src, "/">>
            /\ <<src, "/">> \o <<n>> = <<src, "/", n>>
            /\ <<src, "/", n>> \o <<".">> = <<src, "/", n, ".">>
            /\ <<src, "/", n, ".">> \o <<src>> = <<src, "/", n, ".", src>>
        <5>1. src \in T /\ n \in T /\ "/" \in T /\ "." \in T
          BY <1>1
        <5> HIDE DEF T, n
        <5> QED BY ONLY <5>1, OneMore
      <4> QED BY <4>1, Zenon
    <3> QED BY <2>3, <2>4, <2>5, <3>1, <3>2 DEF HostOfService
  <2>6. CASE src = ""
    <3>1. Name(src) = <<>>
      BY <2>6 DEF Name
    <3>2. <<>> \o <<"/">> = <<"/">> /\ <<"/", n, ".">> \o <<>> = <<"/", n, ".">>
      <4>1. <<"/">> \in Seq(T) /\ <<"/", n, ".">> \in Seq(T)
        BY <1>1
      <4> QED BY <4>1, ConcatEmptySeq
    <3>3. <<"/">> \o <<n>> \o <<".">> = <<"/", n, ".">>
      <4>1. /\ <<"/">> \o <<n>> = <<"/", n>>
            /\ <<"/", n>> \o <<".">> = <<"/", n, ".">>
            /\ <<"/", n, ".">> \o <<".">> = <<"/", n, ".", ".">>
            /\ <<"/", n, ".", ".">> \o <<".">> = <<"/", n, ".", ".", ".">>
        <5>1. n \in T /\ "/" \in T /\ "." \in T
          BY <1>1
        <5> HIDE DEF T, n
        <5> QED BY ONLY <5>1, OneMore
      <4> QED BY <4>1, Zenon
    <3> QED BY <2>3, <2>4, <2>6, <3>1, <3>2, <3>3 DEF HostOfNoNamespace
  <2> QED BY <2>5, <2>6
<1> QED BY <1>3, <1>4

\* Both have the form of a host, and a host of a service shows what it is of.
LEMMA HostsTyped ==
  ASSUME NEW ns \in Text, NEW name \in Text
  PROVE  /\ HostOfService(ns, name) \in Host /\ HostOfNoNamespace(name) \in Host
         /\ Head(HostOfService(ns, name)) = ns /\ HostOfService(ns, name)[3] = name
<1> DEFINE T == Text \cup Separators
           f == FQDNSuffix
           x == <<ns, "/", name, ".", ns>>
           y == <<"/", name, ".">>
<1>1. ns \in T /\ name \in T /\ "/" \in T /\ "." \in T
  BY SuffixOfHost
<1>2. /\ f \in Seq(T) /\ Len(f) = 6 /\ f[1] = "." /\ f[3] = "." /\ f[5] = "."
  BY SuffixOfHost, SuffixIs
<1>3. /\ x \in Seq(T) /\ Len(x) = 5 /\ x[2] = "/" /\ x[4] = "." /\ x[1] = ns /\ x[3] = name
  BY <1>1
<1>4. /\ y \in Seq(T) /\ Len(y) = 3 /\ y[1] = "/" /\ y[3] = "."
  BY <1>1
<1> HIDE DEF f, x, y
<1> DEFINE h == x \o f
           g == y \o f
<1>5. /\ h \in Seq(T) /\ Len(h) = 11
      /\ \A i \in 1..11 : h[i] = IF i <= 5 THEN x[i] ELSE f[i - 5]
  <2>1. /\ h \in Seq(T) /\ Len(h) = Len(x) + Len(f)
        /\ \A i \in 1..Len(x) + Len(f) : h[i] = IF i <= Len(x) THEN x[i] ELSE f[i - Len(x)]
    BY <1>2, <1>3, ConcatProperties
  <2> HIDE DEF h
  <2> QED BY <1>2, <1>3, <2>1
<1>6. /\ g \in Seq(T) /\ Len(g) = 9
      /\ \A i \in 1..9 : g[i] = IF i <= 3 THEN y[i] ELSE f[i - 3]
  <2>1. /\ g \in Seq(T) /\ Len(g) = Len(y) + Len(f)
        /\ \A i \in 1..Len(y) + Len(f) : g[i] = IF i <= Len(y) THEN y[i] ELSE f[i - Len(y)]
    BY <1>2, <1>4, ConcatProperties
  <2> HIDE DEF g
  <2> QED BY <1>2, <1>4, <2>1
<1> HIDE DEF h, g
<1>7. h[1] = ns /\ h[2] = "/" /\ h[3] = name /\ h[4] = "." /\ h[6] = "." /\ h[8] = "." /\ h[10] = "."
  BY <1>2, <1>3, <1>5
<1>8. g[1] = "/" /\ g[3] = "." /\ g[4] = "." /\ g[6] = "." /\ g[8] = "."
  BY <1>2, <1>4, <1>6
<1>9. h \in Host
  <2> SUFFICES ASSUME NEW i \in 1..Len(h) - 1 PROVE h[i] \in Separators \/ h[i + 1] \in Separators
    BY <1>5 DEF Host
  <2>1. i \in {2, 4, 6, 8, 10} \/ i + 1 \in {2, 4, 6, 8, 10}
    BY <1>5
  <2> QED BY <1>7, <2>1 DEF Separators
<1>10. g \in Host
  <2> SUFFICES ASSUME NEW i \in 1..Len(g) - 1 PROVE g[i] \in Separators \/ g[i + 1] \in Separators
    BY <1>6 DEF Host
  <2>1. i \in {1, 3, 4, 6, 8} \/ i + 1 \in {1, 3, 4, 6, 8}
    BY <1>6
  <2> QED BY <1>8, <2>1 DEF Separators
<1>11. Head(h) = ns
  BY <1>5, <1>7
<1> QED BY <1>7, <1>9, <1>10, <1>11 DEF h, g, x, y, f, HostOfService, HostOfNoNamespace

-----------------------------------------------------------------------------
(***************************************************************************)
(* Every list is a list of hosts.                                          *)
(***************************************************************************)
LEMMA NamespaceIs ==
  ASSUME NEW c \in Calls
  PROVE  /\ c.destination \in Destination /\ c.destination.name \in Text
         /\ ParseWorkloadLabels(c.source).ns \in Text
         /\ NamespaceMeant(ParseWorkloadLabels(c.source).ns, c.destination) \in Text
<1>1. c.source \in Metadata /\ c.destination \in Destination
  BY InvocationAssumption
<1>2. ParseWorkloadLabels(c.source).ns \in Text
  BY <1>1, InvocationAssumption DEF ParseWorkloadLabels, Metadata
<1> QED BY <1>1, <1>2 DEF Destination, NamespaceMeant

LEMMA ReportedHost ==
  ASSUME NEW c \in Calls
  PROVE  /\ Parsed[c].host \in Host
         /\ NamespaceMeant(ParseWorkloadLabels(c.source).ns, c.destination) # "" =>
              Parsed[c].host =
                HostOfService(NamespaceMeant(ParseWorkloadLabels(c.source).ns, c.destination),
                              c.destination.name)
<1>1. Parsed[c].host = ParseHost(ParseWorkloadLabels(c.source).ns, Spell(c.destination))
  BY DEF Parsed
<1> DEFINE src == ParseWorkloadLabels(c.source).ns
           d == c.destination
           ns == NamespaceMeant(src, d)
<1>2. d \in Destination /\ d.name \in Text /\ src \in Text /\ ns \in Text
  BY NamespaceIs
<1>3. /\ ns # "" => ParseHost(src, Spell(d)) = HostOfService(ns, d.name)
      /\ ns = "" => ParseHost(src, Spell(d)) = HostOfNoNamespace(d.name)
  BY <1>2, ParseHostIs
<1>4. HostOfService(ns, d.name) \in Host /\ HostOfNoNamespace(d.name) \in Host
  BY <1>2, HostsTyped
<1> QED BY <1>1, <1>3, <1>4

\* What Report does to one list, and UserWrites.
LEMMA ListAfter ==
  ASSUME TypeOK, Next, NEW n \in LazySidecars
  PROVE  \/ egressHosts'[n] = egressHosts[n]
         \/ egressHosts'[n] \in UserLists
         \/ \E c \in Calls :
              /\ c.source.base64 /\ n \in Parsed[c].matched
              /\ egressHosts'[n] = syncLazySidecar(egressHosts[n], Parsed[c].host)
<1>1. ASSUME NEW c \in Calls, Report(c)
      PROVE  \/ egressHosts'[n] = egressHosts[n]
             \/ /\ c.source.base64 /\ n \in Parsed[c].matched
                /\ egressHosts'[n] = syncLazySidecar(egressHosts[n], Parsed[c].host)
  BY <1>1 DEF Report
<1>2. ASSUME NEW m \in LazySidecars, NEW list \in UserLists, UserWrites(m, list)
      PROVE  egressHosts'[n] = egressHosts[n] \/ egressHosts'[n] \in UserLists
  BY <1>2 DEF UserWrites, TypeOK
<1> QED BY <1>1, <1>2 DEF Next

\* The lists hold hosts, whatever is called and written.
THEOREM InvocationTypeCorrect == Spec => []TypeOK
<1>1. Init => TypeOK
  <2>1. [e \in {"user", "refused"} |-> 0] \in [{"user", "refused"} -> Nat]
    OBVIOUS
  <2>2. UserLists \subseteq Seq(Host)
    BY InvocationAssumption
  <2> QED BY <2>1, <2>2 DEF Init, TypeOK
<1>2. TypeOK /\ [Next]_vars => TypeOK'
  <2> SUFFICES ASSUME TypeOK, [Next]_vars PROVE TypeOK'
    OBVIOUS
  <2>1. CASE UNCHANGED vars
    BY <2>1 DEF vars, TypeOK
  <2>2. CASE Next
    <3>1. spent' \in [{"user", "refused"} -> Nat]
      BY <2>2 DEF Next, Report, UserWrites, Spend, TypeOK
    <3>2. egressHosts' = [n \in LazySidecars |-> egressHosts'[n]]
      <4>1. ASSUME NEW c \in Calls, Report(c)
            PROVE  egressHosts' = [n \in LazySidecars |-> egressHosts'[n]]
        BY <4>1 DEF Report
      <4>2. ASSUME NEW m \in LazySidecars, NEW list \in UserLists, UserWrites(m, list)
            PROVE  egressHosts' = [n \in LazySidecars |-> egressHosts'[n]]
        BY <4>2 DEF UserWrites, TypeOK
      <4> QED BY <2>2, <4>1, <4>2 DEF Next
    <3>3. ASSUME NEW n \in LazySidecars PROVE egressHosts'[n] \in Seq(Host)
      <4>1. egressHosts[n] \in Seq(Host)
        BY DEF TypeOK
      <4>2. \A c \in Calls : syncLazySidecar(egressHosts[n], Parsed[c].host) \in Seq(Host)
        BY <4>1, ReportedHost, AppendProperties DEF syncLazySidecar
      <4> QED BY <2>2, <4>1, <4>2, ListAfter, InvocationAssumption
    <3> QED BY <3>1, <3>2, <3>3 DEF TypeOK
  <2> QED BY <2>1, <2>2
<1> QED BY <1>1, <1>2, PTL DEF Spec

-----------------------------------------------------------------------------
(***************************************************************************)
(* Every service has one entry.  What Report adds is a service's only host *)
(* and is added once; it takes callers that say where they are, or whom    *)
(* they mean, and users who write lists of that kind.                      *)
(***************************************************************************)
\* A host that OneEntryPerService accepts.
IsService(host) ==
  \E ns \in {Head(host)}, name \in {host[3]} :
    ns \notin Separators /\ host = <<ns, "/", name, ".", ns>> \o FQDNSuffix

CallersKnown ==
  \A c \in Calls : c.source.base64 =>
    NamespaceMeant(ParseWorkloadLabels(c.source).ns, c.destination) # ""

UsersWriteServices ==
  \A list \in UserLists : IsInjective(list) /\ \A host \in Range(list) : IsService(host)

\* An added host is in the list once, next to those that were there.
LEMMA AddedOnce ==
  ASSUME NEW list \in Seq(Host), NEW host \in Host
  PROVE  /\ Range(syncLazySidecar(list, host)) = Range(list) \cup {host}
         /\ IsInjective(list) => IsInjective(syncLazySidecar(list, host))
<1>1. Len(list) \in Nat /\ DOMAIN list = 1..Len(list)
  BY LenProperties
<1>2. CASE Contains(list, host)
  BY <1>1, <1>2 DEF Contains, syncLazySidecar, Range
<1>3. CASE ~Contains(list, host)
  <2> DEFINE after == Append(list, host)
  <2>1. /\ after \in Seq(Host) /\ Len(after) = Len(list) + 1
        /\ \A i \in 1..Len(list) : after[i] = list[i]
        /\ after[Len(list) + 1] = host
    BY AppendProperties
  <2>2. DOMAIN after = 1..Len(list) + 1
    BY <2>1, LenProperties
  <2>3. \A i \in 1..Len(list) : list[i] # host
    BY <1>3 DEF Contains
  <2>4. syncLazySidecar(list, host) = after
    BY <1>3 DEF syncLazySidecar
  <2> HIDE DEF after
  <2>5. \A i \in 1..Len(list) + 1 : i \in 1..Len(list) \/ i = Len(list) + 1
    BY <1>1
  <2>6. Range(after) = Range(list) \cup {host}
    <3>1. Range(after) \subseteq Range(list) \cup {host}
      BY <1>1, <2>1, <2>2, <2>5 DEF Range
    <3>2. Len(list) + 1 \in DOMAIN after /\ DOMAIN list \subseteq DOMAIN after
      BY <1>1, <2>2
    <3>3. Range(list) \cup {host} \subseteq Range(after)
      BY <1>1, <2>1, <3>2 DEF Range
    <3> QED BY <3>1, <3>3
  <2>7. IsInjective(list) => IsInjective(after)
    BY <1>1, <2>1, <2>2, <2>3, <2>5 DEF IsInjective
  <2> QED BY <2>4, <2>6, <2>7
<1> QED BY <1>2, <1>3

\* One entry for every service: the list holds no host twice, and nothing that
\* is not the one host of its service (ParseHost, syncLazySidecar).
THEOREM OneEntry ==
  ASSUME CallersKnown, UsersWriteServices
  PROVE  Spec => []OneEntryPerService
<1>1. OneEntryPerService <=>
        \A n \in LazySidecars :
          IsInjective(egressHosts[n]) /\ \A host \in Range(egressHosts[n]) : IsService(host)
  BY DEF OneEntryPerService, IsService
<1>2. OneEntryPerService' <=>
        \A n \in LazySidecars :
          IsInjective(egressHosts'[n]) /\ \A host \in Range(egressHosts'[n]) : IsService(host)
  BY DEF OneEntryPerService, IsService
<1>3. Init => OneEntryPerService
  BY <1>1 DEF Init, UsersWriteServices
<1>4. ASSUME NEW c \in Calls, c.source.base64 PROVE IsService(Parsed[c].host)
  <2> DEFINE ns == NamespaceMeant(ParseWorkloadLabels(c.source).ns, c.destination)
             name == c.destination.name
             host == HostOfService(ns, name)
  <2>1. ns \in Text /\ name \in Text /\ Parsed[c].host = host
    BY <1>4, ReportedHost, NamespaceIs DEF CallersKnown
  <2>2. Head(host) = ns /\ host[3] = name
    BY <2>1, HostsTyped
  <2>3. ns \notin Separators
    BY <2>1, InvocationAssumption
  <2>4. host = <<ns, "/", name, ".", ns>> \o FQDNSuffix
    BY DEF HostOfService
  <2> HIDE DEF ns, name, host
  <2> QED BY <2>1, <2>2, <2>3, <2>4 DEF IsService
<1>5. TypeOK /\ OneEntryPerService /\ [Next]_vars => OneEntryPerService'
  <2> SUFFICES ASSUME TypeOK, OneEntryPerService, [Next]_vars, NEW n \in LazySidecars
               PROVE  /\ IsInjective(egressHosts'[n])
                      /\ \A host \in Range(egressHosts'[n]) : IsService(host)
    BY <1>2
  <2>1. CASE egressHosts'[n] = egressHosts[n]
    BY <1>1, <2>1
  <2>2. CASE egressHosts'[n] \in UserLists
    BY <2>2 DEF UsersWriteServices
  <2>3. ASSUME NEW c \in Calls, c.source.base64,
               egressHosts'[n] = syncLazySidecar(egressHosts[n], Parsed[c].host)
        PROVE  /\ IsInjective(egressHosts'[n])
               /\ \A host \in Range(egressHosts'[n]) : IsService(host)
    <3>1. egressHosts[n] \in Seq(Host) /\ Parsed[c].host \in Host
      BY ReportedHost DEF TypeOK
    <3>2. /\ Range(egressHosts'[n]) = Range(egressHosts[n]) \cup {Parsed[c].host}
          /\ IsInjective(egressHosts[n]) => IsInjective(egressHosts'[n])
      BY <2>3, <3>1, AddedOnce
    <3> QED BY <1>1, <1>4, <2>3, <3>2
  <2>4. CASE UNCHANGED vars
    BY <2>1, <2>4 DEF vars
  <2>5. CASE Next
    BY <2>1, <2>2, <2>3, <2>5, ListAfter
  <2> QED BY <2>4, <2>5
<1> QED BY <1>3, <1>5, InvocationTypeCorrect, PTL DEF Spec

-----------------------------------------------------------------------------
(***************************************************************************)
(* Where learned hosts come from.  isSourceMatched compares labels, never  *)
(* looks at the namespace and folds the case of values, so OnlySelected    *)
(* does not follow (the run reports_namespace breaks it).  What does       *)
(* follow holds for all callers, complete metadata or not.                 *)
(***************************************************************************)
\* The host that OnlyMatched expects of a call.
HostMeant(c) ==
  IF Unplaced(c) THEN <<"/", c.destination.name, ".">> \o FQDNSuffix ELSE Qualified(c)

\* A matched caller is known to carry the labels: dropped labels and those of
\* incomplete metadata match nothing.
LEMMA MatchedCarries ==
  ASSUME NEW c \in Calls, NEW n \in LazySidecars, n \in Parsed[c].matched
  PROVE  Carries(c.source, Selector[n])
<1> DEFINE seen == ParseWorkloadLabels(c.source).labels
<1>1. \A l \in Selector[n] : \E w \in seen : w.key = l.key /\ EqualFold(l.value, w.value)
  BY DEF Parsed, isSourceMatched
<1>2. seen \subseteq c.source.labels /\ (c.source.ns = "" => seen = {})
  BY DEF ParseWorkloadLabels
<1> HIDE DEF seen
<1> QED BY <1>1, <1>2 DEF Carries

\* ParseHost makes the host that is meant, of every call.
LEMMA ReportedHostMeant ==
  ASSUME NEW c \in Calls
  PROVE  Parsed[c].host = HostMeant(c)
<1> DEFINE d == c.destination
           src == ParseWorkloadLabels(c.source).ns
           ns == NamespaceMeant(src, d)
<1>1. d \in Destination /\ src \in Text /\ Parsed[c].host = ParseHost(src, Spell(d))
  BY NamespaceIs DEF Parsed
<1>2. /\ ns # "" => Parsed[c].host = HostOfService(ns, d.name)
      /\ ns = "" => Parsed[c].host = HostOfNoNamespace(d.name)
  BY <1>1, ParseHostIs
<1>3. src = IF c.source.labels = {} \/ c.source.ns = "" THEN "" ELSE c.source.ns
  BY DEF ParseWorkloadLabels
<1>4. Unplaced(c) <=> ns = ""
  BY <1>3 DEF Unplaced, NamespaceMeant
<1>5. CASE Unplaced(c)
  BY <1>2, <1>4, <1>5 DEF HostMeant, HostOfNoNamespace
<1>6. CASE ~Unplaced(c)
  <2>1. ns = IF d.ns = "" THEN c.source.ns ELSE d.ns
    BY <1>3, <1>6 DEF Unplaced, NamespaceMeant
  <2>2. Qualified(c) = HostOfService(ns, d.name)
    BY <2>1 DEF Qualified, HostOfService
  <2> QED BY <1>2, <1>4, <1>6, <2>2 DEF HostMeant
<1> QED BY <1>5, <1>6

\* Every host that is in a list was written there, or is what a call means whose
\* caller carries all labels of the LazySidecar (isSourceMatched, ParseHost).
\* Nothing is assumed of calls, labels, namespaces and users.
THEOREM OnlyMatchedLearned == Spec => []OnlyMatched
<1> DEFINE Learned(n, host) ==
             \/ \E list \in UserLists : host \in Range(list)
             \/ \E c \in Calls : /\ c.source.base64 /\ Carries(c.source, Selector[n])
                                 /\ host = HostMeant(c)
<1>1. OnlyMatched <=>
        \A n \in LazySidecars : \A host \in Range(egressHosts[n]) : Learned(n, host)
  BY DEF OnlyMatched, HostMeant
<1>2. OnlyMatched' <=>
        \A n \in LazySidecars : \A host \in Range(egressHosts'[n]) : Learned(n, host)
  BY DEF OnlyMatched, HostMeant
<1>3. Init => OnlyMatched
  BY <1>1 DEF Init
<1>4. TypeOK /\ OnlyMatched /\ [Next]_vars => OnlyMatched'
  <2> SUFFICES ASSUME TypeOK, OnlyMatched, [Next]_vars, NEW n \in LazySidecars
               PROVE  \A host \in Range(egressHosts'[n]) : Learned(n, host)
    BY <1>2
  <2>1. CASE egressHosts'[n] = egressHosts[n]
    BY <1>1, <2>1
  <2>2. CASE egressHosts'[n] \in UserLists
    BY <2>2
  <2>3. ASSUME NEW c \in Calls, c.source.base64, n \in Parsed[c].matched,
               egressHosts'[n] = syncLazySidecar(egressHosts[n], Parsed[c].host)
        PROVE  \A host \in Range(egressHosts'[n]) : Learned(n, host)
    <3>1. egressHosts[n] \in Seq(Host) /\ Parsed[c].host \in Host
      BY ReportedHost DEF TypeOK
    <3>2. Range(egressHosts'[n]) = Range(egressHosts[n]) \cup {Parsed[c].host}
      BY <2>3, <3>1, AddedOnce
    <3>3. Learned(n, Parsed[c].host)
      BY <2>3, MatchedCarries, ReportedHostMeant
    <3> QED BY <1>1, <3>2, <3>3
  <2>4. CASE UNCHANGED vars
    BY <2>1, <2>4 DEF vars
  <2>5. CASE Next
    BY <2>1, <2>2, <2>3, <2>5, ListAfter
  <2> QED BY <2>4, <2>5
<1> QED BY <1>3, <1>4, InvocationTypeCorrect, PTL DEF Spec

=============================================================================
