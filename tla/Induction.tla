------------------------------ MODULE Induction ------------------------------
(***************************************************************************)
(* Induction for the other proof modules.  The library's induction         *)
(* theorems take an operator as parameter; these take the set of the       *)
(* numbers, or of the sequences, for which a statement holds.  With them:  *)
(* what Filter leaves of a sequence, and sums over finite sets.            *)
(***************************************************************************)
EXTENDS SeqFilter, Functions, FiniteSetTheorems, SequenceTheorems, NaturalsInduction,
        WellFoundedInduction, TLAPS

(***************************************************************************)
(* Numbers                                                                 *)
(***************************************************************************)
\* A nonempty set of natural numbers has a least element.
LEMMA LeastNumber ==
    ASSUME NEW T \in SUBSET Nat, T # {}
    PROVE  \E x \in T : \A y \in T : x <= y
<1> DEFINE R == OpToRel(<, Nat)
<1>1. IsWellFoundedOn(R, Nat)
  BY NatLessThanWellFounded, Zenon
<1>2. \A x, y \in Nat : y < x => <<y, x>> \in R
  BY DEF OpToRel
<1> HIDE DEF R
<1>3. PICK x \in T : \A y \in T : ~ (<<y, x>> \in R)
  BY <1>1, WFMin, Zenon
<1>4. ASSUME NEW y \in T PROVE x <= y
  <2>1. ~ (y < x) /\ x \in Nat /\ y \in Nat
    BY <1>2, <1>3
  <2> QED BY <2>1
<1> QED BY <1>4

\* A set of numbers up to n that holds 0 and with every number below n the next
\* one, holds them all.
LEMMA Upward ==
    ASSUME NEW n \in Nat, NEW T \in SUBSET Nat, 0 \in T,
           \A k \in 0..n : k \in T /\ k < n => k + 1 \in T
    PROVE  \A k \in 0..n : k \in T
<1> DEFINE U == {k \in 0..n : k \notin T}
<1>1. SUFFICES ASSUME U # {} PROVE FALSE
  OBVIOUS
<1>2. U \in SUBSET Nat
  OBVIOUS
<1>3. PICK x \in U : \A y \in U : x <= y
  BY <1>1, <1>2, LeastNumber
<1>4. x \in 0..n /\ x \notin T /\ x # 0
  BY <1>3
<1>5. x - 1 \in 0..n /\ x - 1 < n /\ ~ (x <= x - 1) /\ (x - 1) + 1 = x
  BY <1>4
<1>6. x - 1 \in T
  BY <1>3, <1>5
<1> QED BY <1>4, <1>5, <1>6

\* A nonempty set of natural numbers up to n has a greatest element.
LEMMA GreatestNumber ==
    ASSUME NEW n \in Nat, NEW T \in SUBSET (0..n), T # {}
    PROVE  \E x \in T : \A y \in T : y <= x
<1> DEFINE U == {n - y : y \in T}
<1>1. U \in SUBSET Nat /\ U # {}
  <2>1. \A y \in T : y \in 0..n /\ n - y \in Nat
    OBVIOUS
  <2> QED BY <2>1
<1>2. PICK u \in U : \A v \in U : u <= v
  BY <1>1, LeastNumber
<1>3. PICK x \in T : u = n - x
  BY <1>2
<1>4. ASSUME NEW y \in T PROVE y <= x
  <2>1. n - x <= n - y /\ x \in 0..n /\ y \in 0..n
    BY <1>2, <1>3
  <2> QED BY <2>1
<1> QED BY <1>4

(***************************************************************************)
(* Sequences                                                               *)
(***************************************************************************)
\* A set that holds the empty sequence and with a sequence every longer one by
\* an element, holds all sequences.
LEMMA SeqUpward ==
    ASSUME NEW S, NEW T, <<>> \in T,
           \A p \in Seq(S) : \A x \in S : p \in T => Append(p, x) \in T
    PROVE  \A s \in Seq(S) : s \in T
<1> SUFFICES ASSUME NEW s \in Seq(S) PROVE s \in T
  OBVIOUS
<1> DEFINE n == Len(s)
           Pre(k) == SubSeq(s, 1, k)
           U == {k \in 0..n : Pre(k) \in T}
<1>1. n \in Nat /\ U \in SUBSET Nat
  OBVIOUS
<1>2. Pre(0) = <<>> /\ Pre(n) = s
  BY SubSeqFull, SubSeqEmpty
<1>3. ASSUME NEW k \in 0..n, k < n
      PROVE  Pre(k) \in Seq(S) /\ s[k + 1] \in S /\ Pre(k + 1) = Append(Pre(k), s[k + 1])
  <2>1. \A i \in 1..k + 1 : s[i] \in S
    BY <1>3
  <2>2. k \in Int /\ k + 1 \in Int /\ 1 <= k + 1 /\ (k + 1) - 1 = k /\ k + 1 \in 1..n
    BY <1>3
  <2>3. Pre(k + 1) = Append(Pre(k), s[k + 1])
    BY <2>1, <2>2, SubSeqRecursiveSecond
  <2> QED BY <1>3, <2>1, <2>2, <2>3, SubSeqProperties
<1> HIDE DEF Pre
<1>4. ASSUME NEW k \in 0..n, k \in U, k < n PROVE k + 1 \in U
  <2>1. Pre(k) \in T /\ Pre(k) \in Seq(S) /\ s[k + 1] \in S
    BY <1>3, <1>4
  <2>2. Append(Pre(k), s[k + 1]) \in T
    BY <2>1
  <2>3. Pre(k + 1) \in T
    BY <1>3, <1>4, <2>2
  <2>4. k + 1 \in 0..n
    BY <1>1, <1>4
  <2> QED BY <2>3, <2>4
<1>5. 0 \in U
  BY <1>1, <1>2
<1> HIDE DEF U, n
<1>6. \A k \in 0..n : k \in U
  BY <1>1, <1>4, <1>5, Upward, Zenon
<1>7. n \in U
  BY <1>1, <1>6
<1> QED BY <1>2, <1>7 DEF U

\* The elements of a sequence that was made longer.
LEMMA AppendFacts ==
    ASSUME NEW S, NEW s \in Seq(S), NEW x \in S
    PROVE  /\ Append(s, x) \in Seq(S) /\ Len(Append(s, x)) = Len(s) + 1
           /\ \A i \in 1..Len(s) : Append(s, x)[i] = s[i]
           /\ Append(s, x)[Len(s) + 1] = x
           /\ Range(Append(s, x)) = Range(s) \union {x}
<1>1. /\ Append(s, x) \in Seq(S) /\ Len(Append(s, x)) = Len(s) + 1 /\ Len(s) \in Nat
      /\ \A i \in 1..Len(s) : Append(s, x)[i] = s[i]
      /\ Append(s, x)[Len(s) + 1] = x
      /\ DOMAIN Append(s, x) = 1..Len(s) + 1 /\ DOMAIN s = 1..Len(s)
  OBVIOUS
<1>2. Range(Append(s, x)) = Range(s) \union {x}
  BY <1>1 DEF Range
<1> QED BY <1>1, <1>2

\* The elements of a sequence are a finite set.
LEMMA RangeFacts ==
    ASSUME NEW S, NEW s \in Seq(S)
    PROVE  /\ Range(s) \subseteq S
           /\ \A x : x \in Range(s) <=> \E i \in 1..Len(s) : x = s[i]
BY DEF Range

\* One sequence after another.
LEMMA ConcatFacts ==
    ASSUME NEW S, NEW s \in Seq(S), NEW t \in Seq(S)
    PROVE  /\ s \o t \in Seq(S) /\ Len(s \o t) = Len(s) + Len(t)
           /\ Range(s \o t) = Range(s) \union Range(t)
           /\ s \o <<>> = s /\ \A x \in S : s \o Append(t, x) = Append(s \o t, x)
<1> DEFINE q == s \o t
<1>1. /\ q \in Seq(S) /\ Len(q) = Len(s) + Len(t) /\ Len(s) \in Nat /\ Len(t) \in Nat
      /\ \A i \in 1..Len(s) : q[i] = s[i]
      /\ \A i \in 1..Len(t) : q[Len(s) + i] = t[i]
  OBVIOUS
<1>2. s \o <<>> = s /\ \A x \in S : s \o Append(t, x) = Append(s \o t, x)
  OBVIOUS
<1> HIDE DEF q
<1>3. ASSUME NEW i \in 1..Len(s) PROVE s[i] \in Range(q)
  <2>1. i \in 1..Len(q) /\ s[i] = q[i]
    BY <1>1
  <2> QED BY <1>1, <2>1, RangeFacts
<1>4. ASSUME NEW i \in 1..Len(t) PROVE t[i] \in Range(q)
  <2>1. Len(s) + i \in 1..Len(q) /\ t[i] = q[Len(s) + i]
    BY <1>1
  <2> QED BY <1>1, <2>1, RangeFacts
<1>5. ASSUME NEW i \in 1..Len(q) PROVE q[i] \in Range(s) \union Range(t)
  <2>1. CASE i <= Len(s)
    <3>1. i \in 1..Len(s) /\ q[i] = s[i]
      BY <1>1, <2>1
    <3> QED BY <3>1, RangeFacts
  <2>2. CASE ~ (i <= Len(s))
    <3> DEFINE j == i - Len(s)
    <3>1. j \in 1..Len(t) /\ q[i] = t[j]
      BY <1>1, <2>2
    <3> HIDE DEF j
    <3> QED BY <3>1, RangeFacts
  <2> QED BY <2>1, <2>2
<1>6. Range(q) = Range(s) \union Range(t)
  <2>1. \A x : x \in Range(q) <=> \E i \in 1..Len(q) : x = q[i]
    BY <1>1, RangeFacts
  <2>2. \A x : x \in Range(s) <=> \E i \in 1..Len(s) : x = s[i]
    BY RangeFacts
  <2>3. \A x : x \in Range(t) <=> \E i \in 1..Len(t) : x = t[i]
    BY RangeFacts
  <2>4. Range(q) \subseteq Range(s) \union Range(t)
    BY <1>5, <2>1
  <2>5. Range(s) \subseteq Range(q)
    BY <1>3, <2>2
  <2>6. Range(t) \subseteq Range(q)
    BY <1>4, <2>3
  <2> QED BY <2>4, <2>5, <2>6
<1> QED BY <1>1, <1>2, <1>6 DEF q

\* A sequence with no element twice.
NoRepeat(s) == \A i, j \in 1..Len(s) : s[i] = s[j] => i = j

\* One more element.
LEMMA NoRepeatAppend ==
    ASSUME NEW S, NEW s \in Seq(S), NEW x \in S
    PROVE  NoRepeat(Append(s, x)) <=> NoRepeat(s) /\ x \notin Range(s)
<1> DEFINE q == Append(s, x)
           n == Len(s)
<1>1. /\ Len(q) = n + 1 /\ n \in Nat /\ q[n + 1] = x /\ \A i \in 1..n : q[i] = s[i]
  BY AppendFacts
<1>2. x \in Range(s) <=> \E i \in 1..n : x = s[i]
  BY RangeFacts
<1> HIDE DEF q, n
<1>3. ASSUME NoRepeat(q) PROVE NoRepeat(s) /\ x \notin Range(s)
  <2>1. \A i, j \in 1..n : i \in 1..n + 1 /\ (q[i] = q[j] => i = j)
    BY <1>1, <1>3 DEF NoRepeat
  <2>2. ASSUME NEW i \in 1..n PROVE q[i] # x
    <3>1. i \in 1..n + 1 /\ n + 1 \in 1..n + 1 /\ i # n + 1
      BY <1>1
    <3> QED BY <1>1, <1>3, <3>1 DEF NoRepeat
  <2> QED BY <1>1, <1>2, <2>1, <2>2 DEF NoRepeat, n
<1>4. ASSUME NoRepeat(s), x \notin Range(s), NEW i \in 1..n + 1, NEW j \in 1..n + 1, q[i] = q[j]
      PROVE  i = j
  <2>1. CASE i \in 1..n /\ j \in 1..n
    BY <1>1, <1>4, <2>1 DEF NoRepeat, n
  <2>2. CASE i \notin 1..n \/ j \notin 1..n
    BY <1>1, <1>2, <1>4, <2>2
  <2> QED BY <2>1, <2>2
<1>5. NoRepeat(s) /\ x \notin Range(s) => NoRepeat(q)
  BY <1>1, <1>4 DEF NoRepeat
<1> QED BY <1>3, <1>5 DEF q

\* It has as many elements as it is long.
LEMMA NoRepeatCount ==
    ASSUME NEW S, NEW s \in Seq(S), NoRepeat(s)
    PROVE  Cardinality(Range(s)) = Len(s)
<1> DEFINE T == {p \in Seq(S) : NoRepeat(p) => IsFiniteSet(Range(p)) /\ Cardinality(Range(p)) = Len(p)}
<1>1. <<>> \in T
  <2>1. <<>> \in Seq(S) /\ Len(<<>>) = 0 /\ Range(<<>>) = {}
    BY DEF Range
  <2> QED BY <2>1, FS_EmptySet
<1>2. ASSUME NEW p \in Seq(S), NEW x \in S, p \in T PROVE Append(p, x) \in T
  <2> SUFFICES ASSUME NoRepeat(Append(p, x))
               PROVE  /\ IsFiniteSet(Range(Append(p, x)))
                      /\ Cardinality(Range(Append(p, x))) = Len(Append(p, x))
    BY AppendFacts
  <2>1. NoRepeat(p) /\ x \notin Range(p)
    BY NoRepeatAppend
  <2>2. IsFiniteSet(Range(p)) /\ Cardinality(Range(p)) = Len(p)
    BY <1>2, <2>1
  <2>3. Range(Append(p, x)) = Range(p) \union {x} /\ Len(Append(p, x)) = Len(p) + 1
    BY AppendFacts
  <2> QED BY <2>1, <2>2, <2>3, FS_AddElement
<1> HIDE DEF T
<1>3. s \in T
  BY <1>1, <1>2, SeqUpward
<1> QED BY <1>3 DEF T

(***************************************************************************)
(* Runs through a sequence                                                 *)
(***************************************************************************)
\* Two functions with the same start, one as the other in every step, have the
\* same end.
LEMMA SameEnd ==
    ASSUME NEW n \in Nat, NEW f, NEW g, f[0] = g[0],
           \A i \in 1..n : f[i - 1] = g[i - 1] => f[i] = g[i]
    PROVE  f[n] = g[n]
<1> DEFINE T == {i \in 0..n : f[i] = g[i]}
<1>1. T \in SUBSET Nat /\ 0 \in T
  OBVIOUS
<1>2. ASSUME NEW k \in 0..n, k \in T, k < n PROVE k + 1 \in T
  <2>1. k + 1 \in 1..n /\ (k + 1) - 1 = k /\ k + 1 \in 0..n /\ f[k] = g[k]
    BY <1>2
  <2>2. f[k + 1] = g[k + 1]
    BY <2>1
  <2> QED BY <2>1, <2>2
<1> HIDE DEF T
<1>3. \A k \in 0..n : k \in T
  BY <1>1, <1>2, Upward, Zenon
<1>4. n \in 0..n
  OBVIOUS
<1> QED BY <1>3, <1>4 DEF T

\* A function G gives for every element of a sequence the step it causes; the
\* run applies the steps in turn.
IsRun(r, G, v, s) == r[0] = v /\ \A i \in 1..Len(s) : r[i] = G[s[i]][r[i - 1]]
Run(G, v, s) == CHOOSE y : \E r : IsRun(r, G, v, s) /\ y = r[Len(s)]

\* Steps on the values of V, from v on, for every element of S; what a run of
\* them is, and what it does.
Steps(S, V, v, G) == v \in V /\ G \in [S -> [V -> V]]
Ends(V, G, v, s) ==
    \E r : /\ r \in [0..Len(s) -> V] /\ IsRun(r, G, v, s)
          /\ Run(G, v, s) = r[Len(s)]
TakesSteps(S, V, v, G) ==
    /\ Run(G, v, <<>>) = v
    /\ \A s \in Seq(S) : Run(G, v, s) \in V
    /\ \A s \in Seq(S) : \A x \in S : Run(G, v, Append(s, x)) = G[x][Run(G, v, s)]

\* A run exists, and all of them have the same end.
LEMMA RunExists ==
    ASSUME NEW S, NEW V, NEW v, NEW G, Steps(S, V, v, G), NEW s \in Seq(S)
    PROVE  Ends(V, G, v, s)
<1>0. v \in V /\ G \in [S -> [V -> V]]
  BY DEF Steps
<1> DEFINE T == {p \in Seq(S) : \E r \in [0..Len(p) -> V] : IsRun(r, G, v, p)}
<1>1. <<>> \in T
  <2> DEFINE z == [i \in {0} |-> v]
  <2>1. z \in [0..Len(<<>>) -> V] /\ z[0] = v
    BY <1>0
  <2> HIDE DEF z
  <2> QED BY <2>1 DEF IsRun
<1>2. ASSUME NEW p \in Seq(S), NEW x \in S, p \in T PROVE Append(p, x) \in T
  <2>1. PICK r \in [0..Len(p) -> V] : IsRun(r, G, v, p)
    BY <1>2
  <2> DEFINE q == Append(p, x)
             n == Len(p)
             y == G[x][r[n]]
             g == [i \in 0..n + 1 |-> IF i = n + 1 THEN y ELSE r[i]]
  <2>2. /\ q \in Seq(S) /\ n \in Nat /\ Len(q) = n + 1 /\ q[n + 1] = x
        /\ \A i \in 1..n : q[i] = p[i]
    BY AppendFacts
  <2>3. y \in V
    BY <1>0, <2>2
  <2>4. r \in [0..n -> V] /\ r[0] = v /\ \A i \in 1..n : r[i] = G[p[i]][r[i - 1]]
    BY <2>1 DEF IsRun
  <2> HIDE DEF q, n, y
  <2>5. g \in [0..n + 1 -> V] /\ g[n + 1] = y /\ \A i \in 0..n : g[i] = r[i]
    BY <2>2, <2>3, <2>4
  <2> HIDE DEF g
  <2>6. g[0] = v
    BY <2>2, <2>4, <2>5
  <2>7. ASSUME NEW i \in 1..n + 1 PROVE g[i] = G[q[i]][g[i - 1]]
    <3>1. CASE i = n + 1
      <4>1. g[i - 1] = r[n] /\ q[i] = x
        BY <2>2, <2>5, <3>1
      <4> QED BY <2>5, <3>1, <4>1 DEF y
    <3>2. CASE i # n + 1
      <4>1. i \in 1..n /\ i - 1 \in 0..n /\ i \in 0..n
        BY <2>2, <3>2
      <4>2. g[i] = r[i] /\ g[i - 1] = r[i - 1] /\ q[i] = p[i]
        BY <2>2, <2>5, <4>1
      <4> QED BY <2>4, <4>1, <4>2
    <3> QED BY <3>1, <3>2
  <2>8. IsRun(g, G, v, q)
    BY <2>2, <2>6, <2>7 DEF IsRun
  <2> QED BY <2>2, <2>5, <2>8 DEF q
<1> HIDE DEF T
<1>3. s \in T
  BY <1>1, <1>2, SeqUpward, Zenon
<1>4. PICK r \in [0..Len(s) -> V] : IsRun(r, G, v, s)
  BY <1>3 DEF T
<1>5. \E y : \E h : IsRun(h, G, v, s) /\ y = h[Len(s)]
  BY <1>4
<1> DEFINE e == Run(G, v, s)
<1>6. PICK h : IsRun(h, G, v, s) /\ e = h[Len(s)]
  BY <1>5, Zenon DEF Run
<1> HIDE DEF e
<1>7. h[0] = r[0] /\ Len(s) \in Nat /\ \A i \in 1..Len(s) : h[i - 1] = r[i - 1] => h[i] = r[i]
  BY <1>4, <1>6 DEF IsRun
<1>8. h[Len(s)] = r[Len(s)]
  BY <1>7, SameEnd
<1>9. IsRun(r, G, v, s) /\ e = r[Len(s)]
  BY <1>4, <1>6, <1>8
<1> QED BY <1>4, <1>9 DEF e, Ends

\* A run stays in the set of its values, and takes the elements one by one.
LEMMA RunStep ==
    ASSUME NEW S, NEW V, NEW v, NEW G, Steps(S, V, v, G)
    PROVE  TakesSteps(S, V, v, G)
<1>1. <<>> \in Seq(S) /\ Len(<<>>) = 0
  OBVIOUS
<1>2. \A s \in Seq(S) : Ends(V, G, v, s)
  BY RunExists
<1>3. Run(G, v, <<>>) = v
  <2>1. PICK r : IsRun(r, G, v, <<>>) /\ Run(G, v, <<>>) = r[0]
    BY <1>1, <1>2 DEF Ends
  <2> QED BY <2>1 DEF IsRun
<1>4. ASSUME NEW s \in Seq(S) PROVE Run(G, v, s) \in V
  <2>1. Len(s) \in 0..Len(s)
    OBVIOUS
  <2> QED BY <1>2, <2>1 DEF Ends
<1>5. ASSUME NEW s \in Seq(S), NEW x \in S PROVE Run(G, v, Append(s, x)) = G[x][Run(G, v, s)]
  <2> DEFINE q == Append(s, x)
             n == Len(s)
  <2>1. /\ q \in Seq(S) /\ n \in Nat /\ Len(q) = n + 1 /\ q[n + 1] = x
        /\ \A i \in 1..n : q[i] = s[i]
    BY AppendFacts
  <2> HIDE DEF q
  <2>2. PICK f : IsRun(f, G, v, s) /\ Run(G, v, s) = f[n]
    BY <1>2 DEF Ends
  <2>3. PICK g : IsRun(g, G, v, q) /\ Run(G, v, q) = g[Len(q)]
    BY <1>2, <2>1 DEF Ends
  <2>4. f[0] = g[0] /\ \A i \in 1..n : f[i - 1] = g[i - 1] => f[i] = g[i]
    <3>1. \A i \in 1..n : f[i] = G[s[i]][f[i - 1]]
      BY <2>2 DEF IsRun
    <3>2. \A i \in 1..n : i \in 1..Len(q)
      BY <2>1
    <3>3. \A i \in 1..n : g[i] = G[q[i]][g[i - 1]]
      BY <2>3, <3>2 DEF IsRun
    <3>4. f[0] = g[0]
      BY <2>2, <2>3 DEF IsRun
    <3> HIDE DEF n
    <3> QED BY <2>1, <3>1, <3>3, <3>4
  <2>5. f[n] = g[n]
    BY <2>1, <2>4, SameEnd
  <2>6. g[n + 1] = G[x][g[n]]
    <3>1. n + 1 \in 1..Len(q) /\ (n + 1) - 1 = n
      BY <2>1
    <3> QED BY <2>1, <2>3, <3>1 DEF IsRun
  <2>7. Run(G, v, q) = G[x][Run(G, v, s)]
    BY <2>1, <2>2, <2>3, <2>5, <2>6
  <2> QED BY <2>7 DEF q
<1> QED BY <1>3, <1>4, <1>5 DEF TakesSteps

\* A function that starts as a run does and takes its steps, ends as the run.
LEMMA EndsAsRun ==
    ASSUME NEW S, NEW V, NEW v, NEW G, Steps(S, V, v, G), NEW s \in Seq(S),
           NEW c, c[0] = v,
           \A i \in 1..Len(s) : c[i - 1] \in V => c[i] = G[s[i]][c[i - 1]]
    PROVE  c[Len(s)] = Run(G, v, s)
<1>1. Ends(V, G, v, s)
  BY RunExists
<1>2. PICK r \in [0..Len(s) -> V] : IsRun(r, G, v, s) /\ Run(G, v, s) = r[Len(s)]
  BY <1>1 DEF Ends
<1>3. Len(s) \in Nat /\ \A i \in 1..Len(s) : i - 1 \in 0..Len(s)
  OBVIOUS
<1>4. c[0] = r[0] /\ \A i \in 1..Len(s) : c[i - 1] = r[i - 1] => c[i] = r[i]
  BY <1>2, <1>3 DEF IsRun
<1>5. c[Len(s)] = r[Len(s)]
  BY <1>3, <1>4, SameEnd
<1> QED BY <1>2, <1>5

\* A recursion that counts from 0 to n, with a step for every number.
Counting(V, v, n, G) == v \in V /\ n \in Nat /\ G \in [1..n -> [V -> V]]
Counts(r, V, v, n, G) ==
    r \in [0..n -> V] /\ r[0] = v /\ \A i \in 1..n : r[i] = G[i][r[i - 1]]

\* There is one.
LEMMA CountExists ==
    ASSUME NEW V, NEW v, NEW n, NEW G, Counting(V, v, n, G)
    PROVE  \E r : Counts(r, V, v, n, G)
<1>0. v \in V /\ n \in Nat /\ G \in [1..n -> [V -> V]]
  BY DEF Counting
<1> DEFINE S == 1..n
           s == [i \in S |-> i]
<1>1. s \in Seq(S) /\ Len(s) = n /\ \A i \in S : s[i] = i
  BY <1>0
<1>2. Steps(S, V, v, G)
  BY <1>0 DEF Steps
<1> HIDE DEF s
<1>3. Ends(V, G, v, s)
  <2> HIDE DEF S
  <2> QED BY <1>1, <1>2, RunExists
<1>4. PICK r \in [0..n -> V] : IsRun(r, G, v, s)
  BY <1>1, <1>3 DEF Ends
<1> QED BY <1>1, <1>4 DEF IsRun, Counts

(***************************************************************************)
(* Filter                                                                  *)
(***************************************************************************)
FilterFcn(f, s, S) == [i \in 0..Len(s) |-> IF i = 0 THEN <<>> ELSE FilterNext(f[i - 1], s[i], S)]

\* Filter takes the elements one by one.
LEMMA FilterStep ==
    ASSUME NEW R, NEW S
    PROVE  /\ Filter(<<>>, S) = <<>>
           /\ \A s \in Seq(R) : Filter(s, S) \in Seq(R)
           /\ \A s \in Seq(R) : \A x \in R : Filter(Append(s, x), S) = FilterNext(Filter(s, S), x, S)
<1> DEFINE V == Seq(R)
           G == [x \in R |-> [a \in V |-> FilterNext(a, x, S)]]
<1>1. Steps(R, V, <<>>, G)
  BY DEF FilterNext, Steps
<1>2. \A x \in R : \A a \in V : G[x][a] = FilterNext(a, x, S)
  OBVIOUS
<1> HIDE DEF G, V
<1>3. TakesSteps(R, V, <<>>, G)
  BY <1>1, RunStep
<1>4. ASSUME NEW s \in Seq(R) PROVE Filter(s, S) = Run(G, <<>>, s)
  <2>1. Ends(V, G, <<>>, s)
    BY <1>1, RunExists
  <2>2. PICK r \in [0..Len(s) -> V] : IsRun(r, G, <<>>, s)
    BY <2>1 DEF Ends
  <2>3. \A i \in 1..Len(s) : s[i] \in R /\ i - 1 \in 0..Len(s)
    OBVIOUS
  <2>4. r[0] = <<>> /\ \A i \in 1..Len(s) : r[i] = FilterNext(r[i - 1], s[i], S)
    BY <1>2, <2>2, <2>3 DEF IsRun
  <2>5. r = FilterFcn(r, s, S)
    BY <2>2, <2>4 DEF FilterFcn
  <2> DEFINE c == CHOOSE f : f = FilterFcn(f, s, S)
  <2>6. c = FilterFcn(c, s, S)
    BY <2>5, Zenon
  <2>7. Filter(s, S) = c[Len(s)]
    BY Zenon DEF Filter, FilterFcn
  <2> HIDE DEF c
  <2>8. /\ FilterFcn(c, s, S)[0] = <<>>
        /\ \A i \in 1..Len(s) : FilterFcn(c, s, S)[i] = FilterNext(c[i - 1], s[i], S)
    <3>1. 0 \in 0..Len(s) /\ \A i \in 1..Len(s) : i \in 0..Len(s) /\ i # 0
      OBVIOUS
    <3>2. FilterFcn(c, s, S)[0] = <<>>
      BY <3>1, Zenon DEF FilterFcn
    <3>3. ASSUME NEW i \in 1..Len(s) PROVE FilterFcn(c, s, S)[i] = FilterNext(c[i - 1], s[i], S)
      BY <3>1, Zenon DEF FilterFcn
    <3> QED BY <3>2, <3>3
  <2>9. c[0] = <<>> /\ \A i \in 1..Len(s) : c[i - 1] \in V => c[i] = G[s[i]][c[i - 1]]
    BY <1>2, <2>3, <2>6, <2>8
  <2>10. c[Len(s)] = Run(G, <<>>, s)
    BY <1>1, <2>9, EndsAsRun
  <2> QED BY <2>7, <2>10
<1>5. <<>> \in Seq(R) /\ \A s \in Seq(R) : \A x \in R : Append(s, x) \in Seq(R)
  OBVIOUS
<1> HIDE DEF V
<1>6. ASSUME NEW s \in Seq(R), NEW x \in R
      PROVE  Filter(Append(s, x), S) = FilterNext(Filter(s, S), x, S)
  <2>1. Append(s, x) \in Seq(R)
    BY <1>5
  <2>2. Run(G, <<>>, s) \in V /\ Run(G, <<>>, Append(s, x)) = G[x][Run(G, <<>>, s)]
    BY <1>3 DEF TakesSteps
  <2> QED BY <1>2, <1>4, <2>1, <2>2
<1>7. Filter(<<>>, S) = <<>> /\ \A s \in Seq(R) : Filter(s, S) \in V
  BY <1>3, <1>4, <1>5 DEF TakesSteps
<1> QED BY <1>6, <1>7 DEF V

\* What Filter leaves: the elements in S, none twice if none was, and no more.
LEMMA FilterFacts ==
    ASSUME NEW R, NEW S, NEW s \in Seq(R)
    PROVE  /\ Filter(s, S) \in Seq(R) /\ Len(Filter(s, S)) <= Len(s)
           /\ Range(Filter(s, S)) = Range(s) \intersect S
           /\ NoRepeat(s) => NoRepeat(Filter(s, S))
<1> DEFINE F(p) == Filter(p, S)
           Holds(p) == /\ Len(F(p)) <= Len(p) /\ Range(F(p)) = Range(p) \intersect S
                       /\ NoRepeat(p) => NoRepeat(F(p))
           T == {p \in Seq(R) : Holds(p)}
<1>1. <<>> \in T
  <2>1. F(<<>>) = <<>> /\ <<>> \in Seq(R) /\ Range(<<>>) = {}
    BY FilterStep DEF Range
  <2> QED BY <2>1 DEF NoRepeat
<1>2. ASSUME NEW p \in Seq(R), NEW x \in R, p \in T PROVE Append(p, x) \in T
  <2>1. /\ F(p) \in Seq(R) /\ F(Append(p, x)) = FilterNext(F(p), x, S)
        /\ Len(F(p)) \in Nat /\ Len(p) \in Nat
    <3>1. F(p) \in Seq(R) /\ F(Append(p, x)) = FilterNext(F(p), x, S)
      BY FilterStep
    <3> QED BY <3>1
  <2>2. /\ Len(F(p)) <= Len(p) /\ Range(F(p)) = Range(p) \intersect S
        /\ NoRepeat(p) => NoRepeat(F(p))
    BY <1>2
  <2>3. /\ Append(p, x) \in Seq(R) /\ Len(Append(p, x)) = Len(p) + 1
        /\ Range(Append(p, x)) = Range(p) \union {x}
        /\ NoRepeat(Append(p, x)) <=> NoRepeat(p) /\ x \notin Range(p)
    BY AppendFacts, NoRepeatAppend
  <2> HIDE DEF F
  <2>4. CASE x \in S
    <3>1. F(Append(p, x)) = Append(F(p), x)
      BY <2>1, <2>4 DEF FilterNext
    <3>2. /\ Len(Append(F(p), x)) = Len(F(p)) + 1
          /\ Range(Append(F(p), x)) = Range(F(p)) \union {x}
          /\ NoRepeat(Append(F(p), x)) <=> NoRepeat(F(p)) /\ x \notin Range(F(p))
      BY <2>1, AppendFacts, NoRepeatAppend
    <3>3. Range(F(Append(p, x))) = Range(Append(p, x)) \intersect S
      BY <2>2, <2>3, <2>4, <3>1, <3>2
    <3>4. NoRepeat(Append(p, x)) => NoRepeat(F(Append(p, x)))
      BY <2>2, <2>3, <3>1, <3>2
    <3>5. Len(F(Append(p, x))) <= Len(Append(p, x))
      BY <2>1, <2>2, <2>3, <3>1, <3>2
    <3> QED BY <2>3, <3>3, <3>4, <3>5
  <2>5. CASE x \notin S
    <3>1. F(Append(p, x)) = F(p)
      BY <2>1, <2>5 DEF FilterNext
    <3> QED BY <2>1, <2>2, <2>3, <2>5, <3>1
  <2> QED BY <2>4, <2>5
<1> HIDE DEF T
<1>3. s \in T
  BY <1>1, <1>2, SeqUpward
<1>4. Filter(s, S) \in Seq(R)
  BY FilterStep
<1> QED BY <1>3, <1>4 DEF T

\* Filter leaves all of a sequence in the set, nothing of one outside of it, and
\* goes through two sequences in turn.
LEMMA FilterAll ==
    ASSUME NEW R, NEW S, NEW s \in Seq(R), Range(s) \subseteq S
    PROVE  Filter(s, S) = s
<1> DEFINE T == {p \in Seq(R) : Range(p) \subseteq S => Filter(p, S) = p}
<1>1. <<>> \in T
  BY FilterStep
<1>2. ASSUME NEW p \in Seq(R), NEW x \in R, p \in T PROVE Append(p, x) \in T
  <2> DEFINE f == Filter(p, S)
             q == Append(p, x)
  <2>0. Filter(q, S) = FilterNext(f, x, S)
    BY FilterStep
  <2>1. Filter(q, S) = FilterNext(f, x, S) /\ q \in Seq(R) /\ Range(q) = Range(p) \union {x}
    BY <2>0, AppendFacts
  <2>2. Range(p) \subseteq S => f = p
    BY <1>2
  <2> HIDE DEF f
  <2>3. ASSUME Range(q) \subseteq S PROVE Filter(q, S) = q
    <3>1. f = p /\ x \in S
      BY <2>1, <2>2, <2>3
    <3> QED BY <2>1, <3>1 DEF FilterNext
  <2> QED BY <2>1, <2>3
<1> HIDE DEF T
<1>3. s \in T
  BY <1>1, <1>2, SeqUpward
<1> QED BY <1>3 DEF T

\* Nothing is left of what is all outside.
LEMMA FilterNone ==
    ASSUME NEW R, NEW S, NEW s \in Seq(R), Range(s) \intersect S = {}
    PROVE  Filter(s, S) = <<>>
<1> DEFINE f == Filter(s, S)
<1>1. f \in Seq(R) /\ Range(f) = {}
  BY FilterFacts
<1> HIDE DEF f
<1>2. SUFFICES ASSUME f # <<>> PROVE FALSE
  BY DEF f
<1>3. 1 \in 1..Len(f)
  BY <1>1, <1>2
<1> QED BY <1>1, <1>3, RangeFacts

\* One sequence after another.
LEMMA FilterConcat ==
    ASSUME NEW R, NEW S, NEW s \in Seq(R), NEW t \in Seq(R)
    PROVE  Filter(s \o t, S) = Filter(s, S) \o Filter(t, S)
<1> DEFINE F(p) == Filter(p, S)
           T == {p \in Seq(R) : F(s \o p) = F(s) \o F(p)}
<1>1. <<>> \in T
  <2>0. F(s) \in Seq(R) /\ F(<<>>) = <<>>
    BY FilterStep
  <2>1. F(s) \in Seq(R) /\ F(<<>>) = <<>> /\ <<>> \in Seq(R) /\ s \o <<>> = s
    BY <2>0, ConcatFacts
  <2> HIDE DEF F
  <2>2. F(s) \o <<>> = F(s)
    BY <2>1, ConcatFacts
  <2> QED BY <2>1, <2>2
<1>2. ASSUME NEW p \in Seq(R), NEW x \in R, p \in T PROVE Append(p, x) \in T
  <2> DEFINE q == Append(p, x)
             c == s \o p
  <2>1. q \in Seq(R) /\ c \in Seq(R) /\ s \o q = Append(c, x)
    BY ConcatFacts, AppendFacts
  <2>2. /\ F(Append(c, x)) = FilterNext(F(c), x, S) /\ F(q) = FilterNext(F(p), x, S)
        /\ F(s) \in Seq(R) /\ F(p) \in Seq(R)
    BY <2>1, FilterStep
  <2>3. F(c) = F(s) \o F(p)
    BY <1>2
  <2> HIDE DEF F, q, c
  <2>4. CASE x \in S
    <3>1. F(s \o q) = Append(F(s) \o F(p), x) /\ F(q) = Append(F(p), x)
      BY <2>1, <2>2, <2>3, <2>4 DEF FilterNext
    <3>2. F(s) \o Append(F(p), x) = Append(F(s) \o F(p), x)
      BY <2>2, ConcatFacts
    <3>3. F(s \o q) = F(s) \o F(q)
      BY <3>1, <3>2
    <3> QED BY <2>1, <3>3 DEF q
  <2>5. CASE x \notin S
    <3>1. F(s \o q) = F(c) /\ F(q) = F(p)
      BY <2>1, <2>2, <2>5 DEF FilterNext
    <3>2. F(s \o q) = F(s) \o F(q)
      BY <2>3, <3>1
    <3> QED BY <2>1, <3>2 DEF q
  <2> QED BY <2>4, <2>5
<1> HIDE DEF T
<1>3. t \in T
  BY <1>1, <1>2, SeqUpward
<1> QED BY <1>3 DEF T

(***************************************************************************)
(* Finite sets, and sums over them                                         *)
(***************************************************************************)
\* A set that holds a finite set whenever it holds all that are left of it when
\* an element is taken out, holds them all.
LEMMA SetUpward ==
    ASSUME NEW S, IsFiniteSet(S), NEW T,
           \A s \in SUBSET S : (\A x \in s : s \ {x} \in T) => s \in T
    PROVE  \A s \in SUBSET S : s \in T
<1> DEFINE N == Cardinality(S)
           U == {n \in 0..N : \A s \in SUBSET S : Cardinality(s) <= n => s \in T}
<1>1. \A s \in SUBSET S : IsFiniteSet(s) /\ Cardinality(s) \in 0..N
  <2> TAKE s \in SUBSET S
  <2>1. IsFiniteSet(s) /\ Cardinality(s) <= Cardinality(S)
    BY FS_Subset
  <2>2. Cardinality(s) \in Nat /\ Cardinality(S) \in Nat
    BY <2>1, FS_CardinalityType
  <2> QED BY <2>1, <2>2
<1>2. N \in Nat /\ U \in SUBSET Nat
  BY FS_CardinalityType
<1>3. 0 \in U
  <2>1. ASSUME NEW s \in SUBSET S, Cardinality(s) <= 0 PROVE s \in T
    <3>1. Cardinality(s) = 0
      BY <1>1, <2>1
    <3>2. s = {}
      BY <1>1, <3>1, FS_EmptySet
    <3> QED BY <3>2
  <2> QED BY <1>2, <2>1
<1>4. ASSUME NEW n \in 0..N, n \in U, n < N PROVE n + 1 \in U
  <2>1. ASSUME NEW s \in SUBSET S, Cardinality(s) <= n + 1, NEW x \in s PROVE s \ {x} \in T
    <3>1. Cardinality(s \ {x}) = Cardinality(s) - 1
      BY <1>1, FS_RemoveElement
    <3>2. Cardinality(s \ {x}) <= n /\ s \ {x} \in SUBSET S
      BY <1>1, <1>2, <2>1, <3>1
    <3> QED BY <1>4, <3>2
  <2>2. n + 1 \in 0..N
    BY <1>2, <1>4
  <2> QED BY <2>1, <2>2
<1> HIDE DEF U
<1>5. N \in U
  BY <1>2, <1>3, <1>4, Upward
<1> QED BY <1>1, <1>5 DEF U

\* The recursion of a sum, with an element chosen at every step.
Chosen(s) == CHOOSE x \in s : TRUE
SumNext(r, f, s) == IF s = {} THEN 0 ELSE f[Chosen(s)] + r[s \ {Chosen(s)}]
SumFcn(r, f, S) == [s \in SUBSET S |-> SumNext(r, f, s)]
Numbers(f, S) == IsFiniteSet(S) /\ \A x \in S : f[x] \in Int

\* There is one.
LEMMA SumExists ==
    ASSUME NEW S, NEW f, Numbers(f, S)
    PROVE  \E r \in [SUBSET S -> Int] : r = SumFcn(r, f, S)
<1> DEFINE N == Cardinality(S)
           Fits(r, n) == \A s \in SUBSET S : Cardinality(s) <= n => r[s] = SumNext(r, f, s)
           U == {n \in 0..N : \E r \in [SUBSET S -> Int] : Fits(r, n)}
<1>1. \A s \in SUBSET S : IsFiniteSet(s) /\ Cardinality(s) \in 0..N
  <2> TAKE s \in SUBSET S
  <2>1. IsFiniteSet(s) /\ Cardinality(s) <= Cardinality(S)
    BY FS_Subset DEF Numbers
  <2>2. Cardinality(s) \in Nat /\ Cardinality(S) \in Nat
    BY <2>1, FS_CardinalityType DEF Numbers
  <2> QED BY <2>1, <2>2
<1>2. N \in Nat /\ U \in SUBSET Nat
  BY FS_CardinalityType DEF Numbers
<1>3. \A s \in SUBSET S : s # {} =>
         /\ Chosen(s) \in s /\ s \ {Chosen(s)} \in SUBSET S
         /\ Cardinality(s \ {Chosen(s)}) = Cardinality(s) - 1
  <2> TAKE s \in SUBSET S
  <2> HAVE s # {}
  <2>1. Chosen(s) \in s
    BY DEF Chosen
  <2> QED BY <1>1, <2>1, FS_RemoveElement
<1>4. 0 \in U
  <2> DEFINE r == [s \in SUBSET S |-> 0]
  <2>1. ASSUME NEW s \in SUBSET S, Cardinality(s) <= 0 PROVE r[s] = SumNext(r, f, s)
    <3>1. Cardinality(s) = 0
      BY <1>1, <2>1
    <3>2. s = {}
      BY <1>1, <3>1, FS_EmptySet
    <3> QED BY <3>2 DEF SumNext
  <2>2. r \in [SUBSET S -> Int] /\ Fits(r, 0)
    BY <2>1
  <2> HIDE DEF r, Fits
  <2>3. \E q \in [SUBSET S -> Int] : Fits(q, 0)
    BY <2>2
  <2> QED BY <1>2, <2>3
<1>5. ASSUME NEW n \in 0..N, n \in U, n < N PROVE n + 1 \in U
  <2>1. PICK r \in [SUBSET S -> Int] : Fits(r, n)
    BY <1>5
  <2> DEFINE q == [s \in SUBSET S |-> IF Cardinality(s) = n + 1 THEN SumNext(r, f, s) ELSE r[s]]
  <2>2. n + 1 \in 0..N /\ n \in Nat
    BY <1>2, <1>5
  <2>3. ASSUME NEW s \in SUBSET S PROVE SumNext(r, f, s) \in Int
    <3>1. CASE s = {}
      BY <3>1 DEF SumNext
    <3>2. CASE s # {}
      <4>1. f[Chosen(s)] \in Int /\ r[s \ {Chosen(s)}] \in Int
        BY <1>3, <3>2 DEF Numbers
      <4> QED BY <3>2, <4>1 DEF SumNext
    <3> QED BY <3>1, <3>2
  <2>4. q \in [SUBSET S -> Int]
    BY <2>3
  <2>5. \A s \in SUBSET S : Cardinality(s) <= n + 1 => SumNext(q, f, s) = SumNext(r, f, s)
    <3> TAKE s \in SUBSET S
    <3> HAVE Cardinality(s) <= n + 1
    <3>1. CASE s = {}
      BY <3>1 DEF SumNext
    <3>2. CASE s # {}
      <4> DEFINE u == s \ {Chosen(s)}
      <4>1. u \in SUBSET S /\ Cardinality(u) = Cardinality(s) - 1 /\ Cardinality(s) \in 0..N
        BY <1>1, <1>3, <3>2
      <4>2. Cardinality(u) # n + 1
        BY <1>2, <2>2, <4>1
      <4>3. q[u] = r[u]
        BY <4>1, <4>2
      <4> HIDE DEF q
      <4> QED BY <3>2, <4>3 DEF SumNext
    <3> QED BY <3>1, <3>2
  <2>6. ASSUME NEW s \in SUBSET S, Cardinality(s) <= n + 1 PROVE q[s] = SumNext(q, f, s)
    <3>1. SumNext(q, f, s) = SumNext(r, f, s)
      BY <2>5, <2>6
    <3>2. CASE Cardinality(s) = n + 1
      BY <3>1, <3>2
    <3>3. CASE Cardinality(s) # n + 1
      <4>1. Cardinality(s) <= n
        BY <1>1, <1>2, <2>2, <2>6, <3>3
      <4> QED BY <2>1, <3>1, <3>3, <4>1
    <3> QED BY <3>2, <3>3
  <2> HIDE DEF q
  <2> QED BY <2>2, <2>4, <2>6
<1> HIDE DEF U
<1>6. N \in U
  BY <1>2, <1>4, <1>5, Upward
<1>7. PICK r \in [SUBSET S -> Int] : Fits(r, N)
  BY <1>6 DEF U
<1>8. \A s \in SUBSET S : r[s] = SumNext(r, f, s)
  BY <1>1, <1>7
<1>9. r = SumFcn(r, f, S)
  BY <1>8 DEF SumFcn
<1> QED BY <1>9

\* Whatever order the elements are chosen in: the sums over the subsets of a
\* set, with any element taken out.
IsSum(r, f, S) ==
    /\ r \in [SUBSET S -> Int] /\ r[{}] = 0
    /\ \A s \in SUBSET S : \A x \in s : r[s] = f[x] + r[s \ {x}]

\* The recursion is such a sum.
LEMMA SumAnyOrder ==
    ASSUME NEW S, NEW f, Numbers(f, S), NEW r \in [SUBSET S -> Int], r = SumFcn(r, f, S)
    PROVE  IsSum(r, f, S)
<1>1. \A s \in SUBSET S : r[s] = SumNext(r, f, s)
  BY DEF SumFcn
<1>2. r[{}] = 0
  BY <1>1 DEF SumNext
<1> DEFINE T == {s \in SUBSET S : \A x \in s : r[s] = f[x] + r[s \ {x}]}
<1>3. ASSUME NEW s \in SUBSET S, \A x \in s : s \ {x} \in T, NEW x \in s
      PROVE  r[s] = f[x] + r[s \ {x}]
  <2> DEFINE c == Chosen(s)
  <2>1. c \in s /\ r[s] = f[c] + r[s \ {c}]
    BY <1>1 DEF SumNext, Chosen
  <2> HIDE DEF c
  <2>2. CASE x = c
    BY <2>1, <2>2
  <2>3. CASE x # c
    <3> DEFINE a == s \ {c}
               b == s \ {x}
               d == a \ {x}
    <3>1. /\ a \in T /\ b \in T /\ d = b \ {c} /\ x \in a /\ c \in b
          /\ c \in S /\ x \in S /\ d \in SUBSET S
      BY <1>3, <2>1, <2>3
    <3>2. r[a] = f[x] + r[d] /\ r[b] = f[c] + r[d] /\ r[s] = f[c] + r[a]
      BY <2>1, <3>1
    <3>3. r[d] \in Int /\ f[x] \in Int /\ f[c] \in Int
      BY <3>1 DEF Numbers
    <3> HIDE DEF a, d
    <3>4. r[s] = f[x] + r[b]
      BY <3>2, <3>3
    <3> QED BY <3>4
  <2> QED BY <2>2, <2>3
<1>4. \A s \in SUBSET S : (\A x \in s : s \ {x} \in T) => s \in T
  BY <1>3
<1>5. IsFiniteSet(S)
  BY DEF Numbers
<1> HIDE DEF T
<1>6. \A s \in SUBSET S : s \in T
  BY <1>4, <1>5, SetUpward
<1> QED BY <1>2, <1>6 DEF IsSum, T

\* The sum over a set of all numbers, and over one with an element taken out.
LEMMA SumTaken ==
    ASSUME NEW S, NEW f, Numbers(f, S)
    PROVE  /\ SumFunctionOnSet(f, S) \in Int /\ SumFunctionOnSet(f, {}) = 0
           /\ \A s \in SUBSET S : SumFunctionOnSet(f, s) \in Int
           /\ \A s \in SUBSET S : \A x \in s :
                 SumFunctionOnSet(f, s) = f[x] + SumFunctionOnSet(f, s \ {x})
<1> DEFINE c(D) == CHOOSE r : r = SumFcn(r, f, D)
<1>1. \A D : SumFunctionOnSet(f, D) = c(D)[D]
  BY Zenon DEF SumFunctionOnSet, FoldFunctionOnSet, MapThenFoldSet, SumFcn, SumNext, Chosen
<1>2. \A D : Numbers(f, D) => c(D) = SumFcn(c(D), f, D)
  BY SumExists, Zenon
<1> HIDE DEF c
<1>3. PICK r \in [SUBSET S -> Int] : r = SumFcn(r, f, S)
  BY SumExists
<1>4. IsSum(r, f, S)
  BY <1>3, SumAnyOrder
<1>5. ASSUME NEW D \in SUBSET S PROVE SumFunctionOnSet(f, D) = r[D]
  <2>1. Numbers(f, D)
    BY FS_Subset DEF Numbers
  <2> DEFINE q == c(D)
             T == {s \in SUBSET D : q[s] = r[s]}
  <2>2. \A s \in SUBSET D : q[s] = SumNext(q, f, s)
    BY <1>2, <2>1 DEF SumFcn
  <2>3. \A s \in SUBSET D : r[s] = SumNext(r, f, s)
    BY <1>3 DEF SumFcn
  <2> HIDE DEF q
  <2>4. ASSUME NEW s \in SUBSET D, \A x \in s : s \ {x} \in T PROVE s \in T
    <3>1. CASE s = {}
      BY <2>2, <2>3, <3>1 DEF SumNext
    <3>2. CASE s # {}
      <4>1. Chosen(s) \in s
        BY <3>2 DEF Chosen
      <4>2. q[s \ {Chosen(s)}] = r[s \ {Chosen(s)}]
        BY <2>4, <4>1
      <4> QED BY <2>2, <2>3, <3>2, <4>2 DEF SumNext
    <3> QED BY <3>1, <3>2
  <2>5. IsFiniteSet(D)
    BY <2>1 DEF Numbers
  <2> HIDE DEF T
  <2>6. D \in T
    BY <2>4, <2>5, SetUpward
  <2> QED BY <1>1, <2>6 DEF T, q
<1> QED BY <1>4, <1>5 DEF IsSum

\* Two functions that agree have the same sum.
LEMMA SumSame ==
    ASSUME NEW S, NEW f, NEW g, Numbers(f, S), \A x \in S : f[x] = g[x]
    PROVE  SumFunctionOnSet(f, S) = SumFunctionOnSet(g, S)
<1> DEFINE F(s) == SumFunctionOnSet(f, s)
           G(s) == SumFunctionOnSet(g, s)
           T == {s \in SUBSET S : F(s) = G(s)}
<1>1. Numbers(g, S)
  BY DEF Numbers
<1>2. /\ F({}) = 0 /\ \A s \in SUBSET S : \A x \in s : F(s) = f[x] + F(s \ {x})
      /\ G({}) = 0 /\ \A s \in SUBSET S : \A x \in s : G(s) = g[x] + G(s \ {x})
  BY <1>1, SumTaken
<1> HIDE DEF F, G
<1>3. ASSUME NEW s \in SUBSET S, \A x \in s : s \ {x} \in T PROVE s \in T
  <2>1. CASE s = {}
    BY <1>2, <2>1
  <2>2. CASE s # {}
    <3>1. PICK x \in s : TRUE
      BY <2>2
    <3>2. F(s) = f[x] + F(s \ {x}) /\ G(s) = g[x] + G(s \ {x}) /\ F(s \ {x}) = G(s \ {x}) /\ f[x] = g[x]
      BY <1>2, <1>3
    <3> QED BY <3>2
  <2> QED BY <2>1, <2>2
<1>4. IsFiniteSet(S) /\ \A s \in SUBSET S : (\A x \in s : s \ {x} \in T) => s \in T
  BY <1>3 DEF Numbers
<1> HIDE DEF T
<1>5. \A s \in SUBSET S : s \in T
  BY <1>4, SetUpward
<1> QED BY <1>5 DEF T, F, G

\* The sum over two sets that have nothing in common.
LEMMA SumUnion ==
    ASSUME NEW f, NEW S, NEW U, Numbers(f, S), Numbers(f, U), S \intersect U = {}
    PROVE  /\ Numbers(f, S \union U)
           /\ SumFunctionOnSet(f, S \union U) = SumFunctionOnSet(f, S) + SumFunctionOnSet(f, U)
<1> DEFINE F(s) == SumFunctionOnSet(f, s)
           W == S \union U
           T == {s \in SUBSET S : F(s \union U) = F(s) + F(U)}
<1>1. Numbers(f, W)
  BY FS_Union DEF Numbers
<1>2. /\ F({}) = 0 /\ \A s \in SUBSET W : F(s) \in Int
      /\ \A s \in SUBSET W : \A x \in s : F(s) = f[x] + F(s \ {x})
  BY <1>1, SumTaken
<1> HIDE DEF F
<1>3. ASSUME NEW s \in SUBSET S, \A x \in s : s \ {x} \in T PROVE s \in T
  <2>1. CASE s = {}
    <3>1. s \union U = U /\ F(U) \in Int
      BY <1>2, <2>1
    <3> QED BY <1>2, <2>1, <3>1
  <2>2. CASE s # {}
    <3>1. PICK x \in s : TRUE
      BY <2>2
    <3> DEFINE d == s \ {x}
    <3>2. d \in T /\ (s \union U) \ {x} = d \union U /\ x \in W /\ d \in SUBSET W /\ s \in SUBSET W
          /\ U \in SUBSET W /\ s \union U \in SUBSET W /\ x \in s \union U
      BY <1>3
    <3>3. F(s \union U) = f[x] + F(d \union U) /\ F(s) = f[x] + F(d) /\ F(d \union U) = F(d) + F(U)
      BY <1>2, <3>2
    <3>4. f[x] \in Int /\ F(d) \in Int /\ F(U) \in Int
      BY <1>1, <1>2, <3>2 DEF Numbers
    <3> HIDE DEF d
    <3>5. F(s \union U) = F(s) + F(U)
      BY <3>3, <3>4
    <3> QED BY <3>5
  <2> QED BY <2>1, <2>2
<1>4. IsFiniteSet(S) /\ \A s \in SUBSET S : (\A x \in s : s \ {x} \in T) => s \in T
  BY <1>3 DEF Numbers
<1> HIDE DEF T
<1>5. \A s \in SUBSET S : s \in T
  BY <1>4, SetUpward
<1> QED BY <1>1, <1>5 DEF T, F

\* The same numbers under other names.
LEMMA SumRenamed ==
    ASSUME NEW f, NEW S, Numbers(f, S), NEW g, NEW m,
           \A x, y \in S : m[x] = m[y] => x = y, \A x \in S : g[m[x]] = f[x]
    PROVE  /\ Numbers(g, {m[x] : x \in S})
           /\ SumFunctionOnSet(g, {m[x] : x \in S}) = SumFunctionOnSet(f, S)
<1> DEFINE F(s) == SumFunctionOnSet(f, s)
           G(s) == SumFunctionOnSet(g, s)
           M(s) == {m[x] : x \in s}
           T == {s \in SUBSET S : G(M(s)) = F(s)}
<1>1. Numbers(g, M(S))
  <2>1. IsFiniteSet(S)
    BY DEF Numbers
  <2>2. IsFiniteSet(M(S))
    <3> DEFINE h == [x \in S |-> m[x]]
    <3>1. h \in Surjection(S, M(S))
      BY DEF Surjection
    <3> QED BY <2>1, <3>1, FS_Surjection
  <2> QED BY <2>2 DEF Numbers
<1>2. /\ F({}) = 0 /\ \A s \in SUBSET S : \A x \in s : F(s) = f[x] + F(s \ {x})
  BY SumTaken
<1>3. G({}) = 0 /\ \A s \in SUBSET M(S) : \A x \in s : G(s) = g[x] + G(s \ {x})
  BY <1>1, SumTaken
<1> HIDE DEF F, G
<1>4. ASSUME NEW s \in SUBSET S, \A x \in s : s \ {x} \in T PROVE s \in T
  <2>1. CASE s = {}
    <3>1. M(s) = {}
      BY <2>1
    <3> QED BY <1>2, <1>3, <2>1, <3>1
  <2>2. CASE s # {}
    <3>1. PICK x \in s : TRUE
      BY <2>2
    <3>2. M(s) \in SUBSET M(S) /\ m[x] \in M(s) /\ M(s) \ {m[x]} = M(s \ {x})
      BY <1>4
    <3>3. s \ {x} \in T /\ x \in S
      BY <1>4
    <3>4. G(M(s)) = g[m[x]] + G(M(s \ {x})) /\ F(s) = f[x] + F(s \ {x})
      BY <1>2, <1>3, <3>2
    <3> QED BY <3>3, <3>4
  <2> QED BY <2>1, <2>2
<1>5. IsFiniteSet(S) /\ \A s \in SUBSET S : (\A x \in s : s \ {x} \in T) => s \in T
  BY <1>4 DEF Numbers
<1> HIDE DEF T
<1>6. \A s \in SUBSET S : s \in T
  BY <1>5, SetUpward
<1> QED BY <1>1, <1>6 DEF T, F, G

\* A sum of natural numbers is one, and no less than a sum of some of them.
LEMMA SumNatural ==
    ASSUME NEW f, NEW S, IsFiniteSet(S), \A x \in S : f[x] \in Nat
    PROVE  /\ Numbers(f, S) /\ SumFunctionOnSet(f, S) \in Nat
           /\ \A s \in SUBSET S : SumFunctionOnSet(f, s) <= SumFunctionOnSet(f, S)
           /\ (\A x \in S : f[x] = 0) => SumFunctionOnSet(f, S) = 0
<1> DEFINE F(s) == SumFunctionOnSet(f, s)
           T == {s \in SUBSET S : F(s) \in Nat /\ ((\A x \in S : f[x] = 0) => F(s) = 0)}
<1>1. Numbers(f, S)
  BY DEF Numbers
<1>2. /\ F({}) = 0 /\ \A s \in SUBSET S : \A x \in s : F(s) = f[x] + F(s \ {x})
  BY <1>1, SumTaken
<1> HIDE DEF F
<1>3. ASSUME NEW s \in SUBSET S, \A x \in s : s \ {x} \in T PROVE s \in T
  <2>1. CASE s = {}
    BY <1>2, <2>1
  <2>2. CASE s # {}
    <3>1. PICK x \in s : TRUE
      BY <2>2
    <3>2. s \ {x} \in T /\ x \in S /\ F(s) = f[x] + F(s \ {x})
      BY <1>2, <1>3
    <3>3. F(s \ {x}) \in Nat /\ f[x] \in Nat
      BY <3>2
    <3>4. F(s) \in Nat
      BY <3>2, <3>3
    <3> QED BY <3>2, <3>3, <3>4
  <2> QED BY <2>1, <2>2
<1> HIDE DEF T
<1>4. \A s \in SUBSET S : s \in T
  BY <1>3, SetUpward
<1>5. ASSUME NEW s \in SUBSET S PROVE F(s) <= F(S)
  <2> DEFINE d == S \ s
  <2>1. Numbers(f, s) /\ Numbers(f, d) /\ s \intersect d = {} /\ s \union d = S /\ d \in SUBSET S
    BY <1>1, FS_Subset DEF Numbers
  <2> HIDE DEF d
  <2>2. F(S) = F(s) + F(d)
    BY <2>1, SumUnion DEF F
  <2>3. F(s) \in Nat /\ F(d) \in Nat
    BY <1>4, <2>1 DEF T
  <2> QED BY <2>2, <2>3
<1> QED BY <1>1, <1>4, <1>5 DEF T, F
====
