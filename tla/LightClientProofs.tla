------------------------- MODULE LightClientProofs -------------------------
(***************************************************************************)
(* For every tree of headers, every set of peers and every number of       *)
(* exchanges given up: the light client's header chain is always a linked  *)
(* chain of checked headers, it loses work only to a branch that proved    *)
(* invalid or to a restart, and a refresh offers no coin that a connected  *)
(* peer has had a spend of pending all the while.                          *)
(***************************************************************************)
EXTENDS LightClient, FiniteSetTheorems, SequenceTheorems, NaturalsInduction,
        WellFoundedInduction, TLAPS

(***************************************************************************)
(* Numbers and sequences                                                   *)
(***************************************************************************)

\* A nonempty set of natural numbers has a least element.
LEMMA LeastNumber ==
    ASSUME NEW T \in SUBSET Nat, T # {}
    PROVE  \E x \in T : \A y \in T : x <= y
<1> DEFINE R == OpToRel(<, Nat)
<1>1. IsWellFoundedOn(R, Nat)
  BY NatLessThanWellFounded, Zenon
<1>2. \A x, y \in Nat : y < x => <<y, x>> \in R
  BY DEF OpToRel
<1> HIDE DEF R
<1>3. PICK x \in T : \A y \in T : ~ (<<y, x>> \in R)
  BY <1>1, WFMin, Zenon
<1>4. ASSUME NEW y \in T PROVE x <= y
  <2>1. ~ (y < x) /\ x \in Nat /\ y \in Nat
    BY <1>2, <1>3
  <2> QED BY <2>1
<1> QED BY <1>4

\* A set of numbers up to n that holds 0 and with every number below n the next
\* one, holds them all.
LEMMA Upward ==
    ASSUME NEW n \in Nat, NEW T \in SUBSET Nat, 0 \in T,
           \A k \in 0..n : k \in T /\ k < n => k + 1 \in T
    PROVE  \A k \in 0..n : k \in T
<1> DEFINE U == {k \in 0..n : k \notin T}
<1>1. SUFFICES ASSUME U # {} PROVE FALSE
  OBVIOUS
<1>2. U \in SUBSET Nat
  OBVIOUS
<1>3. PICK x \in U : \A y \in U : x <= y
  BY <1>1, <1>2, LeastNumber
<1>4. x \in 0..n /\ x \notin T /\ x # 0
  BY <1>3
<1>5. x - 1 \in 0..n /\ x - 1 < n /\ ~ (x <= x - 1) /\ (x - 1) + 1 = x
  BY <1>4
<1>6. x - 1 \in T
  BY <1>3, <1>5
<1> QED BY <1>4, <1>5, <1>6

\* A nonempty set of natural numbers up to n has a greatest element.
LEMMA GreatestNumber ==
    ASSUME NEW n \in Nat, NEW T \in SUBSET (0..n), T # {}
    PROVE  \E x \in T : \A y \in T : y <= x
<1> DEFINE U == {n - y : y \in T}
<1>1. U \in SUBSET Nat /\ U # {}
  <2>1. \A y \in T : y \in 0..n /\ n - y \in Nat
    OBVIOUS
  <2> QED BY <2>1
<1>2. PICK u \in U : \A v \in U : u <= v
  BY <1>1, LeastNumber
<1>3. PICK x \in T : u = n - x
  BY <1>2
<1>4. ASSUME NEW y \in T PROVE y <= x
  <2>1. n - x <= n - y /\ x \in 0..n /\ y \in 0..n
    BY <1>2, <1>3
  <2> QED BY <2>1
<1> QED BY <1>4

\* A part of a sequence, which may be empty.
LEMMA Part ==
    ASSUME NEW S, NEW s \in Seq(S), NEW a \in 0..Len(s), NEW b \in a..Len(s)
    PROVE  /\ SubSeq(s, a + 1, b) \in Seq(S) /\ Len(SubSeq(s, a + 1, b)) = b - a
           /\ \A i \in 1..(b - a) : SubSeq(s, a + 1, b)[i] = s[a + i]
<1>1. a \in Nat /\ b \in Nat /\ a <= b /\ b <= Len(s) /\ Len(s) \in Nat
  OBVIOUS
<1>2. a + 1 \in Int /\ b \in Int /\ (a + 1 <= b => b - (a + 1) + 1 = b - a) /\ (~ (a + 1 <= b) => b - a = 0)
  BY <1>1
<1>3. \A i \in (a + 1)..b : s[i] \in S
  BY <1>1
<1>4. /\ SubSeq(s, a + 1, b) \in Seq(S)
      /\ Len(SubSeq(s, a + 1, b)) = IF a + 1 <= b THEN b - (a + 1) + 1 ELSE 0
      /\ \A i \in 1..(b - (a + 1) + 1) : SubSeq(s, a + 1, b)[i] = s[(a + 1) + i - 1]
  <2> DEFINE m == a + 1
  <2>1. m \in Int /\ b \in Int /\ \A i \in m..b : s[i] \in S
    BY <1>2, <1>3
  <2> HIDE DEF m
  <2>2. /\ SubSeq(s, m, b) \in Seq(S) /\ Len(SubSeq(s, m, b)) = IF m <= b THEN b - m + 1 ELSE 0
        /\ \A i \in 1..(b - m + 1) : SubSeq(s, m, b)[i] = s[m + i - 1]
    BY <2>1, SubSeqProperties
  <2> QED BY <2>2 DEF m
<1>5. b - (a + 1) + 1 = b - a /\ \A i \in 1..(b - a) : (a + 1) + i - 1 = a + i
  BY <1>1
<1> QED BY <1>2, <1>4, <1>5, Zenon

\* What follows the k-th element.
LEMMA Rest ==
    ASSUME NEW S, NEW s \in Seq(S), NEW k \in 1..Len(s)
    PROVE  /\ SubSeq(s, k + 1, Len(s)) \in Seq(S) /\ Len(SubSeq(s, k + 1, Len(s))) = Len(s) - k
           /\ Len(SubSeq(s, k + 1, Len(s))) = 0 => k = Len(s)
<1>1. PICK n \in Nat : n = Len(s)
  OBVIOUS
<1>2. k \in 0..Len(s) /\ n \in k..Len(s)
  BY <1>1
<1>3. SubSeq(s, k + 1, n) \in Seq(S) /\ Len(SubSeq(s, k + 1, n)) = n - k
  BY <1>2, Part
<1>4. n - k = 0 => k = n
  BY <1>1
<1> QED BY <1>1, <1>3, <1>4, Zenon

\* Appending adds one element to the range.
LEMMA RangeAppend ==
    ASSUME NEW S, NEW s \in Seq(S), NEW e \in S
    PROVE  Range(Append(s, e)) = Range(s) \union {e}
<1> DEFINE t == Append(s, e)
<1>1. /\ Len(s) \in Nat /\ DOMAIN s = 1..Len(s) /\ DOMAIN t = 1..(Len(s) + 1)
      /\ \A i \in 1..Len(s) : t[i] = s[i]
      /\ t[Len(s) + 1] = e
  OBVIOUS
<1> HIDE DEF t
<1>2. \A i \in 1..(Len(s) + 1) : i \in 1..Len(s) \/ i = Len(s) + 1
  BY <1>1
<1>3. Len(s) + 1 \in 1..(Len(s) + 1) /\ \A i \in 1..Len(s) : i \in 1..(Len(s) + 1)
  BY <1>1
<1>4. ASSUME NEW x \in Range(t) PROVE x \in Range(s) \union {e}
  <2>1. PICK i \in 1..(Len(s) + 1) : x = t[i]
    BY <1>1 DEF Range
  <2> QED BY <1>1, <1>2, <2>1 DEF Range
<1>5. ASSUME NEW x \in Range(s) PROVE x \in Range(t)
  <2>1. PICK i \in 1..Len(s) : x = s[i]
    BY <1>1 DEF Range
  <2> QED BY <1>1, <1>3, <2>1 DEF Range
<1>6. e \in Range(t)
  BY <1>1, <1>3 DEF Range
<1> QED BY <1>4, <1>5, <1>6 DEF t

\* One more header of a batch is one more header appended.
LEMMA PartAppend ==
    ASSUME NEW S, NEW s \in Seq(S), NEW t \in Seq(S), NEW k \in Nat, k < Len(t)
    PROVE  /\ s \o SubSeq(t, 1, k + 1) = Append(s \o SubSeq(t, 1, k), t[k + 1])
           /\ s # <<>> => (s \o SubSeq(t, 1, k))[Len(s \o SubSeq(t, 1, k))]
                             = IF k = 0 THEN s[Len(s)] ELSE t[k]
<1> DEFINE a == SubSeq(t, 1, k)
           b == SubSeq(t, 1, k + 1)
           c == s \o a
<1>1. Len(s) \in Nat /\ Len(t) \in Nat /\ t[k + 1] \in S
  OBVIOUS
<1>2. a \in Seq(S) /\ Len(a) = k /\ \A i \in 1..k : a[i] = t[i]
  <2>1. 0 \in 0..Len(t) /\ k \in 0..Len(t) /\ 0 + 1 = 1 /\ k - 0 = k /\ \A i \in 1..k : 0 + i = i
    BY <1>1
  <2>2. /\ SubSeq(t, 0 + 1, k) \in Seq(S) /\ Len(SubSeq(t, 0 + 1, k)) = k - 0
        /\ \A i \in 1..(k - 0) : SubSeq(t, 0 + 1, k)[i] = t[0 + i]
    BY <2>1, Part, Zenon
  <2> QED BY <2>1, <2>2, Zenon
<1>3. b \in Seq(S) /\ Len(b) = k + 1 /\ \A i \in 1..(k + 1) : b[i] = t[i]
  <2>1. 0 \in 0..Len(t) /\ k + 1 \in 0..Len(t) /\ 0 + 1 = 1 /\ (k + 1) - 0 = k + 1 /\ \A i \in 1..(k + 1) : 0 + i = i
    BY <1>1
  <2>2. /\ SubSeq(t, 0 + 1, k + 1) \in Seq(S) /\ Len(SubSeq(t, 0 + 1, k + 1)) = (k + 1) - 0
        /\ \A i \in 1..((k + 1) - 0) : SubSeq(t, 0 + 1, k + 1)[i] = t[0 + i]
    BY <2>1, Part, Zenon
  <2> QED BY <2>1, <2>2, Zenon
<1> HIDE DEF a, b
<1>4. /\ c \in Seq(S) /\ Len(c) = Len(s) + k
      /\ \A i \in 1..Len(s) : c[i] = s[i]
      /\ \A j \in 1..k : c[Len(s) + j] = a[j]
  BY <1>1, <1>2
<1>5. s \o b = Append(c, t[k + 1])
  <2>1. /\ s \o b \in Seq(S) /\ Len(s \o b) = Len(s) + (k + 1)
        /\ \A i \in 1..Len(s) : (s \o b)[i] = s[i]
        /\ \A j \in 1..(k + 1) : (s \o b)[Len(s) + j] = b[j]
    BY <1>1, <1>3
  <2> HIDE DEF c
  <2>2. /\ Append(c, t[k + 1]) \in Seq(S) /\ Len(Append(c, t[k + 1])) = Len(s) + (k + 1)
        /\ \A i \in 1..(Len(s) + k) : Append(c, t[k + 1])[i] = c[i]
        /\ Append(c, t[k + 1])[Len(s) + (k + 1)] = t[k + 1]
    <3>1. /\ Append(c, t[k + 1]) \in Seq(S) /\ Len(Append(c, t[k + 1])) = Len(c) + 1
          /\ \A i \in 1..Len(c) : Append(c, t[k + 1])[i] = c[i]
          /\ Append(c, t[k + 1])[Len(c) + 1] = t[k + 1]
      <4> DEFINE e == t[k + 1]
      <4>1. e \in S /\ c \in Seq(S)
        BY <1>1, <1>4
      <4> HIDE DEF e
      <4> QED BY <4>1, AppendProperties DEF e
    <3>2. (Len(s) + k) + 1 = Len(s) + (k + 1)
      BY <1>1
    <3> QED BY <1>4, <3>1, <3>2, Zenon
  <2>3. ASSUME NEW i \in 1..(Len(s) + (k + 1)) PROVE (s \o b)[i] = Append(c, t[k + 1])[i]
    <3>1. CASE i <= Len(s)
      BY <1>1, <1>4, <2>1, <2>2, <3>1
    <3>2. CASE i = Len(s) + (k + 1)
      BY <1>1, <1>3, <2>1, <2>2, <3>2
    <3>3. CASE Len(s) < i /\ i < Len(s) + (k + 1)
      <4>1. PICK j \in 1..k : i = Len(s) + j
        <5>1. i - Len(s) \in 1..k /\ i = Len(s) + (i - Len(s))
          BY <1>1, <3>3
        <5> QED BY <5>1
      <4>2. i \in 1..(Len(s) + k) /\ j \in 1..(k + 1)
        BY <1>1, <4>1
      <4> QED BY <1>2, <1>3, <1>4, <2>1, <2>2, <4>1, <4>2
    <3>4. i <= Len(s) \/ i = Len(s) + (k + 1) \/ (Len(s) < i /\ i < Len(s) + (k + 1))
      BY <1>1
    <3> QED BY <3>1, <3>2, <3>3, <3>4
  <2> HIDE DEF b
  <2> QED BY <2>1, <2>2, <2>3, SeqEqual
<1>6. ASSUME s # <<>> PROVE c[Len(c)] = IF k = 0 THEN s[Len(s)] ELSE t[k]
  <2>1. Len(s) # 0
    BY <1>6, EmptySeq
  <2>2. CASE k = 0
    BY <1>1, <1>4, <2>1, <2>2
  <2>3. CASE k # 0
    <3>1. k \in 1..k
      BY <2>3
    <3> QED BY <1>2, <1>4, <2>3, <3>1
  <2> QED BY <2>2, <2>3
<1> QED BY <1>5, <1>6 DEF a, b

(***************************************************************************)
(* Branches                                                                *)
(***************************************************************************)

\* The ancestry of a header ends with it and begins with the genesis block, and
\* is linked.
LEMMA AncestryShape ==
    ASSUME NEW h \in Headers
    PROVE  /\ Ancestry[h] \in Seq(Headers) /\ Len(Ancestry[h]) \in Nat \ {0}
           /\ Ancestry[h][Len(Ancestry[h])] = h
<1>1. CASE h = Genesis
  BY <1>1, AncestryAssumption
<1>2. CASE h # Genesis
  <2>1. /\ Parent[h] \in Headers /\ Ancestry[Parent[h]] \in Seq(Headers)
        /\ Ancestry[h] = Append(Ancestry[Parent[h]], h)
    BY <1>2, AncestryAssumption
  <2> QED BY <2>1
<1> QED BY <1>1, <1>2

\* A branch up to one of its headers is the ancestry of this header.
Prefixed(h) == \A i \in 1..Len(Ancestry[h]) :
                   Ancestry[Ancestry[h][i]] = SubSeq(Ancestry[h], 1, i)

LEMMA PrefixStep ==
    ASSUME NEW h \in Headers \ {Genesis}, Prefixed(Parent[h])
    PROVE  Prefixed(h)
<1> DEFINE s == Ancestry[Parent[h]]
<1>1. /\ Parent[h] \in Headers /\ s \in Seq(Headers) /\ Len(s) \in Nat
      /\ Ancestry[h] = Append(s, h)
  BY AncestryAssumption
<1>2. \A i \in 1..Len(s) : Ancestry[s[i]] = SubSeq(s, 1, i)
  BY DEF Prefixed
<1> HIDE DEF s
<1> SUFFICES ASSUME NEW i \in 1..Len(Append(s, h))
             PROVE  Ancestry[Append(s, h)[i]] = SubSeq(Append(s, h), 1, i)
  BY <1>1 DEF Prefixed
<1>3. CASE i = Len(s) + 1
  <2>1. Append(s, h)[i] = h
    BY <1>1, <1>3
  <2>2. SubSeq(Append(s, h), 1, i) = Append(s, h)
    BY <1>1, <1>3
  <2> QED BY <1>1, <2>1, <2>2
<1>4. CASE i # Len(s) + 1
  <2>1. i \in 1..Len(s)
    BY <1>1, <1>4
  <2>2. Append(s, h)[i] = s[i]
    BY <1>1, <2>1
  <2>3. SubSeq(Append(s, h), 1, i) = SubSeq(s, 1, i)
    BY <1>1, <2>1
  <2> QED BY <1>2, <2>1, <2>2, <2>3
<1> QED BY <1>3, <1>4

LEMMA PrefixIsAncestry ==
    ASSUME NEW h \in Headers
    PROVE  Prefixed(h)
<1> DEFINE n == Len(Ancestry[h])
           T == {k \in Nat : \A x \in Headers : Len(Ancestry[x]) <= k => Prefixed(x)}
<1>1. 0 \in T
  <2>1. ASSUME NEW x \in Headers PROVE ~ (Len(Ancestry[x]) <= 0)
    BY AncestryShape
  <2> QED BY <2>1
<1>2. ASSUME NEW k \in Nat, k \in T PROVE k + 1 \in T
  <2> SUFFICES ASSUME NEW x \in Headers, Len(Ancestry[x]) <= k + 1
               PROVE  Prefixed(x)
    OBVIOUS
  <2>1. CASE x = Genesis
    <3>1. Ancestry[x] = <<Genesis>> /\ Len(<<Genesis>>) = 1
      BY <2>1, AncestryAssumption
    <3>2. \A i \in 1..1 : Ancestry[<<Genesis>>[i]] = SubSeq(<<Genesis>>, 1, i)
      BY AncestryAssumption
    <3> QED BY <3>1, <3>2, Zenon DEF Prefixed
  <2>2. CASE x # Genesis
    <3>1. /\ Parent[x] \in Headers /\ Ancestry[Parent[x]] \in Seq(Headers)
          /\ Ancestry[x] = Append(Ancestry[Parent[x]], x)
      BY <2>2, AncestryAssumption
    <3>2. Len(Ancestry[Parent[x]]) <= k
      BY <3>1
    <3>3. Prefixed(Parent[x])
      BY <1>2, <3>1, <3>2
    <3> QED BY <2>2, <3>3, PrefixStep
  <2> QED BY <2>1, <2>2
<1>3. n \in Nat
  BY AncestryShape
<1>4. T \in SUBSET Nat
  OBVIOUS
<1>5. n \in T
  <2> HIDE DEF T
  <2>1. \A k \in 0..n : k \in T /\ k < n => k + 1 \in T
    BY <1>2, <1>3
  <2> HIDE DEF n
  <2>2. \A k \in 0..n : k \in T
    BY <1>1, <1>3, <1>4, <2>1, Upward, Zenon
  <2> QED BY <1>3, <2>2
<1> QED BY <1>3, <1>5

\* A branch begins with the genesis block and each header follows its parent.
LEMMA AncestryLinked ==
    ASSUME NEW h \in Headers
    PROVE  /\ Ancestry[h][1] = Genesis
           /\ \A i \in 2..Len(Ancestry[h]) : Parent[Ancestry[h][i]] = Ancestry[h][i - 1]
<1> DEFINE s == Ancestry[h]
<1>1. s \in Seq(Headers) /\ Len(s) \in Nat \ {0}
  BY AncestryShape
<1>2. \A i \in 1..Len(s) : s[i] \in Headers /\ Ancestry[s[i]] = SubSeq(s, 1, i)
  BY <1>1, PrefixIsAncestry DEF Prefixed
<1> HIDE DEF s
<1>3. ASSUME NEW i \in 1..Len(s), s[i] # Genesis
      PROVE  i > 1 /\ Parent[s[i]] = s[i - 1]
  <2> DEFINE p == Parent[s[i]]
  <2>1. p \in Headers /\ SubSeq(s, 1, i) = Append(Ancestry[p], s[i])
    BY <1>2, <1>3, AncestryAssumption
  <2>2. /\ Ancestry[p] \in Seq(Headers) /\ Len(Ancestry[p]) \in Nat \ {0}
        /\ Ancestry[p][Len(Ancestry[p])] = p
    BY <2>1, AncestryShape
  <2> HIDE DEF p
  <2>3. Len(SubSeq(s, 1, i)) = i
    BY <1>1
  <2>4. Len(Ancestry[p]) = i - 1
    BY <2>1, <2>2, <2>3
  <2>5. SubSeq(s, 1, i)[i - 1] = s[i - 1]
    BY <1>1, <2>2, <2>4
  <2>6. Append(Ancestry[p], s[i])[i - 1] = p
    BY <2>2, <2>4
  <2> QED BY <2>1, <2>2, <2>4, <2>5, <2>6 DEF p
<1>4. s[1] = Genesis
  BY <1>1, <1>3
<1>5. ASSUME NEW i \in 2..Len(s) PROVE s[i] # Genesis
  <2>1. SUFFICES ASSUME s[i] = Genesis PROVE FALSE
    OBVIOUS
  <2>2. i \in 1..Len(s)
    BY <1>1
  <2>3. SubSeq(s, 1, i) = <<Genesis>>
    BY <1>2, <2>1, <2>2, AncestryAssumption
  <2>4. Len(SubSeq(s, 1, i)) = i
    BY <1>1, <2>2
  <2> QED BY <2>3, <2>4
<1>6. \A i \in 2..Len(s) : Parent[s[i]] = s[i - 1]
  BY <1>1, <1>3, <1>5
<1> QED BY <1>4, <1>6 DEF s

\* A chain of checked headers from the genesis block.
Linked(s) == /\ s \in Seq(Headers) /\ Len(s) \in Nat \ {0}
             /\ s = Ancestry[s[Len(s)]] /\ \A i \in 1..Len(s) : s[i] \in Valid

LEMMA LinkedPrefix ==
    ASSUME NEW s, Linked(s), NEW k \in 1..Len(s)
    PROVE  Linked(SubSeq(s, 1, k)) /\ Len(SubSeq(s, 1, k)) = k /\ SubSeq(s, 1, k)[k] = s[k]
<1> DEFINE t == SubSeq(s, 1, k)
<1>1. s \in Seq(Headers) /\ s[Len(s)] \in Headers /\ s[k] \in Headers
  BY DEF Linked
<1>2. t \in Seq(Headers) /\ Len(t) = k /\ \A i \in 1..k : t[i] = s[i]
  BY <1>1 DEF Linked
<1>3. Ancestry[s[k]] = t
  <2>1. Prefixed(s[Len(s)])
    BY <1>1, PrefixIsAncestry
  <2> QED BY <2>1 DEF Prefixed, Linked
<1> HIDE DEF t
<1>4. Linked(t)
  BY <1>2, <1>3 DEF Linked
<1> QED BY <1>2, <1>4 DEF t

LEMMA LinkedAppend ==
    ASSUME NEW s, Linked(s), NEW h \in Valid, Parent[h] = s[Len(s)]
    PROVE  Linked(Append(s, h))
<1>1. s \in Seq(Headers) /\ Len(s) \in Nat \ {0} /\ s[Len(s)] \in Headers
  BY DEF Linked
<1>2. h \in Headers /\ h # Genesis
  BY <1>1, LightAssumption
<1>3. Ancestry[h] = Append(s, h)
  BY <1>2, AncestryAssumption DEF Linked
<1>4. Append(s, h) \in Seq(Headers) /\ Len(Append(s, h)) = Len(s) + 1 /\ Append(s, h)[Len(s) + 1] = h
  BY <1>1, <1>2
<1>5. \A i \in 1..Len(s) + 1 : Append(s, h)[i] \in Valid
  BY <1>1 DEF Linked
<1> QED BY <1>1, <1>3, <1>4, <1>5 DEF Linked

(***************************************************************************)
(* Work                                                                    *)
(***************************************************************************)
IsSum(f, s) == f = [i \in 0..Len(s) |-> IF i = 0 THEN 0 ELSE f[i - 1] + Work[s[i]]]

\* The recursion of SumWork defines a function.
LEMMA SumExists ==
    ASSUME NEW s \in Seq(Headers)
    PROVE  \E f : IsSum(f, s)
<1> DEFINE n == Len(s)
           Upto(f, k) == /\ f = [i \in 0..n |-> f[i]]
                         /\ \A i \in 0..k : f[i] = IF i = 0 THEN 0 ELSE f[i - 1] + Work[s[i]]
           T == {k \in Nat : \E f : Upto(f, k)}
<1>1. n \in Nat
  OBVIOUS
<1> HIDE DEF n
<1>2. 0 \in T
  <2> DEFINE z == [i \in 0..n |-> 0]
  <2>1. Upto(z, 0)
    BY <1>1
  <2> QED BY <2>1
<1>3. ASSUME NEW k \in 0..n, k \in T, k < n PROVE k + 1 \in T
  <2>1. PICK f : Upto(f, k)
    BY <1>3
  <2> DEFINE g == [i \in 0..n |-> IF i = k + 1 THEN f[k] + Work[s[k + 1]] ELSE f[i]]
  <2>2. k \in Nat /\ k \in 0..n /\ k + 1 \in 0..n
    BY <1>1, <1>3
  <2>3. \A i \in 0..k : i \in 0..n /\ i # k + 1 /\ (i # 0 => i - 1 \in 0..k)
    BY <1>1, <1>3
  <2>4. \A i \in 0..k : g[i] = f[i]
    BY <2>3
  <2>5. g[k + 1] = f[k] + Work[s[k + 1]]
    BY <2>2
  <2>6. \A i \in 0..k : g[i] = IF i = 0 THEN 0 ELSE g[i - 1] + Work[s[i]]
    <3> HIDE DEF g
    <3>1. \A i \in 0..k : f[i] = IF i = 0 THEN 0 ELSE f[i - 1] + Work[s[i]]
      BY <2>1
    <3> TAKE i \in 0..k
    <3>2. CASE i = 0
      BY <2>4, <3>1, <3>2
    <3>3. CASE i # 0
      <4>1. i - 1 \in 0..k
        BY <2>3, <3>3
      <4>2. g[i - 1] = f[i - 1] /\ g[i] = f[i]
        BY <2>4, <4>1
      <4> QED BY <3>1, <3>3, <4>2
    <3> QED BY <3>2, <3>3
  <2>7. \A i \in 0..(k + 1) : g[i] = IF i = 0 THEN 0 ELSE g[i - 1] + Work[s[i]]
    <3>1. g[k] = f[k]
      BY <2>2, <2>4
    <3> HIDE DEF g
    <3> TAKE i \in 0..(k + 1)
    <3>2. CASE i = k + 1
      <4>1. (k + 1) - 1 = k /\ k + 1 # 0
        BY <2>2
      <4> QED BY <2>5, <3>1, <3>2, <4>1
    <3>3. CASE i # k + 1
      <4>1. i \in 0..k
        BY <2>2, <3>3
      <4> QED BY <2>6, <4>1
    <3> QED BY <3>2, <3>3
  <2>8. g = [i \in 0..n |-> g[i]]
    OBVIOUS
  <2>9. Upto(g, k + 1)
    <3> HIDE DEF g
    <3> QED BY <2>7, <2>8
  <2> HIDE DEF g, Upto
  <2> QED BY <2>2, <2>9
<1>4. n \in T
  <2> HIDE DEF T
  <2>1. T \in SUBSET Nat
    BY DEF T
  <2>2. \A k \in 0..n : k \in T /\ k < n => k + 1 \in T
    BY <1>3
  <2>3. \A k \in 0..n : k \in T
    BY <1>1, <1>2, <2>1, <2>2, Upward, Zenon
  <2> QED BY <1>1, <2>3
<1>5. PICK f : Upto(f, n)
  BY <1>4
<1>6. f = [i \in 0..n |-> IF i = 0 THEN 0 ELSE f[i - 1] + Work[s[i]]]
  BY <1>5
<1> QED BY <1>6 DEF IsSum, n

\* The running sum of the work of a sequence.
SumOf(s) == CHOOSE f : IsSum(f, s)

LEMMA SumIs ==
    ASSUME NEW s \in Seq(Headers)
    PROVE  /\ SumWork(s) = SumOf(s)[Len(s)]
           /\ SumOf(s)[0] = 0
           /\ \A i \in 1..Len(s) : SumOf(s)[i] = SumOf(s)[i - 1] + Work[s[i]]
           /\ \A i \in 0..Len(s) : SumOf(s)[i] \in Nat
<1> DEFINE f == SumOf(s)
<1>1. IsSum(f, s)
  BY SumExists, Zenon DEF SumOf
<1>2. SumWork(s) = f[Len(s)]
  BY Zenon DEF SumWork, SumOf, IsSum
<1> HIDE DEF f
<1>3. \A i \in 0..Len(s) : f[i] = IF i = 0 THEN 0 ELSE f[i - 1] + Work[s[i]]
  BY <1>1 DEF IsSum
<1>4. f[0] = 0 /\ \A i \in 1..Len(s) : f[i] = f[i - 1] + Work[s[i]]
  BY <1>3
<1>5. \A i \in 1..Len(s) : Work[s[i]] \in Nat
  BY LightAssumption
<1> DEFINE T == {k \in Nat : f[k] \in Nat}
<1>6. \A k \in 0..Len(s) : k \in T /\ k < Len(s) => k + 1 \in T
  <2> TAKE k \in 0..Len(s)
  <2> HAVE k \in T /\ k < Len(s)
  <2>1. k + 1 \in 1..Len(s) /\ (k + 1) - 1 = k /\ k + 1 \in Nat
    OBVIOUS
  <2>2. f[k + 1] = f[k] + Work[s[k + 1]]
    BY <1>4, <2>1
  <2> QED BY <1>5, <2>1, <2>2
<1>7. 0 \in T /\ T \in SUBSET Nat /\ Len(s) \in Nat
  BY <1>4
<1> HIDE DEF T
<1>8. \A k \in 0..Len(s) : k \in T
  BY <1>6, <1>7, Upward, Zenon
<1> QED BY <1>2, <1>4, <1>8 DEF f, T

LEMMA SumNat ==
    ASSUME NEW s \in Seq(Headers)
    PROVE  SumWork(s) \in Nat
BY SumIs

\* The work of two sequences in a row is that of both.
LEMMA SumConcat ==
    ASSUME NEW s \in Seq(Headers), NEW t \in Seq(Headers)
    PROVE  SumWork(s \o t) = SumWork(s) + SumWork(t)
<1> DEFINE u == s \o t
           f == SumOf(s)
           g == SumOf(t)
           e == SumOf(u)
           m == Len(s)
           n == Len(t)
<1>1. /\ u \in Seq(Headers) /\ Len(u) = m + n /\ m \in Nat /\ n \in Nat
      /\ \A i \in 1..m : u[i] = s[i]
      /\ \A i \in 1..n : u[m + i] = t[i]
  OBVIOUS
<1>2. /\ SumWork(s) = f[m] /\ f[0] = 0
      /\ \A i \in 1..m : f[i] = f[i - 1] + Work[s[i]]
      /\ \A i \in 0..m : f[i] \in Nat
  BY SumIs
<1>3. /\ SumWork(t) = g[n] /\ g[0] = 0
      /\ \A i \in 1..n : g[i] = g[i - 1] + Work[t[i]]
      /\ \A i \in 0..n : g[i] \in Nat
  BY SumIs
<1>4. /\ SumWork(u) = e[m + n] /\ e[0] = 0
      /\ \A i \in 1..(m + n) : e[i] = e[i - 1] + Work[u[i]]
  <2> HIDE DEF u
  <2>1. /\ SumWork(u) = e[Len(u)] /\ e[0] = 0
        /\ \A i \in 1..Len(u) : e[i] = e[i - 1] + Work[u[i]]
    BY <1>1, SumIs
  <2> QED BY <1>1, <2>1
<1>5. \A i \in 1..n : Work[t[i]] \in Nat
  BY LightAssumption
<1> HIDE DEF u, f, g, e, m, n
<1>6. e[m] = f[m]
  <2> DEFINE T == {k \in Nat : e[k] = f[k]}
  <2>1. \A k \in 0..m : k \in T /\ k < m => k + 1 \in T
    <3> TAKE k \in 0..m
    <3> HAVE k \in T /\ k < m
    <3>1. k + 1 \in 1..m /\ k + 1 \in 1..(m + n) /\ (k + 1) - 1 = k /\ k + 1 \in Nat
      BY <1>1
    <3>2. e[k + 1] = e[k] + Work[u[k + 1]] /\ f[k + 1] = f[k] + Work[s[k + 1]] /\ u[k + 1] = s[k + 1]
      BY <1>1, <1>2, <1>4, <3>1
    <3> QED BY <3>1, <3>2
  <2>2. 0 \in T /\ T \in SUBSET Nat
    BY <1>2, <1>4
  <2> HIDE DEF T
  <2>3. \A k \in 0..m : k \in T
    BY <1>1, <2>1, <2>2, Upward, Zenon
  <2>4. m \in T
    BY <1>1, <2>3
  <2> QED BY <2>4 DEF T
<1>7. e[m + n] = f[m] + g[n]
  <2> DEFINE T == {k \in Nat : e[m + k] = f[m] + g[k]}
  <2>1. \A k \in 0..n : k \in T /\ k < n => k + 1 \in T
    <3> TAKE k \in 0..n
    <3> HAVE k \in T /\ k < n
    <3>1. /\ k + 1 \in 1..n /\ m + (k + 1) \in 1..(m + n) /\ (k + 1) - 1 = k /\ k + 1 \in Nat
          /\ (m + (k + 1)) - 1 = m + k
      BY <1>1
    <3>2. /\ e[m + (k + 1)] = e[m + k] + Work[u[m + (k + 1)]]
          /\ g[k + 1] = g[k] + Work[t[k + 1]] /\ u[m + (k + 1)] = t[k + 1]
      BY <1>1, <1>3, <1>4, <3>1
    <3>3. f[m] \in Nat
      BY <1>1, <1>2
    <3>4. g[k] \in Nat /\ Work[t[k + 1]] \in Nat
      BY <1>3, <1>5, <3>1
    <3>5. e[m + k] = f[m] + g[k]
      OBVIOUS
    <3>6. \A x, y, z \in Nat : (x + y) + z = x + (y + z)
      OBVIOUS
    <3>7. e[m + (k + 1)] = f[m] + g[k + 1]
      <4>1. (f[m] + g[k]) + Work[t[k + 1]] = f[m] + (g[k] + Work[t[k + 1]])
        BY <3>3, <3>4, <3>6, Zenon
      <4>2. e[m + (k + 1)] = e[m + k] + Work[t[k + 1]]
        BY <3>2, Zenon
      <4> QED BY <3>2, <3>5, <4>1, <4>2, Zenon
    <3> QED BY <3>1, <3>7
  <2>2. 0 \in T /\ T \in SUBSET Nat
    <3>1. m + 0 = m /\ f[m] \in Nat
      BY <1>1, <1>2
    <3> QED BY <1>3, <1>6, <3>1
  <2> HIDE DEF T
  <2>3. \A k \in 0..n : k \in T
    BY <1>1, <2>1, <2>2, Upward, Zenon
  <2>4. n \in T
    BY <1>1, <2>3
  <2> QED BY <2>4 DEF T
<1> QED BY <1>2, <1>3, <1>4, <1>7 DEF u

(***************************************************************************)
(* append_header, and where a batch attaches                               *)
(***************************************************************************)

\* The first k headers of a batch fit on base one after the other and are valid.
Fits(base, hs, k) == \A i \in 1..k : /\ hs[i] \in Valid
                                     /\ Parent[hs[i]] = IF i = 1 THEN base[Len(base)] ELSE hs[i - 1]

\* As many headers of the batch are appended as fit.
LEMMA AppendIs ==
    ASSUME NEW base, NEW hs \in Seq(Headers)
    PROVE  \E k \in 0..Len(hs) : /\ AppendHeaders(base, hs) = base \o SubSeq(hs, 1, k)
                                 /\ Fits(base, hs, k)
                                 /\ k = Len(hs) \/ ~ Fits(base, hs, k + 1)
<1> DEFINE Stop(k) == Fits(base, hs, k) /\ (k = Len(hs) \/ ~ Fits(base, hs, k + 1))
           U == {k \in 0..Len(hs) : k = Len(hs) \/ ~ Fits(base, hs, k + 1)}
<1>1. Len(hs) \in Nat
  OBVIOUS
<1>2. U \in SUBSET Nat /\ U # {}
  BY <1>1
<1>3. PICK x \in U : \A y \in U : x <= y
  BY <1>2, LeastNumber
<1>4. Fits(base, hs, x)
  <2>1. CASE x = 0
    BY <2>1 DEF Fits
  <2>2. CASE x # 0
    <3>1. x - 1 \in 0..Len(hs) /\ x - 1 # Len(hs) /\ (x - 1) + 1 = x /\ ~ (x <= x - 1)
      BY <1>1, <1>3, <2>2
    <3> QED BY <1>3, <3>1
  <2> QED BY <2>1, <2>2
<1>5. x \in 0..Len(hs) /\ Stop(x)
  BY <1>3, <1>4
<1> DEFINE k == CHOOSE y \in 0..Len(hs) : Stop(y)
<1>6. k \in 0..Len(hs) /\ Stop(k)
  <2> HIDE DEF Stop
  <2> QED BY <1>5
<1>7. AppendHeaders(base, hs) = base \o SubSeq(hs, 1, k)
  BY Zenon DEF AppendHeaders, Fits
<1> HIDE DEF k
<1> QED BY <1>6, <1>7

\* Whatever a batch holds, what is appended keeps the chain linked and checked.
LEMMA AppendLinked ==
    ASSUME NEW base, Linked(base), NEW hs \in Seq(Headers)
    PROVE  Linked(AppendHeaders(base, hs))
<1>1. PICK n \in 0..Len(hs) : /\ AppendHeaders(base, hs) = base \o SubSeq(hs, 1, n)
                              /\ Fits(base, hs, n)
  BY AppendIs
<1>2. n \in Nat /\ base \in Seq(Headers) /\ Len(base) \in Nat \ {0}
  BY DEF Linked
<1> DEFINE T == {k \in Nat : Linked(base \o SubSeq(hs, 1, k))}
<1>3. 0 \in T
  <2>1. base \o SubSeq(hs, 1, 0) = base
    BY <1>2
  <2> QED BY <2>1
<1>4. ASSUME NEW k \in 0..n, k \in T, k < n PROVE k + 1 \in T
  <2> DEFINE s == base \o SubSeq(hs, 1, k)
             h == hs[k + 1]
  <2>1. k + 1 \in 1..n /\ k + 1 \in 1..Len(hs) /\ k \in Nat /\ k + 1 \in Nat
    BY <1>4
  <2>2. h \in Valid /\ Parent[h] = IF k + 1 = 1 THEN base[Len(base)] ELSE hs[(k + 1) - 1]
    BY <1>1, <2>1 DEF Fits
  <2>3. base # <<>> /\ k < Len(hs) /\ (k + 1) - 1 = k
    BY <1>2, <2>1
  <2>4. /\ base \o SubSeq(hs, 1, k + 1) = Append(s, h)
        /\ s[Len(s)] = IF k = 0 THEN base[Len(base)] ELSE hs[k]
    BY <1>2, <2>1, <2>3, PartAppend
  <2>5. Parent[h] = s[Len(s)]
    <3> HIDE DEF s, h
    <3> QED BY <2>1, <2>2, <2>3, <2>4
  <2>6. Linked(Append(s, h))
    <3> HIDE DEF s, h
    <3>1. Linked(s)
      BY <1>4 DEF s
    <3> QED BY <2>2, <2>5, <3>1, LinkedAppend
  <2> QED BY <2>1, <2>4, <2>6
<1>5. T \in SUBSET Nat
  OBVIOUS
<1> HIDE DEF T
<1>6. \A k \in 0..n : k \in T /\ k < n => k + 1 \in T
  BY <1>4
<1>7. \A k \in 0..n : k \in T
  BY <1>2, <1>3, <1>5, <1>6, Upward, Zenon
<1>8. n \in T
  BY <1>2, <1>7
<1> QED BY <1>1, <1>8 DEF T

\* A batch attaches to our tip, or to a header below it when it shows more work
\* than the headers it would replace.
LEMMA BaseIs ==
    ASSUME Linked(chain), NEW hs \in Seq(Headers), Base(hs) # <<>>
    PROVE  \E k \in 1..Len(chain) :
              /\ Base(hs) = SubSeq(chain, 1, k) /\ chain[k] = Parent[hs[1]] /\ hs # <<>>
              /\ k = Len(chain) \/ SumWork(hs) > SumWork(SubSeq(chain, k + 1, Len(chain)))
<1> DEFINE at == {k \in DOMAIN chain : hs # <<>> /\ chain[k] = Parent[hs[1]]}
           fork == CHOOSE k \in at : TRUE
           ours == SubSeq(chain, fork + 1, Len(chain))
<1>1. chain \in Seq(Headers) /\ Len(chain) \in Nat \ {0} /\ DOMAIN chain = 1..Len(chain)
  BY DEF Linked
<1>2. /\ at # {}
      /\ Base(hs) = IF ours = <<>> THEN chain
                    ELSE IF SumWork(hs) <= SumWork(ours) \/ Len(ours) > MaxReorg THEN <<>>
                    ELSE SubSeq(chain, 1, fork)
  BY DEF Base
<1>3. PICK f \in at : f = fork
  BY <1>2
<1>4. f \in 1..Len(chain) /\ chain[f] = Parent[hs[1]] /\ hs # <<>>
  BY <1>1, <1>3
<1> DEFINE mine == SubSeq(chain, f + 1, Len(chain))
<1>8. mine = ours
  BY <1>3
<1> HIDE DEF fork, at, ours
<1>5. /\ mine \in Seq(Headers) /\ SumWork(mine) \in Nat /\ SumWork(hs) \in Nat
      /\ Len(mine) = 0 => f = Len(chain)
  <2>1. mine \in Seq(Headers) /\ (Len(mine) = 0 => f = Len(chain))
    BY <1>1, <1>4, Rest, Zenon
  <2>2. SumWork(mine) \in Nat /\ SumWork(hs) \in Nat
    BY <2>1, SumNat, Zenon
  <2> QED BY <2>1, <2>2
<1>6. CASE mine = <<>>
  <2>1. Len(mine) = 0
    <3>1. Len(<<>>) = 0
      OBVIOUS
    <3> QED BY <1>6, <3>1, Zenon
  <2>2. f = Len(chain)
    BY <1>5, <2>1, Zenon
  <2>3. SubSeq(chain, 1, f) = chain
    BY <1>1, <2>2
  <2> QED BY <1>2, <1>4, <1>6, <1>8, <2>2, <2>3
<1>7. CASE mine # <<>>
  <2>1. ~ (SumWork(hs) <= SumWork(mine)) /\ Base(hs) = SubSeq(chain, 1, f)
    <3> HIDE DEF mine
    <3> QED BY <1>2, <1>3, <1>7, <1>8
  <2>2. SumWork(hs) > SumWork(mine)
    <3> HIDE DEF mine
    <3> QED BY <1>5, <2>1
  <2> QED BY <1>4, <2>1, <2>2
<1> QED BY <1>6, <1>7

(***************************************************************************)
(* What peers send                                                         *)
(***************************************************************************)
Chained(hs) == \A i \in 2..Len(hs) : Parent[hs[i]] = hs[i - 1]

Proofs == [coin : Coins, at : Headers]
Found == [coin : Coins, at : Headers \union {NoHeader}]

HeadersMessage == [type : {"headers"}, announced : BOOLEAN, hs : {hs \in Seq(Headers) : Chained(hs)}]
UtxosMessage == [type : {"utxos"}, proofs : SUBSET Proofs, pending : SUBSET Coins, unconfirmed : SUBSET Coins]
Message == HeadersMessage \union UtxosMessage

\* A peer answers a request for headers with a linked part of its branch: the
\* two chains have at least the genesis block in common.
LEMMA HeadersReplyIs ==
    ASSUME NEW p, theirTip[p] \in Headers, NEW ours, Linked(ours)
    PROVE  HeadersReply(p, ours) \in HeadersMessage
<1> DEFINE s == Ancestry[theirTip[p]]
           Common(k) == /\ s[k] \in Range(ours)
                        /\ \A j \in k + 1 .. Len(s) : s[j] \notin Range(ours)
           fork == CHOOSE k \in 1..Len(s) : Common(k)
           last == IF fork + Batch < Len(s) THEN fork + Batch ELSE Len(s)
           hs == SubSeq(s, fork + 1, last)
<1>1. /\ s \in Seq(Headers) /\ Len(s) \in Nat \ {0} /\ s[1] = Genesis
      /\ \A i \in 2..Len(s) : Parent[s[i]] = s[i - 1]
  BY AncestryShape, AncestryLinked
<1>2. HeadersReply(p, ours) = [type |-> "headers", announced |-> FALSE, hs |-> hs]
  BY DEF HeadersReply
<1>3. Genesis \in Range(ours)
  <2>1. ours \in Seq(Headers) /\ Len(ours) \in Nat \ {0} /\ ours[Len(ours)] \in Headers
    BY DEF Linked
  <2>2. ours[1] = Genesis
    BY <2>1, AncestryLinked DEF Linked
  <2> QED BY <2>1, <2>2 DEF Range
<1> HIDE DEF s
<1>4. \E k \in 1..Len(s) : Common(k)
  <2> DEFINE U == {k \in 0..Len(s) : k > 0 /\ s[k] \in Range(ours)}
  <2>1. U \in SUBSET (0..Len(s)) /\ U # {} /\ Len(s) \in Nat
    BY <1>1, <1>3
  <2>2. PICK x \in U : \A y \in U : y <= x
    BY <2>1, GreatestNumber
  <2>3. x \in 1..Len(s) /\ s[x] \in Range(ours)
    BY <1>1, <2>2
  <2>4. ASSUME NEW j \in x + 1 .. Len(s) PROVE s[j] \notin Range(ours)
    <3>1. j \in 0..Len(s) /\ j > 0 /\ ~ (j <= x)
      BY <1>1, <2>3
    <3> QED BY <2>2, <3>1
  <2> QED BY <2>3, <2>4
<1>5. fork \in 1..Len(s)
  <2> HIDE DEF Common
  <2> QED BY <1>4
<1> HIDE DEF fork
<1>6. last \in Nat /\ fork <= last /\ last <= Len(s)
  BY <1>1, <1>5, LightAssumption
<1> HIDE DEF last
<1>7. /\ hs \in Seq(Headers) /\ Len(hs) = last - fork
      /\ \A i \in 1..(last - fork) : hs[i] = s[fork + i]
  BY <1>1, <1>5, <1>6
<1>8. Chained(hs)
  <2> HIDE DEF hs
  <2> SUFFICES ASSUME NEW i \in 2..(last - fork) PROVE Parent[hs[i]] = hs[i - 1]
    BY <1>7 DEF Chained
  <2>1. /\ i \in 1..(last - fork) /\ i - 1 \in 1..(last - fork) /\ fork + i \in 2..Len(s)
        /\ fork + (i - 1) = (fork + i) - 1
    BY <1>1, <1>5, <1>6
  <2>2. hs[i] = s[fork + i] /\ hs[i - 1] = s[(fork + i) - 1]
    BY <1>7, <2>1
  <2> QED BY <1>1, <2>1, <2>2
<1> HIDE DEF hs
<1> QED BY <1>2, <1>7, <1>8 DEF HeadersMessage

\* A peer proves the confirmed coins it names, and says of which of them it has a
\* spend pending.
LEMMA UtxosReplyIs ==
    ASSUME NEW p \in Peers, theirTip[p] \in Headers, pool \in [Peers -> SUBSET Txs]
    PROVE  UtxosReply(p) \in UtxosMessage /\ UtxosReply(p).pending = Pending(p)
<1> DEFINE s == Ancestry[theirTip[p]]
           proofs == {[coin |-> c, at |-> CreatedBy(s, c)] : c \in Utxos(s)}
           unconfirmed == MadeBy(pool[p]) \ SpentBy(pool[p])
<1>1. s \in Seq(Headers)
  BY AncestryShape
<1>2. UtxosReply(p) = [type |-> "utxos", proofs |-> proofs, pending |-> Pending(p), unconfirmed |-> unconfirmed]
  BY DEF UtxosReply
<1> HIDE DEF s
<1>3. ASSUME NEW c \in Utxos(s)
      PROVE  c \in Coins /\ CreatedBy(s, c) \in Headers
  <2>1. c \in Coins /\ \E i \in DOMAIN s : c \in Pays(s[i])
    BY <1>3 DEF Utxos
  <2> DEFINE i == CHOOSE i \in DOMAIN s : c \in Pays(s[i])
  <2>2. i \in DOMAIN s
    BY <2>1
  <2>3. CreatedBy(s, c) = s[i]
    BY DEF CreatedBy
  <2> HIDE DEF i
  <2> QED BY <1>1, <2>1, <2>2, <2>3
<1>4. proofs \in SUBSET Proofs
  BY <1>3 DEF Proofs
<1>5. Pending(p) \in SUBSET Coins
  BY DEF Pending, Utxos
<1>6. unconfirmed \in SUBSET Coins
  <2>1. \A t \in pool[p] : Outs[t] \subseteq Coins
    BY LightAssumption
  <2> QED BY <2>1 DEF MadeBy
<1> HIDE DEF proofs, unconfirmed
<1> QED BY <1>2, <1>4, <1>5, <1>6 DEF UtxosMessage

\* What holds of every stream, and what a step does to one of them.
LEMMA MessageIs ==
    ASSUME NEW m \in Message
    PROVE  /\ m.type = "headers" => m \in HeadersMessage
           /\ m.type = "utxos" => m \in UtxosMessage
BY DEF Message, HeadersMessage, UtxosMessage

\* exchange finds the first message of the wanted type, if there is one.
LEMMA PositionIs ==
    ASSUME NEW p, stream[p] \in Seq(Message), NEW type
    PROVE  /\ Position(p, type) \in 0..Len(stream[p])
           /\ Position(p, type) > 0 =>
                 /\ Position(p, type) \in 1..Len(stream[p])
                 /\ Answer(p, type) = stream[p][Position(p, type)]
                 /\ Answer(p, type) \in Message /\ Answer(p, type).type = type
<1> DEFINE s == stream[p]
           at == {i \in DOMAIN s : s[i].type = type}
<1>1. Position(p, type) = IF at = {} THEN 0 ELSE CHOOSE i \in at : \A j \in at : i <= j
  BY DEF Position
<1>2. Answer(p, type) = s[Position(p, type)]
  BY DEF Answer
<1>3. s \in Seq(Message) /\ DOMAIN s = 1..Len(s) /\ Len(s) \in Nat
  OBVIOUS
<1> HIDE DEF s
<1>4. at \in SUBSET Nat /\ \A i \in at : i \in 1..Len(s) /\ s[i].type = type /\ s[i] \in Message
  BY <1>3
<1> HIDE DEF at
<1>5. CASE at = {}
  BY <1>1, <1>3, <1>5 DEF s
<1>6. CASE at # {}
  <2>1. \E i \in at : \A j \in at : i <= j
    BY <1>4, <1>6, LeastNumber
  <2>2. Position(p, type) \in at
    BY <1>1, <1>6, <2>1
  <2>3. Position(p, type) \in 1..Len(s) /\ s[Position(p, type)].type = type /\ s[Position(p, type)] \in Message
    BY <1>4, <2>2
  <2>4. Position(p, type) \in 0..Len(s)
    BY <1>3, <2>3
  <2> QED BY <1>2, <2>3, <2>4 DEF s
<1> QED BY <1>5, <1>6

\* What is left on a stream after reading is the end of it.
LEMMA UnreadIs ==
    ASSUME NEW p, stream[p] \in Seq(Message), NEW type
    PROVE  /\ Unread(p, type) \in Seq(Message)
           /\ Len(Unread(p, type)) = Len(stream[p]) - Position(p, type)
           /\ \A i \in 1..Len(Unread(p, type)) :
                 Unread(p, type)[i] = stream[p][Position(p, type) + i]
<1> DEFINE s == stream[p]
<1>1. PICK k \in 0..Len(s) : k = Position(p, type)
  BY PositionIs
<1>2. PICK n \in Nat : n = Len(s)
  OBVIOUS
<1>3. n \in k..Len(s)
  BY <1>1, <1>2
<1>4. Unread(p, type) = SubSeq(s, k + 1, n)
  BY <1>1, <1>2, Zenon DEF Unread
<1>5. s \in Seq(Message)
  OBVIOUS
<1> HIDE DEF s
<1>6. /\ SubSeq(s, k + 1, n) \in Seq(Message) /\ Len(SubSeq(s, k + 1, n)) = n - k
      /\ \A i \in 1..(n - k) : SubSeq(s, k + 1, n)[i] = s[k + i]
  BY <1>3, <1>5, Part
<1> QED BY <1>1, <1>2, <1>4, <1>6, Zenon DEF s

\* Every suffix of a stream is the stream after some number of messages.
LEMMA SuffixIs ==
    ASSUME NEW s \in Seq(Message), NEW t \in Suffixes(s)
    PROVE  /\ t \in Seq(Message)
           /\ \E k \in 0..Len(s) : /\ Len(t) = Len(s) - k
                                   /\ \A i \in 1..Len(t) : t[i] = s[k + i]
<1>1. CASE t = <<>>
  <2>1. <<>> \in Seq(Message) /\ Len(<<>>) = 0 /\ Len(s) \in 0..Len(s) /\ Len(s) - Len(s) = 0
    OBVIOUS
  <2> QED BY <1>1, <2>1
<1>2. CASE t # <<>>
  <2>1. PICK l \in 1..Len(s) : t = SubSeq(s, l, Len(s))
    BY <1>2 DEF Suffixes
  <2>2. PICK n \in Nat : n = Len(s)
    OBVIOUS
  <2>3. PICK k \in 0..Len(s) : l = k + 1 /\ n \in k..Len(s)
    <3>1. l - 1 \in 0..Len(s) /\ l = (l - 1) + 1 /\ n \in (l - 1)..Len(s)
      BY <2>2
    <3> QED BY <3>1
  <2>4. /\ SubSeq(s, k + 1, n) \in Seq(Message) /\ Len(SubSeq(s, k + 1, n)) = n - k
        /\ \A i \in 1..(n - k) : SubSeq(s, k + 1, n)[i] = s[k + i]
    BY <2>3, Part
  <2>5. t \in Seq(Message) /\ Len(t) = Len(s) - k /\ \A i \in 1..Len(t) : t[i] = s[k + i]
    BY <2>1, <2>2, <2>3, <2>4, Zenon
  <2> QED BY <2>5
<1> QED BY <1>1, <1>2

\* The peer that is asked for headers is one of those connected.
LEMMA BestPeerIs ==
    ASSUME peers \in Seq(Peers), peers # <<>>, claimed \in [Peers -> Nat]
    PROVE  BestPeer \in Peers /\ BestPeer \in Range(peers)
<1> DEFINE top == {i \in DOMAIN peers : \A j \in DOMAIN peers : claimed[peers[j]] <= claimed[peers[i]]}
<1>1. Len(peers) \in Nat \ {0} /\ DOMAIN peers = 1..Len(peers)
  BY EmptySeq
<1>2. \A i \in DOMAIN peers : peers[i] \in Peers /\ claimed[peers[i]] \in Nat
  OBVIOUS
<1>3. top # {}
  <2> DEFINE Best1(k) == \E i \in 1..Len(peers) : /\ i <= k
                            /\ \A j \in 1..Len(peers) : j <= k => claimed[peers[j]] <= claimed[peers[i]]
             T == {k \in Nat : k = 0 \/ Best1(k)}
  <2>1. \A k \in 0..Len(peers) : k \in T /\ k < Len(peers) => k + 1 \in T
    <3> TAKE k \in 0..Len(peers)
    <3> HAVE k \in T /\ k < Len(peers)
    <3>1. k + 1 \in 1..Len(peers) /\ k + 1 \in Nat /\ \A j \in 1..Len(peers) : j <= k + 1 <=> (j <= k \/ j = k + 1)
      BY <1>1
    <3>2. CASE k = 0
      <4>1. \A j \in 1..Len(peers) : j <= k + 1 => j = k + 1
        BY <1>1, <3>2
      <4>2. claimed[peers[k + 1]] <= claimed[peers[k + 1]]
        BY <1>1, <1>2, <3>1
      <4>3. Best1(k + 1)
        BY <3>1, <4>1, <4>2
      <4> QED BY <3>1, <4>3
    <3>3. CASE k # 0
      <4>1. PICK i \in 1..Len(peers) : /\ i <= k
                      /\ \A j \in 1..Len(peers) : j <= k => claimed[peers[j]] <= claimed[peers[i]]
        BY <3>3
      <4>2. i <= k + 1 /\ claimed[peers[i]] \in Nat /\ claimed[peers[k + 1]] \in Nat
        BY <1>1, <1>2, <3>1, <4>1
      <4>3. CASE claimed[peers[k + 1]] <= claimed[peers[i]]
        <5>1. \A j \in 1..Len(peers) : j <= k + 1 => claimed[peers[j]] <= claimed[peers[i]]
          BY <3>1, <4>1, <4>3
        <5>2. Best1(k + 1)
          BY <4>2, <5>1
        <5> QED BY <3>1, <5>2
      <4>4. CASE ~ (claimed[peers[k + 1]] <= claimed[peers[i]])
        <5>1. ASSUME NEW j \in 1..Len(peers), j <= k + 1
              PROVE  claimed[peers[j]] <= claimed[peers[k + 1]]
          <6>1. claimed[peers[j]] \in Nat
            BY <1>1, <1>2
          <6>2. j = k + 1 \/ claimed[peers[j]] <= claimed[peers[i]]
            BY <3>1, <4>1, <5>1
          <6> QED BY <4>2, <4>4, <6>1, <6>2
        <5>2. k + 1 <= k + 1
          BY <3>1
        <5>3. Best1(k + 1)
          BY <3>1, <5>1, <5>2
        <5> QED BY <3>1, <5>3
      <4> QED BY <4>3, <4>4
    <3> QED BY <3>2, <3>3
  <2>2. 0 \in T /\ T \in SUBSET Nat /\ Len(peers) \in Nat
    BY <1>1
  <2> HIDE DEF T
  <2>3. \A k \in 0..Len(peers) : k \in T
    BY <2>1, <2>2, Upward, Zenon
  <2>4. Best1(Len(peers))
    <3>1. Len(peers) \in 0..Len(peers) /\ Len(peers) # 0
      BY <1>1
    <3>2. Len(peers) \in T
      BY <2>3, <3>1
    <3> HIDE DEF Best1
    <3> QED BY <3>1, <3>2 DEF T
  <2>5. PICK i \in 1..Len(peers) : \A j \in 1..Len(peers) : j <= Len(peers) => claimed[peers[j]] <= claimed[peers[i]]
    BY <2>4
  <2>6. \A j \in 1..Len(peers) : j <= Len(peers)
    BY <1>1
  <2> QED BY <1>1, <2>5, <2>6
<1>4. top \in SUBSET Nat
  BY <1>1
<1> DEFINE b == CHOOSE i \in top : \A j \in top : i <= j
<1>5. b \in top
  <2> HIDE DEF top
  <2>1. \E i \in top : \A j \in top : i <= j
    BY <1>3, <1>4, LeastNumber
  <2> QED BY <2>1
<1>6. BestPeer = peers[b]
  BY DEF BestPeer
<1>7. b \in DOMAIN peers
  BY <1>5
<1> HIDE DEF b
<1> QED BY <1>2, <1>6, <1>7 DEF Range

(***************************************************************************)
(* The invariant behind ChainValid                                         *)
(***************************************************************************)
Call == {Idle} \union [op : {"headers"}, peer : Peers]
               \union [op : {"utxos"}, i : Nat, coins : SUBSET Found, pending : SUBSET Coins, answered : BOOLEAN]
WalletCoins == [coin : Coins, at : Headers \union {NoHeader}, locked : BOOLEAN]

\* The two ends of a chain's story stay well-formed only together with what is on
\* the streams: a chain is built from messages that were sent long ago.
PeersInv == /\ theirTip \in [Peers -> Headers] /\ claimed \in [Peers -> Nat]
            /\ peers \in Seq(Peers) /\ IsFiniteSet(Range(peers))
            /\ Len(peers) = Cardinality(Range(peers))
StreamInv == stream \in [Peers -> Seq(Message)]
CallInv == call \in Call /\ (call.op = "utxos" => call.i \in 1..Len(peers))
CoinInv == /\ pool \in [Peers -> SUBSET Txs] /\ wallet \subseteq WalletCoins
           /\ late \subseteq Peers /\ timeouts \in 0..MaxTimeouts
\* What was pending all the while is pending now.
HeldInv == held \in [Peers -> SUBSET Coins] /\ \A p \in Peers : held[p] \subseteq Pending(p)
HeaderInv == Linked(chain) /\ Linked(file)
LInv == PeersInv /\ StreamInv /\ CallInv /\ CoinInv /\ HeldInv /\ HeaderInv

\* The kinds of exchange.
LEMMA CallIs ==
    ASSUME CallInv
    PROVE  /\ call = Idle => call.op = "none"
           /\ call.op = "headers" => call.peer \in Peers
           /\ call.op = "utxos" =>
                 /\ call.i \in 1..Len(peers) /\ call.coins \in SUBSET Found
                 /\ call.pending \in SUBSET Coins /\ call.answered \in BOOLEAN
BY DEF CallInv, Call, Idle

\* Nothing pending is held before the first refresh and after each.
LEMMA NoneHeldIs ==
    ASSUME held' = NoneHeld
    PROVE  HeldInv'
BY DEF HeldInv, NoneHeld

\* What a peer reports as pending grows with its mempool.
LEMMA PendingGrows ==
    ASSUME HeldInv, NEW P, P \in [Peers -> SUBSET Txs], pool' = P,
           \A p \in Peers : pool[p] \subseteq P[p],
           UNCHANGED <<theirTip, held>>
    PROVE  HeldInv'
<1>1. ASSUME NEW p \in Peers PROVE Pending(p) \subseteq Pending(p)'
  BY DEF Pending, SpentBy
<1> QED BY <1>1 DEF HeldInv

LEMMA HeldStays ==
    ASSUME HeldInv, UNCHANGED <<theirTip, pool, held>>
    PROVE  HeldInv'
BY DEF HeldInv, Pending

LEMMA LInvInit == Init => LInv
<1> SUFFICES ASSUME Init PROVE LInv
  OBVIOUS
<1>1. <<>> \in Seq(Peers) /\ Range(<<>>) = {} /\ Len(<<>>) = 0 /\ <<>> \in Seq(Message)
  BY DEF Range
<1>2. PeersInv
  <2>1. IsFiniteSet({}) /\ Cardinality({}) = 0
    BY FS_EmptySet
  <2>2. theirTip \in [Peers -> Headers] /\ claimed \in [Peers -> Nat] /\ peers = <<>>
    BY LightAssumption DEF Init
  <2> QED BY <1>1, <2>1, <2>2, Zenon DEF PeersInv
<1>3. StreamInv
  BY <1>1 DEF Init, StreamInv
<1>4. CallInv /\ CoinInv /\ HeldInv
  BY LightAssumption DEF Init, CallInv, CoinInv, Call, Idle, HeldInv, NoneHeld
<1>5. Linked(<<Genesis>>)
  BY LightAssumption, AncestryAssumption DEF Linked
<1> QED BY <1>2, <1>3, <1>4, <1>5 DEF Init, LInv, HeaderInv

\* A step that adds a message to a stream, or replaces one by what is unread and a
\* message, keeps the streams well-formed.
LEMMA StreamKeeps ==
    ASSUME StreamInv, NEW p \in Peers, NEW s \in Seq(Message)
    PROVE  /\ \A m \in Message : [stream EXCEPT ![p] = Append(@, m)] \in [Peers -> Seq(Message)]
           /\ [stream EXCEPT ![p] = s] \in [Peers -> Seq(Message)]
           /\ \A m \in Message : Append(s, m) \in Seq(Message)
           /\ stream[p] \in Seq(Message)
BY DEF StreamInv

LEMMA ReplyKeeps ==
    ASSUME LInv, NEW p \in Peers
    PROVE  /\ UtxosReply(p) \in Message /\ stream[p] \in Seq(Message)
           /\ \A ours : Linked(ours) => HeadersReply(p, ours) \in Message
<1>1. theirTip[p] \in Headers /\ pool \in [Peers -> SUBSET Txs] /\ stream[p] \in Seq(Message)
  BY DEF LInv, PeersInv, StreamInv, CoinInv
<1>2. UtxosReply(p) \in UtxosMessage
  BY <1>1, UtxosReplyIs
<1>3. \A ours : Linked(ours) => HeadersReply(p, ours) \in HeadersMessage
  BY <1>1, HeadersReplyIs
<1> QED BY <1>1, <1>2, <1>3 DEF Message

LEMMA PeerAt ==
    ASSUME LInv, NEW i \in 1..Len(peers)
    PROVE  peers[i] \in Peers
BY DEF LInv, PeersInv

\* The batch that has arrived.
LEMMA BatchIs ==
    ASSUME LInv, NEW p \in Peers, Position(p, "headers") > 0
    PROVE  Answer(p, "headers").hs \in Seq(Headers) /\ Chained(Answer(p, "headers").hs)
<1>1. stream[p] \in Seq(Message)
  BY DEF LInv, StreamInv
<1>2. Answer(p, "headers") \in Message /\ Answer(p, "headers").type = "headers"
  BY <1>1, PositionIs
<1>3. Answer(p, "headers") \in HeadersMessage
  BY <1>2, MessageIs
<1> QED BY <1>3 DEF HeadersMessage

LEMMA LInvPeerMoves ==
    ASSUME LInv, NEW p \in Peers, PeerMoves(p)
    PROVE  LInv'
<1>1. PICK h \in Views[p] :
         /\ theirTip' = [theirTip EXCEPT ![p] = h]
         /\ stream' = IF p \notin Range(peers) THEN stream
                      ELSE [stream EXCEPT ![p] = Append(@, [type |-> "headers", announced |-> TRUE, hs |-> <<h>>])]
  BY DEF PeerMoves
<1>2. h \in Headers
  BY LightAssumption
<1>3. [type |-> "headers", announced |-> TRUE, hs |-> <<h>>] \in Message
  <2>1. <<h>> \in Seq(Headers) /\ Chained(<<h>>)
    BY <1>2 DEF Chained
  <2> QED BY <2>1 DEF Message, HeadersMessage
<1>4. StreamInv'
  <2>1. StreamInv
    BY DEF LInv
  <2>2. \A m \in Message : [stream EXCEPT ![p] = Append(@, m)] \in [Peers -> Seq(Message)]
    BY <2>1 DEF StreamInv
  <2>3. stream' \in [Peers -> Seq(Message)]
    BY <1>1, <1>3, <2>1, <2>2 DEF StreamInv
  <2> QED BY <2>3 DEF StreamInv
<1>5. UNCHANGED <<peers, claimed, chain, file, wallet, call, late, timeouts>>
  BY DEF PeerMoves
<1>6. PeersInv'
  BY <1>1, <1>2, <1>5 DEF LInv, PeersInv
<1>7. PICK ts : pool' = [pool EXCEPT ![p] = ts] /\ ts \in SUBSET (pool[p] \union Confirmed(Ancestry[theirTip[p]]))
  BY DEF PeerMoves
<1>8. pool \in [Peers -> SUBSET Txs] /\ theirTip \in [Peers -> Headers]
  BY DEF LInv, PeersInv, CoinInv
<1>9. Confirmed(Ancestry[theirTip[p]]) \subseteq Txs
  <2>1. Ancestry[theirTip[p]] \in Seq(Headers)
    BY <1>8, AncestryShape
  <2> QED BY <2>1, LightAssumption DEF Confirmed
<1>10. CoinInv'
  BY <1>5, <1>7, <1>8, <1>9 DEF LInv, CoinInv
<1>11. HeldInv'
  <2>1. held' = [held EXCEPT ![p] = @ \intersect Pending(p)']
    BY DEF PeerMoves
  <2>2. held \in [Peers -> SUBSET Coins] /\ \A q \in Peers : held[q] \subseteq Pending(q)
    BY DEF LInv, HeldInv
  <2>3. held' \in [Peers -> SUBSET Coins] /\ held'[p] \subseteq Pending(p)'
    BY <2>1, <2>2
  <2>4. ASSUME NEW q \in Peers \ {p} PROVE held'[q] = held[q] /\ Pending(q)' = Pending(q)
    <3>1. theirTip'[q] = theirTip[q] /\ pool'[q] = pool[q]
      BY <1>1, <1>7, <1>8
    <3> QED BY <2>1, <2>2, <3>1 DEF Pending
  <2> QED BY <2>2, <2>3, <2>4 DEF HeldInv
<1> QED BY <1>4, <1>5, <1>6, <1>10, <1>11 DEF LInv, CallInv, HeaderInv

LEMMA LInvTxArrives ==
    ASSUME LInv, NEW p \in Peers, TxArrives(p)
    PROVE  LInv'
<1>1. PICK t \in Txs : pool' = [pool EXCEPT ![p] = @ \union {t}]
  BY DEF TxArrives
<1>2. UNCHANGED <<theirTip, peers, claimed, stream, chain, file, wallet, call, late, held, timeouts>>
  BY DEF TxArrives, peerVars, history
<1>3. pool' \in [Peers -> SUBSET Txs] /\ \A q \in Peers : pool[q] \subseteq pool'[q]
  BY <1>1 DEF LInv, CoinInv
<1>4. HeldInv'
  BY <1>2, <1>3, PendingGrows DEF LInv
<1> QED BY <1>2, <1>3, <1>4 DEF LInv, PeersInv, StreamInv, CallInv, CoinInv, HeaderInv

LEMMA LInvConnect ==
    ASSUME LInv, NEW p \in Peers, Connect(p)
    PROVE  LInv'
<1>1. /\ p \notin Range(peers) /\ peers' = Append(peers, p) /\ call = Idle
      /\ claimed' = [claimed EXCEPT ![p] = Len(Ancestry[theirTip[p]]) - 1]
      /\ UNCHANGED <<theirTip, pool, stream, chain, file, wallet, call, late, held, timeouts>>
  BY DEF Connect, history
<1>2. peers \in Seq(Peers) /\ IsFiniteSet(Range(peers)) /\ Len(peers) = Cardinality(Range(peers))
  BY DEF LInv, PeersInv
<1>3. Range(Append(peers, p)) = Range(peers) \union {p}
  BY <1>2, RangeAppend
<1>4. IsFiniteSet(Range(peers')) /\ Cardinality(Range(peers')) = Cardinality(Range(peers)) + 1
  BY <1>1, <1>2, <1>3, FS_AddElement
<1>5. peers' \in Seq(Peers) /\ Len(peers') = Len(peers) + 1
  BY <1>1, <1>2
<1>6. claimed' \in [Peers -> Nat]
  <2>1. theirTip[p] \in Headers /\ claimed \in [Peers -> Nat]
    BY DEF LInv, PeersInv
  <2>2. Len(Ancestry[theirTip[p]]) - 1 \in Nat
    BY <2>1, AncestryShape
  <2> QED BY <1>1, <2>1, <2>2
<1>7. PeersInv'
  BY <1>1, <1>2, <1>4, <1>5, <1>6 DEF LInv, PeersInv
<1>8. CallInv'
  BY <1>1 DEF CallInv, Call, Idle
<1> QED BY <1>1, <1>7, <1>8, HeldStays DEF LInv, StreamInv, CoinInv, HeaderInv

LEMMA LInvRestart ==
    ASSUME LInv, Restart
    PROVE  LInv'
<1>1. /\ peers' = <<>> /\ stream' = [p \in Peers |-> <<>>] /\ chain' = file /\ call' = Idle
      /\ late' = {} /\ held' = NoneHeld /\ UNCHANGED <<theirTip, pool, claimed, file, wallet, timeouts>>
  BY DEF Restart, LoadHeaders
<1>2. <<>> \in Seq(Peers) /\ Range(<<>>) = {} /\ Len(<<>>) = 0 /\ <<>> \in Seq(Message)
  BY DEF Range
<1>3. IsFiniteSet({}) /\ Cardinality({}) = 0
  BY FS_EmptySet
<1>4. PeersInv'
  <2>1. theirTip \in [Peers -> Headers] /\ claimed \in [Peers -> Nat]
    BY DEF LInv, PeersInv
  <2> QED BY <1>1, <1>2, <1>3, <2>1, Zenon DEF PeersInv
<1>5. StreamInv' /\ CallInv'
  BY <1>1, <1>2 DEF StreamInv, CallInv, Call, Idle
<1> QED BY <1>1, <1>4, <1>5, NoneHeldIs DEF LInv, CoinInv, HeaderInv

\* A wallet that is replaced holds coins that were found.
LEMMA WalletCoin ==
    ASSUME NEW c \in Coins, NEW h \in Headers \union {NoHeader}, NEW P
    PROVE  [coin |-> c, at |-> h, locked |-> c \in P] \in WalletCoins
BY DEF WalletCoins

\* On to the next peer, or the end.
NextAsked(s, coins, pending, answered) ==
    \E q \in Peers :
       /\ call.i + 1 \in 1..Len(peers) /\ q = peers[call.i + 1]
       /\ call' = [op |-> "utxos", i |-> call.i + 1, coins |-> coins, pending |-> pending,
                   answered |-> answered]
       /\ stream' = [s EXCEPT ![q] = Append(@, UtxosReply(q))]
       /\ UNCHANGED <<wallet, held>>
AllAsked(s, coins, pending, answered) ==
    /\ call.i = Len(peers) /\ call' = Idle /\ stream' = s /\ held' = NoneHeld
    /\ wallet' = IF answered THEN Locked(coins, pending) ELSE wallet

LEMMA MoveOnIs ==
    ASSUME LInv, call.op = "utxos", NEW s \in [Peers -> Seq(Message)], NEW coins \in SUBSET Found,
           NEW pending \in SUBSET Coins, NEW answered \in BOOLEAN,
           MoveOn(s, coins, pending, answered)
    PROVE  NextAsked(s, coins, pending, answered) \/ AllAsked(s, coins, pending, answered)
<1>1. call.i \in 1..Len(peers) /\ Len(peers) \in Nat
  BY CallIs DEF LInv, PeersInv
<1>2. CASE call.i < Len(peers)
  <2>1. call.i + 1 \in 1..Len(peers)
    BY <1>1, <1>2
  <2>2. PICK q \in Peers : q = peers[call.i + 1]
    BY <2>1, PeerAt
  <2> QED BY <1>2, <2>1, <2>2 DEF MoveOn, NextAsked
<1>3. CASE ~ (call.i < Len(peers))
  <2>1. call.i = Len(peers)
    BY <1>1, <1>3
  <2> QED BY <1>3, <2>1 DEF MoveOn, AllAsked
<1> QED BY <1>2, <1>3

LEMMA LInvMoveOn ==
    ASSUME LInv, call.op = "utxos", NEW s \in [Peers -> Seq(Message)], NEW coins \in SUBSET Found,
           NEW pending \in SUBSET Coins, NEW answered \in BOOLEAN,
           MoveOn(s, coins, pending, answered),
           late' \subseteq Peers, timeouts' \in 0..MaxTimeouts,
           UNCHANGED <<theirTip, peers, claimed, pool, chain, file>>
    PROVE  LInv'
<1>1. CASE NextAsked(s, coins, pending, answered)
  <2>1. PICK q \in Peers :
                 /\ call.i + 1 \in 1..Len(peers)
                 /\ call' = [op |-> "utxos", i |-> call.i + 1, coins |-> coins, pending |-> pending,
                             answered |-> answered]
                 /\ stream' = [s EXCEPT ![q] = Append(@, UtxosReply(q))]
                 /\ UNCHANGED <<wallet, held>>
    BY <1>1 DEF NextAsked
  <2>2. UtxosReply(q) \in Message
    BY ReplyKeeps
  <2>3. stream' \in [Peers -> Seq(Message)]
    BY <2>1, <2>2
  <2>4. CallInv'
    <3>1. call.i + 1 \in Nat
      BY <2>1
    <3> QED BY <2>1, <3>1 DEF CallInv, Call
  <2>5. HeldInv'
    BY <2>1, HeldStays DEF LInv
  <2> QED BY <2>1, <2>3, <2>4, <2>5 DEF LInv, PeersInv, StreamInv, CoinInv, HeaderInv
<1>2. CASE AllAsked(s, coins, pending, answered)
  <2>. USE <1>2 DEF AllAsked
  <2>1. CallInv'
    BY <1>2 DEF CallInv, Call, Idle
  <2>2. HeldInv'
    BY <1>2, NoneHeldIs
  <2>3. Locked(coins, pending) \subseteq WalletCoins
    <3>1. ASSUME NEW x \in coins
          PROVE  [coin |-> x.coin, at |-> x.at, locked |-> x.coin \in pending] \in WalletCoins
      BY WalletCoin DEF Found
    <3> QED BY <3>1 DEF Locked
  <2>4. wallet' \subseteq WalletCoins
    BY <1>2, <2>3 DEF LInv, CoinInv
  <2> QED BY <1>2, <2>1, <2>2, <2>4 DEF LInv, PeersInv, StreamInv, CoinInv, HeaderInv
<1> QED BY <1>1, <1>2, MoveOnIs

LEMMA LInvGiveUp ==
    ASSUME LInv, GiveUp
    PROVE  LInv'
<1>1. /\ timeouts' = timeouts + 1 /\ timeouts < MaxTimeouts
      /\ UNCHANGED <<theirTip, peers, claimed, pool, chain, file>>
  BY DEF GiveUp, peerVars
<1>2. timeouts' \in 0..MaxTimeouts
  <2>1. timeouts \in 0..MaxTimeouts /\ MaxTimeouts \in Nat
    BY LightAssumption DEF LInv, CoinInv
  <2> QED BY <1>1, <2>1
<1>3. CASE call.op = "headers" /\ call' = Idle /\ late' = late \union {call.peer} /\ UNCHANGED <<stream, wallet, held>>
  <2>1. call.peer \in Peers
    BY <1>3, CallIs DEF LInv
  <2>2. CallInv' /\ HeldInv'
    BY <1>1, <1>3, HeldStays DEF LInv, CallInv, Call, Idle
  <2> QED BY <1>1, <1>2, <1>3, <2>1, <2>2 DEF LInv, PeersInv, StreamInv, CoinInv, HeaderInv
<1>4. CASE /\ call.op = "utxos" /\ MoveOn(stream, call.coins, call.pending, call.answered)
           /\ late' = late \union {peers[call.i]}
  <2>1. /\ call.i \in 1..Len(peers) /\ call.coins \in SUBSET Found
        /\ call.pending \in SUBSET Coins /\ call.answered \in BOOLEAN
    BY <1>4, CallIs DEF LInv
  <2>2. late' \subseteq Peers
    BY <1>4, <2>1, PeerAt DEF LInv, CoinInv
  <2>3. stream \in [Peers -> Seq(Message)]
    BY DEF LInv, StreamInv
  <2> QED BY <1>1, <1>2, <1>4, <2>1, <2>2, <2>3, LInvMoveOn
<1> QED BY <1>3, <1>4 DEF GiveUp

LEMMA LInvSyncHeaders ==
    ASSUME LInv, SyncHeaders
    PROVE  LInv'
<1>1. /\ peers # <<>> /\ call' = [op |-> "headers", peer |-> BestPeer]
      /\ stream' = [stream EXCEPT ![BestPeer] = Append(@, HeadersReply(BestPeer, chain))]
      /\ UNCHANGED <<theirTip, peers, claimed, pool, chain, file, wallet, late, held, timeouts>>
  BY DEF SyncHeaders, peerVars, history
<1>2. PICK p \in Peers : p = BestPeer
  BY <1>1, BestPeerIs DEF LInv, PeersInv
<1>3. HeadersReply(p, chain) \in Message /\ stream \in [Peers -> Seq(Message)]
  BY ReplyKeeps DEF LInv, HeaderInv, StreamInv
<1>4. stream' \in [Peers -> Seq(Message)]
  BY <1>1, <1>2, <1>3
<1>5. CallInv'
  BY <1>1, <1>2 DEF CallInv, Call
<1> QED BY <1>1, <1>4, <1>5, HeldStays DEF LInv, PeersInv, StreamInv, CoinInv, HeaderInv

LEMMA LInvHeadersUnused ==
    ASSUME LInv, HeadersUnused
    PROVE  LInv'
<1>1. /\ call.op = "headers" /\ call' = Idle /\ file' \in {chain, file}
      /\ stream' = [stream EXCEPT ![call.peer] = Unread(call.peer, "headers")]
      /\ UNCHANGED <<theirTip, peers, claimed, pool, chain, wallet, late, held, timeouts>>
  BY DEF HeadersUnused, peerVars, history
<1>2. PICK p \in Peers : p = call.peer
  BY <1>1, CallIs DEF LInv
<1>3. stream \in [Peers -> Seq(Message)] /\ stream[p] \in Seq(Message)
  BY DEF LInv, StreamInv
<1>4. Unread(p, "headers") \in Seq(Message)
  BY <1>3, UnreadIs
<1>5. stream' \in [Peers -> Seq(Message)]
  BY <1>1, <1>2, <1>3, <1>4
<1>6. CallInv'
  BY <1>1 DEF CallInv, Call, Idle
<1>7. HeaderInv'
  BY <1>1 DEF LInv, HeaderInv
<1> QED BY <1>1, <1>5, <1>6, <1>7, HeldStays DEF LInv, PeersInv, StreamInv, CoinInv

\* Where the batch attaches, and what the chain becomes.
LEMMA TakenIs ==
    ASSUME LInv, HeadersTaken
    PROVE  /\ call.op = "headers" /\ call.peer \in Peers /\ Position(call.peer, "headers") > 0
           /\ Base(Answer(call.peer, "headers").hs) # <<>>
           /\ chain' = AppendHeaders(Base(Answer(call.peer, "headers").hs), Answer(call.peer, "headers").hs)
           /\ Linked(Base(Answer(call.peer, "headers").hs)) /\ Linked(chain')
<1>1. /\ call.op = "headers" /\ Position(call.peer, "headers") > 0
      /\ Base(Answer(call.peer, "headers").hs) # <<>>
      /\ chain' = AppendHeaders(Base(Answer(call.peer, "headers").hs), Answer(call.peer, "headers").hs)
  BY DEF HeadersTaken
<1>2. call.peer \in Peers
  BY <1>1, CallIs DEF LInv
<1>3. PICK hs \in Seq(Headers) : hs = Answer(call.peer, "headers").hs
  BY <1>1, <1>2, BatchIs
<1>4. Linked(chain)
  BY DEF LInv, HeaderInv
<1>5. PICK k \in 1..Len(chain) : Base(hs) = SubSeq(chain, 1, k)
  BY <1>1, <1>3, <1>4, BaseIs
<1>6. Linked(Base(hs))
  BY <1>4, <1>5, LinkedPrefix
<1>7. Linked(AppendHeaders(Base(hs), hs))
  BY <1>6, AppendLinked
<1> QED BY <1>1, <1>2, <1>3, <1>6, <1>7

LEMMA LInvHeadersTaken ==
    ASSUME LInv, HeadersTaken
    PROVE  LInv'
<1> DEFINE hs == Answer(call.peer, "headers").hs
           again == Len(hs) = Batch /\ chain' = Base(hs) \o hs
<1>1. /\ UNCHANGED <<theirTip, peers, claimed, pool, wallet, late, held, timeouts>>
      /\ IF again
         THEN /\ stream' = [stream EXCEPT ![call.peer] =
                              Append(Unread(call.peer, "headers"), HeadersReply(call.peer, chain'))]
              /\ UNCHANGED <<call, file>>
         ELSE /\ stream' = [stream EXCEPT ![call.peer] = Unread(call.peer, "headers")]
              /\ call' = Idle /\ file' = chain'
  BY DEF HeadersTaken, peerVars, history
<1> HIDE DEF again
<1>2. call.peer \in Peers /\ Linked(chain')
  BY TakenIs
<1>3. PICK p \in Peers : p = call.peer
  BY <1>2
<1>4. stream \in [Peers -> Seq(Message)] /\ stream[p] \in Seq(Message)
  BY DEF LInv, StreamInv
<1>5. Unread(p, "headers") \in Seq(Message)
  BY <1>4, UnreadIs
<1>6. HeadersReply(p, chain') \in Message
  BY <1>2, ReplyKeeps
<1>7. Append(Unread(p, "headers"), HeadersReply(p, chain')) \in Seq(Message)
  BY <1>5, <1>6
<1>8. stream' \in [Peers -> Seq(Message)]
  BY <1>1, <1>3, <1>4, <1>5, <1>7
<1>9. (call' = call \/ call' = Idle) /\ (file' = file \/ file' = chain')
  BY <1>1
<1>10. CallInv'
  BY <1>1, <1>9 DEF LInv, CallInv, Call, Idle
<1>11. HeaderInv'
  BY <1>2, <1>9 DEF LInv, HeaderInv
<1> QED BY <1>1, <1>8, <1>10, <1>11, HeldStays DEF LInv, PeersInv, StreamInv, CoinInv

LEMMA LInvRefreshWallet ==
    ASSUME LInv, RefreshWallet
    PROVE  LInv'
<1>1. /\ peers # <<>> /\ call' = [op |-> "utxos", i |-> 1, coins |-> {}, pending |-> {}, answered |-> FALSE]
      /\ stream' = [stream EXCEPT ![peers[1]] = Append(@, UtxosReply(peers[1]))]
      /\ held' = [p \in Peers |-> Pending(p)]
      /\ UNCHANGED <<theirTip, peers, claimed, pool, chain, file, wallet, late, timeouts>>
  BY DEF RefreshWallet, peerVars
<1>2. 1 \in 1..Len(peers)
  <2>1. peers \in Seq(Peers)
    BY DEF LInv, PeersInv
  <2>2. Len(peers) \in Nat \ {0}
    BY <1>1, <2>1, EmptySeq
  <2> QED BY <2>2
<1>3. PICK p \in Peers : p = peers[1]
  BY <1>2, PeerAt
<1>4. UtxosReply(p) \in Message /\ stream \in [Peers -> Seq(Message)]
  BY ReplyKeeps DEF LInv, StreamInv
<1>5. stream' \in [Peers -> Seq(Message)]
  BY <1>1, <1>3, <1>4
<1>6. CallInv'
  BY <1>1, <1>2 DEF CallInv, Call
<1>7. HeldInv'
  <2>1. \A q \in Peers : Pending(q) \subseteq Coins /\ Pending(q)' = Pending(q)
    BY <1>1 DEF Pending, Utxos
  <2> QED BY <1>1, <2>1 DEF HeldInv
<1> QED BY <1>1, <1>5, <1>6, <1>7 DEF LInv, PeersInv, StreamInv, CoinInv, HeaderInv

\* The answer of a peer to the question for coins.
LEMMA CoinsAnswer ==
    ASSUME LInv, CoinsArrive
    PROVE  /\ call.op = "utxos" /\ call.i \in 1..Len(peers) /\ Position(peers[call.i], "utxos") > 0
           /\ peers[call.i] \in Peers
           /\ Answer(peers[call.i], "utxos") \in UtxosMessage
           /\ call.coins \in SUBSET Found /\ call.pending \in SUBSET Coins
<1>1. call.op = "utxos" /\ Position(peers[call.i], "utxos") > 0
  BY DEF CoinsArrive
<1>2. call.i \in 1..Len(peers) /\ call.coins \in SUBSET Found /\ call.pending \in SUBSET Coins
  BY <1>1, CallIs DEF LInv
<1>3. PICK p \in Peers : p = peers[call.i]
  BY <1>2, PeerAt
<1>4. stream[p] \in Seq(Message)
  BY DEF LInv, StreamInv
<1>5. Answer(p, "utxos") \in Message /\ Answer(p, "utxos").type = "utxos"
  BY <1>1, <1>3, <1>4, PositionIs
<1>6. Answer(p, "utxos") \in UtxosMessage
  BY <1>5, MessageIs
<1> QED BY <1>1, <1>2, <1>3, <1>6

\* The step with its parts named.
LEMMA CoinsArriveIs ==
    ASSUME LInv, CoinsArrive
    PROVE  \E p \in Peers, coins \in SUBSET Found, pend \in SUBSET Coins :
              /\ call.op = "utxos" /\ Position(p, "utxos") > 0
              /\ p = peers[call.i] /\ pend = Answer(p, "utxos").pending
              /\ call.pending \union pend \in SUBSET Coins
              /\ [stream EXCEPT ![p] = Unread(p, "utxos")] \in [Peers -> Seq(Message)]
              /\ MoveOn([stream EXCEPT ![p] = Unread(p, "utxos")], coins, call.pending \union pend, TRUE)
              /\ UNCHANGED <<theirTip, peers, claimed, pool, chain, file, late, timeouts>>
<1>1. /\ call.op = "utxos" /\ call.i \in 1..Len(peers) /\ peers[call.i] \in Peers
      /\ Position(peers[call.i], "utxos") > 0
      /\ Answer(peers[call.i], "utxos") \in UtxosMessage
      /\ call.coins \in SUBSET Found /\ call.pending \in SUBSET Coins
  BY CoinsAnswer
<1>2. PICK p \in Peers : p = peers[call.i]
  BY <1>1
<1>3. PICK m \in UtxosMessage : m = Answer(p, "utxos")
  BY <1>1, <1>2
<1>4. m.proofs \in SUBSET Proofs /\ m.pending \in SUBSET Coins /\ m.unconfirmed \in SUBSET Coins
  BY DEF UtxosMessage
<1>5. Collected(call.coins, m) \in SUBSET Found
  <2> DEFINE proved == call.coins \union {x \in Verified(m.proofs) : x.coin \notin Named(call.coins)}
  <2>1. proved \in SUBSET Found
    <3>1. \A x \in Proofs : x \in Found
      BY DEF Proofs, Found
    <3> QED BY <1>1, <1>4, <3>1 DEF Verified
  <2>2. \A c \in Coins : [coin |-> c, at |-> NoHeader] \in Found
    BY DEF Found
  <2>3. Collected(call.coins, m) = proved \union {[coin |-> c, at |-> NoHeader] : c \in m.unconfirmed \ Named(proved)}
    BY DEF Collected
  <2> HIDE DEF proved
  <2> QED BY <1>4, <2>1, <2>2, <2>3
<1>6. stream[p] \in Seq(Message) /\ stream \in [Peers -> Seq(Message)]
  BY DEF LInv, StreamInv
<1>7. Unread(p, "utxos") \in Seq(Message)
  BY <1>6, UnreadIs
<1>8. [stream EXCEPT ![p] = Unread(p, "utxos")] \in [Peers -> Seq(Message)]
  BY <1>6, <1>7
<1>9. UNCHANGED <<theirTip, peers, claimed, pool, chain, file, late, timeouts>>
  BY DEF CoinsArrive, peerVars
<1>10. MoveOn([stream EXCEPT ![p] = Unread(p, "utxos")], Collected(call.coins, m), call.pending \union m.pending, TRUE)
  BY <1>2, <1>3, Zenon DEF CoinsArrive, AllPending
<1>11. call.pending \union m.pending \in SUBSET Coins
  BY <1>1, <1>4
<1>12. Position(p, "utxos") > 0
  BY <1>1, <1>2
<1> QED BY <1>1, <1>2, <1>3, <1>4, <1>5, <1>8, <1>9, <1>10, <1>11, <1>12, Zenon

LEMMA LInvCoinsArrive ==
    ASSUME LInv, CoinsArrive
    PROVE  LInv'
<1>1. PICK p \in Peers, coins \in SUBSET Found, pend \in SUBSET Coins :
         /\ call.op = "utxos" /\ Position(p, "utxos") > 0
         /\ p = peers[call.i] /\ pend = Answer(p, "utxos").pending
         /\ call.pending \union pend \in SUBSET Coins
         /\ [stream EXCEPT ![p] = Unread(p, "utxos")] \in [Peers -> Seq(Message)]
         /\ MoveOn([stream EXCEPT ![p] = Unread(p, "utxos")], coins, call.pending \union pend, TRUE)
         /\ UNCHANGED <<theirTip, peers, claimed, pool, chain, file, late, timeouts>>
  BY CoinsArriveIs, Zenon
<1>2. late' \subseteq Peers /\ timeouts' \in 0..MaxTimeouts
  BY <1>1 DEF LInv, CoinInv
<1>3. UNCHANGED <<theirTip, peers, claimed, pool, chain, file>>
  BY <1>1
<1> QED BY <1>1, <1>2, <1>3, LInvMoveOn

\* What a broadcast does: mempools grow, the wallet may note the transaction, and
\* the streams lose what was read.
LEMMA BroadcastIs ==
    ASSUME LInv, Broadcast
    PROVE  /\ call = Idle /\ pool' \in [Peers -> SUBSET Txs] /\ \A p \in Peers : pool[p] \subseteq pool'[p]
           /\ \A p \in Peers : stream'[p] \in Suffixes(stream[p])
           /\ wallet' \subseteq WalletCoins /\ stream' \in [Peers -> Seq(Message)]
           /\ UNCHANGED <<theirTip, peers, claimed, chain, file, call, late, held, timeouts>>
<1>1. PICK t \in Sendable : \E takers :
         /\ pool' = [p \in Peers |-> IF p \in takers THEN pool[p] \union {t} ELSE pool[p]]
         /\ wallet' = Noted(t) \/ wallet' = wallet
  BY DEF Broadcast
<1>2. t \in Txs /\ pool \in [Peers -> SUBSET Txs] /\ wallet \subseteq WalletCoins
  BY DEF Sendable, LInv, CoinInv
<1>3. pool' \in [Peers -> SUBSET Txs] /\ \A p \in Peers : pool[p] \subseteq pool'[p]
  BY <1>1, <1>2
<1>4. Noted(t) \subseteq WalletCoins
  <2>1. ASSUME NEW x \in WalletCoins PROVE [x EXCEPT !.locked = @ \/ x.coin \in Ins[t]] \in WalletCoins
    BY DEF WalletCoins
  <2>2. ASSUME NEW c \in Outs[t] PROVE [coin |-> c, at |-> NoHeader, locked |-> FALSE] \in WalletCoins
    BY <1>2, LightAssumption DEF WalletCoins
  <2> QED BY <1>2, <2>1, <2>2 DEF Noted
<1>5. PICK rest \in [Peers -> UNION {Suffixes(stream[p]) : p \in Peers}] :
         (\A p \in Peers : rest[p] \in Suffixes(stream[p])) /\ stream' = rest
  BY DEF Broadcast
<1>6. \A p \in Peers : rest[p] \in Seq(Message)
  BY <1>5, SuffixIs DEF LInv, StreamInv
<1>7. stream' \in [Peers -> Seq(Message)]
  BY <1>5, <1>6
<1>8. UNCHANGED <<theirTip, peers, claimed, chain, file, call, late, held, timeouts>> /\ call = Idle
  BY DEF Broadcast, peerVars, history
<1> QED BY <1>1, <1>2, <1>3, <1>4, <1>5, <1>7, <1>8

LEMMA LInvBroadcast ==
    ASSUME LInv, Broadcast
    PROVE  LInv'
<1>1. /\ pool' \in [Peers -> SUBSET Txs] /\ \A p \in Peers : pool[p] \subseteq pool'[p]
      /\ wallet' \subseteq WalletCoins /\ stream' \in [Peers -> Seq(Message)]
      /\ UNCHANGED <<theirTip, peers, claimed, chain, file, call, late, held, timeouts>>
  BY BroadcastIs
<1>2. HeldInv'
  BY <1>1, PendingGrows DEF LInv
<1> QED BY <1>1, <1>2 DEF LInv, PeersInv, StreamInv, CallInv, CoinInv, HeaderInv

LEMMA LInvNext == LInv /\ [Next]_vars => LInv'
<1> SUFFICES ASSUME LInv, [Next]_vars PROVE LInv'
  OBVIOUS
<1>1. CASE UNCHANGED vars
  BY <1>1, HeldStays DEF vars, peerVars, history, LInv, PeersInv, StreamInv, CallInv, CoinInv, HeaderInv
<1>2. ASSUME NEW p \in Peers, PeerMoves(p) \/ TxArrives(p) \/ Connect(p) PROVE LInv'
  BY <1>2, LInvPeerMoves, LInvTxArrives, LInvConnect
<1> QED BY <1>1, <1>2, LInvRestart, LInvGiveUp, LInvSyncHeaders, LInvRefreshWallet, LInvBroadcast,
           LInvHeadersUnused, LInvHeadersTaken, LInvCoinsArrive DEF Next, Progress

LEMMA LInvAlways == Spec => []LInv
BY LInvInit, LInvNext, PTL DEF Spec

\* Whatever the peers send, late, out of turn or invalid, the light client's
\* headers, in memory and in headers.dat, are one chain of checked headers from
\* the genesis block (light_client.cpp:77-93, :127-143).
THEOREM HeadersStayValid == Spec => []ChainValid
<1>1. LInv => ChainValid
  <2> SUFFICES ASSUME LInv PROVE ChainValid
    OBVIOUS
  <2>1. \A s : Linked(s) => Range(s) \subseteq Valid /\ Range(s) \subseteq Headers
    BY LightAssumption DEF Linked, Range
  <2>2. Range(peers) \subseteq Peers
    BY DEF LInv, PeersInv, Range
  <2>3. call.op \in {"none", "headers", "utxos"}
    BY DEF LInv, CallInv, Call, Idle
  <2>4. DOMAIN stream = Peers
    BY DEF LInv, StreamInv
  <2>5. TypeOK
    BY <2>1, <2>2, <2>3, <2>4 DEF TypeOK, LInv, PeersInv, CoinInv, HeldInv, WalletCoins, HeaderInv
  <2> QED BY <2>1, <2>5 DEF ChainValid, LInv, HeaderInv, Linked
<1> QED BY <1>1, LInvAlways, PTL

LessWork == SumWork(chain') < SumWork(chain)
              => \/ peers' = <<>>
                 \/ \E i \in DOMAIN Answer(call.peer, "headers").hs :
                        Answer(call.peer, "headers").hs[i] \notin Valid

\* When every header of a branch is valid all of them are appended, and the chain
\* has at least the work it had.
LEMMA WorkStep ==
    ASSUME LInv, [Next]_vars
    PROVE  LessWork
<1>1. chain \in Seq(Headers) /\ SumWork(chain) \in Nat
  BY SumNat DEF LInv, HeaderInv, Linked
<1>2. CASE chain' = chain
  BY <1>1, <1>2 DEF LessWork
<1>3. CASE Restart
  BY <1>3 DEF Restart, LessWork
<1>4. CASE HeadersTaken
  <2>1. SUFFICES ASSUME \A i \in DOMAIN Answer(call.peer, "headers").hs :
                           Answer(call.peer, "headers").hs[i] \in Valid
                 PROVE  ~ (SumWork(chain') < SumWork(chain))
    BY DEF LessWork
  <2>2. call.peer \in Peers /\ Position(call.peer, "headers") > 0
    BY <1>4, TakenIs
  <2>3. PICK hs \in Seq(Headers) : hs = Answer(call.peer, "headers").hs /\ Chained(hs)
    BY <2>2, BatchIs
  <2>4. Base(hs) # <<>> /\ chain' = AppendHeaders(Base(hs), hs)
    BY <1>4, <2>3, TakenIs
  <2>5. PICK k \in 1..Len(chain) :
           /\ Base(hs) = SubSeq(chain, 1, k) /\ chain[k] = Parent[hs[1]] /\ hs # <<>>
           /\ k = Len(chain) \/ SumWork(hs) > SumWork(SubSeq(chain, k + 1, Len(chain)))
    BY <2>4, BaseIs DEF LInv, HeaderInv
  <2> DEFINE base == SubSeq(chain, 1, k)
             rest == SubSeq(chain, k + 1, Len(chain))
  <2>6. base \in Seq(Headers) /\ Len(base) = k /\ base[k] = chain[k]
    BY LinkedPrefix DEF LInv, HeaderInv, Linked
  <2>7. rest \in Seq(Headers)
    BY <1>1, Rest
  <2>8. base \o rest = chain
    <3>1. PICK n \in Nat : n = Len(chain)
      BY <1>1
    <3>2. 1 \in 1..(Len(chain) + 1) /\ k \in (1 - 1)..Len(chain) /\ n \in k..Len(chain)
      BY <3>1
    <3>3. SubSeq(chain, 1, k) \o SubSeq(chain, k + 1, n) = SubSeq(chain, 1, n)
      BY <1>1, <3>2, ConcatAdjacentSubSeq
    <3>4. SubSeq(chain, 1, n) = chain
      BY <1>1, <3>1
    <3> QED BY <3>1, <3>3, <3>4
  <2> HIDE DEF base, rest
  <2>9. \A j \in 0..Len(hs) : Fits(base, hs, j)
    <3>1. DOMAIN hs = 1..Len(hs) /\ Len(hs) \in Nat
      OBVIOUS
    <3>2. ASSUME NEW i \in 1..Len(hs)
          PROVE  hs[i] \in Valid /\ Parent[hs[i]] = IF i = 1 THEN base[Len(base)] ELSE hs[i - 1]
      <4>1. hs[i] \in Valid
        BY <2>1, <2>3, <3>1
      <4>2. i # 1 => i \in 2..Len(hs)
        BY <3>1
      <4> QED BY <2>3, <2>5, <2>6, <4>1, <4>2 DEF Chained
    <3>3. \A j \in 0..Len(hs) : \A i \in 1..j : i \in 1..Len(hs)
      BY <3>1
    <3> QED BY <3>2, <3>3 DEF Fits
  <2>10. chain' = base \o hs
    <3>1. PICK j \in 0..Len(hs) : /\ AppendHeaders(base, hs) = base \o SubSeq(hs, 1, j)
                                  /\ j = Len(hs) \/ ~ Fits(base, hs, j + 1)
      BY AppendIs
    <3>2. j # Len(hs) => j + 1 \in 0..Len(hs)
      OBVIOUS
    <3>3. j = Len(hs)
      BY <2>9, <3>1, <3>2
    <3>4. SubSeq(hs, 1, Len(hs)) = hs
      OBVIOUS
    <3> QED BY <2>4, <2>5, <3>1, <3>3, <3>4 DEF base
  <2>11. SumWork(chain') = SumWork(base) + SumWork(hs) /\ SumWork(chain) = SumWork(base) + SumWork(rest)
    BY <2>6, <2>7, <2>8, <2>10, SumConcat
  <2>12. SumWork(base) \in Nat /\ SumWork(hs) \in Nat /\ SumWork(rest) \in Nat
    BY <2>6, <2>7, SumNat
  <2>13. SumWork(rest) <= SumWork(hs)
    <3>1. CASE k = Len(chain)
      <4>1. rest = <<>>
        BY <1>1, <3>1 DEF rest
      <4>2. SumWork(<<>>) = 0
        <5>1. <<>> \in Seq(Headers) /\ Len(<<>>) = 0
          OBVIOUS
        <5> QED BY <5>1, SumIs
      <4> QED BY <2>12, <4>1, <4>2
    <3>2. CASE k # Len(chain)
      BY <2>5, <2>12, <3>2 DEF rest
    <3> QED BY <3>1, <3>2
  <2> QED BY <2>11, <2>12, <2>13
<1>5. chain' = chain \/ Restart \/ HeadersTaken
  BY DEF Next, Progress, vars, PeerMoves, TxArrives, Connect, GiveUp, SyncHeaders, RefreshWallet, Broadcast,
              HeadersUnused, CoinsArrive
<1> QED BY <1>2, <1>3, <1>4, <1>5

\* The header chain loses work only in a restart before it was saved, or to a
\* branch that promised more and holds an invalid header (light_client.cpp:131-142).
THEOREM WorkIsKept == Spec => WorkKept
<1>1. LInv /\ [Next]_vars => LessWork
  BY WorkStep
<1> QED BY <1>1, LInvAlways, PTL DEF Spec, WorkKept, LessWork

(***************************************************************************)
(* The invariant behind SentStaysLocked                                    *)
(***************************************************************************)
NoCoins(s) == \A i \in 1..Len(s) : s[i].type # "utxos"

\* A peer that was never given up has an answer on its stream only while it is
\* being asked, one, and this names all that the peer has had pending since.
AnswersInv ==
    \A p \in Peers \ late : \A i \in 1..Len(stream[p]) : stream[p][i].type = "utxos" =>
        /\ call.op = "utxos" /\ p = peers[call.i]
        /\ held[p] \subseteq stream[p][i].pending
        /\ \A j \in 1..Len(stream[p]) : stream[p][j].type = "utxos" => j = i

\* What the peers already asked have had pending is collected.
CollectedInv ==
    call.op = "utxos" =>
        \A j \in 1..Len(peers) : j < call.i /\ peers[j] \notin late
            => call.answered /\ held[peers[j]] \subseteq call.pending
SInv == AnswersInv /\ CollectedInv

LEMMA SInvInit == Init => SInv
BY DEF Init, SInv, CollectedInv, AnswersInv, Idle

\* Between two questions there is no answer about coins on any stream.
LEMMA QuietStreams ==
    ASSUME SInv, call.op # "utxos"
    PROVE  \A p \in Peers \ late : NoCoins(stream[p])
BY DEF SInv, AnswersInv, NoCoins

LEMMA AppendQuiet ==
    ASSUME NEW s \in Seq(Message), NoCoins(s), NEW m \in HeadersMessage
    PROVE  NoCoins(Append(s, m))
<1>1. m.type # "utxos" /\ m \in Message
  BY DEF HeadersMessage, Message
<1>2. /\ Len(s) \in Nat /\ Len(Append(s, m)) = Len(s) + 1
      /\ \A i \in 1..Len(s) : Append(s, m)[i] = s[i]
      /\ Append(s, m)[Len(s) + 1] = m
  BY <1>1
<1>3. \A i \in 1..(Len(s) + 1) : i \in 1..Len(s) \/ i = Len(s) + 1
  BY <1>2
<1> QED BY <1>1, <1>2, <1>3 DEF NoCoins

LEMMA AppendOne ==
    ASSUME NEW s \in Seq(Message), NoCoins(s), NEW m \in Message,
           NEW i \in 1..Len(Append(s, m)), Append(s, m)[i].type = "utxos"
    PROVE  i = Len(s) + 1 /\ Append(s, m)[i] = m
<1>1. /\ Len(s) \in Nat /\ Len(Append(s, m)) = Len(s) + 1
      /\ \A j \in 1..Len(s) : Append(s, m)[j] = s[j]
      /\ Append(s, m)[Len(s) + 1] = m
  OBVIOUS
<1>2. i \in 1..Len(s) \/ i = Len(s) + 1
  BY <1>1
<1>3. i \notin 1..Len(s)
  BY <1>1 DEF NoCoins
<1> QED BY <1>1, <1>2, <1>3

LEMMA UnreadQuiet ==
    ASSUME NEW p, stream[p] \in Seq(Message), NEW type, NoCoins(stream[p])
    PROVE  NoCoins(Unread(p, type))
<1>1. PICK k \in 0..Len(stream[p]) : k = Position(p, type)
  BY PositionIs
<1>2. /\ Len(Unread(p, type)) = Len(stream[p]) - k
      /\ \A i \in 1..Len(Unread(p, type)) : Unread(p, type)[i] = stream[p][k + i]
  BY <1>1, UnreadIs
<1>3. ASSUME NEW i \in 1..Len(Unread(p, type)) PROVE k + i \in 1..Len(stream[p])
  <2>1. Len(stream[p]) \in Nat
    OBVIOUS
  <2>2. i \in 1..(Len(stream[p]) - k)
    BY <1>2
  <2> QED BY <2>1, <2>2
<1> QED BY <1>2, <1>3 DEF NoCoins

\* A step after which no question is asked, and which leaves no answer.
LEMMA SInvQuiet ==
    ASSUME call'.op # "utxos", \A p \in Peers \ late' : NoCoins(stream'[p])
    PROVE  SInv'
BY DEF SInv, AnswersInv, CollectedInv, NoCoins

LEMMA SInvPeerMoves ==
    ASSUME LInv, SInv, NEW p \in Peers, PeerMoves(p)
    PROVE  SInv'
<1>1. PICK h \in Views[p] :
         stream' = IF p \notin Range(peers) THEN stream
                   ELSE [stream EXCEPT ![p] = Append(@, [type |-> "headers", announced |-> TRUE, hs |-> <<h>>])]
  BY DEF PeerMoves
<1>2. UNCHANGED <<peers, call, late>>
  BY DEF PeerMoves
<1>3. \A q \in Peers : held'[q] \subseteq held[q]
  <2>1. held' = [held EXCEPT ![p] = @ \intersect Pending(p)'] /\ held \in [Peers -> SUBSET Coins]
    BY DEF PeerMoves, LInv, HeldInv
  <2> QED BY <2>1
<1>4. AnswersInv'
  <2> SUFFICES ASSUME NEW q \in Peers \ late, NEW i \in 1..Len(stream'[q]),
                      stream'[q][i].type = "utxos"
               PROVE  /\ call.op = "utxos" /\ q = peers[call.i]
                      /\ held'[q] \subseteq stream'[q][i].pending
                      /\ \A j \in 1..Len(stream'[q]) : stream'[q][j].type = "utxos" => j = i
    BY <1>2 DEF AnswersInv
  <2>1. \A j \in 1..Len(stream'[q]) : stream'[q][j].type = "utxos"
           => j \in 1..Len(stream[q]) /\ stream'[q][j] = stream[q][j]
    <3>1. CASE stream'[q] = stream[q]
      BY <3>1
    <3>2. CASE stream'[q] # stream[q]
      <4> DEFINE m == [type |-> "headers", announced |-> TRUE, hs |-> <<h>>]
      <4>1. stream \in [Peers -> Seq(Message)] /\ stream[q] \in Seq(Message)
        BY DEF LInv, StreamInv
      <4>2. stream'[q] = Append(stream[q], m) /\ m.type = "headers"
        BY <1>1, <3>2, <4>1
      <4> HIDE DEF m
      <4>3. /\ Len(stream[q]) \in Nat /\ Len(stream'[q]) = Len(stream[q]) + 1
            /\ \A j \in 1..Len(stream[q]) : stream'[q][j] = stream[q][j]
            /\ stream'[q][Len(stream[q]) + 1] = m
        BY <4>1, <4>2
      <4>4. \A j \in 1..(Len(stream[q]) + 1) : j \in 1..Len(stream[q]) \/ j = Len(stream[q]) + 1
        BY <4>3
      <4> QED BY <4>2, <4>3, <4>4
    <3> QED BY <3>1, <3>2
  <2>2. i \in 1..Len(stream[q]) /\ stream'[q][i] = stream[q][i] /\ stream[q][i].type = "utxos"
    BY <2>1
  <2>3. /\ call.op = "utxos" /\ q = peers[call.i]
        /\ held[q] \subseteq stream[q][i].pending
        /\ \A j \in 1..Len(stream[q]) : stream[q][j].type = "utxos" => j = i
    BY <2>2 DEF SInv, AnswersInv
  <2>4. \A j \in 1..Len(stream'[q]) : stream'[q][j].type = "utxos" => j = i
    BY <2>1, <2>3
  <2> QED BY <1>3, <2>2, <2>3, <2>4
<1>5. CollectedInv'
  <2> SUFFICES ASSUME call.op = "utxos", NEW j \in 1..Len(peers), j < call.i, peers[j] \notin late
               PROVE  call.answered /\ held'[peers[j]] \subseteq call.pending
    BY <1>2 DEF CollectedInv
  <2>1. call.answered /\ held[peers[j]] \subseteq call.pending /\ peers[j] \in Peers
    BY PeerAt DEF SInv, CollectedInv
  <2> QED BY <1>3, <2>1
<1> QED BY <1>4, <1>5 DEF SInv

LEMMA SInvTxArrives ==
    ASSUME SInv, NEW p \in Peers, TxArrives(p)
    PROVE  SInv'
BY DEF TxArrives, peerVars, history, SInv, AnswersInv, CollectedInv

LEMMA SInvConnect ==
    ASSUME SInv, NEW p \in Peers, Connect(p)
    PROVE  SInv'
<1>1. call.op # "utxos" /\ call' = call /\ UNCHANGED <<late, stream>>
  BY DEF Connect, Idle, history
<1>2. \A q \in Peers \ late : NoCoins(stream[q])
  BY <1>1, QuietStreams
<1> QED BY <1>1, <1>2, SInvQuiet

LEMMA SInvRestart ==
    ASSUME Restart
    PROVE  SInv'
<1>1. stream' = [p \in Peers |-> <<>>] /\ call' = Idle
  BY DEF Restart
<1>2. \A p \in Peers : NoCoins(stream'[p])
  BY <1>1 DEF NoCoins
<1>3. call'.op # "utxos"
  BY <1>1 DEF Idle
<1> QED BY <1>2, <1>3, SInvQuiet

LEMMA SInvSyncHeaders ==
    ASSUME LInv, SInv, SyncHeaders
    PROVE  SInv'
<1>1. /\ peers # <<>> /\ call.op # "utxos" /\ call'.op # "utxos" /\ late' = late
      /\ stream' = [stream EXCEPT ![BestPeer] = Append(@, HeadersReply(BestPeer, chain))]
  BY DEF SyncHeaders, Idle, history
<1>2. PICK p \in Peers : p = BestPeer
  BY <1>1, BestPeerIs DEF LInv, PeersInv
<1>3. theirTip[p] \in Headers /\ Linked(chain) /\ stream \in [Peers -> Seq(Message)]
  BY DEF LInv, PeersInv, StreamInv, HeaderInv
<1>4. HeadersReply(p, chain) \in HeadersMessage
  BY <1>3, HeadersReplyIs
<1>5. ASSUME NEW q \in Peers \ late PROVE NoCoins(stream'[q])
  <2>1. NoCoins(stream[q]) /\ stream[q] \in Seq(Message)
    BY <1>1, <1>3, <1>5, QuietStreams
  <2>2. NoCoins(Append(stream[q], HeadersReply(p, chain)))
    BY <1>4, <2>1, AppendQuiet
  <2>3. stream'[q] = stream[q] \/ stream'[q] = Append(stream[q], HeadersReply(p, chain))
    BY <1>1, <1>2, <1>3
  <2> QED BY <2>1, <2>2, <2>3
<1> QED BY <1>1, <1>5, SInvQuiet

LEMMA SInvHeaders ==
    ASSUME LInv, SInv, HeadersUnused \/ HeadersTaken
    PROVE  SInv'
<1>1. /\ call.op = "headers" /\ late' = late /\ call' \in {call, Idle}
  BY DEF HeadersUnused, HeadersTaken, history
<1>2. call.op # "utxos" /\ call'.op # "utxos"
  BY <1>1 DEF Idle
<1>3. PICK p \in Peers : p = call.peer
  BY <1>1, CallIs DEF LInv
<1>4. theirTip[p] \in Headers /\ stream \in [Peers -> Seq(Message)] /\ stream[p] \in Seq(Message)
  BY DEF LInv, PeersInv, StreamInv
<1>5. \/ stream' = [stream EXCEPT ![p] = Unread(p, "headers")]
      \/ HeadersTaken /\ stream' = [stream EXCEPT ![p] = Append(Unread(p, "headers"), HeadersReply(p, chain'))]
  BY <1>3, Zenon DEF HeadersUnused, HeadersTaken
<1>6. ASSUME HeadersTaken PROVE HeadersReply(p, chain') \in HeadersMessage
  BY <1>4, <1>6, TakenIs, HeadersReplyIs
<1>7. Unread(p, "headers") \in Seq(Message)
  BY <1>4, UnreadIs
<1>8. ASSUME NEW q \in Peers \ late PROVE NoCoins(stream'[q])
  <2>1. NoCoins(stream[q])
    BY <1>2, <1>8, QuietStreams
  <2>2. CASE q # p
    <3>1. stream'[q] = stream[q]
      BY <1>4, <1>5, <2>2
    <3> QED BY <2>1, <3>1
  <2>3. CASE q = p
    <3>1. NoCoins(Unread(p, "headers"))
      BY <1>4, <2>1, <2>3, UnreadQuiet
    <3>2. HeadersTaken => NoCoins(Append(Unread(p, "headers"), HeadersReply(p, chain')))
      BY <1>6, <1>7, <3>1, AppendQuiet
    <3>3. \/ stream'[p] = Unread(p, "headers")
          \/ HeadersTaken /\ stream'[p] = Append(Unread(p, "headers"), HeadersReply(p, chain'))
      BY <1>4, <1>5
    <3> QED BY <2>3, <3>1, <3>2, <3>3
  <2> QED BY <2>2, <2>3
<1> QED BY <1>1, <1>2, <1>8, SInvQuiet

\* The question that has just been asked of peer q has one answer, on q's stream,
\* if no other was there.
LEMMA AskedAnswers ==
    ASSUME LInv, NEW q \in Peers, NEW s \in [Peers -> Seq(Message)],
           \A p \in Peers \ late' : NoCoins(s[p]),
           stream' = [s EXCEPT ![q] = Append(@, UtxosReply(q))],
           call'.op = "utxos", q = peers'[call'.i], held'[q] \subseteq Pending(q)
    PROVE  AnswersInv'
<1> DEFINE m == UtxosReply(q)
<1>1. theirTip[q] \in Headers /\ pool \in [Peers -> SUBSET Txs]
  BY DEF LInv, PeersInv, CoinInv
<1>2. m \in UtxosMessage /\ held'[q] \subseteq m.pending
  BY <1>1, UtxosReplyIs
<1>3. m \in Message
  BY <1>2 DEF Message
<1> HIDE DEF m
<1> SUFFICES ASSUME NEW p \in Peers \ late', NEW i \in 1..Len(stream'[p]), stream'[p][i].type = "utxos"
             PROVE  /\ p = q /\ held'[p] \subseteq stream'[p][i].pending
                    /\ \A j \in 1..Len(stream'[p]) : stream'[p][j].type = "utxos" => j = i
  BY DEF AnswersInv
<1>4. CASE p # q
  <2>1. stream'[p] = s[p]
    BY <1>4
  <2> QED BY <2>1 DEF NoCoins
<1>5. CASE p = q
  <2>1. stream'[p] = Append(s[p], m) /\ s[p] \in Seq(Message) /\ NoCoins(s[p])
    BY <1>5 DEF m
  <2>2. \A j \in 1..Len(Append(s[p], m)) : Append(s[p], m)[j].type = "utxos" => j = Len(s[p]) + 1 /\ Append(s[p], m)[j] = m
    BY <1>3, <2>1, AppendOne
  <2> QED BY <1>2, <1>5, <2>1, <2>2
<1> QED BY <1>4, <1>5

LEMMA SInvRefreshWallet ==
    ASSUME LInv, SInv, RefreshWallet
    PROVE  SInv'
<1>1. /\ peers # <<>> /\ call.op # "utxos"
      /\ call' = [op |-> "utxos", i |-> 1, coins |-> {}, pending |-> {}, answered |-> FALSE]
      /\ stream' = [stream EXCEPT ![peers[1]] = Append(@, UtxosReply(peers[1]))]
      /\ held' = [p \in Peers |-> Pending(p)] /\ UNCHANGED <<peers, late>>
  BY DEF RefreshWallet, peerVars, Idle
<1>2. 1 \in 1..Len(peers)
  <2>1. peers \in Seq(Peers)
    BY DEF LInv, PeersInv
  <2>2. Len(peers) \in Nat \ {0}
    BY <1>1, <2>1, EmptySeq
  <2> QED BY <2>2
<1>3. PICK q \in Peers : q = peers[1]
  BY <1>2, PeerAt
<1>4. stream \in [Peers -> Seq(Message)] /\ \A p \in Peers \ late' : NoCoins(stream[p])
  BY <1>1, QuietStreams DEF LInv, StreamInv
<1>5. call'.op = "utxos" /\ q = peers'[call'.i] /\ call'.i = 1 /\ held'[q] \subseteq Pending(q)
  BY <1>1, <1>3
<1>6. AnswersInv'
  BY <1>1, <1>3, <1>4, <1>5, AskedAnswers
<1>7. CollectedInv'
  <2>1. \A j \in 1..Len(peers') : ~ (j < 1)
    BY <1>1
  <2> QED BY <1>5, <2>1 DEF CollectedInv
<1> QED BY <1>6, <1>7 DEF SInv

\* After the answer was read no other is left, and it named what is held.
LEMMA ReadAnswers ==
    ASSUME LInv, SInv, NEW p \in Peers, call.op = "utxos", p = peers[call.i],
           Position(p, "utxos") > 0
    PROVE  /\ p \notin late => /\ held[p] \subseteq Answer(p, "utxos").pending
                              /\ NoCoins(Unread(p, "utxos"))
           /\ \A q \in Peers \ (late \union {p}) : NoCoins(stream[q])
<1>1. stream[p] \in Seq(Message) /\ Len(stream[p]) \in Nat
  BY DEF LInv, StreamInv
<1>2. PICK k \in 1..Len(stream[p]) : /\ k = Position(p, "utxos") /\ Answer(p, "utxos") = stream[p][k]
                                     /\ stream[p][k].type = "utxos"
  BY <1>1, PositionIs
<1>3. p \notin late => /\ held[p] \subseteq stream[p][k].pending
                      /\ \A j \in 1..Len(stream[p]) : stream[p][j].type = "utxos" => j = k
  BY <1>2 DEF SInv, AnswersInv
<1>4. ASSUME p \notin late PROVE NoCoins(Unread(p, "utxos"))
  <2>1. /\ Len(Unread(p, "utxos")) = Len(stream[p]) - k
        /\ \A i \in 1..Len(Unread(p, "utxos")) : Unread(p, "utxos")[i] = stream[p][k + i]
    BY <1>1, <1>2, UnreadIs
  <2>2. ASSUME NEW i \in 1..Len(Unread(p, "utxos")) PROVE k + i \in 1..Len(stream[p]) /\ k + i # k
    <3>1. i \in 1..(Len(stream[p]) - k)
      BY <2>1
    <3> QED BY <1>1, <3>1
  <2> QED BY <1>3, <1>4, <2>1, <2>2 DEF NoCoins
<1>5. \A q \in Peers \ (late \union {p}) : NoCoins(stream[q])
  BY DEF SInv, AnswersInv, NoCoins
<1> QED BY <1>2, <1>3, <1>4, <1>5

\* What the wallet offers after a refresh.
Offered == RefreshEnds => \A x \in wallet', p \in Range(peers) \ late' : x.coin \in held[p] => x.locked

\* On to the next peer, or the end, when all that the peers asked so far have had
\* pending is in what was collected.
LEMMA SInvMoveOn ==
    ASSUME LInv, call.op = "utxos", NEW s \in [Peers -> Seq(Message)], NEW coins \in SUBSET Found,
           NEW pending \in SUBSET Coins, NEW answered \in BOOLEAN,
           MoveOn(s, coins, pending, answered), peers' = peers,
           \A p \in Peers \ late' : NoCoins(s[p]),
           \A j \in 1..Len(peers) : j < call.i + 1 /\ peers[j] \notin late' => answered /\ held[peers[j]] \subseteq pending
    PROVE  SInv' /\ Offered
<1>1. CASE NextAsked(s, coins, pending, answered)
  <2>1. PICK q \in Peers :
              /\ q = peers[call.i + 1]
              /\ call' = [op |-> "utxos", i |-> call.i + 1, coins |-> coins, pending |-> pending,
                          answered |-> answered]
              /\ stream' = [s EXCEPT ![q] = Append(@, UtxosReply(q))]
              /\ held' = held
    BY <1>1 DEF NextAsked
  <2>2. /\ call'.op = "utxos" /\ q = peers'[call'.i] /\ call'.i = call.i + 1
        /\ call'.answered = answered /\ call'.pending = pending
    BY <2>1
  <2>3. held'[q] \subseteq Pending(q)
    BY <2>1 DEF LInv, HeldInv
  <2>4. AnswersInv'
    BY <2>1, <2>2, <2>3, AskedAnswers
  <2>5. CollectedInv'
    BY <2>1, <2>2 DEF CollectedInv
  <2>6. Offered
    BY <2>2 DEF Offered, RefreshEnds
  <2> QED BY <2>4, <2>5, <2>6 DEF SInv
<1>2. CASE AllAsked(s, coins, pending, answered)
  <2>. USE <1>2 DEF AllAsked
  <2>1. call'.op # "utxos"
    BY <1>2 DEF Idle
  <2>2. SInv'
    BY <1>2, <2>1, SInvQuiet
  <2>3. ASSUME NEW x \in wallet', NEW p \in Range(peers) \ late', x.coin \in held[p] PROVE x.locked
    <3>1. peers \in Seq(Peers) /\ Len(peers) \in Nat
      BY DEF LInv, PeersInv
    <3>2. PICK j \in 1..Len(peers) : p = peers[j]
      BY <3>1 DEF Range
    <3>3. j < call.i + 1
      BY <1>2, <3>1
    <3>4. answered /\ x.coin \in pending
      BY <2>3, <3>2, <3>3
    <3>5. x \in Locked(coins, pending)
      BY <1>2, <3>4
    <3>6. PICK y \in coins : x = [coin |-> y.coin, at |-> y.at, locked |-> y.coin \in pending]
      BY <3>5 DEF Locked
    <3> QED BY <3>4, <3>6
  <2> QED BY <2>2, <2>3 DEF Offered
<1> QED BY <1>1, <1>2, MoveOnIs

LEMMA SInvCoinsArrive ==
    ASSUME LInv, SInv, CoinsArrive
    PROVE  SInv' /\ Offered
<1>1. PICK p \in Peers, coins \in SUBSET Found, pend \in SUBSET Coins :
         /\ call.op = "utxos" /\ Position(p, "utxos") > 0
         /\ p = peers[call.i] /\ pend = Answer(p, "utxos").pending
         /\ call.pending \union pend \in SUBSET Coins
         /\ [stream EXCEPT ![p] = Unread(p, "utxos")] \in [Peers -> Seq(Message)]
         /\ MoveOn([stream EXCEPT ![p] = Unread(p, "utxos")], coins, call.pending \union pend, TRUE)
         /\ UNCHANGED <<theirTip, peers, claimed, pool, chain, file, late, timeouts>>
  BY CoinsArriveIs, Zenon
<1> DEFINE s == [stream EXCEPT ![p] = Unread(p, "utxos")]
           pending == call.pending \union pend
<1>2. /\ p \notin late => held[p] \subseteq pend /\ NoCoins(Unread(p, "utxos"))
      /\ \A q \in Peers \ (late \union {p}) : NoCoins(stream[q])
  BY <1>1, ReadAnswers
<1>3. stream \in [Peers -> Seq(Message)]
  BY DEF LInv, StreamInv
<1>4. \A q \in Peers \ late' : NoCoins(s[q])
  BY <1>1, <1>2, <1>3
<1>5. call.i \in 1..Len(peers) /\ Len(peers) \in Nat
  BY <1>1, CallIs DEF LInv, PeersInv
<1>6. ASSUME NEW j \in 1..Len(peers), j < call.i + 1, peers[j] \notin late'
      PROVE  held[peers[j]] \subseteq pending
  <2>1. CASE j = call.i
    BY <1>1, <1>2, <1>6, <2>1
  <2>2. CASE j # call.i
    <3>1. j < call.i /\ peers[j] \notin late
      BY <1>1, <1>5, <1>6, <2>2
    <3> QED BY <1>1, <3>1 DEF SInv, CollectedInv
  <2> QED BY <2>1, <2>2
<1>7. pending \in SUBSET Coins /\ s \in [Peers -> Seq(Message)] /\ MoveOn(s, coins, pending, TRUE) /\ peers' = peers
  BY <1>1
<1> HIDE DEF s, pending
<1> QED BY <1>1, <1>4, <1>6, <1>7, SInvMoveOn

LEMMA SInvGiveUp ==
    ASSUME LInv, SInv, GiveUp
    PROVE  SInv' /\ Offered
<1>1. peers' = peers
  BY DEF GiveUp, peerVars
<1>2. CASE call.op = "headers" /\ call' = Idle /\ late' = late \union {call.peer} /\ stream' = stream
  <2>1. call'.op # "utxos" /\ call.op # "utxos"
    BY <1>2 DEF Idle
  <2>2. \A p \in Peers \ late' : NoCoins(stream'[p])
    BY <1>2, <2>1, QuietStreams
  <2> QED BY <1>2, <2>1, <2>2, SInvQuiet DEF Offered, RefreshEnds
<1>3. CASE /\ call.op = "utxos" /\ MoveOn(stream, call.coins, call.pending, call.answered)
           /\ late' = late \union {peers[call.i]}
  <2>1. /\ call.i \in 1..Len(peers) /\ call.coins \in SUBSET Found /\ Len(peers) \in Nat
        /\ call.pending \in SUBSET Coins /\ call.answered \in BOOLEAN /\ stream \in [Peers -> Seq(Message)]
    BY <1>3, CallIs DEF LInv, PeersInv, StreamInv
  <2>2. \A p \in Peers \ late' : NoCoins(stream[p])
    BY <1>3 DEF SInv, AnswersInv, NoCoins
  <2>3. ASSUME NEW j \in 1..Len(peers), j < call.i + 1, peers[j] \notin late'
        PROVE  call.answered /\ held[peers[j]] \subseteq call.pending
    <3>1. j # call.i /\ peers[j] \notin late
      BY <1>3, <2>3
    <3>2. j < call.i
      BY <2>1, <2>3, <3>1
    <3> QED BY <1>3, <3>1, <3>2 DEF SInv, CollectedInv
  <2> QED BY <1>1, <1>3, <2>1, <2>2, <2>3, SInvMoveOn
<1> QED BY <1>2, <1>3 DEF GiveUp

LEMMA SInvBroadcast ==
    ASSUME LInv, SInv, Broadcast
    PROVE  SInv'
<1>1. call = Idle /\ call' = call /\ late' = late /\ \A p \in Peers : stream'[p] \in Suffixes(stream[p])
  BY BroadcastIs
<1>2. call.op # "utxos" /\ call'.op # "utxos"
  BY <1>1 DEF Idle
<1>3. ASSUME NEW p \in Peers \ late PROVE NoCoins(stream'[p])
  <2>1. stream[p] \in Seq(Message) /\ NoCoins(stream[p]) /\ Len(stream[p]) \in Nat
    BY <1>2, <1>3, QuietStreams DEF LInv, StreamInv
  <2>2. PICK k \in 0..Len(stream[p]) : /\ Len(stream'[p]) = Len(stream[p]) - k
                                       /\ \A i \in 1..Len(stream'[p]) : stream'[p][i] = stream[p][k + i]
    BY <1>1, <2>1, SuffixIs
  <2>3. ASSUME NEW i \in 1..Len(stream'[p]) PROVE k + i \in 1..Len(stream[p])
    <3>1. i \in 1..(Len(stream[p]) - k)
      BY <2>2
    <3> QED BY <2>1, <3>1
  <2> QED BY <2>1, <2>2, <2>3 DEF NoCoins
<1> QED BY <1>1, <1>2, <1>3, SInvQuiet

LEMMA SInvNext == LInv /\ SInv /\ [Next]_vars => SInv' /\ Offered
<1> SUFFICES ASSUME LInv, SInv, [Next]_vars PROVE SInv' /\ Offered
  OBVIOUS
<1>1. CASE UNCHANGED vars
  BY <1>1 DEF vars, peerVars, history, SInv, CollectedInv, AnswersInv, Offered, RefreshEnds
<1>2. ASSUME NEW p \in Peers, PeerMoves(p) \/ TxArrives(p) \/ Connect(p) PROVE SInv' /\ Offered
  <2>1. SInv'
    BY <1>2, SInvPeerMoves, SInvTxArrives, SInvConnect
  <2>2. call' = call
    BY <1>2 DEF PeerMoves, TxArrives, Connect
  <2> QED BY <2>1, <2>2 DEF Offered, RefreshEnds
<1>3. CASE Restart
  <2>1. peers' # peers
    BY <1>3 DEF Restart
  <2> QED BY <1>3, <2>1, SInvRestart DEF Offered, RefreshEnds
<1>4. CASE SyncHeaders \/ RefreshWallet \/ Broadcast \/ HeadersUnused \/ HeadersTaken
  <2>1. SInv'
    BY <1>4, SInvSyncHeaders, SInvRefreshWallet, SInvBroadcast, SInvHeaders
  <2>2. call = Idle \/ call.op = "headers"
    BY <1>4, Zenon DEF SyncHeaders, RefreshWallet, Broadcast, HeadersUnused, HeadersTaken
  <2>3. call.op # "utxos"
    BY <2>2 DEF Idle
  <2> QED BY <2>1, <2>3 DEF Offered, RefreshEnds
<1> QED BY <1>1, <1>2, <1>3, <1>4, SInvGiveUp, SInvCoinsArrive DEF Next, Progress

LEMMA SInvAlways == Spec => []SInv
<1>1. LInv /\ SInv /\ [Next]_vars => SInv'
  BY SInvNext
<1> QED BY <1>1, SInvInit, LInvAlways, PTL DEF Spec

\* With any number of peers on any branches, with any transactions in the mempool
\* of each, answering at any time: a refresh offers no coin whose spending one of
\* the connected peers has had pending since the refresh began, unless an exchange
\* with this peer was given up (light_client.cpp:343-388).
THEOREM SpentStayLocked == Spec => SentStaysLocked
<1>1. LInv /\ SInv /\ [Next]_vars => Offered
  BY SInvNext
<1> QED BY <1>1, LInvAlways, SInvAlways, PTL DEF Spec, SentStaysLocked, Offered
============================================================================
