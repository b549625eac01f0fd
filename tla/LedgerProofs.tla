----------------------------- MODULE LedgerProofs -----------------------------
(***************************************************************************)
(* What the ledger keeps for every value of the constants: the cached      *)
(* emission is the curve's, a disconnected block leaves the state that was *)
(* there before it, no pool loses worth, and nothing is created or lost    *)
(* between coins, pools and fees.                                          *)
(***************************************************************************)
EXTENDS Ledger, Induction

(***************************************************************************)
(* The curve                                                               *)
(***************************************************************************)
\* A subsidy is at least the tail's, and once it is the tail's it stays so.
LEMMA SubsidyFacts ==
    /\ \A i \in Nat : subsidy_after(i) \in Nat /\ Paid(i) \in Nat
    /\ \A i, j \in Nat : i <= j /\ subsidy_after(i) = TAIL_SUBSIDY
                            => subsidy_after(j) = TAIL_SUBSIDY
<1> DEFINE D == 2 ^ EMISSION_SPEED
<1>1. D \in Nat \ {0} /\ EMISSION_CURVE \in Nat /\ TAIL_SUBSIDY \in Nat \ {0}
  BY EmissionAssumption
<1>2. \A i : subsidy_after(i) =
                LET r == IF i >= EMISSION_CURVE THEN 0 ELSE (EMISSION_CURVE - i) \div D
                IN IF r < TAIL_SUBSIDY THEN TAIL_SUBSIDY ELSE r
  BY DEF subsidy_after
<1> HIDE DEF D
<1>3. ASSUME NEW i \in Nat PROVE subsidy_after(i) \in Nat /\ subsidy_after(i) >= TAIL_SUBSIDY
  <2>1. CASE i >= EMISSION_CURVE
    BY <1>1, <1>2, <2>1
  <2>2. CASE ~ (i >= EMISSION_CURVE)
    <3>1. EMISSION_CURVE - i \in Nat
      BY <1>1, <2>2
    <3>2. (EMISSION_CURVE - i) \div D \in Nat
      BY <1>1, <3>1
    <3> QED BY <1>1, <1>2, <2>2, <3>2
  <2> QED BY <2>1, <2>2
<1>4. ASSUME NEW i \in Nat, NEW j \in Nat, i <= j, subsidy_after(i) = TAIL_SUBSIDY
      PROVE  subsidy_after(j) = TAIL_SUBSIDY
  <2>1. CASE j >= EMISSION_CURVE
    BY <1>1, <1>2, <2>1
  <2>2. CASE ~ (j >= EMISSION_CURVE)
    <3> DEFINE a == EMISSION_CURVE - j
               b == EMISSION_CURVE - i
    <3>1. a \in Nat /\ b \in Nat /\ a <= b /\ ~ (i >= EMISSION_CURVE)
      BY <1>1, <1>4, <2>2
    <3>2. subsidy_after(j) = (IF a \div D < TAIL_SUBSIDY THEN TAIL_SUBSIDY ELSE a \div D)
      BY <1>2, <2>2
    <3>3. subsidy_after(i) = (IF b \div D < TAIL_SUBSIDY THEN TAIL_SUBSIDY ELSE b \div D)
      BY <1>2, <3>1
    <3> HIDE DEF a, b
    <3>4. a \div D \in Nat /\ b \div D \in Nat /\ a \div D <= b \div D
      BY <1>1, <3>1
    <3> QED BY <1>1, <1>4, <3>2, <3>3, <3>4
  <2> QED BY <2>1, <2>2
<1>5. \A i \in Nat : Paid(i) \in Nat
  BY <1>3 DEF Paid
<1> QED BY <1>3, <1>4, <1>5

CurveTo(r, n) == r[0] = 0 /\ \A i \in 1..n : r[i] = Paid(r[i - 1])

\* The emission without a cache is what its recursion says.
LEMMA IssuedFacts ==
    /\ IssuedBy \in [Nat -> Nat] /\ IssuedBy[0] = 0
    /\ \A h \in Nat : IssuedBy[h + 1] = Paid(IssuedBy[h])
<1>1. ASSUME NEW n \in Nat PROVE \E r \in [0..n -> Nat] : CurveTo(r, n)
  <2> DEFINE G == [i \in 1..n |-> [x \in Nat |-> Paid(x)]]
  <2>1. G \in [1..n -> [Nat -> Nat]] /\ \A i \in 1..n : \A x \in Nat : G[i][x] = Paid(x)
    BY SubsidyFacts
  <2> HIDE DEF G
  <2>2. Counting(Nat, 0, n, G)
    BY <2>1 DEF Counting
  <2>3. PICK r : Counts(r, Nat, 0, n, G)
    BY <2>2, CountExists
  <2>4. \A i \in 1..n : i - 1 \in 0..n
    OBVIOUS
  <2> QED BY <2>1, <2>3, <2>4 DEF CurveTo, Counts
<1> DEFINE R(n) == CHOOSE r \in [0..n -> Nat] : CurveTo(r, n)
           F == [n \in Nat |-> R(n)[n]]
<1>2. \A n \in Nat : R(n) \in [0..n -> Nat] /\ CurveTo(R(n), n)
  BY <1>1
<1> HIDE DEF R
<1>3. F \in [Nat -> Nat] /\ F[0] = 0
  <2>1. ASSUME NEW n \in Nat PROVE R(n)[n] \in Nat
    BY <1>2
  <2>2. R(0)[0] = 0
    BY <1>2 DEF CurveTo
  <2> QED BY <2>1, <2>2
<1>4. ASSUME NEW h \in Nat PROVE F[h + 1] = Paid(F[h])
  <2>1. R(h + 1)[h + 1] = Paid(R(h + 1)[h])
    <3>1. h + 1 \in 1..h + 1 /\ (h + 1) - 1 = h /\ h + 1 \in Nat
      OBVIOUS
    <3> QED BY <1>2, <3>1 DEF CurveTo
  <2>2. R(h + 1)[h] = R(h)[h]
    <3>1. h + 1 \in Nat /\ \A i \in 1..h : i \in 1..h + 1
      OBVIOUS
    <3>2. \A i \in 1..h : R(h + 1)[i] = Paid(R(h + 1)[i - 1]) /\ R(h)[i] = Paid(R(h)[i - 1])
      BY <1>2, <3>1 DEF CurveTo
    <3>3. R(h + 1)[0] = R(h)[0]
      BY <1>2, <3>1 DEF CurveTo
    <3> QED BY <3>2, <3>3, SameEnd
  <2> QED BY <2>1, <2>2
<1> HIDE DEF F
<1> DEFINE Fcn(f) == [h \in Nat |-> IF h = 0 THEN 0 ELSE Paid(f[h - 1])]
<1>5. F = Fcn(F)
  <2>1. ASSUME NEW h \in Nat, h # 0 PROVE F[h] = Paid(F[h - 1])
    <3>1. h - 1 \in Nat /\ (h - 1) + 1 = h
      BY <2>1
    <3> QED BY <1>4, <3>1
  <2>2. \A h \in Nat : F[h] = Fcn(F)[h]
    BY <1>3, <2>1
  <2> QED BY <1>3, <2>2
<1>6. IssuedBy = CHOOSE f : f = Fcn(f)
  BY Zenon DEF IssuedBy
<1>7. IssuedBy = Fcn(IssuedBy)
  <2> DEFINE c == CHOOSE f : f = Fcn(f)
  <2>1. c = Fcn(c)
    BY <1>5, Zenon
  <2>2. IssuedBy = c
    BY <1>6
  <2> HIDE DEF c
  <2> QED BY <2>1, <2>2
<1>8. IssuedBy[0] = 0 /\ \A h \in Nat : IssuedBy[h + 1] = Paid(IssuedBy[h])
  <2>1. \A h \in Nat : IssuedBy[h] = IF h = 0 THEN 0 ELSE Paid(IssuedBy[h - 1])
    BY <1>7
  <2>2. \A h \in Nat : h + 1 \in Nat /\ h + 1 # 0 /\ (h + 1) - 1 = h
    OBVIOUS
  <2> QED BY <2>1, <2>2
<1>9. \A h \in Nat : IssuedBy[h] \in Nat
  <2> SUFFICES ASSUME NEW n \in Nat PROVE IssuedBy[n] \in Nat
    OBVIOUS
  <2> DEFINE T == {h \in 0..n : IssuedBy[h] \in Nat}
  <2>1. T \in SUBSET Nat /\ 0 \in T
    BY <1>8
  <2>2. ASSUME NEW k \in 0..n, k \in T, k < n PROVE k + 1 \in T
    <3>1. k \in Nat /\ k + 1 \in 0..n /\ IssuedBy[k] \in Nat
      BY <2>2
    <3>2. IssuedBy[k + 1] \in Nat
      BY <1>8, <3>1, SubsidyFacts
    <3> QED BY <3>1, <3>2
  <2> HIDE DEF T
  <2>3. n \in T
    BY <2>1, <2>2, Upward
  <2> QED BY <2>3 DEF T
<1>10. DOMAIN IssuedBy = Nat /\ IssuedBy = [h \in Nat |-> IssuedBy[h]]
  BY <1>7
<1> QED BY <1>8, <1>9, <1>10

\* The block above h, and every one after it, pays the tail.
OnTail(h) == subsidy_after(IssuedBy[h]) = TAIL_SUBSIDY

\* From the tail on the emission is linear.
LEMMA TailLasts ==
    ASSUME NEW h \in Nat, OnTail(h), NEW n \in Nat
    PROVE  OnTail(h + n) /\ IssuedBy[h + n] = IssuedBy[h] + n * TAIL_SUBSIDY
<1> DEFINE T == {k \in 0..n : /\ IssuedBy[h + k] = IssuedBy[h] + k * TAIL_SUBSIDY
                              /\ OnTail(h + k)}
<1>0. TAIL_SUBSIDY \in Nat /\ IssuedBy[h] \in Nat
  BY EmissionAssumption, IssuedFacts
<1>1. T \in SUBSET Nat /\ 0 \in T
  <2>1. h + 0 = h /\ 0 * TAIL_SUBSIDY = 0
    BY <1>0
  <2> QED BY <1>0, <2>1
<1>2. ASSUME NEW k \in 0..n, k \in T, k < n PROVE k + 1 \in T
  <2>1. h + (k + 1) = (h + k) + 1 /\ h + k \in Nat /\ k + 1 \in 0..n
    BY <1>2
  <2>2. IssuedBy[h + (k + 1)] = IssuedBy[h + k] + TAIL_SUBSIDY
    <3>1. IssuedBy[(h + k) + 1] = Paid(IssuedBy[h + k]) /\ OnTail(h + k)
      BY <1>2, <2>1, IssuedFacts
    <3> QED BY <2>1, <3>1 DEF Paid, OnTail
  <2>3. (k + 1) * TAIL_SUBSIDY = k * TAIL_SUBSIDY + TAIL_SUBSIDY /\ k * TAIL_SUBSIDY \in Nat
    BY <1>0
  <2>4. IssuedBy[h + (k + 1)] = IssuedBy[h] + (k + 1) * TAIL_SUBSIDY
    BY <1>0, <1>2, <2>2, <2>3
  <2>5. IssuedBy[h + k] \in Nat /\ IssuedBy[h + (k + 1)] \in Nat /\ IssuedBy[h + k] <= IssuedBy[h + (k + 1)]
    BY <1>0, <2>1, <2>2, IssuedFacts
  <2>6. OnTail(h + (k + 1))
    BY <1>2, <2>5, SubsidyFacts DEF OnTail
  <2> QED BY <2>1, <2>4, <2>6
<1> HIDE DEF T
<1>3. n \in T
  BY <1>1, <1>2, Upward
<1> QED BY <1>3 DEF T

(***************************************************************************)
(* The cache                                                               *)
(***************************************************************************)
Caches == [at : Seq(Nat), tail : Nat, base : Nat]
Issues == [iss : Nat, tail : Nat, base : Nat]

\* A tail that was found by height n is one, with what was issued before it;
\* the checkpoints are points of the curve.
TailOk(c, n) == c.tail # 0 => /\ c.tail \in 1..n /\ OnTail(c.tail - 1)
                              /\ c.base = IssuedBy[c.tail - 1]
Mark(k) == (k - 1) * STEP
CacheOk(e) ==
    /\ e \in Caches /\ Len(e.at) >= 1
    /\ \A k \in 1..Len(e.at) : e.at[k] = IssuedBy[Mark(k)]
    /\ TailOk(e, Checkpoint(e))

\* The height of a checkpoint.
LEMMA MarkFacts ==
    /\ \A k \in Nat \ {0} : Mark(k) \in Nat /\ Mark(k + 1) = Mark(k) + STEP /\ Mark(k + 1) >= k
    /\ Mark(1) = 0 /\ STEP \in Nat \ {0} /\ \A e : Checkpoint(e) = Mark(Len(e.at))
<1>1. STEP \in Nat \ {0}
  BY EmissionAssumption
<1>2. ASSUME NEW k \in Nat \ {0}
      PROVE  Mark(k) \in Nat /\ Mark(k + 1) = Mark(k) + STEP /\ Mark(k + 1) >= k
  <2>1. (k - 1) * STEP \in Nat /\ (k + 1) - 1 = (k - 1) + 1
    BY <1>1
  <2>2. ((k - 1) + 1) * STEP = (k - 1) * STEP + STEP
    BY <1>1
  <2>3. k * STEP >= k
    BY <1>1
  <2> QED BY <1>1, <2>1, <2>2, <2>3 DEF Mark
<1> QED BY <1>1, <1>2 DEF Mark, Checkpoint

\* One block more.
LEMMA IssueFacts ==
    ASSUME NEW c \in Issues, NEW n \in Nat
    PROVE  /\ Issue(c, n + 1) \in Issues
           /\ c.iss = IssuedBy[n] /\ TailOk(c, n) =>
                /\ Issue(c, n + 1).iss = IssuedBy[n + 1]
                /\ TailOk(Issue(c, n + 1), n + 1)
<1> DEFINE s == subsidy_after(c.iss)
           first == s = TAIL_SUBSIDY /\ c.tail = 0
           d == Issue(c, n + 1)
<1>1. c.iss \in Nat /\ c.tail \in Nat /\ c.base \in Nat /\ s \in Nat
  BY SubsidyFacts DEF Issues
<1>2. d = [iss |-> c.iss + s, tail |-> IF first THEN n + 1 ELSE c.tail,
           base |-> IF first THEN c.iss ELSE c.base]
  BY DEF Issue
<1> HIDE DEF d
<1>3. d \in Issues
  BY <1>1, <1>2 DEF Issues
<1>4. ASSUME c.iss = IssuedBy[n], TailOk(c, n) PROVE d.iss = IssuedBy[n + 1] /\ TailOk(d, n + 1)
  <2>1. d.iss = IssuedBy[n + 1]
    BY <1>2, <1>4, IssuedFacts DEF Paid
  <2>2. CASE first
    <3>1. d.tail = n + 1 /\ d.base = IssuedBy[n] /\ (n + 1) - 1 = n /\ OnTail(n)
      BY <1>2, <1>4, <2>2 DEF OnTail
    <3> QED BY <2>1, <3>1 DEF TailOk
  <2>3. CASE ~ first
    <3>1. d.tail = c.tail /\ d.base = c.base
      BY <1>2, <2>3
    <3> QED BY <1>1, <1>4, <2>1, <3>1 DEF TailOk
  <2> QED BY <2>2, <2>3
<1> QED BY <1>3, <1>4 DEF d

CheckpointFcn(f, e) ==
    [i \in 0..STEP |-> IF i = 0 THEN [iss |-> e.at[Len(e.at)], tail |-> e.tail, base |-> e.base]
                       ELSE Issue(f[i - 1], Checkpoint(e) + i)]

\* One checkpoint more is the next point of the curve.
LEMMA CheckpointedFacts ==
    ASSUME NEW e, CacheOk(e)
    PROVE  CacheOk(Checkpointed(e)) /\ Len(Checkpointed(e).at) = Len(e.at) + 1
<1> DEFINE b == Checkpoint(e)
           v == [iss |-> e.at[Len(e.at)], tail |-> e.tail, base |-> e.base]
           at == e.at
           n == Len(at)
<1>0. /\ at \in Seq(Nat) /\ e.tail \in Nat /\ e.base \in Nat
      /\ n >= 1 /\ \A k \in 1..n : at[k] = IssuedBy[Mark(k)]
  <2>1. e \in Caches
    BY DEF CacheOk
  <2>2. at \in Seq(Nat) /\ e.tail \in Nat /\ e.base \in Nat
    BY <2>1 DEF Caches
  <2> QED BY <2>2, Zenon DEF CacheOk
<1>1. /\ at \in Seq(Nat) /\ n \in Nat /\ n >= 1 /\ Len(at) = n /\ at \in [1..n -> Nat]
      /\ e.tail \in Nat /\ e.base \in Nat /\ STEP \in Nat
      /\ \A k \in 1..n : at[k] = IssuedBy[Mark(k)]
  <2> HIDE DEF at
  <2> QED BY <1>0, EmissionAssumption
<1>2. b = Mark(n) /\ v = [iss |-> at[n], tail |-> e.tail, base |-> e.base] /\ TailOk(e, b)
  BY MarkFacts DEF CacheOk
<1> HIDE DEF b, v, at, n
<1>. n \in Nat \ {0}
  BY <1>1
<1>. b \in Nat /\ Mark(n + 1) = b + STEP /\ STEP \in Nat
  BY <1>1, <1>2, MarkFacts
<1>3. v \in Issues /\ v.iss = IssuedBy[b] /\ TailOk(v, b)
  <2>1. n \in 1..n /\ at[n] \in Nat /\ at[n] = IssuedBy[b]
    BY <1>1, <1>2
  <2> QED BY <1>1, <1>2, <2>1 DEF Issues, TailOk
<1>4. \E f : f = CheckpointFcn(f, e)
  <2> DEFINE G == [i \in 1..STEP |-> [x \in Issues |-> Issue(x, b + i)]]
  <2>1. G \in [1..STEP -> [Issues -> Issues]] /\ \A i \in 1..STEP : \A x \in Issues : G[i][x] = Issue(x, b + i)
    <3>1. ASSUME NEW i \in 1..STEP, NEW x \in Issues PROVE Issue(x, b + i) \in Issues
      <4>1. b + (i - 1) \in Nat /\ (b + (i - 1)) + 1 = b + i
        BY <1>2
      <4> QED BY <4>1, IssueFacts
    <3> QED BY <3>1
  <2> HIDE DEF G
  <2>0. Counting(Issues, v, STEP, G)
    BY <1>1, <1>3, <2>1 DEF Counting
  <2>2. PICK r : r \in [0..STEP -> Issues] /\ r[0] = v /\ \A i \in 1..STEP : r[i] = G[i][r[i - 1]]
    <3>1. \E r : Counts(r, Issues, v, STEP, G)
      BY <2>0, CountExists
    <3> QED BY <3>1 DEF Counts
  <2>3. ASSUME NEW i \in 0..STEP PROVE r[i] = CheckpointFcn(r, e)[i]
    <3>1. CASE i = 0
      BY <2>2, <3>1 DEF CheckpointFcn, v, n, at
    <3>2. CASE i # 0
      <4>1. i \in 1..STEP /\ i - 1 \in 0..STEP
        BY <1>1, <3>2
      <4>2. r[i] = Issue(r[i - 1], b + i)
        BY <2>1, <2>2, <4>1
      <4> QED BY <3>2, <4>2 DEF CheckpointFcn, b
    <3> QED BY <3>1, <3>2
  <2>4. r = CheckpointFcn(r, e)
    <3>1. DOMAIN r = 0..STEP /\ r = [i \in 0..STEP |-> r[i]]
      BY <2>2
    <3>2. CheckpointFcn(r, e) = [i \in 0..STEP |-> CheckpointFcn(r, e)[i]]
      BY DEF CheckpointFcn
    <3> QED BY <2>3, <3>1, <3>2
  <2> QED BY <2>4
<1> DEFINE c == CHOOSE f : f = CheckpointFcn(f, e)
<1>5. c = CheckpointFcn(c, e)
  BY <1>4, Zenon
<1>6. Checkpointed(e) = [at |-> Append(e.at, c[STEP].iss), tail |-> c[STEP].tail, base |-> c[STEP].base]
  BY Zenon DEF Checkpointed, CheckpointFcn
<1> HIDE DEF c
<1>7. c[0] = v /\ \A i \in 1..STEP : c[i] = Issue(c[i - 1], b + i)
  <2>1. CheckpointFcn(c, e)[0] = v
    BY DEF CheckpointFcn, v, n, at
  <2>2. ASSUME NEW i \in 1..STEP PROVE CheckpointFcn(c, e)[i] = Issue(c[i - 1], b + i)
    <3>1. i \in 0..STEP /\ i # 0
      OBVIOUS
    <3> QED BY <3>1, Zenon DEF CheckpointFcn, b
  <2> QED BY <1>5, <2>1, <2>2
<1> DEFINE T == {i \in 0..STEP : c[i] \in Issues /\ c[i].iss = IssuedBy[b + i] /\ TailOk(c[i], b + i)}
<1>8. STEP \in T
  <2>1. T \in SUBSET Nat /\ 0 \in T
    <3>1. b + 0 = b /\ 0 \in 0..STEP
      BY <1>1, <1>2
    <3> QED BY <1>3, <1>7, <3>1
  <2>2. ASSUME NEW k \in 0..STEP, k \in T, k < STEP PROVE k + 1 \in T
    <3> HIDE DEF T
    <3>1. k + 1 \in 1..STEP /\ (k + 1) - 1 = k /\ b + k \in Nat /\ (b + k) + 1 = b + (k + 1)
      BY <2>2
    <3>2. c[k + 1] = Issue(c[k], (b + k) + 1)
      BY <1>7, <3>1
    <3>3. c[k] \in Issues /\ c[k].iss = IssuedBy[b + k] /\ TailOk(c[k], b + k)
      BY <2>2 DEF T
    <3>4. /\ c[k + 1] \in Issues /\ c[k + 1].iss = IssuedBy[(b + k) + 1]
          /\ TailOk(c[k + 1], (b + k) + 1)
      BY <3>1, <3>2, <3>3, IssueFacts
    <3> QED BY <3>1, <3>4 DEF T
  <2> HIDE DEF T
  <2>3. \A k \in 0..STEP : k \in T
    BY <1>1, <2>1, <2>2, Upward
  <2> QED BY <1>1, <2>3
<1>9. c[STEP] \in Issues /\ c[STEP].iss = IssuedBy[b + STEP] /\ TailOk(c[STEP], b + STEP)
  BY <1>8
<1> DEFINE d == Checkpointed(e)
           s == Append(at, c[STEP].iss)
<1>10. d.at = s /\ d.tail = c[STEP].tail /\ d.base = c[STEP].base /\ d \in Caches
  <2>1. c[STEP].iss \in Nat /\ c[STEP].tail \in Nat /\ c[STEP].base \in Nat
    BY <1>9 DEF Issues
  <2>2. s \in Seq(Nat)
    BY <1>1, <2>1
  <2>3. d = [at |-> s, tail |-> c[STEP].tail, base |-> c[STEP].base]
    BY <1>6 DEF at
  <2> HIDE DEF s, d
  <2> QED BY <2>1, <2>2, <2>3 DEF Caches
<1>11. /\ Len(s) = n + 1 /\ s[n + 1] = IssuedBy[b + STEP]
       /\ \A k \in 1..n : s[k] = at[k]
  <2>1. c[STEP].iss \in Nat
    BY <1>9 DEF Issues
  <2> QED BY <1>1, <1>9, <2>1
<1> HIDE DEF s, d
<1>13. Checkpoint(d) = b + STEP
  BY <1>2, <1>10, <1>11, MarkFacts
<1>14. \A k \in 1..Len(d.at) : d.at[k] = IssuedBy[Mark(k)]
  <2> SUFFICES ASSUME NEW k \in 1..Len(s) PROVE s[k] = IssuedBy[Mark(k)]
    BY <1>10
  <2>1. CASE k = n + 1
    BY <1>2, <1>11, <2>1
  <2>2. CASE k # n + 1
    <3>1. k \in 1..n
      BY <1>2, <1>11, <2>2
    <3> QED BY <1>1, <1>11, <3>1
  <2> QED BY <2>1, <2>2
<1>15. TailOk(d, Checkpoint(d))
  BY <1>9, <1>10, <1>13 DEF TailOk
<1>16. Len(d.at) = n + 1 /\ Len(d.at) >= 1
  BY <1>2, <1>10, <1>11
<1> QED BY <1>10, <1>14, <1>15, <1>16 DEF CacheOk, d, n, at

ReachedFcn(f, e, height) == [k \in 0..height |-> IF k = 0 THEN e ELSE Extended(f[k - 1], height)]

\* The cache is extended to the height, or up to the tail.
LEMMA ReachedFacts ==
    ASSUME NEW e, CacheOk(e), NEW h \in Nat
    PROVE  /\ CacheOk(Reached(e, h))
           /\ Reached(e, h).tail # 0 \/ h <= Checkpoint(Reached(e, h))
<1> DEFINE V == {x \in Caches : CacheOk(x)}
           Far(x) == x.tail # 0 \/ h <= Checkpoint(x)
<1>1. ASSUME NEW x \in V
      PROVE  /\ Extended(x, h) \in V /\ Len(x.at) \in Nat \ {0}
             /\ x.tail \in Nat /\ Checkpoint(x) \in Nat /\ Checkpoint(x) >= Len(x.at) - 1
             /\ Far(x) => Far(Extended(x, h))
             /\ ~ Far(x) => Len(Extended(x, h).at) = Len(x.at) + 1
  <2>1. CacheOk(x)
    BY <1>1
  <2>2. x.tail \in Nat /\ x.at \in Seq(Nat) /\ Len(x.at) >= 1
    BY <1>1, <2>1 DEF Caches, CacheOk
  <2>3. Len(x.at) \in Nat \ {0}
    <3> DEFINE at == x.at
    <3>1. at \in Seq(Nat) /\ Len(at) >= 1
      BY <2>2
    <3> HIDE DEF at
    <3>2. Len(at) \in Nat \ {0}
      BY <3>1
    <3> QED BY <3>2 DEF at
  <2>4. Checkpoint(x) \in Nat /\ Checkpoint(x) >= Len(x.at) - 1
    <3>1. ASSUME NEW n \in Nat \ {0} PROVE Mark(n) \in Nat /\ Mark(n) >= n - 1
      <4>1. CASE n = 1
        BY <4>1, MarkFacts
      <4>2. CASE n # 1
        <5>1. n - 1 \in Nat \ {0} /\ (n - 1) + 1 = n
          BY <4>2
        <5> QED BY <5>1, MarkFacts
      <4> QED BY <4>1, <4>2
    <3>2. Checkpoint(x) = Mark(Len(x.at))
      BY MarkFacts
    <3> QED BY <2>3, <3>1, <3>2, Zenon
  <2>5. CacheOk(Checkpointed(x)) /\ Len(Checkpointed(x).at) = Len(x.at) + 1
    BY <2>1, CheckpointedFacts
  <2>6. CASE Far(x)
    <3>1. Extended(x, h) = x
      BY <2>4, <2>6 DEF Extended
    <3> QED BY <1>1, <2>2, <2>3, <2>4, <2>6, <3>1
  <2>7. CASE ~ Far(x)
    <3>1. Extended(x, h) = Checkpointed(x)
      BY <2>4, <2>7 DEF Extended
    <3>2. Checkpointed(x) \in V
      BY <2>5 DEF CacheOk
    <3> QED BY <2>2, <2>3, <2>4, <2>5, <2>7, <3>1, <3>2
  <2> QED BY <2>6, <2>7
<1>2. e \in V /\ \A x \in V : CacheOk(x)
  BY DEF CacheOk
<1> HIDE DEF V, Far
<1>3. \E f : f = ReachedFcn(f, e, h)
  <2> DEFINE G == [i \in 1..h |-> [x \in V |-> Extended(x, h)]]
  <2>1. G \in [1..h -> [V -> V]] /\ \A i \in 1..h : \A x \in V : G[i][x] = Extended(x, h)
    BY <1>1
  <2> HIDE DEF G
  <2>2. Counting(V, e, h, G)
    BY <1>2, <2>1 DEF Counting
  <2>3. PICK r : Counts(r, V, e, h, G)
    BY <2>2, CountExists
  <2>4. r \in [0..h -> V] /\ r[0] = e /\ \A i \in 1..h : r[i] = G[i][r[i - 1]]
    BY <2>3 DEF Counts
  <2>5. ASSUME NEW i \in 0..h PROVE r[i] = ReachedFcn(r, e, h)[i]
    <3>1. CASE i = 0
      BY <2>4, <3>1 DEF ReachedFcn
    <3>2. CASE i # 0
      <4>1. i \in 1..h /\ i - 1 \in 0..h
        BY <3>2
      <4>2. r[i] = Extended(r[i - 1], h)
        BY <2>1, <2>4, <4>1
      <4> QED BY <3>2, <4>2 DEF ReachedFcn
    <3> QED BY <3>1, <3>2
  <2>6. r = [i \in 0..h |-> r[i]] /\ ReachedFcn(r, e, h) = [i \in 0..h |-> ReachedFcn(r, e, h)[i]]
    BY <2>4 DEF ReachedFcn
  <2> QED BY <2>5, <2>6
<1> DEFINE c == CHOOSE f : f = ReachedFcn(f, e, h)
<1>4. c = ReachedFcn(c, e, h)
  BY <1>3, Zenon
<1>5. Reached(e, h) = c[h]
  BY Zenon DEF Reached, ReachedFcn
<1> HIDE DEF c
<1>6. c[0] = e /\ \A i \in 1..h : c[i] = Extended(c[i - 1], h)
  <2>1. ReachedFcn(c, e, h)[0] = e
    BY DEF ReachedFcn
  <2>2. ASSUME NEW i \in 1..h PROVE ReachedFcn(c, e, h)[i] = Extended(c[i - 1], h)
    <3>1. i \in 0..h /\ i # 0
      OBVIOUS
    <3> QED BY <3>1, Zenon DEF ReachedFcn
  <2> QED BY <1>4, <2>1, <2>2
<1> DEFINE T == {i \in 0..h : c[i] \in V /\ (Far(c[i]) \/ Len(c[i].at) >= i + 1)}
<1>7. T \in SUBSET Nat /\ 0 \in T
  <2>1. 0 \in 0..h /\ Len(e.at) >= 0 + 1
    BY <1>1, <1>2
  <2> QED BY <1>2, <1>6, <2>1
<1>8. ASSUME NEW k \in 0..h, k \in T, k < h PROVE k + 1 \in T
  <2>1. c[k] \in V /\ (Far(c[k]) \/ Len(c[k].at) >= k + 1)
    BY <1>8
  <2> HIDE DEF T
  <2>2. k + 1 \in 1..h /\ (k + 1) - 1 = k /\ k + 1 \in 0..h
    BY <1>8
  <2>3. c[k + 1] = Extended(c[k], h)
    BY <1>6, <2>2
  <2>4. c[k + 1] \in V /\ (Far(c[k]) => Far(c[k + 1]))
    BY <1>1, <2>1, <2>3
  <2>5. ~ Far(c[k]) => Len(c[k + 1].at) >= (k + 1) + 1
    <3> DEFINE m == Len(c[k].at)
    <3>1. m \in Nat /\ (~ Far(c[k]) => Len(c[k + 1].at) = m + 1)
      BY <1>1, <2>1, <2>3
    <3>2. ~ Far(c[k]) => m >= k + 1
      BY <2>1
    <3> HIDE DEF m
    <3> QED BY <3>1, <3>2
  <2> QED BY <2>2, <2>4, <2>5 DEF T
<1> HIDE DEF T
<1>9. h \in T
  BY <1>7, <1>8, Upward
<1>10. c[h] \in V /\ (Far(c[h]) \/ Len(c[h].at) >= h + 1)
  BY <1>9 DEF T
<1>11. Far(c[h])
  <2> DEFINE n == Len(c[h].at)
             m == Checkpoint(c[h])
  <2>1. n \in Nat /\ m \in Nat /\ m >= n - 1 /\ (Far(c[h]) \/ n >= h + 1)
    BY <1>1, <1>10
  <2>2. h <= m => Far(c[h])
    BY DEF Far
  <2> HIDE DEF n, m
  <2> QED BY <2>1, <2>2
<1> QED BY <1>2, <1>5, <1>10, <1>11 DEF Far

IssuedFcn(f, n, v) == [i \in 0..n |-> IF i = 0 THEN v ELSE Paid(f[i - 1])]

\* Whatever the cache has been asked for, it gives what the curve gives.
LEMMA IssuedThroughExact ==
    ASSUME NEW e, CacheOk(e), NEW h \in Nat
    PROVE  issued_through(e, h) = IssuedBy[h]
<1> DEFINE c == Reached(e, h)
           n == h % STEP
           q == h \div STEP
           f == CHOOSE g : g = IssuedFcn(g, n, c.at[q + 1])
<1>1. issued_through(e, h) = IF c.tail # 0 /\ h >= c.tail
                             THEN c.base + (h - c.tail + 1) * TAIL_SUBSIDY ELSE f[n]
  BY Zenon DEF issued_through, IssuedFcn
<1>2. CacheOk(c) /\ (c.tail # 0 \/ h <= Checkpoint(c))
  BY ReachedFacts
<1> HIDE DEF c
<1>3. c.tail \in Nat /\ c.at \in Seq(Nat) /\ Len(c.at) >= 1 /\ TailOk(c, Checkpoint(c))
  BY <1>2 DEF CacheOk, Caches
<1>4. CASE c.tail # 0 /\ h >= c.tail
  <2> DEFINE t == c.tail
  <2>1. t \in Nat \ {0} /\ h >= t /\ OnTail(t - 1) /\ c.base = IssuedBy[t - 1]
    BY <1>3, <1>4 DEF TailOk
  <2> HIDE DEF t
  <2>2. t - 1 \in Nat /\ h - t + 1 \in Nat /\ (t - 1) + (h - t + 1) = h
    BY <2>1
  <2>3. IssuedBy[h] = c.base + (h - t + 1) * TAIL_SUBSIDY
    BY <2>1, <2>2, TailLasts
  <2> QED BY <1>1, <1>4, <2>3 DEF t
<1>5. CASE ~ (c.tail # 0 /\ h >= c.tail)
  <2> DEFINE L == Len(c.at)
  <2>1. h <= Checkpoint(c) /\ Checkpoint(c) = Mark(L) /\ L \in Nat \ {0}
    <3>1. L \in Nat \ {0}
      <4> DEFINE at == c.at
      <4>1. at \in Seq(Nat) /\ Len(at) >= 1
        BY <1>3
      <4> HIDE DEF at
      <4>2. Len(at) \in Nat \ {0}
        BY <4>1
      <4> QED BY <4>2 DEF at
    <3>2. Checkpoint(c) = Mark(L) /\ Mark(L) \in Nat
      BY <3>1, MarkFacts
    <3>3. c.tail # 0 => c.tail <= Checkpoint(c)
      BY <1>3, <3>2 DEF TailOk
    <3> HIDE DEF L
    <3> QED BY <1>2, <1>3, <1>5, <3>1, <3>2, <3>3
  <2>2. STEP \in Nat \ {0}
    BY EmissionAssumption
  <2>3. q \in Nat /\ n \in Nat /\ q * STEP + n = h /\ q * STEP \in Nat
    BY <2>2
  <2>4. q + 1 \in 1..L
    <3> HIDE DEF L, q, n
    <3>1. h <= (L - 1) * STEP
      BY <2>1 DEF Mark
    <3>2. ASSUME q >= L PROVE FALSE
      <4>1. q * STEP >= L * STEP /\ L * STEP = (L - 1) * STEP + STEP /\ (L - 1) * STEP \in Nat
        BY <2>1, <2>2, <2>3, <3>2
      <4> QED BY <2>2, <2>3, <3>1, <4>1
    <3> QED BY <2>1, <2>3, <3>2
  <2>5. c.at[q + 1] = IssuedBy[q * STEP]
    <3>1. (q + 1) - 1 = q
      BY <2>3
    <3> QED BY <1>2, <2>4, <3>1 DEF CacheOk, Mark
  <2> HIDE DEF L, q, n
  <2> DEFINE b == q * STEP
             r == [i \in 0..n |-> IssuedBy[b + i]]
  <2>6. b \in Nat /\ b + 0 = b /\ b + n = h
    BY <2>3
  <2> HIDE DEF b
  <2>7. r = IssuedFcn(r, n, c.at[q + 1])
    <3>1. ASSUME NEW i \in 0..n
          PROVE  IssuedBy[b + i] = IF i = 0 THEN c.at[q + 1] ELSE Paid(r[i - 1])
      <4>1. CASE i = 0
        BY <2>5, <2>6, <4>1 DEF b
      <4>2. CASE i # 0
        <5>1. i - 1 \in 0..n /\ b + (i - 1) \in Nat /\ (b + (i - 1)) + 1 = b + i
          BY <2>3, <2>6, <4>2
        <5>2. IssuedBy[b + i] = Paid(IssuedBy[b + (i - 1)])
          BY <5>1, IssuedFacts
        <5> QED BY <4>2, <5>1, <5>2
      <4> QED BY <4>1, <4>2
    <3> QED BY <3>1 DEF IssuedFcn
  <2>8. f = IssuedFcn(f, n, c.at[q + 1])
    BY <2>7, Zenon
  <2> HIDE DEF f
  <2>9. f[0] = r[0] /\ \A i \in 1..n : f[i - 1] = r[i - 1] => f[i] = r[i]
    <3> HIDE DEF r
    <3>1. \A i \in 0..n : f[i] = IF i = 0 THEN c.at[q + 1] ELSE Paid(f[i - 1])
      BY <2>8 DEF IssuedFcn
    <3>2. \A i \in 0..n : r[i] = IF i = 0 THEN c.at[q + 1] ELSE Paid(r[i - 1])
      BY <2>7 DEF IssuedFcn
    <3>3. 0 \in 0..n /\ \A i \in 1..n : i \in 0..n /\ i # 0
      BY <2>3
    <3> QED BY <3>1, <3>2, <3>3
  <2>10. f[n] = r[n]
    <3> HIDE DEF r
    <3> QED BY <2>3, <2>9, SameEnd
  <2>11. f[n] = IssuedBy[h]
    <3>1. n \in 0..n
      BY <2>3
    <3> QED BY <2>6, <2>10, <3>1
  <2> QED BY <1>1, <1>5, <2>11
<1> QED BY <1>4, <1>5

(***************************************************************************)
(* Functions and sequences of whatever they hold                           *)
(***************************************************************************)
IsFcn(f) == f = [x \in DOMAIN f |-> f[x]]
IsSeq(s) == s \in Seq(Range(s))

\* The empty function, and what the operators of LedgerView make of two.
LEMMA FcnFacts ==
    /\ IsFcn(<<>>) /\ DOMAIN <<>> = {}
    /\ \A f, g : IsFcn(Over(f, g)) /\ DOMAIN Over(f, g) = DOMAIN f \union DOMAIN g
    /\ \A f, S : IsFcn(Only(f, S)) /\ DOMAIN Only(f, S) = DOMAIN f \intersect S
    /\ \A f, S : IsFcn(Without(f, S)) /\ DOMAIN Without(f, S) = DOMAIN f \ S
    /\ \A a, n : IsFcn(One(a, n)) /\ DOMAIN One(a, n) = {a}
<1>1. IsFcn(<<>>) /\ DOMAIN <<>> = {}
  BY DEF IsFcn
<1>2. \A f, g : IsFcn(Over(f, g)) /\ DOMAIN Over(f, g) = DOMAIN f \union DOMAIN g
  BY DEF Over, IsFcn
<1>3. \A f, S : IsFcn(Only(f, S)) /\ DOMAIN Only(f, S) = DOMAIN f \intersect S
  BY DEF Only, IsFcn
<1>4. \A f, S : IsFcn(Without(f, S)) /\ DOMAIN Without(f, S) = DOMAIN f \ S
  BY DEF Without, IsFcn
<1>5. \A a, n : IsFcn(One(a, n)) /\ DOMAIN One(a, n) = {a}
  BY DEF One, IsFcn
<1> QED BY <1>1, <1>2, <1>3, <1>4, <1>5

\* Two functions are the same if they have the same domain and values.
LEMMA SameFcn ==
    ASSUME NEW f, NEW g, IsFcn(f), IsFcn(g), DOMAIN f = DOMAIN g,
           \A x \in DOMAIN f : f[x] = g[x]
    PROVE  f = g
<1>1. [x \in DOMAIN f |-> f[x]] = [x \in DOMAIN g |-> g[x]]
  OBVIOUS
<1> QED BY <1>1 DEF IsFcn

\* What a sequence is when it is made longer or shorter.
LEMMA SeqShape ==
    ASSUME NEW s, IsSeq(s)
    PROVE  /\ Len(s) \in Nat /\ DOMAIN s = 1..Len(s)
           /\ \A x : /\ IsSeq(Append(s, x)) /\ Len(Append(s, x)) = Len(s) + 1
                     /\ Append(s, x)[Len(s) + 1] = x
                     /\ \A i \in 1..Len(s) : Append(s, x)[i] = s[i]
           /\ \A x : /\ IsSeq(<<x>> \o s) /\ Len(<<x>> \o s) = Len(s) + 1
                     /\ (<<x>> \o s)[1] = x
                     /\ \A i \in 1..Len(s) : (<<x>> \o s)[i + 1] = s[i]
           /\ Len(s) > 0 => /\ IsSeq(Front(s)) /\ Len(Front(s)) = Len(s) - 1
                            /\ Last(s) = s[Len(s)]
                            /\ \A i \in 1..Len(s) - 1 : Front(s)[i] = s[i]
<1> DEFINE R == Range(s)
           n == Len(s)
<1>1. s \in Seq(R) /\ n \in Nat /\ DOMAIN s = 1..n
  BY DEF IsSeq
<1>2. ASSUME NEW S, NEW t \in Seq(S) PROVE IsSeq(t)
  <2>1. Range(t) = {t[i] : i \in 1..Len(t)} /\ t \in [1..Len(t) -> S] /\ Len(t) \in Nat
    BY DEF Range
  <2>2. t \in [1..Len(t) -> Range(t)]
    BY <2>1
  <2> DEFINE m == Len(t)
             q == [i \in 1..m |-> t[i]]
  <2>3. t = q /\ m \in Nat /\ \A i \in 1..m : t[i] \in Range(t)
    BY <2>1
  <2>4. q \in Seq(Range(t))
    <3> HIDE DEF m
    <3> QED BY <2>3
  <2> QED BY <2>3, <2>4, Zenon DEF IsSeq
<1>3. ASSUME NEW x
      PROVE  /\ IsSeq(Append(s, x)) /\ Len(Append(s, x)) = n + 1 /\ Append(s, x)[n + 1] = x
             /\ \A i \in 1..n : Append(s, x)[i] = s[i]
             /\ IsSeq(<<x>> \o s) /\ Len(<<x>> \o s) = n + 1 /\ (<<x>> \o s)[1] = x
             /\ \A i \in 1..n : (<<x>> \o s)[i + 1] = s[i]
  <2> DEFINE S == R \union {x}
  <2>1. s \in Seq(S) /\ x \in S
    BY <1>1
  <2> HIDE DEF S, R
  <2>2. /\ Append(s, x) \in Seq(S) /\ Len(Append(s, x)) = n + 1 /\ Append(s, x)[n + 1] = x
        /\ \A i \in 1..n : Append(s, x)[i] = s[i]
    BY <2>1
  <2>3. /\ <<x>> \in Seq(S) /\ <<x>> \o s \in Seq(S) /\ Len(<<x>> \o s) = n + 1
        /\ (<<x>> \o s)[1] = x /\ \A i \in 1..n : (<<x>> \o s)[i + 1] = s[i]
    BY <2>1
  <2> QED BY <1>2, <2>2, <2>3
<1>4. ASSUME n > 0
      PROVE  /\ IsSeq(Front(s)) /\ Len(Front(s)) = n - 1 /\ Last(s) = s[n]
             /\ \A i \in 1..n - 1 : Front(s)[i] = s[i]
  <2>1. Front(s) = SubSeq(s, 1, n - 1) /\ Last(s) = s[n]
    BY DEF Front, Last
  <2> HIDE DEF R
  <2>2. /\ SubSeq(s, 1, n - 1) \in Seq(R) /\ Len(SubSeq(s, 1, n - 1)) = n - 1
        /\ \A i \in 1..n - 1 : SubSeq(s, 1, n - 1)[i] = s[i]
    BY <1>1, <1>4
  <2> QED BY <1>2, <2>1, <2>2
<1> QED BY <1>1, <1>3, <1>4

(***************************************************************************)
(* A transaction on a view                                                 *)
(***************************************************************************)
Fields(v) == [base |-> v.base, created |-> v.created, spentCreated |-> v.spentCreated,
              spentBase |-> v.spentBase, tokens |-> v.tokens, pools |-> v.pools,
              poolsBefore |-> v.poolsBefore]
Before(st, t) == IF t \in DOMAIN st.pools THEN st.pools[t] ELSE NoPool

\* What a view over st is, whatever was applied to it: the coins it takes from
\* the base are there, its tokens are not, and of every pool it changes it has
\* saved what the base has.
ViewOk(v, st) ==
    /\ v = Fields(v) /\ v.base = st
    /\ IsFcn(v.created) /\ IsFcn(v.tokens) /\ IsFcn(v.pools)
    /\ v.spentBase = Only(st.coins, DOMAIN v.spentBase)
    /\ DOMAIN v.tokens \intersect DOMAIN st.tokens = {}
    /\ v.poolsBefore = [t \in DOMAIN v.pools |-> Before(st, t)]

RunFcn(f, v, tx) ==
    [i \in 0..Len(tx.ops) |->
        IF i = 0 THEN [ok |-> TRUE, pools |-> <<>>, minted |-> <<>>]
        ELSE IF f[i - 1].ok THEN RunOp(v, tx, f[i - 1], i) ELSE f[i - 1]]
RunNext(v, tx, s, i) == IF s.ok THEN RunOp(v, tx, s, i) ELSE s
RanOps(r, v, tx) ==
    /\ r[0] = [ok |-> TRUE, pools |-> <<>>, minted |-> <<>>]
    /\ \A i \in 1..Len(tx.ops) : r[i] = RunNext(v, tx, r[i - 1], i)

\* The operations of a transaction are run one by one.
LEMMA RunOpsRun ==
    ASSUME NEW v, NEW tx, IsSeq(tx.ops)
    PROVE  \E r : RanOps(r, v, tx) /\ RunOps(v, tx) = r[Len(tx.ops)]
<1> DEFINE n == Len(tx.ops)
           z == [ok |-> TRUE, pools |-> <<>>, minted |-> <<>>]
           To(f, k) == [i \in 0..k |-> IF i = 0 THEN z ELSE RunNext(v, tx, f[i - 1], i)]
           T == {k \in 0..n : \E f : f = To(f, k)}
<1>1. n \in Nat
  BY SeqShape
<1> HIDE DEF z, n
<1>2. T \in SUBSET Nat /\ 0 \in T
  <2> DEFINE f == [i \in 0..0 |-> z]
  <2>1. f = To(f, 0)
    OBVIOUS
  <2>2. \E g : g = To(g, 0)
    BY <2>1, Zenon
  <2> QED BY <1>1, <2>2
<1>3. ASSUME NEW k \in 0..n, k \in T, k < n PROVE k + 1 \in T
  <2>1. PICK f : f = To(f, k)
    BY <1>3
  <2> DEFINE y == RunNext(v, tx, f[k], k + 1)
             g == [i \in 0..k + 1 |-> IF i = k + 1 THEN y ELSE f[i]]
  <2>2. k \in Nat /\ k + 1 \in 0..n
    BY <1>1, <1>3
  <2>3. ASSUME NEW i \in 0..k + 1 PROVE g[i] = To(g, k + 1)[i]
    <3>1. CASE i = k + 1
      <4>1. i - 1 = k /\ k \in 0..k + 1 /\ k # k + 1 /\ i # 0
        BY <2>2, <3>1
      <4>2. g[i - 1] = f[k] /\ g[i] = y
        BY <3>1, <4>1
      <4> QED BY <3>1, <4>1, <4>2
    <3>2. CASE i # k + 1
      <4>1. i \in 0..k /\ g[i] = f[i]
        BY <2>2, <3>2
      <4>2. CASE i = 0
        BY <2>1, <4>1, <4>2
      <4>3. CASE i # 0
        <5>1. i - 1 \in 0..k + 1 /\ i - 1 # k + 1
          BY <2>2, <4>1, <4>3
        <5>2. g[i - 1] = f[i - 1]
          BY <5>1
        <5>3. f[i] = RunNext(v, tx, f[i - 1], i)
          <6>1. To(f, k)[i] = RunNext(v, tx, f[i - 1], i)
            BY <4>1, <4>3
          <6> QED BY <2>1, <6>1
        <5> QED BY <4>1, <4>3, <5>2, <5>3
      <4> QED BY <4>2, <4>3
    <3> QED BY <3>1, <3>2
  <2>4. g = To(g, k + 1)
    <3>1. g = [i \in 0..k + 1 |-> g[i]]
      OBVIOUS
    <3>2. To(g, k + 1) = [i \in 0..k + 1 |-> To(g, k + 1)[i]]
      OBVIOUS
    <3> HIDE DEF g, To
    <3> QED BY <2>3, <3>1, <3>2
  <2> HIDE DEF g
  <2>5. \E h : h = To(h, k + 1)
    BY <2>4, Zenon
  <2> QED BY <2>2, <2>5
<1>4. n \in T
  <2> HIDE DEF T
  <2> QED BY <1>1, <1>2, <1>3, Upward
<1>5. PICK f : f = To(f, n)
  BY <1>4
<1>6. To(f, n) = RunFcn(f, v, tx)
  BY DEF RunFcn, RunNext, n, z
<1> DEFINE c == CHOOSE g : g = RunFcn(g, v, tx)
<1>7. c = RunFcn(c, v, tx)
  BY <1>5, <1>6, Zenon
<1>8. RunOps(v, tx) = c[n]
  BY Zenon DEF RunOps, RunFcn, n
<1> HIDE DEF c
<1>9. RanOps(c, v, tx)
  <2>1. RunFcn(c, v, tx)[0] = z
    <3>1. 0 \in 0..Len(tx.ops)
      BY <1>1 DEF n
    <3> QED BY <3>1, Zenon DEF RunFcn, z
  <2>2. ASSUME NEW i \in 1..n PROVE RunFcn(c, v, tx)[i] = RunNext(v, tx, c[i - 1], i)
    <3>1. i \in 0..Len(tx.ops) /\ i # 0
      BY <1>1 DEF n
    <3> QED BY <3>1, Zenon DEF RunFcn, RunNext
  <2> QED BY <1>7, <2>1, <2>2 DEF RanOps, n, z
<1> QED BY <1>8, <1>9 DEF n

OpsOk(s, v) ==
    /\ s = [ok |-> s.ok, pools |-> s.pools, minted |-> s.minted]
    /\ IsFcn(s.pools) /\ IsFcn(s.minted)
    /\ s.ok => \A t \in DOMAIN s.minted : ~ HasToken(v, t)

\* Tokens that were there are not minted again: the operation is refused.
LEMMA RunOpKeeps ==
    ASSUME NEW v, NEW tx, NEW i, NEW s, OpsOk(s, v), s.ok
    PROVE  OpsOk(RunOp(v, tx, s, i), v)
<1> DEFINE op == tx.ops[i]
           token == TokenId(tx.ins[1], i)
           r == RunOp(v, tx, s, i)
<1>1. s = [ok |-> s.ok, pools |-> s.pools, minted |-> s.minted] /\ IsFcn(s.pools) /\ IsFcn(s.minted)
      /\ \A t \in DOMAIN s.minted : ~ HasToken(v, t)
  BY DEF OpsOk
<1>2. ASSUME op.type = "create" PROVE OpsOk(r, v)
  <2>1. r = [s EXCEPT !.ok = ~ Knows(v, s, token), !.minted = Over(@, One(token, op.supply))]
    BY <1>2, Zenon DEF RunOp
  <2>2. /\ r = [ok |-> r.ok, pools |-> r.pools, minted |-> r.minted] /\ r.pools = s.pools
        /\ r.ok = ~ Knows(v, s, token) /\ r.minted = Over(s.minted, One(token, op.supply))
    <3> HIDE DEF r
    <3> QED BY <1>1, <2>1
  <2>3. IsFcn(r.minted) /\ DOMAIN r.minted = DOMAIN s.minted \union {token}
    <3> DEFINE o == One(token, op.supply)
    <3>1. IsFcn(Over(s.minted, o)) /\ DOMAIN Over(s.minted, o) = DOMAIN s.minted \union DOMAIN o
      BY FcnFacts, Zenon
    <3>2. DOMAIN o = {token}
      BY FcnFacts, Zenon
    <3>3. r.minted = Over(s.minted, o)
      BY <2>2, Zenon
    <3> HIDE DEF r, o, token
    <3> QED BY <3>1, <3>2, <3>3
  <2>4. r.ok => ~ HasToken(v, token)
    BY <2>2 DEF Knows
  <2> HIDE DEF r, token
  <2> QED BY <1>1, <2>2, <2>3, <2>4 DEF OpsOk
<1>3. ASSUME op.type # "create" /\ op.type = "message" PROVE OpsOk(r, v)
  <2> DEFINE b == \E k \in DOMAIN tx.ins : CoinOf(v, tx.ins[k]).out.owner = op.from
  <2>1. r = [s EXCEPT !.ok = b]
    BY <1>3, Zenon DEF RunOp
  <2> HIDE DEF r, b
  <2>2. /\ r = [ok |-> r.ok, pools |-> r.pools, minted |-> r.minted]
        /\ r.pools = s.pools /\ r.minted = s.minted
    BY <1>1, <2>1
  <2> QED BY <1>1, <2>2 DEF OpsOk
<1>4. ASSUME op.type # "create" /\ op.type # "message" PROVE OpsOk(r, v)
  <2> DEFINE b == /\ op.type = "open" => Knows(v, s, op.token)
                  /\ Allowed(PoolNow(v, s, op.token), op)
             n == PoolAfter(PoolNow(v, s, op.token), op)
  <2>1. r = [s EXCEPT !.ok = b, !.pools = Over(@, One(op.token, n))]
    BY <1>4, Zenon DEF RunOp
  <2> HIDE DEF r, b, n
  <2>2. /\ r = [ok |-> r.ok, pools |-> r.pools, minted |-> r.minted]
        /\ r.pools = Over(s.pools, One(op.token, n)) /\ r.minted = s.minted
    BY <1>1, <2>1
  <2>3. IsFcn(r.pools)
    BY <2>2, FcnFacts
  <2> QED BY <1>1, <2>2, <2>3 DEF OpsOk
<1> QED BY <1>2, <1>3, <1>4

\* What the operations of a transaction come to.
LEMMA RunOpsFacts ==
    ASSUME NEW v, NEW tx, IsSeq(tx.ops)
    PROVE  OpsOk(RunOps(v, tx), v)
<1> DEFINE n == Len(tx.ops)
<1>1. n \in Nat
  BY SeqShape
<1>2. PICK r : RanOps(r, v, tx) /\ RunOps(v, tx) = r[n]
  BY RunOpsRun
<1> DEFINE T == {k \in 0..n : OpsOk(r[k], v)}
<1>3. T \in SUBSET Nat /\ 0 \in T
  <2> DEFINE z == [ok |-> TRUE, pools |-> <<>>, minted |-> <<>>]
  <2>1. OpsOk(z, v)
    BY FcnFacts DEF OpsOk
  <2>2. r[0] = z
    BY <1>2 DEF RanOps
  <2> HIDE DEF z
  <2> QED BY <1>1, <2>1, <2>2
<1>4. ASSUME NEW k \in 0..n, k \in T, k < n PROVE k + 1 \in T
  <2>1. k + 1 \in 1..n /\ (k + 1) - 1 = k /\ k + 1 \in 0..n
    BY <1>1, <1>4
  <2>2. r[k + 1] = RunNext(v, tx, r[k], k + 1)
    BY <1>2, <2>1 DEF RanOps
  <2>3. OpsOk(r[k], v)
    BY <1>4
  <2>4. CASE r[k].ok
    BY <2>1, <2>2, <2>3, <2>4, RunOpKeeps DEF RunNext
  <2>5. CASE ~ r[k].ok
    BY <2>1, <2>2, <2>3, <2>5 DEF RunNext
  <2> QED BY <2>4, <2>5
<1> HIDE DEF T, n
<1>5. n \in T
  BY <1>1, <1>3, <1>4, Upward
<1> QED BY <1>2, <1>5 DEF T

\* A coinbase that a transaction does not spend makes no difference to its
\* operations.
LEMMA OpsBesideCoinbase ==
    ASSUME NEW v, NEW st, ViewOk(v, st), NEW cb, NEW h, NEW tx, IsSeq(tx.ops),
           \A k \in DOMAIN tx.ins : tx.ins[k] \notin DOMAIN Outputs(cb, h)
    PROVE  RunOps(apply_coinbase(v, cb, h), tx) = RunOps(v, tx)
<1> DEFINE w == apply_coinbase(v, cb, h)
           n == Len(tx.ops)
<1>1. /\ w.base = v.base /\ w.tokens = v.tokens /\ w.pools = v.pools
      /\ w.created = Over(v.created, Outputs(cb, h))
  BY DEF ViewOk, Fields, apply_coinbase
<1> HIDE DEF w
<1>2. \A t : PoolOf(w, t) = PoolOf(v, t) /\ (HasToken(w, t) <=> HasToken(v, t))
  BY <1>1 DEF PoolOf, HasToken
<1>3. ASSUME NEW k \in DOMAIN tx.ins PROVE CoinOf(w, tx.ins[k]) = CoinOf(v, tx.ins[k])
  BY <1>1 DEF CoinOf, Over
<1>4. ASSUME NEW s, NEW i PROVE RunOp(w, tx, s, i) = RunOp(v, tx, s, i)
  <2>1. \A t : PoolNow(w, s, t) = PoolNow(v, s, t) /\ (Knows(w, s, t) <=> Knows(v, s, t))
    BY <1>2 DEF PoolNow, Knows
  <2> DEFINE op == tx.ops[i]
             token == TokenId(tx.ins[1], i)
  <2>2. CASE op.type = "create"
    <3> DEFINE E(b) == [s EXCEPT !.ok = b, !.minted = Over(@, One(token, op.supply))]
    <3>1. RunOp(w, tx, s, i) = E(~ Knows(w, s, token)) /\ RunOp(v, tx, s, i) = E(~ Knows(v, s, token))
      BY <2>2, Zenon DEF RunOp
    <3>2. (~ Knows(w, s, token)) = (~ Knows(v, s, token))
      BY <2>1 DEF Knows
    <3> QED BY <3>1, <3>2, Zenon
  <2>3. CASE op.type # "create" /\ op.type = "message"
    <3> DEFINE E(b) == [s EXCEPT !.ok = b]
               b1 == \E k \in DOMAIN tx.ins : CoinOf(w, tx.ins[k]).out.owner = op.from
               b2 == \E k \in DOMAIN tx.ins : CoinOf(v, tx.ins[k]).out.owner = op.from
    <3>1. RunOp(w, tx, s, i) = E(b1) /\ RunOp(v, tx, s, i) = E(b2)
      BY <2>3, Zenon DEF RunOp
    <3>2. b1 = b2
      BY <1>3
    <3> QED BY <3>1, <3>2, Zenon
  <2>4. CASE op.type # "create" /\ op.type # "message"
    <3> DEFINE E(b, p) == [s EXCEPT !.ok = b, !.pools = Over(@, One(op.token, p))]
               b1 == /\ op.type = "open" => Knows(w, s, op.token)
                     /\ Allowed(PoolNow(w, s, op.token), op)
               b2 == /\ op.type = "open" => Knows(v, s, op.token)
                     /\ Allowed(PoolNow(v, s, op.token), op)
    <3>1. /\ RunOp(w, tx, s, i) = E(b1, PoolAfter(PoolNow(w, s, op.token), op))
          /\ RunOp(v, tx, s, i) = E(b2, PoolAfter(PoolNow(v, s, op.token), op))
      BY <2>4, Zenon DEF RunOp
    <3>2. PoolNow(w, s, op.token) = PoolNow(v, s, op.token)
      BY <2>1, Zenon
    <3>3. b1 = b2
      BY <2>1, <3>2
    <3> QED BY <3>1, <3>2, <3>3, Zenon
  <2> QED BY <2>2, <2>3, <2>4
<1>5. PICK r : RanOps(r, w, tx) /\ RunOps(w, tx) = r[n]
  BY RunOpsRun
<1>6. PICK q : RanOps(q, v, tx) /\ RunOps(v, tx) = q[n]
  BY RunOpsRun
<1>7. r[0] = q[0] /\ \A i \in 1..n : r[i - 1] = q[i - 1] => r[i] = q[i]
  BY <1>4, <1>5, <1>6 DEF RanOps, RunNext
<1>8. r[n] = q[n]
  <2>1. n \in Nat
    BY SeqShape
  <2> HIDE DEF n
  <2> QED BY <1>7, <2>1, SameEnd
<1> QED BY <1>5, <1>6, <1>8 DEF w

IsApplied(u, v, ins, ran, outs) ==
    LET own == ins \intersect DOMAIN v.created IN
    /\ u = Fields(u) /\ u.base = v.base
    /\ u.created = Over(Without(v.created, own), outs)
    /\ u.spentCreated = v.spentCreated \union own
    /\ u.spentBase = Over(v.spentBase, Only(v.base.coins, ins \ own))
    /\ u.tokens = Over(v.tokens, ran.minted)
    /\ u.pools = Over(v.pools, ran.pools)
    /\ u.poolsBefore = PoolsBefore(v, DOMAIN ran.pools)
HasCoinbase(w, v, outs) ==
    /\ w = Fields(w) /\ w.created = Over(v.created, outs)
    /\ w.base = v.base /\ w.spentCreated = v.spentCreated /\ w.spentBase = v.spentBase
    /\ w.tokens = v.tokens /\ w.pools = v.pools /\ w.poolsBefore = v.poolsBefore
    /\ DOMAIN w.created = DOMAIN v.created \union DOMAIN outs

\* The parts of a view after a transaction.
LEMMA AppliedParts ==
    ASSUME NEW v, v = Fields(v), NEW tx, NEW h
    PROVE  IsApplied(Applied(v, tx, h), v, Range(tx.ins), RunOps(v, tx), Outputs(tx, h))
<1> DEFINE ins == Range(tx.ins)
           own == ins \intersect DOMAIN v.created
           ran == RunOps(v, tx)
           u == Applied(v, tx, h)
           cr == Over(Without(v.created, own), Outputs(tx, h))
           sc == v.spentCreated \union own
           sb == Over(v.spentBase, Only(v.base.coins, ins \ own))
           to == Over(v.tokens, ran.minted)
           po == Over(v.pools, ran.pools)
           be == PoolsBefore(v, DOMAIN ran.pools)
<1>1. u = [v EXCEPT !.created = cr, !.spentCreated = sc, !.spentBase = sb,
                    !.tokens = to, !.pools = po, !.poolsBefore = be]
  BY Fields(v) = v, Zenon DEF Applied
<1> HIDE DEF u, cr, sc, sb, to, po, be
<1>2. u = [base |-> v.base, created |-> cr, spentCreated |-> sc, spentBase |-> sb,
           tokens |-> to, pools |-> po, poolsBefore |-> be]
  BY <1>1 DEF Fields
<1>3. /\ u = Fields(u) /\ u.base = v.base /\ u.created = cr /\ u.spentCreated = sc
      /\ u.spentBase = sb /\ u.tokens = to /\ u.pools = po /\ u.poolsBefore = be
  BY <1>2 DEF Fields
<1> QED BY <1>3 DEF u, cr, sc, sb, to, po, be, IsApplied

\* A transaction whose operations are not refused keeps what a view is.
LEMMA AppliedKeeps ==
    ASSUME NEW v, NEW st, ViewOk(v, st), NEW tx, NEW h, IsSeq(tx.ops), RunOps(v, tx).ok
    PROVE  /\ ViewOk(Applied(v, tx, h), st)
           /\ DOMAIN Applied(v, tx, h).created \subseteq
                  DOMAIN v.created \union DOMAIN Outputs(tx, h)
<1> DEFINE ins == Range(tx.ins)
           own == ins \intersect DOMAIN v.created
           ran == RunOps(v, tx)
           u == Applied(v, tx, h)
<1>1. /\ u = Fields(u) /\ u.base = v.base
      /\ u.created = Over(Without(v.created, own), Outputs(tx, h))
      /\ u.spentBase = Over(v.spentBase, Only(v.base.coins, ins \ own))
      /\ u.tokens = Over(v.tokens, ran.minted)
      /\ u.pools = Over(v.pools, ran.pools)
      /\ u.poolsBefore = PoolsBefore(v, DOMAIN ran.pools)
  <2>1. v = Fields(v)
    BY DEF ViewOk
  <2>2. IsApplied(u, v, ins, ran, Outputs(tx, h))
    BY <2>1, AppliedParts
  <2> HIDE DEF ins, ran, u
  <2> QED BY <2>2 DEF IsApplied
<1>2. IsFcn(ran.pools) /\ IsFcn(ran.minted) /\ \A t \in DOMAIN ran.minted : ~ HasToken(v, t)
  BY RunOpsFacts DEF OpsOk
<1>3. v.base = st /\ v.spentBase = Only(st.coins, DOMAIN v.spentBase)
      /\ DOMAIN v.tokens \intersect DOMAIN st.tokens = {}
      /\ v.poolsBefore = [t \in DOMAIN v.pools |-> Before(st, t)]
  BY DEF ViewOk
<1> HIDE DEF u, ran, own, ins
<1>4. IsFcn(u.created) /\ DOMAIN u.created \subseteq DOMAIN v.created \union DOMAIN Outputs(tx, h)
  <2> DEFINE a == Without(v.created, own)
             b == Outputs(tx, h)
  <2>1. DOMAIN a = DOMAIN v.created \ own
    BY FcnFacts, Zenon
  <2>2. u.created = Over(a, b)
    BY <1>1, Zenon
  <2> HIDE DEF a, b
  <2>3. IsFcn(Over(a, b)) /\ DOMAIN Over(a, b) = DOMAIN a \union DOMAIN b
    BY FcnFacts, Zenon
  <2> QED BY <2>1, <2>2, <2>3 DEF b
<1>5. u.spentBase = Only(st.coins, DOMAIN u.spentBase)
  <2> DEFINE A == DOMAIN v.spentBase
             B == ins \ own
             c == st.coins
  <2>1. u.spentBase = Over(Only(c, A), Only(c, B))
    BY <1>1, <1>3
  <2> HIDE DEF A, B, c
  <2>2. Over(Only(c, A), Only(c, B)) = Only(c, DOMAIN Over(Only(c, A), Only(c, B)))
    BY DEF Over, Only
  <2> QED BY <2>1, <2>2 DEF c
<1>6. IsFcn(u.tokens) /\ DOMAIN u.tokens \intersect DOMAIN st.tokens = {}
  <2>1. IsFcn(u.tokens) /\ DOMAIN u.tokens = DOMAIN v.tokens \union DOMAIN ran.minted
    <3>1. IsFcn(Over(v.tokens, ran.minted))
          /\ DOMAIN Over(v.tokens, ran.minted) = DOMAIN v.tokens \union DOMAIN ran.minted
      BY FcnFacts, Zenon
    <3> QED BY <1>1, <3>1
  <2>2. \A t \in DOMAIN ran.minted : t \notin DOMAIN st.tokens
    BY <1>2, <1>3 DEF HasToken
  <2> QED BY <1>3, <2>1, <2>2
<1>7. IsFcn(u.pools) /\ DOMAIN u.pools = DOMAIN v.pools \union DOMAIN ran.pools
  <2>1. IsFcn(Over(v.pools, ran.pools))
        /\ DOMAIN Over(v.pools, ran.pools) = DOMAIN v.pools \union DOMAIN ran.pools
    BY FcnFacts, Zenon
  <2> QED BY <1>1, <2>1
<1>8. u.poolsBefore = [t \in DOMAIN u.pools |-> Before(st, t)]
  <2> DEFINE P == DOMAIN v.pools
             R == DOMAIN ran.pools
             new == R \ (DOMAIN v.poolsBefore \union P)
             b == [t \in new |-> IF t \in DOMAIN v.base.pools THEN v.base.pools[t] ELSE NoPool]
  <2>1. u.poolsBefore = Over(v.poolsBefore, b)
    BY <1>1, Zenon DEF PoolsBefore
  <2>2. v.poolsBefore = [t \in P |-> Before(st, t)]
    BY <1>3
  <2> HIDE DEF P, R
  <2>3. new = R \ P /\ b = [t \in new |-> Before(st, t)]
    BY <1>3, <2>2 DEF Before
  <2> HIDE DEF new, b
  <2>4. Over(v.poolsBefore, b) = [t \in P \union R |-> Before(st, t)]
    BY <2>2, <2>3 DEF Over
  <2> QED BY <1>7, <2>1, <2>4 DEF P, R
<1> QED BY <1>1, <1>3, <1>4, <1>5, <1>6, <1>7, <1>8 DEF ViewOk, u

\* So does a coinbase.
LEMMA CoinbaseKeeps ==
    ASSUME NEW v, NEW st, ViewOk(v, st), NEW cb, NEW h
    PROVE  /\ ViewOk(apply_coinbase(v, cb, h), st)
           /\ HasCoinbase(apply_coinbase(v, cb, h), v, Outputs(cb, h))
<1> DEFINE w == apply_coinbase(v, cb, h)
           o == Over(v.created, Outputs(cb, h))
<1>1. v = Fields(v) /\ w = [v EXCEPT !.created = o]
  BY DEF ViewOk, apply_coinbase
<1>2. IsFcn(o) /\ DOMAIN o = DOMAIN v.created \union DOMAIN Outputs(cb, h)
  BY FcnFacts, Zenon
<1> HIDE DEF w, o
<1>3. /\ w = Fields(w) /\ w.created = o
      /\ w.base = v.base /\ w.spentCreated = v.spentCreated /\ w.spentBase = v.spentBase
      /\ w.tokens = v.tokens /\ w.pools = v.pools /\ w.poolsBefore = v.poolsBefore
  BY <1>1 DEF Fields
<1>4. ViewOk(w, st)
  BY <1>2, <1>3 DEF ViewOk
<1> QED BY <1>2, <1>3, <1>4 DEF w, o, HasCoinbase

\* A transaction that does not spend the coinbase may as well come before it.
LEMMA AppliedBesideCoinbase ==
    ASSUME NEW v, NEW st, ViewOk(v, st), NEW cb, NEW h, NEW tx,
           IsSeq(tx.ops), RunOps(v, tx).ok,
           \A k \in DOMAIN tx.ins : tx.ins[k] \notin DOMAIN Outputs(cb, h),
           DOMAIN Outputs(tx, h) \intersect DOMAIN Outputs(cb, h) = {}
    PROVE  Applied(apply_coinbase(v, cb, h), tx, h) = apply_coinbase(Applied(v, tx, h), cb, h)
<1> DEFINE ins == Range(tx.ins)
           own == ins \intersect DOMAIN v.created
           w == apply_coinbase(v, cb, h)
           a == Applied(w, tx, h)
           u == Applied(v, tx, h)
           b == apply_coinbase(u, cb, h)
           C == Outputs(cb, h)
           O == Outputs(tx, h)
<1>1. ViewOk(w, st) /\ HasCoinbase(w, v, C)
  BY CoinbaseKeeps
<1>2. RunOps(w, tx) = RunOps(v, tx)
  BY OpsBesideCoinbase
<1>3. ins \intersect DOMAIN w.created = own
  <2>1. ins \intersect DOMAIN C = {}
    BY DEF Range
  <2> HIDE DEF ins, w, C
  <2> QED BY <1>1, <2>1 DEF HasCoinbase
<1>4. IsApplied(a, w, ins, RunOps(v, tx), O) /\ IsApplied(u, v, ins, RunOps(v, tx), O)
  <2>1. w = Fields(w) /\ v = Fields(v)
    BY <1>1 DEF ViewOk
  <2> HIDE DEF w
  <2> QED BY <1>2, <2>1, AppliedParts
<1>5. HasCoinbase(b, u, C)
  <2>1. ViewOk(u, st)
    BY AppliedKeeps
  <2> HIDE DEF u
  <2> QED BY <2>1, CoinbaseKeeps
<1>6. PoolsBefore(w, DOMAIN RunOps(v, tx).pools) = PoolsBefore(v, DOMAIN RunOps(v, tx).pools)
  BY <1>1, Zenon DEF PoolsBefore, HasCoinbase
<1>7. Over(Without(Over(v.created, C), own), O) = Over(Over(Without(v.created, own), O), C)
  <2>1. own \intersect DOMAIN C = {}
    BY DEF Range
  <2>2. DOMAIN O \intersect DOMAIN C = {}
    OBVIOUS
  <2> DEFINE f == v.created
  <2> HIDE DEF own, O, C, f
  <2> QED BY <2>1, <2>2 DEF Over, Without, f
<1> HIDE DEF a, b, u, w, ins, O, C
<1>8. own = ins \intersect DOMAIN v.created
  OBVIOUS
<1> HIDE DEF own
<1>9. /\ a.base = b.base /\ a.created = b.created /\ a.spentCreated = b.spentCreated
      /\ a.spentBase = b.spentBase /\ a.tokens = b.tokens /\ a.pools = b.pools
      /\ a.poolsBefore = b.poolsBefore /\ a = Fields(a) /\ b = Fields(b)
  BY <1>1, <1>3, <1>4, <1>5, <1>6, <1>7, <1>8 DEF IsApplied, HasCoinbase
<1>10. Fields(a) = Fields(b)
  BY <1>9 DEF Fields
<1> QED BY <1>9, <1>10 DEF a, b, u, w

(***************************************************************************)
(* The transactions of a block                                             *)
(***************************************************************************)
NoneApplied(v) == [view |-> v, fees |-> 0]
AllFcn(f, v, txs, h) ==
    [i \in 0..Len(txs) |-> IF i = 0 THEN [view |-> v, fees |-> 0] ELSE AppliedNext(f[i - 1], txs[i], h)]
RanAll(r, v, txs, h) ==
    /\ r[0] = NoneApplied(v)
    /\ \A i \in 1..Len(txs) : r[i] = AppliedNext(r[i - 1], txs[i], h)

\* Transactions are applied one by one.
LEMMA AppliedAllRun ==
    ASSUME NEW v, NEW txs, IsSeq(txs), NEW h
    PROVE  \E r : RanAll(r, v, txs, h) /\ AppliedAll(v, txs, h) = r[Len(txs)]
<1> DEFINE n == Len(txs)
           z == NoneApplied(v)
           To(f, k) == [i \in 0..k |-> IF i = 0 THEN z ELSE AppliedNext(f[i - 1], txs[i], h)]
           T == {k \in 0..n : \E f : f = To(f, k)}
<1>1. n \in Nat
  BY SeqShape
<1> HIDE DEF z, n
<1>2. T \in SUBSET Nat /\ 0 \in T
  <2> DEFINE f == [i \in 0..0 |-> z]
  <2>1. f = To(f, 0)
    OBVIOUS
  <2>2. \E g : g = To(g, 0)
    BY <2>1, Zenon
  <2> QED BY <1>1, <2>2
<1>3. ASSUME NEW k \in 0..n, k \in T, k < n PROVE k + 1 \in T
  <2>1. PICK f : f = To(f, k)
    BY <1>3
  <2> DEFINE y == AppliedNext(f[k], txs[k + 1], h)
             g == [i \in 0..k + 1 |-> IF i = k + 1 THEN y ELSE f[i]]
  <2>2. k \in Nat /\ k + 1 \in 0..n
    BY <1>1, <1>3
  <2>3. ASSUME NEW i \in 0..k + 1 PROVE g[i] = To(g, k + 1)[i]
    <3>1. CASE i = k + 1
      <4>1. i - 1 = k /\ k \in 0..k + 1 /\ k # k + 1 /\ i # 0
        BY <2>2, <3>1
      <4>2. g[i - 1] = f[k] /\ g[i] = y
        BY <3>1, <4>1
      <4> QED BY <3>1, <4>1, <4>2
    <3>2. CASE i # k + 1
      <4>1. i \in 0..k /\ g[i] = f[i]
        BY <2>2, <3>2
      <4>2. CASE i = 0
        BY <2>1, <4>1, <4>2
      <4>3. CASE i # 0
        <5>1. i - 1 \in 0..k + 1 /\ i - 1 # k + 1
          BY <2>2, <4>1, <4>3
        <5>2. g[i - 1] = f[i - 1]
          BY <5>1
        <5>3. f[i] = AppliedNext(f[i - 1], txs[i], h)
          <6>1. To(f, k)[i] = AppliedNext(f[i - 1], txs[i], h)
            BY <4>1, <4>3
          <6> QED BY <2>1, <6>1
        <5> QED BY <4>1, <4>3, <5>2, <5>3
      <4> QED BY <4>2, <4>3
    <3> QED BY <3>1, <3>2
  <2>4. g = To(g, k + 1)
    <3>1. g = [i \in 0..k + 1 |-> g[i]]
      OBVIOUS
    <3>2. To(g, k + 1) = [i \in 0..k + 1 |-> To(g, k + 1)[i]]
      OBVIOUS
    <3> HIDE DEF g, To
    <3> QED BY <2>3, <3>1, <3>2
  <2> HIDE DEF g
  <2>5. \E q : q = To(q, k + 1)
    BY <2>4, Zenon
  <2> QED BY <2>2, <2>5
<1>4. n \in T
  <2> HIDE DEF T
  <2> QED BY <1>1, <1>2, <1>3, Upward
<1>5. PICK f : f = To(f, n)
  BY <1>4
<1>6. To(f, n) = AllFcn(f, v, txs, h)
  BY DEF AllFcn, NoneApplied, n, z
<1> DEFINE c == CHOOSE g : g = AllFcn(g, v, txs, h)
<1>7. c = AllFcn(c, v, txs, h)
  BY <1>5, <1>6, Zenon
<1>8. AppliedAll(v, txs, h) = c[n]
  BY Zenon DEF AppliedAll, AllFcn, n
<1> HIDE DEF c
<1>9. RanAll(c, v, txs, h)
  <2>1. AllFcn(c, v, txs, h)[0] = z
    <3>1. 0 \in 0..Len(txs)
      BY <1>1 DEF n
    <3> QED BY <3>1, Zenon DEF AllFcn, NoneApplied, z
  <2>2. ASSUME NEW i \in 1..n PROVE AllFcn(c, v, txs, h)[i] = AppliedNext(c[i - 1], txs[i], h)
    <3>1. i \in 0..Len(txs) /\ i # 0
      BY <1>1 DEF n
    <3> QED BY <3>1, Zenon DEF AllFcn
  <2> QED BY <1>7, <2>1, <2>2 DEF RanAll, n, z
<1> QED BY <1>8, <1>9 DEF n

\* None leaves the view as it is, and one more is applied after the others.
LEMMA AppliedAllGrows ==
    ASSUME NEW v, NEW h
    PROVE  /\ AppliedAll(v, <<>>, h).view = v
           /\ \A txs, tx : IsSeq(txs) =>
                 AppliedAll(v, Append(txs, tx), h) = AppliedNext(AppliedAll(v, txs, h), tx, h)
<1>1. AppliedAll(v, <<>>, h).view = v
  <2>1. IsSeq(<<>>) /\ Len(<<>>) = 0
    BY DEF IsSeq, Range
  <2>2. PICK r : RanAll(r, v, <<>>, h) /\ AppliedAll(v, <<>>, h) = r[Len(<<>>)]
    BY <2>1, AppliedAllRun, Zenon
  <2>3. AppliedAll(v, <<>>, h) = NoneApplied(v)
    BY <2>1, <2>2 DEF RanAll
  <2> QED BY <2>3 DEF NoneApplied
<1>2. ASSUME NEW txs, NEW tx, IsSeq(txs)
      PROVE  AppliedAll(v, Append(txs, tx), h) = AppliedNext(AppliedAll(v, txs, h), tx, h)
  <2> DEFINE n == Len(txs)
             longer == Append(txs, tx)
  <2>1. /\ n \in Nat /\ IsSeq(longer) /\ Len(longer) = n + 1 /\ longer[n + 1] = tx
        /\ \A i \in 1..n : longer[i] = txs[i]
    BY <1>2, SeqShape
  <2>2. PICK r : RanAll(r, v, txs, h) /\ AppliedAll(v, txs, h) = r[n]
    BY <1>2, AppliedAllRun
  <2> HIDE DEF longer
  <2>3. PICK q : RanAll(q, v, longer, h) /\ AppliedAll(v, longer, h) = q[n + 1]
    <3>1. \E q : RanAll(q, v, longer, h) /\ AppliedAll(v, longer, h) = q[Len(longer)]
      BY <2>1, AppliedAllRun
    <3> QED BY <2>1, <3>1
  <2>4. q[0] = r[0] /\ \A i \in 1..n : q[i - 1] = r[i - 1] => q[i] = r[i]
    <3>1. \A i \in 1..n : i \in 1..n + 1
      BY <2>1
    <3> QED BY <2>1, <2>2, <2>3, <3>1 DEF RanAll
  <2>5. q[n] = r[n]
    <3> HIDE DEF n
    <3> QED BY <2>1, <2>4, SameEnd
  <2>6. q[n + 1] = AppliedNext(q[n], tx, h)
    <3>1. n + 1 \in 1..n + 1 /\ (n + 1) - 1 = n
      BY <2>1
    <3> QED BY <2>1, <2>3, <3>1 DEF RanAll
  <2> QED BY <2>2, <2>3, <2>5, <2>6 DEF longer
<1> QED BY <1>1, <1>2

\* What a wallet builds has the operations of its plan, one at most.
LEMMA BuiltOps ==
    ASSUME NEW owner, NEW coins, NEW plan, build(owner, coins, plan).ok
    PROVE  build(owner, coins, plan).tx.ops = plan.ops
<1>1. ASSUME NEW a, NEW b, BuildWith(owner, coins, plan, a, b).ok
      PROVE  BuildWith(owner, coins, plan, a, b).tx.ops = plan.ops
  BY <1>1 DEF BuildWith, Failed
<1> QED BY <1>1 DEF build, Failed

\* An operation on a pool, as it is made: its token, what it moves.
MadeOp(op, t, q, k, s) ==
    \/ op \in {OpPoolCreate(t, q, k, s), OpAddLiquidity(t, q, k, s), OpRemoveLiquidity(t, s, q, k)}
    \/ op = OpSwap(t, TRUE, k, q) \/ op = OpSwap(t, FALSE, q, k)
Shaped(op) == op.type \in {"create", "message"} \/ \E t, q, k, s : MadeOp(op, t, q, k, s)
OneAtMost(ops) == ops = <<>> \/ \E op : Shaped(op) /\ ops = <<op>>

FewOuts(outs) == outs = <<>> \/ \E x : outs = <<x>>

\* Whatever the wallet is asked for, a plan has one operation and one payment at
\* most.
LEMMA PlanShape ==
    ASSUME NEW plan \in Plans
    PROVE  OneAtMost(plan.ops) /\ FewOuts(plan.outs)
<1> DEFINE Fits(p) == OneAtMost(p.ops) /\ FewOuts(p.outs)
<1>0. FewOuts(<<>>) /\ \A x : FewOuts(<<x>>)
  BY DEF FewOuts
<1>1. /\ \A outs : FewOuts(outs) => Fits(Plan(outs, <<>>))
      /\ \A outs, op : FewOuts(outs) /\ Shaped(op) => Fits(Plan(outs, <<op>>))
  BY DEF Plan, OneAtMost
<1>2. \A a, n, less : \A p \in create_tx(You, a, n, less) : Fits(p)
  <2> TAKE a, n, less
  <2> DEFINE q == [Plan(<<Pay(You, a, n)>>, <<>>) EXCEPT !.subtract = less]
  <2>1. \A p \in create_tx(You, a, n, less) : p = q
    BY DEF create_tx
  <2>2. q.ops = <<>> /\ q.outs = <<Pay(You, a, n)>>
    BY DEF Plan
  <2> HIDE DEF q
  <2>3. Fits(q)
    BY <1>0, <2>2 DEF OneAtMost
  <2> QED BY <2>1, <2>3, Zenon
<1>3. \A p \in create_sweep(You) : Fits(p)
  <2> DEFINE q == [Plan(<<Pay(You, QNT, 0)>>, <<>>) EXCEPT !.sweep = TRUE]
  <2>1. q.ops = <<>> /\ q.outs = <<Pay(You, QNT, 0)>>
    BY DEF Plan
  <2>2. \A p \in create_sweep(You) : p = q
    BY DEF create_sweep
  <2> HIDE DEF q
  <2>3. Fits(q)
    BY <1>0, <2>1 DEF OneAtMost
  <2> QED BY <2>2, <2>3, Zenon
<1> HIDE DEF Fits
<1>4. \A n : \A p \in create_token(n) : Fits(p)
  <2>1. \A n : Shaped(OpCreateToken(n))
    BY DEF Shaped, OpCreateToken
  <2> QED BY <1>0, <1>1, <2>1, Zenon DEF create_token
<1>5. \A p \in send_message(Me, You) : Fits(p)
  <2>1. Shaped(OpMessage(Me, You))
    BY DEF Shaped, OpMessage
  <2> QED BY <1>0, <1>1, <2>1, Zenon DEF send_message
<1>6. \A pl, t, n, slip : \A sell \in BOOLEAN : \A p \in swap(pl, t, sell, n, slip) : Fits(p)
  <2>1. ASSUME NEW pl, NEW t, NEW sell \in BOOLEAN, NEW n, NEW slip, NEW p \in swap(pl, t, sell, n, slip) PROVE Fits(p)
    <3> DEFINE quote == IF pl = NoPool THEN 0
                        ELSE IF sell THEN amm_quote(n, pl.tok, pl.qnt) ELSE amm_quote(n, pl.qnt, pl.tok)
               m == Max({quote - slip, 1})
    <3>1. p \in {x \in {Plan(<<>>, <<OpSwap(t, sell, n, m)>>)} : quote > 0 /\ (sell => m >= DUST_LIMIT)}
      BY <2>1, Zenon DEF swap
    <3> HIDE DEF m, quote
    <3>2. p = Plan(<<>>, <<OpSwap(t, sell, n, m)>>)
      BY <3>1, Zenon
    <3>3. Shaped(OpSwap(t, sell, n, m))
      <4>1. CASE sell = TRUE
        BY <4>1, Zenon DEF Shaped, MadeOp
      <4>2. CASE sell = FALSE
        BY <4>2, Zenon DEF Shaped, MadeOp
      <4> QED BY <4>1, <4>2
    <3> QED BY <1>0, <1>1, <3>2, <3>3, Zenon
  <2> QED BY <2>1
<1>7. \A pl, t, q, k : \A p \in add_liquidity(pl, t, q, k) : Fits(p)
  <2> TAKE pl, t, q, k
  <2>1. \E op : Shaped(op) /\ add_liquidity(pl, t, q, k) \subseteq {Plan(<<>>, <<op>>)}
    <3> DEFINE total == amm_initial_shares(q, k)
               shares == IF pl = NoPool THEN total - MIN_LIQUIDITY ELSE amm_add_shares(pl, q, k)
               op == IF pl = NoPool THEN OpPoolCreate(t, q, k, shares) ELSE OpAddLiquidity(t, q, k, shares)
    <3>1. add_liquidity(pl, t, q, k) = {p \in {Plan(<<>>, <<op>>)} : shares > 0}
      BY Zenon DEF add_liquidity
    <3>2. Shaped(op)
      <4> HIDE DEF shares, total
      <4>1. op = OpPoolCreate(t, q, k, shares) \/ op = OpAddLiquidity(t, q, k, shares)
        BY Zenon
      <4> HIDE DEF op
      <4>2. MadeOp(op, t, q, k, shares)
        BY <4>1, Zenon DEF MadeOp
      <4> QED BY <4>2, Zenon DEF Shaped
    <3> HIDE DEF op, shares, total
    <3> QED BY <3>1, <3>2, Zenon
  <2> QED BY <1>0, <1>1, <2>1, Zenon
<1>8. \A pl, t, n : \A p \in remove_liquidity(pl, t, n) : Fits(p)
  <2> TAKE pl, t, n
  <2>1. \E op : Shaped(op) /\ remove_liquidity(pl, t, n) \subseteq {Plan(<<>>, <<op>>)}
    <3> DEFINE most == amm_remove_amounts(pl, n)
               op == OpRemoveLiquidity(t, n, most.qnt, most.tok)
               none == pl = NoPool \/ n > pl.shares - MIN_LIQUIDITY
    <3>1. remove_liquidity(pl, t, n) = IF none THEN {} ELSE {p \in {Plan(<<>>, <<op>>)} : most.qnt + most.tok > 0}
      BY Zenon DEF remove_liquidity
    <3>2. Shaped(op)
      <4> HIDE DEF most
      <4> QED BY Zenon DEF Shaped, MadeOp
    <3> HIDE DEF op, most, none
    <3>3. remove_liquidity(pl, t, n) \subseteq {Plan(<<>>, <<op>>)}
      BY <3>1
    <3> QED BY <3>2, <3>3, Zenon
  <2> QED BY <1>0, <1>1, <2>1, Zenon
<1>9. Fits(plan)
  <2>1. \A t : \A p \in Swaps(t) \union Deposits(t) \union Withdrawals(t) : Fits(p)
    <3> TAKE t
    <3>1. \A p \in Swaps(t) : Fits(p)
      BY <1>6 DEF Swaps
    <3>2. \A p \in Deposits(t) : Fits(p)
      BY <1>7 DEF Deposits
    <3>3. \A p \in Withdrawals(t) : Fits(p)
      BY <1>8 DEF Withdrawals
    <3> QED BY <3>1, <3>2, <3>3
  <2>2. \A p \in Payments : Fits(p)
    BY <1>2 DEF Payments
  <2>3. \A p \in NewTokens : Fits(p)
    BY <1>4 DEF NewTokens
  <2> QED BY <1>3, <1>5, <2>1, <2>2, <2>3, Zenon DEF Plans
<1> QED BY <1>9 DEF Fits

\* One operation at most is a sequence of operations.
LEMMA OneShaped ==
    ASSUME NEW ops, OneAtMost(ops)
    PROVE  IsSeq(ops) /\ \A i \in DOMAIN ops : Shaped(ops[i])
<1>1. IsSeq(<<>>) /\ DOMAIN <<>> = {}
  BY DEF IsSeq, Range
<1>2. ASSUME NEW op PROVE IsSeq(<<op>>) /\ \A i \in DOMAIN <<op>> : <<op>>[i] = op
  BY DEF IsSeq, Range
<1>3. CASE ops = <<>>
  BY <1>1, <1>3
<1>4. ASSUME NEW op, Shaped(op), ops = <<op>>
      PROVE  IsSeq(ops) /\ \A i \in DOMAIN ops : Shaped(ops[i])
  <2> DEFINE s == <<op>>
  <2>1. IsSeq(s) /\ \A i \in DOMAIN s : s[i] = op
    BY <1>2
  <2> HIDE DEF s
  <2>2. \A i \in DOMAIN s : Shaped(s[i])
    BY <1>4, <2>1
  <2> QED BY <1>4, <2>1, <2>2 DEF s
<1> QED BY <1>3, <1>4 DEF OneAtMost

\* The operations of a plan.
LEMMA PlanOps ==
    ASSUME NEW plan \in Plans
    PROVE  IsSeq(plan.ops) /\ \A i \in DOMAIN plan.ops : Shaped(plan.ops[i])
BY PlanShape, OneShaped

\* The operations of a transaction that was read.
LEMMA ReadTx ==
    ASSUME NEW tx \in Foreign
    PROVE  IsSeq(tx.outs) /\ IsSeq(tx.ops) /\ \A i \in DOMAIN tx.ops : Shaped(tx.ops[i])
<1>1. TxRead(tx)
  BY ForeignAssumption
<1>2. ASSUME NEW i \in DOMAIN tx.ops PROVE Shaped(tx.ops[i])
  <2> DEFINE op == tx.ops[i]
             t == op.token
  <2>1. OpRead(op)
    BY <1>1 DEF TxRead
  <2> HIDE DEF op
  <2>2. CASE op.type \in {"create", "message"}
    BY <2>2 DEF Shaped, op
  <2>3. CASE op.type \notin {"create", "message"}
    <3>1. \E q, k, s : MadeOp(op, t, q, k, s)
      <4>1. CASE op.type = "open"
        <5>1. op = OpPoolCreate(t, op.in[QNT], op.in[t], op.out[ShareId(t)])
          BY <2>1, <4>1, Zenon DEF OpRead
        <5> QED BY <5>1, Zenon DEF MadeOp
      <4>2. CASE op.type = "add"
        <5>1. op = OpAddLiquidity(t, op.in[QNT], op.in[t], op.out[ShareId(t)])
          BY <2>1, <4>2, Zenon DEF OpRead
        <5> QED BY <5>1, Zenon DEF MadeOp
      <4>3. CASE op.type = "remove"
        <5>1. op = OpRemoveLiquidity(t, op.in[ShareId(t)], op.out[QNT], op.out[t])
          BY <2>1, <4>3, Zenon DEF OpRead
        <5> QED BY <5>1, Zenon DEF MadeOp
      <4>4. CASE op.type = "swap"
        <5>1. \/ op = OpSwap(t, TRUE, Of(op.in, t), Of(op.out, QNT))
              \/ op = OpSwap(t, FALSE, Of(op.in, QNT), Of(op.out, t))
          BY <2>1, <4>4, Zenon DEF OpRead
        <5> QED BY <5>1, Zenon DEF MadeOp
      <4>5. op.type \in {"open", "add", "remove", "swap"}
        BY <2>1, <2>3 DEF OpRead
      <4> QED BY <4>1, <4>2, <4>3, <4>4, <4>5
    <3> QED BY <3>1 DEF Shaped, op
  <2> QED BY <2>2, <2>3
<1> QED BY <1>1, <1>2 DEF TxRead, IsSeq

(***************************************************************************)
(* What always holds of the ledger                                         *)
(***************************************************************************)
StateShape(st) == st = [coins |-> st.coins, tokens |-> st.tokens, pools |-> st.pools]

\* A state after so many blocks: its coins are older, and its pools are there.
GoodState(st, height) ==
    /\ StateShape(st)
    /\ IsFcn(st.coins) /\ IsFcn(st.tokens) /\ IsFcn(st.pools)
    /\ \A o \in DOMAIN st.coins : o[1][1] \in 0..height
    /\ \A t \in DOMAIN st.pools : st.pools[t] # NoPool

\* The state that block i has left.
StateAfter(i) == IF i = Height THEN state ELSE chain[i + 1].before

ChainOk ==
    /\ IsSeq(chain)
    /\ GoodState(state, Height)
    /\ \A i \in 1..Height :
          /\ GoodState(chain[i].before, i - 1)
          /\ Reverted(StateAfter(i), chain[i].txs, chain[i].undo) = chain[i].before

\* A coinbase may be applied before the pending transactions, as connect_block
\* does, or after them.
CoinbaseAhead(cb) ==
    AppliedAll(apply_coinbase(NewView(state), cb, Height + 1), pending, Height + 1).view
      = apply_coinbase(view, cb, Height + 1)

PendingOk ==
    /\ IsSeq(pending)
    /\ \A i \in 1..Len(pending) : pending[i].id = Txid(i)
    /\ ViewOk(view, state)
    /\ DOMAIN view.created \subseteq Made(pending)
    /\ \A values, owner : CoinbaseAhead(Coinbase(values, owner))

LedgerInv == ChainOk /\ PendingOk /\ CacheOk(emission)

\* The outputs of a transaction, and those of several.
LEMMA MadeFacts ==
    /\ \A tx, h : DOMAIN Outputs(tx, h) = {<<tx.id, n>> : n \in DOMAIN tx.outs}
    /\ \A txs, tx, h : IsSeq(txs) =>
          /\ Made(Append(txs, tx)) = Made(txs) \union DOMAIN Outputs(tx, h)
          /\ Made(<<tx>> \o txs) = Made(txs) \union DOMAIN Outputs(tx, h)
<1>1. \A tx, h : DOMAIN Outputs(tx, h) = {<<tx.id, n>> : n \in DOMAIN tx.outs}
  BY DEF Outputs
<1> DEFINE Outs(tx) == {<<tx.id, n>> : n \in DOMAIN tx.outs}
<1>2. \A txs, o : o \in Made(txs) <=> \E i \in DOMAIN txs : o \in Outs(txs[i])
  BY DEF Made
<1> HIDE DEF Outs
<1>3. ASSUME NEW txs, NEW tx, IsSeq(txs)
      PROVE  /\ Made(Append(txs, tx)) = Made(txs) \union Outs(tx)
             /\ Made(<<tx>> \o txs) = Made(txs) \union Outs(tx)
  <2> DEFINE n == Len(txs)
             a == Append(txs, tx)
             b == <<tx>> \o txs
  <2>1. /\ n \in Nat /\ DOMAIN txs = 1..n
        /\ DOMAIN a = 1..n + 1 /\ a[n + 1] = tx /\ \A i \in 1..n : a[i] = txs[i]
        /\ DOMAIN b = 1..n + 1 /\ b[1] = tx /\ \A i \in 1..n : b[i + 1] = txs[i]
    <3>1. IsSeq(a) /\ Len(a) = n + 1 /\ IsSeq(b) /\ Len(b) = n + 1
      BY <1>3, SeqShape
    <3>2. DOMAIN a = 1..n + 1 /\ DOMAIN b = 1..n + 1
      <4> HIDE DEF a, b, n
      <4> QED BY <3>1, SeqShape
    <3> QED BY <1>3, <3>2, SeqShape
  <2> HIDE DEF a, b, n
  <2>2. \A i \in 1..n : i \in 1..n + 1 /\ i + 1 \in 1..n + 1
    BY <2>1
  <2>3. n + 1 \in 1..n + 1 /\ 1 \in 1..n + 1 /\ \A i \in 1..n + 1 : i # n + 1 => i \in 1..n
    BY <2>1
  <2>4. \A i \in 1..n + 1 : i # 1 => i - 1 \in 1..n /\ (i - 1) + 1 = i
    BY <2>1
  <2>5. ASSUME NEW o PROVE o \in Made(a) <=> o \in Made(txs) \union Outs(tx)
    BY <1>2, <2>1, <2>2, <2>3
  <2>6. ASSUME NEW o PROVE o \in Made(b) <=> o \in Made(txs) \union Outs(tx)
    <3>1. ASSUME o \in Made(b) PROVE o \in Made(txs) \union Outs(tx)
      <4>1. PICK i \in 1..n + 1 : o \in Outs(b[i])
        BY <1>2, <2>1, <3>1
      <4>2. CASE i = 1
        BY <2>1, <4>1, <4>2
      <4>3. CASE i # 1
        <5>1. i - 1 \in 1..n /\ b[i] = txs[i - 1]
          BY <2>1, <2>4, <4>3
        <5> QED BY <1>2, <2>1, <4>1, <5>1
      <4> QED BY <4>2, <4>3
    <3>2. ASSUME o \in Made(txs) PROVE o \in Made(b)
      <4>1. PICK i \in 1..n : o \in Outs(txs[i])
        BY <1>2, <2>1, <3>2
      <4> QED BY <1>2, <2>1, <2>2, <4>1
    <3>3. ASSUME o \in Outs(tx) PROVE o \in Made(b)
      BY <1>2, <2>1, <2>3, <3>3
    <3> QED BY <3>1, <3>2, <3>3
  <2> QED BY <2>5, <2>6 DEF a, b
<1> QED BY <1>1, <1>3 DEF Outs

\* A pool that is set and set back is what it was.
LEMMA PoolsSetBack ==
    ASSUME NEW f, NEW new, NEW old, IsFcn(f), \A t \in DOMAIN f : f[t] # NoPool,
           old = [t \in DOMAIN new |-> IF t \in DOMAIN f THEN f[t] ELSE NoPool]
    PROVE  /\ PoolsSet(PoolsSet(f, new), old) = f
           /\ IsFcn(PoolsSet(f, new))
           /\ \A t \in DOMAIN PoolsSet(f, new) : PoolsSet(f, new)[t] # NoPool
<1> DEFINE g == PoolsSet(f, new)
           k == PoolsSet(g, old)
<1>1. /\ IsFcn(g) /\ DOMAIN g = {t \in DOMAIN f \union DOMAIN new : t \in DOMAIN new => new[t] # NoPool}
      /\ \A t \in DOMAIN g : g[t] = IF t \in DOMAIN new THEN new[t] ELSE f[t]
  BY DEF PoolsSet, Without, Over, IsFcn
<1>2. /\ IsFcn(k) /\ DOMAIN k = {t \in DOMAIN g \union DOMAIN old : t \in DOMAIN old => old[t] # NoPool}
      /\ \A t \in DOMAIN k : k[t] = IF t \in DOMAIN old THEN old[t] ELSE g[t]
  BY DEF PoolsSet, Without, Over, IsFcn
<1> HIDE DEF g, k
<1>3. DOMAIN old = DOMAIN new /\ \A t \in DOMAIN new : old[t] = IF t \in DOMAIN f THEN f[t] ELSE NoPool
  OBVIOUS
<1>4. DOMAIN k = DOMAIN f
  <2>1. ASSUME NEW t PROVE t \in DOMAIN k <=> t \in DOMAIN f
    BY <1>1, <1>2, <1>3
  <2> QED BY <2>1
<1>5. \A t \in DOMAIN f : k[t] = f[t]
  BY <1>1, <1>2, <1>3, <1>4
<1>6. k = f
  BY <1>2, <1>4, <1>5, SameFcn
<1>7. \A t \in DOMAIN g : g[t] # NoPool
  BY <1>1
<1> QED BY <1>1, <1>6, <1>7 DEF g, k

\* What connect_block commits, disconnect_tip takes back.
LEMMA CommitReverts ==
    ASSUME NEW h \in Nat, NEW st, GoodState(st, h), NEW v, ViewOk(v, st),
           NEW txs, DOMAIN v.created \subseteq Made(txs), \A o \in Made(txs) : o[1][1] = h + 1
    PROVE  /\ Reverted(Committed(st, v), txs, UndoOf(v)) = st
           /\ GoodState(Committed(st, v), h + 1)
<1> DEFINE c == Committed(st, v)
           u == UndoOf(v)
           r == Reverted(c, txs, u)
           P == PoolsSet(st.pools, v.pools)
           K == Over(Without(st.coins, DOMAIN v.spentBase), v.created)
           T == Over(st.tokens, v.tokens)
<1>1. c = [coins |-> K, tokens |-> T, pools |-> P]
  BY Zenon DEF Committed
<1>2. u = [spent |-> v.spentBase, poolsBefore |-> v.poolsBefore, tokens |-> DOMAIN v.tokens]
  BY DEF UndoOf
<1>3. r = [coins |-> Over(Without(c.coins, Made(txs)), u.spent),
           tokens |-> Without(c.tokens, u.tokens), pools |-> PoolsSet(c.pools, u.poolsBefore)]
  BY Zenon DEF Reverted
<1>4. /\ StateShape(st) /\ IsFcn(st.coins) /\ IsFcn(st.tokens) /\ IsFcn(st.pools)
      /\ \A o \in DOMAIN st.coins : o[1][1] \in 0..h
      /\ \A t \in DOMAIN st.pools : st.pools[t] # NoPool
  BY DEF GoodState
<1>5. /\ IsFcn(v.created) /\ IsFcn(v.tokens) /\ v.spentBase = Only(st.coins, DOMAIN v.spentBase)
      /\ DOMAIN v.tokens \intersect DOMAIN st.tokens = {}
      /\ v.poolsBefore = [t \in DOMAIN v.pools |-> Before(st, t)]
  BY DEF ViewOk
<1>6. PoolsSet(P, v.poolsBefore) = st.pools /\ IsFcn(P) /\ \A t \in DOMAIN P : P[t] # NoPool
  <2> DEFINE f == st.pools
             new == v.pools
             old == v.poolsBefore
  <2>1. old = [t \in DOMAIN new |-> IF t \in DOMAIN f THEN f[t] ELSE NoPool]
    BY <1>5 DEF Before
  <2>2. IsFcn(f) /\ \A t \in DOMAIN f : f[t] # NoPool
    BY <1>4
  <2> HIDE DEF f, new, old
  <2>3. /\ PoolsSet(PoolsSet(f, new), old) = f
        /\ IsFcn(PoolsSet(f, new))
        /\ \A t \in DOMAIN PoolsSet(f, new) : PoolsSet(f, new)[t] # NoPool
    BY <2>1, <2>2, PoolsSetBack
  <2> QED BY <2>3 DEF f, new, old
<1>7. Without(T, DOMAIN v.tokens) = st.tokens /\ IsFcn(T)
  <2> DEFINE f == st.tokens
             n == v.tokens
             w == Without(Over(f, n), DOMAIN n)
  <2>1. IsFcn(w) /\ DOMAIN w = DOMAIN f /\ \A t \in DOMAIN f : w[t] = f[t]
    <3>1. DOMAIN n \intersect DOMAIN f = {}
      BY <1>5
    <3> HIDE DEF f, n
    <3> QED BY <3>1 DEF Over, Without, IsFcn
  <2>2. IsFcn(f)
    BY <1>4
  <2>3. IsFcn(Over(f, n))
    BY FcnFacts, Zenon
  <2> HIDE DEF w, f
  <2>4. w = f
    BY <2>1, <2>2, SameFcn
  <2> QED BY <2>3, <2>4 DEF w, f
<1>8. Over(Without(K, Made(txs)), v.spentBase) = st.coins
  <2> DEFINE f == st.coins
             B == DOMAIN v.spentBase
             M == Made(txs)
             w == Over(Without(Over(Without(f, B), v.created), M), v.spentBase)
  <2>1. IsFcn(f) /\ DOMAIN f \intersect M = {} /\ DOMAIN v.created \subseteq M
    BY <1>4
  <2>2. v.spentBase = Only(f, B) /\ B \subseteq DOMAIN f
    <3>1. v.spentBase = Only(f, B)
      BY <1>5
    <3>2. DOMAIN Only(f, B) = DOMAIN f \intersect B
      BY FcnFacts, Zenon
    <3>3. B = DOMAIN f \intersect B
      BY <3>1, <3>2
    <3> QED BY <3>1, <3>3
  <2> DEFINE s == v.spentBase
             n == v.created
  <2> HIDE DEF f, M
  <2>3. IsFcn(w) /\ DOMAIN w = DOMAIN f /\ \A o \in DOMAIN f : w[o] = f[o]
    <3>1. B = DOMAIN s /\ \A o \in B : s[o] = f[o]
      BY <2>2 DEF Only
    <3> HIDE DEF s, n, B
    <3>2. IsFcn(w)
      BY FcnFacts, Zenon
    <3>3. DOMAIN w = (((DOMAIN f \ B) \union DOMAIN n) \ M) \union B
      BY <3>1 DEF Over, Without, s, n
    <3>4. DOMAIN w = DOMAIN f
      BY <2>1, <2>2, <3>3 DEF n
    <3>5. \A o \in DOMAIN f : w[o] = f[o]
      BY <2>1, <2>2, <3>1 DEF Over, Without, s, n
    <3> QED BY <3>2, <3>4, <3>5
  <2> HIDE DEF w
  <2>4. w = f
    BY <2>1, <2>3, SameFcn
  <2> QED BY <2>4 DEF w, f, M
<1>9. IsFcn(K) /\ \A o \in DOMAIN K : o[1][1] \in 0..h + 1
  <2> DEFINE a == Without(st.coins, DOMAIN v.spentBase)
             b == v.created
  <2>1. DOMAIN a \subseteq DOMAIN st.coins
    BY DEF Without
  <2>2. \A o \in DOMAIN a \union DOMAIN b : o[1][1] \in 0..h + 1
    BY <1>4, <2>1
  <2> HIDE DEF a, b
  <2>3. IsFcn(Over(a, b)) /\ DOMAIN Over(a, b) = DOMAIN a \union DOMAIN b
    BY FcnFacts, Zenon
  <2> QED BY <2>2, <2>3 DEF a, b
<1>10. r = st
  <2> HIDE DEF c, u, r, P, K, T
  <2>1. /\ r.coins = st.coins /\ r.tokens = st.tokens /\ r.pools = st.pools
        /\ StateShape(r)
    BY <1>1, <1>2, <1>3, <1>6, <1>7, <1>8 DEF StateShape
  <2> QED BY <1>4, <2>1 DEF StateShape
<1>11. GoodState(c, h + 1)
  <2> HIDE DEF c, P, K, T
  <2>1. c.coins = K /\ c.tokens = T /\ c.pools = P /\ StateShape(c)
    BY <1>1 DEF StateShape
  <2> QED BY <1>6, <1>7, <1>9, <2>1 DEF GoodState
<1> QED BY <1>10, <1>11

\* A coinbase that may be ahead is not spent by the transactions it is ahead of.
LEMMA CoinbaseApart ==
    ASSUME NEW values, NEW owner
    PROVE  /\ Coinbase(values, owner).id = Txid(0)
           /\ \A o \in DOMAIN Outputs(Coinbase(values, owner), Height + 1) : o[1] = Txid(0)
<1> DEFINE cb == Coinbase(values, owner)
<1>1. cb.id = Txid(0)
  BY DEF Coinbase
<1> HIDE DEF cb
<1>2. DOMAIN Outputs(cb, Height + 1) = {<<cb.id, n>> : n \in DOMAIN cb.outs}
  BY MadeFacts, Zenon
<1> QED BY <1>1, <1>2 DEF cb

\* A transaction that the mempool accepts.
LEMMA AcceptKeeps ==
    ASSUME ChainOk, PendingOk, NEW tx, tx.id = Txid(Len(pending) + 1), IsSeq(tx.ops), Accept(tx)
    PROVE  ChainOk' /\ PendingOk'
<1> DEFINE n == Len(pending)
           h == Height + 1
<1>1. /\ Accepted(tx) /\ pending' = Append(pending, tx) /\ view' = Applied(view, tx, h)
      /\ state' = state /\ chain' = chain /\ Height' = Height
  BY DEF Accept, Height
<1>2. Height \in Nat
  BY SeqShape DEF ChainOk, Height
<1>3. /\ IsSeq(pending) /\ \A i \in 1..n : pending[i].id = Txid(i)
      /\ ViewOk(view, state) /\ DOMAIN view.created \subseteq Made(pending)
      /\ \A values, owner : CoinbaseAhead(Coinbase(values, owner))
  BY DEF PendingOk
<1>4. ChainOk'
  BY <1>1 DEF ChainOk, StateAfter
<1>5. RunOps(view, tx).ok /\ \A k \in DOMAIN tx.ins : HasCoin(view, tx.ins[k])
  BY <1>1 DEF Accepted, Applies, InputOk
<1>6. /\ IsSeq(pending') /\ Len(pending') = n + 1 /\ pending'[n + 1] = tx
      /\ \A i \in 1..n : pending'[i] = pending[i]
      /\ n \in Nat /\ DOMAIN pending = 1..n
  BY <1>1, <1>3, SeqShape
<1>7. ViewOk(view', state') /\ DOMAIN view.created' \subseteq DOMAIN view.created \union DOMAIN Outputs(tx, h)
  BY <1>1, <1>3, <1>5, AppliedKeeps
<1>8. Made(pending') = Made(pending) \union DOMAIN Outputs(tx, h)
  BY <1>1, <1>3, MadeFacts
<1>9. \A i \in 1..Len(pending') : pending'[i].id = Txid(i)'
  <2>1. \A i : Txid(i)' = Txid(i)
    BY <1>1 DEF Txid
  <2>2. \A i \in 1..n + 1 : i # n + 1 => i \in 1..n
    BY <1>6
  <2> QED BY <1>3, <1>6, <2>1, <2>2
<1>10. ASSUME NEW o, o \in Made(pending) \/ o \in DOMAIN Outputs(tx, h) PROVE o[1] # Txid(0)
  <2>1. CASE o \in Made(pending)
    <3>1. PICK i \in 1..n : \E k : o = <<pending[i].id, k>>
      BY <1>6, <2>1 DEF Made
    <3>2. o[1] = Txid(i) /\ i # 0
      BY <1>3, <3>1
    <3> QED BY <3>2 DEF Txid
  <2>2. CASE o \in DOMAIN Outputs(tx, h)
    <3>1. DOMAIN Outputs(tx, h) = {<<tx.id, k>> : k \in DOMAIN tx.outs}
      BY MadeFacts, Zenon
    <3>2. o[1] = Txid(n + 1) /\ n + 1 # 0
      BY <1>6, <2>2, <3>1
    <3> QED BY <3>2 DEF Txid
  <2> QED BY <1>10, <2>1, <2>2
<1>11. ASSUME NEW k \in DOMAIN tx.ins PROVE tx.ins[k][1] # Txid(0)
  <2> DEFINE o == tx.ins[k]
  <2>1. o \in DOMAIN view.created \/ o \in DOMAIN state.coins
    BY <1>3, <1>5 DEF HasCoin, ViewOk
  <2>2. CASE o \in DOMAIN view.created
    BY <1>3, <1>10, <2>2
  <2>3. CASE o \in DOMAIN state.coins
    <3> HIDE DEF o
    <3>1. o[1][1] \in 0..Height
      BY <2>3 DEF ChainOk, GoodState
    <3>2. Txid(0)[1] = Height + 1
      BY DEF Txid
    <3>3. o[1][1] # Height + 1
      BY <1>2, <3>1
    <3>4. o[1] # Txid(0)
      BY <3>2, <3>3, Zenon
    <3> QED BY <3>4 DEF o
  <2> QED BY <2>1, <2>2, <2>3
<1>12. ASSUME NEW values, NEW owner PROVE CoinbaseAhead(Coinbase(values, owner))'
  <2> DEFINE cb == Coinbase(values, owner)
             v0 == apply_coinbase(NewView(state), cb, h)
             C == DOMAIN Outputs(cb, h)
  <2>1. cb' = cb
    BY <1>1 DEF Coinbase, Txid
  <2>2. AppliedAll(v0, pending, h).view = apply_coinbase(view, cb, h)
    BY <1>3 DEF CoinbaseAhead
  <2>3. \A o \in C : o[1] = Txid(0)
    BY CoinbaseApart
  <2> HIDE DEF cb, v0, h
  <2>4. AppliedAll(v0, pending', h) = AppliedNext(AppliedAll(v0, pending, h), tx, h)
    BY <1>1, <1>3, AppliedAllGrows
  <2>5. AppliedAll(v0, pending', h).view = Applied(AppliedAll(v0, pending, h).view, tx, h)
    BY <2>4 DEF AppliedNext
  <2>6. Applied(apply_coinbase(view, cb, h), tx, h) = apply_coinbase(Applied(view, tx, h), cb, h)
    <3>1. \A k \in DOMAIN tx.ins : tx.ins[k] \notin C
      BY <1>11, <2>3
    <3>2. DOMAIN Outputs(tx, h) \intersect C = {}
      BY <1>10, <2>3
    <3> QED BY <1>3, <1>5, <3>1, <3>2, AppliedBesideCoinbase
  <2>7. AppliedAll(v0, pending', h).view = apply_coinbase(view', cb, h)
    BY <1>1, <2>2, <2>5, <2>6
  <2>8. v0 = apply_coinbase(NewView(state'), cb, Height' + 1) /\ h = Height' + 1
    BY <1>1 DEF v0, h
  <2>9. CoinbaseAhead(cb)'
    BY <2>1, <2>7, <2>8 DEF CoinbaseAhead
  <2> QED BY <2>9 DEF cb
<1>13. PendingOk'
  <2>1. DOMAIN view.created' \subseteq Made(pending')
    BY <1>3, <1>7, <1>8
  <2> QED BY <1>6, <1>7, <1>9, <1>12, <2>1 DEF PendingOk
<1> QED BY <1>4, <1>13

\* The view of an empty mempool.
LEMMA NewViewOk ==
    /\ \A st : ViewOk(NewView(st), st) /\ DOMAIN NewView(st).created = {}
    /\ IsSeq(<<>>) /\ Len(<<>>) = 0
    /\ \A v, h : AppliedAll(v, <<>>, h).view = v
<1>1. ASSUME NEW st PROVE ViewOk(NewView(st), st) /\ DOMAIN NewView(st).created = {}
  <2> DEFINE v == NewView(st)
  <2>1. /\ v = Fields(v) /\ v.base = st /\ v.created = <<>> /\ v.tokens = <<>> /\ v.pools = <<>>
        /\ v.spentBase = <<>> /\ v.poolsBefore = <<>>
    BY DEF NewView, Fields
  <2> HIDE DEF v
  <2>2. IsFcn(<<>>) /\ DOMAIN <<>> = {}
    BY FcnFacts, Zenon
  <2>3. <<>> = Only(st.coins, {}) /\ <<>> = [t \in {} |-> Before(st, t)]
    <3>1. \A f : IsFcn(f) /\ DOMAIN f = {} => <<>> = f
      BY <2>2, SameFcn
    <3>2. IsFcn(Only(st.coins, {})) /\ DOMAIN Only(st.coins, {}) = {}
      <4>1. DOMAIN Only(st.coins, {}) = DOMAIN st.coins \intersect {}
        BY FcnFacts, Zenon
      <4>2. IsFcn(Only(st.coins, {}))
        BY FcnFacts, Zenon
      <4> QED BY <4>1, <4>2
    <3> DEFINE b == [t \in {} |-> Before(st, t)]
    <3>3. IsFcn(b) /\ DOMAIN b = {}
      BY DEF IsFcn
    <3> HIDE DEF b
    <3> QED BY <3>1, <3>2, <3>3 DEF b
  <2> QED BY <2>1, <2>2, <2>3 DEF ViewOk, v
<1>2. IsSeq(<<>>) /\ Len(<<>>) = 0
  BY DEF IsSeq, Range
<1>3. \A v, h : AppliedAll(v, <<>>, h).view = v
  BY AppliedAllGrows
<1> QED BY <1>1, <1>2, <1>3

\* At first, and after each block that comes or goes, the mempool is empty.
LEMMA LedgerInit ==
    ASSUME Init
    PROVE  LedgerInv
<1>1. /\ state = [coins |-> <<>>, tokens |-> <<>>, pools |-> <<>>]
      /\ chain = <<>> /\ pending = <<>> /\ view = NewView(state)
      /\ emission = [at |-> <<0>>, tail |-> 0, base |-> 0]
  BY DEF Init, EmissionInit
<1>2. IsFcn(<<>>) /\ DOMAIN <<>> = {} /\ IsSeq(<<>>) /\ Len(<<>>) = 0
  <2>1. IsFcn(<<>>) /\ DOMAIN <<>> = {}
    BY FcnFacts, Zenon
  <2> QED BY <2>1, NewViewOk
<1>3. ChainOk
  <2>1. Height = 0
    BY <1>1, <1>2 DEF Height
  <2>2. GoodState(state, 0)
    <3>1. StateShape(state) /\ state.coins = <<>> /\ state.tokens = <<>> /\ state.pools = <<>>
      BY <1>1 DEF StateShape
    <3> QED BY <1>2, <3>1 DEF GoodState
  <2>3. \A i \in 1..0 : FALSE
    OBVIOUS
  <2> QED BY <1>1, <1>2, <2>1, <2>2, <2>3 DEF ChainOk
<1>4. PendingOk
  <2>1. \A i \in 1..0 : FALSE
    OBVIOUS
  <2>2. ViewOk(view, state) /\ DOMAIN view.created \subseteq Made(pending)
    BY <1>1, NewViewOk
  <2>3. \A values, owner : CoinbaseAhead(Coinbase(values, owner))
    BY <1>1, NewViewOk DEF CoinbaseAhead
  <2> QED BY <1>1, <1>2, <2>1, <2>2, <2>3 DEF PendingOk
<1>5. CacheOk(emission)
  <2> DEFINE e == emission
  <2>1. e \in Caches /\ Len(e.at) = 1 /\ e.at[1] = 0 /\ e.tail = 0
    BY <1>1 DEF Caches
  <2> HIDE DEF e
  <2>2. IssuedBy[0] = 0 /\ (1 - 1) * STEP = 0
    BY IssuedFacts, EmissionAssumption
  <2> QED BY <2>1, <2>2 DEF CacheOk, TailOk, Mark, e
<1> QED BY <1>3, <1>4, <1>5 DEF LedgerInv

\* A new block: what it has done can be taken back.
LEMMA ConnectKeeps ==
    ASSUME LedgerInv, NEW values, NEW owner, ConnectBlock(values, owner)
    PROVE  LedgerInv'
<1> DEFINE h == Height
           cb == Coinbase(values, owner)
           run == AppliedAll(apply_coinbase(NewView(state), cb, h + 1), pending, h + 1)
           b == [txs |-> <<cb>> \o pending, fees |-> run.fees, undo |-> UndoOf(run.view), before |-> state]
<1>1. /\ state' = Committed(state, run.view) /\ chain' = Append(chain, b)
      /\ pending' = <<>> /\ view' = NewView(state') /\ emission' = Reached(emission, h)
  BY Zenon DEF ConnectBlock
<1>2. ChainOk /\ PendingOk /\ CacheOk(emission)
  BY DEF LedgerInv
<1>3. h \in Nat /\ IsSeq(chain) /\ GoodState(state, h)
  BY <1>2, SeqShape DEF ChainOk, Height
<1>4. run.view = apply_coinbase(view, cb, h + 1)
  BY <1>2 DEF PendingOk, CoinbaseAhead
<1>5. cb.id = Txid(0)
  BY CoinbaseApart
<1> HIDE DEF cb
<1>6. ViewOk(run.view, state) /\ DOMAIN run.view.created = DOMAIN view.created \union DOMAIN Outputs(cb, h + 1)
  <2>1. ViewOk(view, state)
    BY <1>2 DEF PendingOk
  <2>2. /\ ViewOk(apply_coinbase(view, cb, h + 1), state)
        /\ HasCoinbase(apply_coinbase(view, cb, h + 1), view, Outputs(cb, h + 1))
    BY <2>1, CoinbaseKeeps
  <2> QED BY <1>4, <2>2 DEF HasCoinbase
<1> DEFINE M == Made(<<cb>> \o pending)
<1>7. M = Made(pending) \union DOMAIN Outputs(cb, h + 1)
  BY <1>2, MadeFacts DEF PendingOk
<1>8. DOMAIN run.view.created \subseteq M
  BY <1>2, <1>6, <1>7 DEF PendingOk
<1>9. ASSUME NEW o \in M PROVE o[1][1] = h + 1
  <2>1. CASE o \in Made(pending)
    <3>1. IsSeq(pending) /\ DOMAIN pending = 1..Len(pending)
      BY <1>2, SeqShape DEF PendingOk
    <3>2. PICK i \in 1..Len(pending) : \E k : o = <<pending[i].id, k>>
      BY <2>1, <3>1 DEF Made
    <3>3. o[1] = Txid(i)
      BY <1>2, <3>2 DEF PendingOk
    <3> QED BY <3>3 DEF Txid
  <2>2. CASE o \in DOMAIN Outputs(cb, h + 1)
    <3>1. DOMAIN Outputs(cb, h + 1) = {<<cb.id, k>> : k \in DOMAIN cb.outs}
      BY MadeFacts, Zenon
    <3>2. o[1] = Txid(0)
      BY <1>5, <2>2, <3>1
    <3> QED BY <3>2 DEF Txid
  <2> QED BY <1>7, <2>1, <2>2
<1>10. b.txs = <<cb>> \o pending /\ b.undo = UndoOf(run.view) /\ b.before = state
  OBVIOUS
<1> HIDE DEF b
<1>11. Reverted(state', b.txs, b.undo) = state /\ GoodState(state', h + 1)
  <2> DEFINE v == run.view
             txs == b.txs
  <2>1. DOMAIN v.created \subseteq Made(txs) /\ \A o \in Made(txs) : o[1][1] = h + 1
    BY <1>8, <1>9, <1>10
  <2>2. ViewOk(v, state) /\ state' = Committed(state, v) /\ b.undo = UndoOf(v)
    BY <1>1, <1>6, <1>10
  <2> HIDE DEF v, txs, run, h
  <2>3. Reverted(Committed(state, v), txs, UndoOf(v)) = state /\ GoodState(Committed(state, v), h + 1)
    BY <1>3, <2>1, <2>2, CommitReverts
  <2> QED BY <2>2, <2>3 DEF txs
<1> HIDE DEF run
<1>12. ChainOk'
  <2>1. /\ IsSeq(chain') /\ Height' = h + 1 /\ chain'[h + 1] = b
        /\ \A i \in 1..h : chain'[i] = chain[i]
    BY <1>1, <1>3, SeqShape DEF Height
  <2> HIDE DEF h
  <2>2. ASSUME NEW i \in 1..h + 1
        PROVE  /\ GoodState(chain'[i].before, i - 1)
               /\ Reverted(StateAfter(i)', chain'[i].txs, chain'[i].undo) = chain'[i].before
    <3>1. CASE i = h + 1
      <4>1. StateAfter(i)' = state' /\ i - 1 = h /\ chain'[i] = b
        BY <1>3, <2>1, <3>1 DEF StateAfter
      <4> QED BY <1>3, <1>10, <1>11, <4>1
    <3>2. CASE i # h + 1
      <4>1. i \in 1..h /\ i # Height'
        BY <1>3, <2>1, <3>2
      <4>2. StateAfter(i)' = chain'[i + 1].before
        BY <4>1 DEF StateAfter
      <4>3. chain'[i + 1].before = StateAfter(i)
        <5>1. CASE i = h
          BY <1>10, <2>1, <5>1 DEF StateAfter, h
        <5>2. CASE i # h
          <6>1. i + 1 \in 1..h
            BY <1>3, <4>1, <5>2
          <6> QED BY <2>1, <5>2, <6>1 DEF StateAfter, h
        <5> QED BY <5>1, <5>2
      <4>4. /\ GoodState(chain[i].before, i - 1)
            /\ Reverted(StateAfter(i), chain[i].txs, chain[i].undo) = chain[i].before
        BY <1>2, <4>1 DEF ChainOk, h
      <4> QED BY <2>1, <4>1, <4>2, <4>3, <4>4
    <3> QED BY <3>1, <3>2
  <2> QED BY <1>11, <2>1, <2>2 DEF ChainOk
<1>13. PendingOk'
  <2>1. \A i \in 1..0 : FALSE
    OBVIOUS
  <2>2. ViewOk(view', state') /\ DOMAIN view.created' \subseteq Made(pending')
    BY <1>1, NewViewOk
  <2>3. \A x, y : CoinbaseAhead(Coinbase(x, y))'
    BY <1>1, NewViewOk DEF CoinbaseAhead
  <2> QED BY <1>1, <2>1, <2>2, <2>3, NewViewOk DEF PendingOk
<1>14. CacheOk(emission')
  BY <1>1, <1>2, <1>3, ReachedFacts
<1> QED BY <1>12, <1>13, <1>14 DEF LedgerInv, CacheOk, TailOk, Mark, Checkpoint

\* The last block is taken back.
LEMMA DisconnectKeeps ==
    ASSUME LedgerInv, DisconnectTip
    PROVE  LedgerInv' /\ state' = Last(chain).before
<1> DEFINE h == Height
           b == Last(chain)
<1>1. /\ h > 0 /\ state' = Reverted(state, b.txs, b.undo) /\ chain' = Front(chain)
      /\ pending' = <<>> /\ view' = NewView(state') /\ emission' = emission
  BY Zenon DEF DisconnectTip
<1>2. ChainOk /\ PendingOk /\ CacheOk(emission)
  BY DEF LedgerInv
<1>3. h \in Nat /\ IsSeq(chain)
  BY <1>2, SeqShape DEF ChainOk, Height
<1>4. /\ IsSeq(chain') /\ Height' = h - 1 /\ b = chain[h]
      /\ \A i \in 1..h - 1 : chain'[i] = chain[i]
  BY <1>1, <1>3, SeqShape DEF Height
<1>5. h \in 1..h
  BY <1>1, <1>3
<1>6. state' = b.before /\ GoodState(state', h - 1)
  <2>1. StateAfter(h) = state
    BY DEF StateAfter
  <2> QED BY <1>1, <1>2, <1>4, <1>5, <2>1 DEF ChainOk
<1> HIDE DEF b
<1>7. ChainOk'
  <2>1. ASSUME NEW i \in 1..h - 1
        PROVE  /\ GoodState(chain'[i].before, i - 1)
               /\ Reverted(StateAfter(i)', chain'[i].txs, chain'[i].undo) = chain'[i].before
    <3>1. i \in 1..h /\ i # h
      BY <1>3
    <3>2. StateAfter(i)' = StateAfter(i)
      <4>1. StateAfter(i) = chain[i + 1].before
        BY <3>1 DEF StateAfter
      <4>2. CASE i = h - 1
        <5>1. i + 1 = h /\ StateAfter(i)' = state'
          BY <1>3, <1>4, <4>2 DEF StateAfter
        <5> QED BY <1>4, <1>6, <4>1, <5>1
      <4>3. CASE i # h - 1
        <5>1. i + 1 \in 1..h - 1 /\ StateAfter(i)' = chain'[i + 1].before
          BY <1>3, <1>4, <4>3 DEF StateAfter
        <5> QED BY <1>4, <4>1, <5>1
      <4> QED BY <4>2, <4>3
    <3> QED BY <1>2, <1>4, <3>1, <3>2 DEF ChainOk
  <2> QED BY <1>4, <1>6, <2>1 DEF ChainOk
<1>8. PendingOk'
  <2>1. \A i \in 1..0 : FALSE
    OBVIOUS
  <2>2. ViewOk(view', state') /\ DOMAIN view.created' \subseteq Made(pending')
    BY <1>1, NewViewOk
  <2>3. \A x, y : CoinbaseAhead(Coinbase(x, y))'
    BY <1>1, NewViewOk DEF CoinbaseAhead
  <2> QED BY <1>1, <2>1, <2>2, <2>3, NewViewOk DEF PendingOk
<1>9. CacheOk(emission')
  BY <1>1, <1>2
<1> QED BY <1>6, <1>7, <1>8, <1>9 DEF LedgerInv, b

\* Every step keeps it.
LEMMA LedgerStep ==
    ASSUME LedgerInv, [Next]_vars
    PROVE  LedgerInv'
<1>1. ChainOk /\ PendingOk /\ CacheOk(emission)
  BY DEF LedgerInv
<1>2. ASSUME NEW tx, tx.id = Txid(Len(pending) + 1), IsSeq(tx.ops), Accept(tx) PROVE LedgerInv'
  <2>1. ChainOk' /\ PendingOk'
    BY <1>1, <1>2, AcceptKeeps
  <2>2. emission' = emission
    BY <1>2 DEF Accept
  <2> QED BY <1>1, <2>1, <2>2 DEF LedgerInv
<1>3. \A tx : WithId(tx).id = Txid(Len(pending) + 1) /\ WithId(tx).ops = tx.ops
  BY DEF WithId
<1>4. ASSUME NEW plan \in Plans, SendPlan(plan) PROVE LedgerInv'
  <2> DEFINE b == build(Me, Spendable, plan)
  <2>1. b.ok /\ Accept(WithId(b.tx))
    BY <1>4, Zenon DEF SendPlan
  <2>2. IsSeq(WithId(b.tx).ops)
    <3>1. b.tx.ops = plan.ops
      BY <2>1, BuiltOps
    <3> HIDE DEF b
    <3> QED BY <1>3, <3>1, PlanOps
  <2> HIDE DEF b
  <2> QED BY <1>2, <1>3, <2>1, <2>2
<1>5. ASSUME NEW o, NEW d, PassOn(o, d) PROVE LedgerInv'
  <2> DEFINE c == CoinOf(view, o).out
             tx == [ins |-> <<o>>, ops |-> <<>>, outs |-> <<Pay(You, c.asset, c.value + d)>>]
  <2>1. Accept(WithId(tx))
    BY <1>5, Zenon DEF PassOn
  <2>2. tx.ops = <<>> /\ IsSeq(<<>>)
    BY NewViewOk
  <2> HIDE DEF tx
  <2> QED BY <1>2, <1>3, <2>1, <2>2
<1>6. ASSUME MineBlock PROVE LedgerInv'
  <2>1. \E values : ConnectBlock(values, Me)
    BY <1>6, Zenon DEF MineBlock
  <2> QED BY <2>1, ConnectKeeps
<1>7. ASSUME OthersBlock PROVE LedgerInv'
  <2>1. \E values : ConnectBlock(values, You)
    BY <1>7, Zenon DEF OthersBlock
  <2> QED BY <2>1, ConnectKeeps
<1>8. ASSUME DisconnectTip PROVE LedgerInv'
  BY <1>8, DisconnectKeeps
<1>9. ASSUME state' = state, chain' = chain, pending' = pending, view' = view
      PROVE  ChainOk' /\ PendingOk'
  <2>1. Height' = Height /\ \A i : Txid(i)' = Txid(i)
    BY <1>9 DEF Height, Txid
  <2>2. ChainOk'
    BY <1>1, <1>9, <2>1 DEF ChainOk, StateAfter
  <2>3. ASSUME NEW values, NEW owner PROVE CoinbaseAhead(Coinbase(values, owner))'
    <3>1. Coinbase(values, owner)' = Coinbase(values, owner)
      BY <2>1 DEF Coinbase
    <3>2. CoinbaseAhead(Coinbase(values, owner))
      BY <1>1 DEF PendingOk
    <3> DEFINE cb == Coinbase(values, owner)
    <3> HIDE DEF cb
    <3>3. CoinbaseAhead(cb)'
      BY <1>9, <2>1, <3>1, <3>2 DEF CoinbaseAhead, cb
    <3> QED BY <3>3 DEF cb
  <2> QED BY <1>1, <1>9, <2>1, <2>2, <2>3 DEF PendingOk
<1>10. ASSUME NEW h \in Heights, GetEmission(h) PROVE LedgerInv'
  <2>1. h \in Nat
    BY HeightsAssumption
  <2>2. CacheOk(emission')
    BY <1>1, <1>10, <2>1, ReachedFacts DEF GetEmission
  <2>3. ChainOk' /\ PendingOk'
    BY <1>9, <1>10 DEF GetEmission
  <2> QED BY <2>2, <2>3 DEF LedgerInv
<1>11. ASSUME UNCHANGED vars PROVE LedgerInv'
  <2>1. ChainOk' /\ PendingOk' /\ emission' = emission
    BY <1>9, <1>11 DEF vars
  <2> QED BY <1>1, <2>1 DEF LedgerInv
<1>12. ASSUME NEW tx \in Foreign, ForeignTx(tx) PROVE LedgerInv'
  <2>1. Accept(WithId(tx)) /\ IsSeq(tx.ops)
    BY <1>12, ReadTx DEF ForeignTx
  <2> QED BY <1>2, <1>3, <2>1
<1> QED BY <1>4, <1>5, <1>6, <1>7, <1>8, <1>10, <1>11, <1>12 DEF Next

\* The ledger's inductive invariant.
THEOREM LedgerAlwaysOk == Spec => []LedgerInv
<1>1. Init => LedgerInv
  BY LedgerInit
<1>2. LedgerInv /\ [Next]_vars => LedgerInv'
  BY LedgerStep
<1> QED BY <1>1, <1>2, PTL DEF Spec

\* What has been issued by a height does not depend on what the cache of
\* checkpoints was asked before, for every curve (params.cpp:28).
THEOREM EmissionAlwaysKept == Spec => []EmissionKept
<1>1. LedgerInv => EmissionKept
  <2> SUFFICES ASSUME LedgerInv, NEW h \in 0..MaxHeight + STEP
               PROVE  issued_through(emission, h) = IssuedBy[h]
    BY DEF EmissionKept
  <2>1. h \in Nat
    BY HeightsAssumption, EmissionAssumption
  <2>2. CacheOk(emission)
    BY DEF LedgerInv
  <2> QED BY <2>1, <2>2, IssuedThroughExact
<1> QED BY <1>1, LedgerAlwaysOk, PTL

\* Disconnecting a block gives the state before it back exactly, whatever its
\* transactions did (chainstate.cpp:776, :800).
THEOREM UndoAlwaysExact == Spec => UndoExact
<1>1. LedgerInv /\ [Next]_vars => [DisconnectTip => state' = Last(chain).before]_vars
  BY DisconnectKeeps
<1> QED BY <1>1, LedgerAlwaysOk, PTL DEF Spec, UndoExact

(***************************************************************************)
(* The arithmetic of pools                                                 *)
(***************************************************************************)
\* Products of numbers.
LEMMA Products ==
    /\ \A a, b \in Nat : a * b \in Nat /\ a * b = b * a
    /\ \A a, b, c \in Nat : a <= b => a * c <= b * c
    /\ \A a, b \in Nat, c \in Nat \ {0} : a * c <= b * c => a <= b
    /\ \A a, b, c \in Nat : (a * b) * c = a * (b * c)
<1>1. \A a, b \in Nat : a * b \in Nat /\ a * b = b * a
  OBVIOUS
<1>2. \A a, b, c \in Nat : a <= b => a * c <= b * c
  <2> TAKE a, b, c \in Nat
  <2>1. ASSUME a <= b PROVE a * c <= b * c
    <3>1. (b - a) \in Nat /\ (b - a) * c \in Nat
      BY <2>1
    <3>2. b * c = a * c + (b - a) * c
      OBVIOUS
    <3> QED BY <3>1, <3>2
  <2> QED BY <2>1
<1>3. \A a, b \in Nat, c \in Nat \ {0} : a * c <= b * c => a <= b
  <2> TAKE a, b \in Nat, c \in Nat \ {0}
  <2>1. ASSUME a > b PROVE a * c > b * c
    <3>1. (a - b) - 1 \in Nat /\ ((a - b) - 1) * c \in Nat
      BY <2>1
    <3>2. a * c = (b * c + ((a - b) - 1) * c) + c
      OBVIOUS
    <3> QED BY <3>1, <3>2
  <2>2. a * c \in Nat /\ b * c \in Nat
    OBVIOUS
  <2> QED BY <2>1, <2>2
<1>4. \A a, b, c \in Nat : (a * b) * c = a * (b * c)
  OBVIOUS
<1> QED BY <1>1, <1>2, <1>3, <1>4

\* Products of larger numbers are larger.
LEMMA LargerProduct ==
    ASSUME NEW a \in Nat, NEW b \in Nat, NEW c \in Nat, NEW d \in Nat, a <= b, c <= d
    PROVE  a * c <= b * d
<1>1. a * c <= b * c
  BY Products
<1>2. c * b <= d * b
  BY Products
<1>3. c * b = b * c /\ d * b = b * d /\ a * c \in Nat /\ b * c \in Nat /\ b * d \in Nat
  BY Products
<1> QED BY <1>1, <1>2, <1>3

\* What a division rounds down to, or 0, times the divisor.
LEMMA RoundedDown ==
    ASSUME NEW a \in Nat, NEW c \in Nat \ {0}, NEW m \in Nat, m <= IfFits(a \div c)
    PROVE  m * c <= a
<1>1. IfFits(a \div c) = a \div c \/ IfFits(a \div c) = 0
  BY DEF IfFits
<1>2. a \div c \in Nat /\ (a \div c) * c <= a
  OBVIOUS
<1>3. m <= a \div c
  BY <1>1, <1>2
<1>4. m * c <= (a \div c) * c
  BY <1>2, <1>3, Products
<1>5. m * c \in Nat /\ (a \div c) * c \in Nat
  BY <1>2
<1> QED BY <1>2, <1>4, <1>5

\* A swap: the product of the reserves does not fall.
LEMMA SwapKeepsProduct ==
    ASSUME NEW n \in Nat \ {0}, NEW x \in Nat \ {0}, NEW y \in Nat \ {0},
           NEW m \in Nat, m < y, m <= amm_quote(n, x, y)
    PROVE  x * y <= (x + n) * (y - m)
<1> DEFINE F == FEE_NUM
           D == FEE_DEN
           a == n * F * y
           c == x * D + n * F
<1>1. F \in Nat \ {0} /\ D \in Nat \ {0} /\ F <= D
  BY AmmAssumption
<1>2. a \in Nat /\ c \in Nat \ {0}
  <2>1. n * F \in Nat /\ x * D \in Nat /\ n * F >= 1
    <3>1. 1 <= n /\ 1 <= F
      BY <1>1
    <3>2. 1 * 1 <= n * F
      BY <1>1, <3>1, LargerProduct
    <3> QED BY <1>1, <3>2
  <2> QED BY <2>1
<1>3. m <= IfFits(a \div c)
  BY DEF amm_quote
<1>4. m * c <= a
  <2> HIDE DEF a, c
  <2> QED BY <1>2, <1>3, RoundedDown
<1>5. m * x <= n * (y - m)
  <2> DEFINE p == m * x
             q == n * (y - m)
  <2>1. p \in Nat /\ q \in Nat /\ y - m \in Nat
    OBVIOUS
  <2>2. p * D <= q * F
    <3>1. m * c = p * D + m * (n * F) /\ a = q * F + m * (n * F)
      BY <1>1
    <3>2. m * (n * F) \in Nat /\ p * D \in Nat /\ q * F \in Nat
      BY <1>1, <2>1
    <3> HIDE DEF a, c, p, q
    <3> QED BY <1>4, <3>1, <3>2
  <2> HIDE DEF p, q
  <2>3. q * F <= q * D
    <3>1. F * q <= D * q
      BY <1>1, <2>1, Products
    <3> QED BY <1>1, <2>1, <3>1, Products
  <2>4. p * D <= q * D
    BY <1>1, <2>1, <2>2, <2>3
  <2>5. p <= q
    BY <1>1, <2>1, <2>4, Products
  <2> QED BY <2>5 DEF p, q
<1>6. (x + n) * (y - m) = (x * y - m * x) + n * (y - m)
  OBVIOUS
<1>7. x * y \in Nat /\ m * x \in Nat /\ n * (y - m) \in Nat
  OBVIOUS
<1> QED BY <1>5, <1>6, <1>7

\* A deposit: the reserves grow by as much as the shares, or more.
LEMMA DepositKeepsWorth ==
    ASSUME NEW x \in Nat, NEW y \in Nat, NEW s \in Nat,
           NEW q \in Nat, NEW k \in Nat, NEW d \in Nat,
           d * x <= q * s, d * y <= k * s
    PROVE  (x * y) * ((s + d) * (s + d)) <= ((x + q) * (y + k)) * (s * s)
<1>1. x * (s + d) <= (x + q) * s
  <2>1. x * (s + d) = x * s + d * x /\ (x + q) * s = x * s + q * s
    OBVIOUS
  <2> QED BY <2>1
<1>2. y * (s + d) <= (y + k) * s
  <2>1. y * (s + d) = y * s + d * y /\ (y + k) * s = y * s + k * s
    OBVIOUS
  <2> QED BY <2>1
<1> DEFINE a == x * (s + d)
           b == (x + q) * s
           c == y * (s + d)
           e == (y + k) * s
<1>3. a \in Nat /\ b \in Nat /\ c \in Nat /\ e \in Nat
  OBVIOUS
<1>4. a * c = (x * y) * ((s + d) * (s + d)) /\ b * e = ((x + q) * (y + k)) * (s * s)
  OBVIOUS
<1> HIDE DEF a, b, c, e
<1>5. a * c <= b * e
  BY <1>1, <1>2, <1>3, LargerProduct DEF a, b, c, e
<1> QED BY <1>4, <1>5

\* A withdrawal: the reserves fall by as much as the shares, or less.
LEMMA WithdrawalKeepsWorth ==
    ASSUME NEW x \in Nat, NEW y \in Nat, NEW s \in Nat,
           NEW q \in 0..x, NEW k \in 0..y, NEW d \in 0..s,
           q * s <= d * x, k * s <= d * y
    PROVE  (x * y) * ((s - d) * (s - d)) <= ((x - q) * (y - k)) * (s * s)
<1>1. x * (s - d) <= (x - q) * s
  <2>1. x * (s - d) = x * s - d * x /\ (x - q) * s = x * s - q * s
    OBVIOUS
  <2> QED BY <2>1
<1>2. y * (s - d) <= (y - k) * s
  <2>1. y * (s - d) = y * s - d * y /\ (y - k) * s = y * s - k * s
    OBVIOUS
  <2> QED BY <2>1
<1> DEFINE a == x * (s - d)
           b == (x - q) * s
           c == y * (s - d)
           e == (y - k) * s
<1>3. a \in Nat /\ b \in Nat /\ c \in Nat /\ e \in Nat
  OBVIOUS
<1>4. a * c = (x * y) * ((s - d) * (s - d)) /\ b * e = ((x - q) * (y - k)) * (s * s)
  OBVIOUS
<1> HIDE DEF a, b, c, e
<1>5. a * c <= b * e
  BY <1>1, <1>2, <1>3, LargerProduct DEF a, b, c, e
<1> QED BY <1>4, <1>5


\* Worth is kept by two changes if it is by each, and so is the bound on the
\* shares of a new pool.
LEMMA WorthPasses ==
    ASSUME NEW wa \in Nat, NEW wb \in Nat, NEW wc \in Nat,
           NEW sa \in Nat \ {0}, NEW sb \in Nat \ {0}, NEW sc \in Nat \ {0},
           wa * sb <= wb * sa
    PROVE  /\ wb * sc <= wc * sb => wa * sc <= wc * sa
           /\ sa <= wa => sb <= wb
<1>1. ASSUME wb * sc <= wc * sb PROVE wa * sc <= wc * sa
  <2>1. (wa * sb) * sc <= (wb * sa) * sc
    BY Products
  <2>2. (wb * sc) * sa <= (wc * sb) * sa
    <3>1. wb * sc \in Nat /\ wc * sb \in Nat
      OBVIOUS
    <3> QED BY <1>1, <3>1, Products
  <2>3. (wa * sc) * sb = (wa * sb) * sc /\ (wb * sa) * sc = (wb * sc) * sa /\ (wc * sb) * sa = (wc * sa) * sb
    OBVIOUS
  <2> DEFINE a == wa * sc
             b == wc * sa
             d == (wb * sa) * sc
  <2>4. a \in Nat /\ b \in Nat /\ d \in Nat
    OBVIOUS
  <2>5. a * sb <= d /\ d <= b * sb
    BY <2>1, <2>2, <2>3
  <2> HIDE DEF a, b, d
  <2>6. a * sb <= b * sb
    BY <2>4, <2>5
  <2>7. a <= b
    BY <2>4, <2>6, Products
  <2> QED BY <2>7 DEF a, b
<1>2. ASSUME sa <= wa PROVE sb <= wb
  <2>1. sa * sb <= wa * sb
    BY <1>2, Products
  <2>2. sa * sb = sb * sa /\ sb * sa \in Nat /\ wa * sb \in Nat /\ wb * sa \in Nat
    BY Products
  <2>3. sb * sa <= wb * sa
    BY <2>1, <2>2
  <2> QED BY <2>3, Products
<1> QED BY <1>1, <1>2

NewtonNext(n, x) == (x + n \div x) \div 2
NewtonFcn(f, n, top) == [x \in 1..top |-> LET y == (x + n \div x) \div 2 IN IF y >= x THEN x ELSE f[y]]
DownFcn(f, n, top) == [x \in 0..top |-> IF x * x > n THEN f[x - 1] ELSE x]

\* Newton's iteration goes down until it stops, at a number it may start from.
LEMMA NewtonStops ==
    ASSUME NEW n \in Nat \ {0}, NEW top \in Nat \ {0}, NEW f,
           f = CHOOSE g : g = NewtonFcn(g, n, top)
    PROVE  \A x \in 1..top : f[x] \in 1..top
<1> DEFINE To(g, k) == [x \in 1..k |-> IF NewtonNext(n, x) >= x THEN x ELSE g[NewtonNext(n, x)]]
           T == {k \in 0..top : \E g : g = To(g, k)}
<1>1. ASSUME NEW x \in Nat \ {0} PROVE NewtonNext(n, x) \in Nat \ {0}
  <2> DEFINE d == n \div x
  <2>1. d \in Nat /\ (x = 1 => d >= 1)
    OBVIOUS
  <2> HIDE DEF d
  <2>2. (x + d) \div 2 \in Nat \ {0}
    BY <2>1
  <2> QED BY <2>2 DEF NewtonNext, d
<1>2. T \in SUBSET Nat /\ 0 \in T
  <2> DEFINE g == [x \in 1..0 |-> x]
  <2>1. g = To(g, 0)
    <3>1. \A x \in 1..0 : g[x] = To(g, 0)[x]
      OBVIOUS
    <3>2. 1..0 = {}
      OBVIOUS
    <3> QED BY <3>2
  <2>2. \E q : q = To(q, 0)
    BY <2>1, Zenon
  <2> HIDE DEF To, g
  <2> QED BY <2>2
<1>3. ASSUME NEW k \in 0..top, k \in T, k < top PROVE k + 1 \in T
  <2>1. PICK g : g = To(g, k)
    BY <1>3
  <2> DEFINE z == k + 1
             y == IF NewtonNext(n, z) >= z THEN z ELSE g[NewtonNext(n, z)]
             h == [x \in 1..z |-> IF x = z THEN y ELSE g[x]]
  <2>2. k \in Nat /\ z \in 0..top /\ z \in Nat \ {0} /\ z \in 1..z
    BY <1>3
  <2> HIDE DEF To, y
  <2>3. ASSUME NEW x \in 1..z, NewtonNext(n, x) < x PROVE h[NewtonNext(n, x)] = g[NewtonNext(n, x)]
    <3> DEFINE w == NewtonNext(n, x)
    <3>1. w \in Nat \ {0} /\ w < x
      BY <1>1, <2>2, <2>3
    <3> HIDE DEF w
    <3>2. w \in 1..z /\ w # z
      BY <2>2, <3>1
    <3>3. h[w] = g[w]
      BY <3>2
    <3> QED BY <3>3 DEF w
  <2>4. ASSUME NEW x \in 1..z PROVE h[x] = IF NewtonNext(n, x) >= x THEN x ELSE h[NewtonNext(n, x)]
    <3>1. NewtonNext(n, x) \in Nat /\ x \in Nat
      BY <1>1, <2>2
    <3>2. CASE x = z
      BY <2>2, <2>3, <3>1, <3>2 DEF y
    <3>3. CASE x # z
      <4>1. x \in 1..k /\ h[x] = g[x]
        BY <2>2, <3>3
      <4>2. To(g, k)[x] = IF NewtonNext(n, x) >= x THEN x ELSE g[NewtonNext(n, x)]
        BY <4>1 DEF To
      <4> QED BY <2>1, <2>3, <3>1, <4>1, <4>2
    <3> QED BY <3>2, <3>3
  <2>5. h = To(h, z)
    <3>1. h = [x \in 1..z |-> h[x]]
      OBVIOUS
    <3> HIDE DEF h
    <3> QED BY <2>4, <3>1 DEF To
  <2> HIDE DEF h
  <2>6. \E q : q = To(q, z)
    BY <2>5, Zenon
  <2> HIDE DEF z
  <2>7. z \in T
    BY <2>2, <2>6
  <2> QED BY <2>7 DEF z
<1> HIDE DEF T
<1>4. top \in T
  BY <1>2, <1>3, Upward
<1>5. PICK g : g = To(g, top)
  BY <1>4 DEF T
<1>6. \A q : To(q, top) = NewtonFcn(q, n, top)
  BY Zenon DEF NewtonFcn, NewtonNext
<1>7. f = To(f, top)
  <2>1. g = NewtonFcn(g, n, top)
    BY <1>5, <1>6
  <2>2. f = NewtonFcn(f, n, top)
    BY <2>1, Zenon
  <2> QED BY <1>6, <2>2
<1>8. ASSUME NEW x \in 1..top PROVE f[x] = IF NewtonNext(n, x) >= x THEN x ELSE f[NewtonNext(n, x)]
  <2>1. To(f, top)[x] = IF NewtonNext(n, x) >= x THEN x ELSE f[NewtonNext(n, x)]
    OBVIOUS
  <2> HIDE DEF To
  <2> QED BY <1>7, <2>1
<1> HIDE DEF To
<1> DEFINE U == {k \in 0..top : \A x \in 1..k : f[x] \in 1..top}
<1>9. U \in SUBSET Nat /\ 0 \in U
  OBVIOUS
<1>10. ASSUME NEW k \in 0..top, k \in U, k < top PROVE k + 1 \in U
  <2>1. k + 1 \in 0..top /\ \A x \in 1..k + 1 : x \in 1..top /\ (x \in 1..k \/ x = k + 1)
    BY <1>10
  <2>2. f[k + 1] \in 1..top
    <3>1. k + 1 \in 1..top /\ NewtonNext(n, k + 1) \in Nat \ {0}
      BY <1>1, <1>10
    <3>2. CASE NewtonNext(n, k + 1) >= k + 1
      BY <1>8, <3>1, <3>2
    <3>3. CASE ~ (NewtonNext(n, k + 1) >= k + 1)
      <4>1. NewtonNext(n, k + 1) \in 1..k
        BY <3>1, <3>3
      <4> QED BY <1>8, <1>10, <3>1, <3>3, <4>1
    <3> QED BY <3>2, <3>3
  <2> QED BY <1>10, <2>1, <2>2
<1> HIDE DEF U
<1>11. top \in U
  BY <1>9, <1>10, Upward
<1> QED BY <1>11 DEF U

\* Then down to a number whose square is no more.
LEMMA DownStops ==
    ASSUME NEW n \in Nat, NEW top \in Nat, NEW f, f = CHOOSE g : g = DownFcn(g, n, top)
    PROVE  \A x \in 0..top : f[x] \in Nat /\ f[x] * f[x] <= n
<1> DEFINE To(g, k) == [x \in 0..k |-> IF x * x > n THEN g[x - 1] ELSE x]
           T == {k \in 0..top : \E g : g = To(g, k)}
<1>1. \A g : To(g, top) = DownFcn(g, n, top)
  BY Zenon DEF DownFcn
<1>2. T \in SUBSET Nat /\ 0 \in T
  <2> DEFINE g == [x \in 0..0 |-> x]
  <2>1. g = To(g, 0)
    <3>1. \A x \in 0..0 : x = 0 /\ ~ (x * x > n)
      OBVIOUS
    <3> QED BY <3>1
  <2>2. \E q : q = To(q, 0)
    BY <2>1, Zenon
  <2> QED BY <2>2
<1>3. ASSUME NEW k \in 0..top, k \in T, k < top PROVE k + 1 \in T
  <2>1. PICK g : g = To(g, k)
    BY <1>3
  <2> DEFINE z == k + 1
             y == IF z * z > n THEN g[k] ELSE z
             h == [x \in 0..z |-> IF x = z THEN y ELSE g[x]]
  <2>2. k \in Nat /\ z \in 0..top /\ z \in Nat \ {0} /\ z - 1 = k
    BY <1>3
  <2> HIDE DEF To, y
  <2>3. ASSUME NEW x \in 0..z PROVE h[x] = IF x * x > n THEN h[x - 1] ELSE x
    <3>1. CASE x = z
      <4>1. k \in 0..z /\ k # z
        BY <2>2
      <4>2. h[k] = g[k] /\ h[x] = y
        BY <3>1, <4>1
      <4> QED BY <2>2, <3>1, <4>2 DEF y
    <3>2. CASE x # z
      <4>1. x \in 0..k /\ h[x] = g[x]
        BY <2>2, <3>2
      <4>2. To(g, k)[x] = IF x * x > n THEN g[x - 1] ELSE x
        BY <4>1 DEF To
      <4>3. x * x > n => x - 1 \in 0..z /\ x - 1 # z
        <5>1. x = 0 => x * x = 0
          OBVIOUS
        <5> QED BY <2>2, <4>1, <5>1
      <4>4. x * x > n => h[x - 1] = g[x - 1]
        BY <4>3
      <4> QED BY <2>1, <4>1, <4>2, <4>4
    <3> QED BY <3>1, <3>2
  <2>4. h = To(h, z)
    <3>1. h = [x \in 0..z |-> h[x]]
      OBVIOUS
    <3> HIDE DEF h
    <3> QED BY <2>3, <3>1 DEF To
  <2> HIDE DEF h
  <2>5. \E q : q = To(q, z)
    BY <2>4, Zenon
  <2> HIDE DEF z
  <2>6. z \in T
    BY <2>2, <2>5
  <2> QED BY <2>6 DEF z
<1> HIDE DEF T
<1>4. top \in T
  BY <1>2, <1>3, Upward
<1>5. PICK g : g = To(g, top)
  BY <1>4 DEF T
<1>6. f = To(f, top)
  <2>1. g = DownFcn(g, n, top)
    BY <1>1, <1>5
  <2>2. f = DownFcn(f, n, top)
    BY <2>1, Zenon
  <2> QED BY <1>1, <2>2
<1>7. ASSUME NEW x \in 0..top PROVE f[x] = IF x * x > n THEN f[x - 1] ELSE x
  <2>1. To(f, top)[x] = IF x * x > n THEN f[x - 1] ELSE x
    OBVIOUS
  <2> HIDE DEF To
  <2> QED BY <1>6, <2>1
<1> HIDE DEF To
<1> DEFINE U == {k \in 0..top : f[k] \in Nat /\ f[k] * f[k] <= n}
<1>8. U \in SUBSET Nat /\ 0 \in U
  <2>1. 0 \in 0..top /\ ~ (0 * 0 > n) /\ 0 * 0 <= n
    OBVIOUS
  <2>2. f[0] = 0
    BY <1>7, <2>1
  <2> QED BY <2>1, <2>2
<1>9. ASSUME NEW k \in 0..top, k \in U, k < top PROVE k + 1 \in U
  <2>1. k + 1 \in 0..top /\ (k + 1) - 1 = k /\ (k + 1) * (k + 1) \in Nat
    BY <1>9
  <2>2. f[k + 1] = IF (k + 1) * (k + 1) > n THEN f[k] ELSE k + 1
    BY <1>7, <2>1
  <2> QED BY <1>9, <2>1, <2>2
<1>10. \A k \in 0..top : k \in U
  <2> HIDE DEF U
  <2> QED BY <1>8, <1>9, Upward
<1> QED BY <1>10

\* The shares of a new pool are no more than the root of its worth.
LEMMA InitialShares ==
    ASSUME NEW q \in Positive, NEW k \in Positive
    PROVE  /\ amm_initial_shares(q, k) \in Nat
           /\ amm_initial_shares(q, k) * amm_initial_shares(q, k) <= q * k
<1> DEFINE W == 2 * WIDTH
           n == q * k
           Fits(b) == n < 2 ^ b /\ (b = 0 \/ n >= 2 ^ (b - 1))
           bits == CHOOSE b \in 0..W : Fits(b)
           top == 2 ^ ((bits + 1) \div 2)
           newton == CHOOSE g : g = NewtonFcn(g, n, top)
           down == CHOOSE g : g = DownFcn(g, n, top)
<1>1. W \in Nat \ {0} /\ WIDTH \in Nat /\ AmountLimit \in Nat \ {0} /\ 2 ^ W = AmountLimit * AmountLimit
      /\ \A b \in 0..W : 2 ^ b \in Nat \ {0}
  <2>1. WIDTH \in 0..2 * WIDTH /\ WIDTH \in Nat \ {0}
    BY AmmAssumption
  <2> QED BY <2>1, AmmAssumption DEF AmountLimit
<1>2. n \in Nat \ {0} /\ n < 2 ^ W
  <2>1. q \in Nat \ {0} /\ k \in Nat \ {0} /\ q <= AmountLimit /\ k <= AmountLimit - 1
    BY <1>1 DEF Positive
  <2>2. q * k <= AmountLimit * (AmountLimit - 1)
    <3>1. AmountLimit - 1 \in Nat
      BY <1>1
    <3> QED BY <1>1, <2>1, <3>1, LargerProduct
  <2>3. AmountLimit * (AmountLimit - 1) = AmountLimit * AmountLimit - AmountLimit
    BY <1>1
  <2>4. q * k >= 1
    <3>1. 1 * 1 <= q * k
      BY <2>1, LargerProduct
    <3> QED BY <3>1
  <2>5. q * k \in Nat /\ AmountLimit * AmountLimit \in Nat
    BY <1>1, <2>1
  <2> QED BY <1>1, <2>2, <2>3, <2>4, <2>5
<1>3. amm_initial_shares(q, k) = down[newton[top]]
  <2>1. amm_initial_shares(q, k) = IF n = 0 THEN 0 ELSE down[newton[top]]
    BY Zenon DEF amm_initial_shares, NewtonFcn, DownFcn
  <2> QED BY <1>2, <2>1
<1> HIDE DEF n, W
<1>4. \E b \in 0..W : Fits(b)
  <2> DEFINE B == {b \in 0..W : n < 2 ^ b}
  <2>1. B \in SUBSET Nat /\ W \in B
    BY <1>1, <1>2
  <2> HIDE DEF B
  <2>2. PICK b \in B : \A c \in B : b <= c
    BY <2>1, LeastNumber
  <2>3. b \in 0..W /\ n < 2 ^ b
    BY <2>2 DEF B
  <2>4. ASSUME b # 0 PROVE n >= 2 ^ (b - 1)
    <3>1. b - 1 \in 0..W /\ b - 1 \notin B
      BY <1>1, <2>2, <2>3, <2>4
    <3>2. ~ (n < 2 ^ (b - 1)) /\ 2 ^ (b - 1) \in Nat
      BY <1>1, <3>1 DEF B
    <3> QED BY <1>2, <3>2
  <2> QED BY <2>3, <2>4
<1>5. bits \in 0..W
  <2> HIDE DEF Fits
  <2> QED BY <1>4
<1> HIDE DEF bits
<1>6. top \in Nat \ {0}
  <2> DEFINE h == (bits + 1) \div 2
  <2>1. h \in 0..W
    BY <1>1, <1>5
  <2> HIDE DEF h
  <2> QED BY <1>1, <2>1 DEF h
<1> HIDE DEF top
<1>7. newton[top] \in 1..top
  <2>1. top \in 1..top
    BY <1>6
  <2> HIDE DEF newton
  <2>2. newton = CHOOSE g : g = NewtonFcn(g, n, top)
    BY DEF newton
  <2> QED BY <1>2, <1>6, <2>1, <2>2, NewtonStops
<1> DEFINE r == newton[top]
<1> HIDE DEF newton
<1>8. r \in 0..top
  BY <1>6, <1>7
<1> HIDE DEF r
<1>9. down[r] \in Nat /\ down[r] * down[r] <= n
  <2>1. down = CHOOSE g : g = DownFcn(g, n, top)
    BY DEF down
  <2> HIDE DEF down
  <2> QED BY <1>2, <1>6, <1>8, <2>1, DownStops
<1> HIDE DEF down
<1> QED BY <1>3, <1>9 DEF n, r

(***************************************************************************)
(* What an operation does to a pool                                        *)
(***************************************************************************)
\* The share ids are apart from the tokens they are of, and from QNT: ids are
\* hashes in the code, of texts that differ.
SharesApart == \A t : ShareId(t) \notin {QNT, t}

\* A pool that is there, and one that is worth no less than another.
PoolOk(p) ==
    /\ p \in [qnt : Nat \ {0}, tok : Nat \ {0}, shares : Nat \ {0}]
    /\ MIN_LIQUIDITY <= p.shares
FromTo(old, new) == IF old = NoPool THEN Squared(new.shares) <= Worth(new) ELSE KeepsWorth(old, new)

\* A pool that is there is none that is not.
LEMMA PoolThere ==
    /\ \A p : PoolOk(p) => p # NoPool
    /\ \A p : PoolOk(p) => FromTo(p, p)
<1>1. ASSUME NEW p, PoolOk(p) PROVE p # NoPool
  BY <1>1, NoPoolAssumption DEF PoolOk
<1>2. ASSUME NEW p, PoolOk(p) PROVE FromTo(p, p)
  <2>1. Worth(p) * Squared(p.shares) \in Nat
    <3>1. p.qnt \in Nat /\ p.tok \in Nat /\ p.shares \in Nat
      BY <1>2 DEF PoolOk
    <3>2. p.qnt * p.tok \in Nat /\ p.shares * p.shares \in Nat
      BY <3>1, Products
    <3> QED BY <3>2, Products DEF Worth, Squared
  <2> QED BY <1>1, <1>2, <2>1 DEF FromTo, KeepsWorth
<1> QED BY <1>1, <1>2

\* One change after another.
LEMMA FromToPasses ==
    ASSUME NEW old, NEW mid, NEW new, old = NoPool \/ PoolOk(old), PoolOk(mid), PoolOk(new),
           FromTo(old, mid), FromTo(mid, new)
    PROVE  FromTo(old, new)
<1>1. \A p : PoolOk(p) => /\ Worth(p) \in Nat /\ Squared(p.shares) \in Nat \ {0}
  <2> TAKE p
  <2> HAVE PoolOk(p)
  <2>1. p.qnt \in Nat /\ p.tok \in Nat /\ p.shares \in Nat \ {0}
    BY DEF PoolOk
  <2>2. 1 * 1 <= p.shares * p.shares
    BY <2>1, LargerProduct
  <2> QED BY <2>1, <2>2, Products DEF Worth, Squared
<1>2. KeepsWorth(mid, new)
  BY PoolThere DEF FromTo
<1> DEFINE wa == Worth(old)
           wb == Worth(mid)
           wc == Worth(new)
           sa == Squared(old.shares)
           sb == Squared(mid.shares)
           sc == Squared(new.shares)
<1>3. wb \in Nat /\ wc \in Nat /\ sb \in Nat \ {0} /\ sc \in Nat \ {0} /\ wb * sc <= wc * sb
  BY <1>1, <1>2 DEF KeepsWorth
<1>4. CASE old = NoPool
  <2>1. sb <= wb
    BY <1>4 DEF FromTo
  <2> HIDE DEF wb, wc, sb, sc
  <2>2. sc <= wc
    BY <1>3, <2>1, WorthPasses
  <2> QED BY <1>4, <2>2 DEF FromTo, wc, sc
<1>5. CASE old # NoPool
  <2>1. wa \in Nat /\ sa \in Nat \ {0} /\ wa * sb <= wb * sa
    BY <1>1, <1>5 DEF FromTo, KeepsWorth
  <2> HIDE DEF wa, wb, wc, sa, sb, sc
  <2>2. wa * sc <= wc * sa
    BY <1>3, <2>1, WorthPasses
  <2> QED BY <1>5, <2>2 DEF FromTo, KeepsWorth, wa, wc, sa, sc
<1> QED BY <1>4, <1>5

\* Amounts are numbers.
LEMMA PositiveNumbers == Positive \subseteq Nat \ {0}
<1>1. AmountLimit \in Nat \ {0}
  <2>1. WIDTH \in 0..2 * WIDTH
    BY AmmAssumption
  <2> QED BY <2>1, AmmAssumption DEF AmountLimit
<1> QED BY <1>1 DEF Positive

\* What one or two amounts come to.
LEMMA Flows ==
    /\ \A a, n : /\ Amounts(One(a, n)) = {n} /\ One(a, n)[a] = n
                 /\ \A c : Of(One(a, n), c) = IF c = a THEN n ELSE 0
    /\ \A a, n, b, m : a # b =>
          /\ Amounts(Flow(a, n, b, m)) = {n, m} /\ Flow(a, n, b, m)[a] = n /\ Flow(a, n, b, m)[b] = m
          /\ \A c : Of(Flow(a, n, b, m), c) = IF c = a THEN n ELSE IF c = b THEN m ELSE 0
<1>1. ASSUME NEW a, NEW n
      PROVE  /\ Amounts(One(a, n)) = {n} /\ One(a, n)[a] = n
             /\ \A c : Of(One(a, n), c) = IF c = a THEN n ELSE 0
  BY DEF Amounts, One, Of
<1>2. ASSUME NEW a, NEW n, NEW b, NEW m, a # b
      PROVE  /\ Amounts(Flow(a, n, b, m)) = {n, m} /\ Flow(a, n, b, m)[a] = n /\ Flow(a, n, b, m)[b] = m
             /\ \A c : Of(Flow(a, n, b, m), c) = IF c = a THEN n ELSE IF c = b THEN m ELSE 0
  <2> DEFINE f == Flow(a, n, b, m)
  <2>1. DOMAIN f = {a, b} /\ f[a] = n /\ f[b] = m
    BY <1>2 DEF Flow
  <2> HIDE DEF f
  <2>2. Amounts(f) = {n, m}
    BY <2>1 DEF Amounts
  <2>3. \A c : Of(f, c) = IF c = a THEN n ELSE IF c = b THEN m ELSE 0
    BY <2>1 DEF Of
  <2> QED BY <2>1, <2>2, <2>3 DEF f
<1> QED BY <1>1, <1>2

\* The smaller of two numbers is no more than either.
LEMMA SmallerOfTwo ==
    ASSUME NEW a \in Nat, NEW b \in Nat, NEW m \in Nat, m <= Min({a, b})
    PROVE  m <= a /\ m <= b
<1>1. \E x \in {a, b} : \A y \in {a, b} : x <= y
  <2>1. CASE a <= b
    BY <2>1
  <2>2. CASE b <= a
    BY <2>2
  <2> QED BY <2>1, <2>2
<1>2. Min({a, b}) \in {a, b} /\ \A y \in {a, b} : Min({a, b}) <= y
  BY <1>1 DEF Min
<1> DEFINE x == Min({a, b})
<1> HIDE DEF x
<1>3. x \in {a, b} /\ x <= a /\ x <= b /\ m <= x
  BY <1>2 DEF x
<1> QED BY <1>3

\* A part of a product, as the code divides it.
LEMMA PartOf ==
    ASSUME NEW a \in Nat, NEW b \in Nat, NEW c \in Nat \ {0}
    PROVE  /\ mul_div(a, b, c) \in Nat
           /\ \A m \in Nat : m <= mul_div(a, b, c) => m * c <= a * b
<1> DEFINE p == a * b
<1>1. p \in Nat /\ mul_div(a, b, c) = IfFits(p \div c)
  BY Products DEF mul_div
<1> HIDE DEF p
<1>2. IfFits(p \div c) \in Nat
  <2>1. p \div c \in Nat
    BY <1>1
  <2> QED BY <2>1 DEF IfFits
<1>3. \A m \in Nat : m <= mul_div(a, b, c) => m * c <= p
  BY <1>1, RoundedDown
<1> QED BY <1>1, <1>2, <1>3 DEF p

\* A new pool has no more shares than the root of its worth.
LEMMA OpenKeeps ==
    ASSUME SharesApart, NEW tx, NEW t, NEW q, NEW k, NEW s, NEW pl, NEW op,
           op = OpPoolCreate(t, q, k, s), OpOk(tx, op), Allowed(pl, op)
    PROVE  PoolOk(PoolAfter(pl, op)) /\ FromTo(pl, PoolAfter(pl, op))
<1> DEFINE u == ShareId(t)
           in == Flow(QNT, q, t, k)
           out == One(u, s)
<1>1. op.type = "open" /\ op.token = t /\ op.in = in /\ op.out = out
  BY DEF OpPoolCreate
<1>2. t # QNT /\ Amounts(in) \union Amounts(out) \subseteq Positive
  BY <1>1, Zenon DEF OpOk
<1>3. u # QNT /\ u # t
  BY DEF SharesApart
<1> HIDE DEF u
<1>4. /\ Amounts(in) = {q, k} /\ in[QNT] = q /\ in[t] = k
      /\ \A c : Of(in, c) = IF c = QNT THEN q ELSE IF c = t THEN k ELSE 0
  BY <1>2, Flows
<1>5. Amounts(out) = {s} /\ out[u] = s /\ \A c : Of(out, c) = IF c = u THEN s ELSE 0
  BY Flows
<1> HIDE DEF in, out
<1>6. q \in Positive /\ k \in Positive /\ s \in Positive
  BY <1>2, <1>4, <1>5
<1>7. pl = NoPool /\ amm_initial_shares(q, k) - MIN_LIQUIDITY >= s
  <2>1. pl = NoPool /\ amm_initial_shares(op.in[QNT], op.in[op.token]) - MIN_LIQUIDITY >= op.out[ShareId(op.token)]
    BY <1>1, Zenon DEF Allowed
  <2> QED BY <1>1, <1>4, <1>5, <2>1 DEF u
<1>8. MIN_LIQUIDITY \in Nat \ {0} /\ q \in Nat \ {0} /\ k \in Nat \ {0} /\ s \in Nat \ {0}
  BY <1>6, PositiveNumbers, AmmAssumption
<1> DEFINE p == PoolAfter(pl, op)
<1>9. p = [qnt |-> q, tok |-> k, shares |-> MIN_LIQUIDITY + s]
  <2>1. p = [qnt |-> 0 + Of(in, QNT) - Of(out, QNT), tok |-> 0 + Of(in, t) - Of(out, t),
             shares |-> MIN_LIQUIDITY + Of(out, u) - Of(in, u)]
    BY <1>1, <1>7 DEF PoolAfter, u
  <2>2. /\ Of(in, QNT) = q /\ Of(in, t) = k /\ Of(in, u) = 0
        /\ Of(out, QNT) = 0 /\ Of(out, t) = 0 /\ Of(out, u) = s
    BY <1>2, <1>3, <1>4, <1>5
  <2>3. 0 + q - 0 = q /\ 0 + k - 0 = k /\ MIN_LIQUIDITY + s - 0 = MIN_LIQUIDITY + s
    BY <1>8
  <2> HIDE DEF p
  <2> QED BY <2>1, <2>2, <2>3
<1> HIDE DEF p
<1>10. PoolOk(p)
  BY <1>8, <1>9 DEF PoolOk
<1>11. FromTo(pl, p)
  <2> DEFINE r == amm_initial_shares(q, k)
             z == MIN_LIQUIDITY + s
  <2>1. r \in Nat /\ r * r <= q * k
    BY <1>6, InitialShares
  <2>2. z \in Nat /\ z <= r
    BY <1>7, <1>8, <2>1
  <2> HIDE DEF r, z
  <2>3. z * z <= r * r /\ z * z \in Nat /\ r * r \in Nat /\ q * k \in Nat
    BY <1>8, <2>1, <2>2, LargerProduct, Products
  <2>4. z * z <= q * k
    BY <2>1, <2>3
  <2>5. p.qnt = q /\ p.tok = k /\ p.shares = z
    BY <1>9 DEF z
  <2> QED BY <1>7, <2>4, <2>5 DEF FromTo, Squared, Worth
<1> QED BY <1>10, <1>11 DEF p

\* A deposit keeps the worth of every share.
LEMMA AddKeeps ==
    ASSUME SharesApart, NEW tx, NEW t, NEW q, NEW k, NEW s, NEW pl, NEW op,
           op = OpAddLiquidity(t, q, k, s), OpOk(tx, op), Allowed(pl, op), pl = NoPool \/ PoolOk(pl)
    PROVE  PoolOk(PoolAfter(pl, op)) /\ FromTo(pl, PoolAfter(pl, op))
<1> DEFINE u == ShareId(t)
           in == Flow(QNT, q, t, k)
           out == One(u, s)
<1>1. op.type = "add" /\ op.token = t /\ op.in = in /\ op.out = out
  BY DEF OpAddLiquidity
<1>2. t # QNT /\ Amounts(in) \union Amounts(out) \subseteq Positive
  BY <1>1, Zenon DEF OpOk
<1>3. u # QNT /\ u # t
  BY DEF SharesApart
<1> HIDE DEF u
<1>4. /\ Amounts(in) = {q, k} /\ in[QNT] = q /\ in[t] = k
      /\ \A c : Of(in, c) = IF c = QNT THEN q ELSE IF c = t THEN k ELSE 0
  BY <1>2, Flows
<1>5. Amounts(out) = {s} /\ out[u] = s /\ \A c : Of(out, c) = IF c = u THEN s ELSE 0
  BY Flows
<1> HIDE DEF in, out
<1>6. q \in Nat \ {0} /\ k \in Nat \ {0} /\ s \in Nat \ {0}
  BY <1>2, <1>4, <1>5, PositiveNumbers
<1>7. pl # NoPool /\ s <= amm_add_shares(pl, q, k)
  <2>1. pl # NoPool /\ op.out[ShareId(op.token)] <= amm_add_shares(pl, op.in[QNT], op.in[op.token])
    BY <1>1, Zenon DEF Allowed
  <2> QED BY <1>1, <1>4, <1>5, <2>1 DEF u
<1> DEFINE x == pl.qnt
           y == pl.tok
           d == pl.shares
           p == PoolAfter(pl, op)
<1>8. /\ x \in Nat \ {0} /\ y \in Nat \ {0} /\ d \in Nat \ {0} /\ MIN_LIQUIDITY <= d
      /\ MIN_LIQUIDITY \in Nat
  BY <1>7, AmmAssumption DEF PoolOk
<1>9. p = [qnt |-> x + q, tok |-> y + k, shares |-> d + s]
  <2>1. p = [qnt |-> x + Of(in, QNT) - Of(out, QNT), tok |-> y + Of(in, t) - Of(out, t),
             shares |-> d + Of(out, u) - Of(in, u)]
    BY <1>1, <1>7 DEF PoolAfter, u
  <2>2. /\ Of(in, QNT) = q /\ Of(in, t) = k /\ Of(in, u) = 0
        /\ Of(out, QNT) = 0 /\ Of(out, t) = 0 /\ Of(out, u) = s
    BY <1>2, <1>3, <1>4, <1>5
  <2> HIDE DEF p, x, y, d
  <2>3. x + q - 0 = x + q /\ y + k - 0 = y + k /\ d + s - 0 = d + s
    BY <1>6, <1>8
  <2> QED BY <2>1, <2>2, <2>3
<1>10. s * x <= q * d /\ s * y <= k * d
  <2> DEFINE a == mul_div(q, d, x)
             b == mul_div(k, d, y)
  <2>1. /\ a \in Nat /\ \A m \in Nat : m <= a => m * x <= q * d
        /\ b \in Nat /\ \A m \in Nat : m <= b => m * y <= k * d
    <3> HIDE DEF x, y, d
    <3> QED BY <1>6, <1>8, PartOf
  <2>2. s <= Min({a, b})
    BY <1>7, <1>8, Zenon DEF amm_add_shares
  <2> HIDE DEF a, b, x, y, d
  <2>3. s <= a /\ s <= b
    BY <1>6, <2>1, <2>2, SmallerOfTwo
  <2> QED BY <1>6, <2>1, <2>3
<1> HIDE DEF p, x, y, d
<1>11. p.qnt = x + q /\ p.tok = y + k /\ p.shares = d + s
  BY <1>9
<1>12. PoolOk(p)
  BY <1>6, <1>8, <1>9, <1>11 DEF PoolOk
<1>13. KeepsWorth(pl, p)
  <2>1. (x * y) * ((d + s) * (d + s)) <= ((x + q) * (y + k)) * (d * d)
    BY <1>6, <1>8, <1>10, DepositKeepsWorth
  <2> QED BY <1>11, <2>1 DEF KeepsWorth, Worth, Squared, x, y, d
<1> QED BY <1>7, <1>12, <1>13 DEF FromTo, p

\* A withdrawal keeps the worth of every share that is left, and leaves some of
\* both reserves.
LEMMA RemoveKeeps ==
    ASSUME SharesApart, NEW tx, NEW t, NEW q, NEW k, NEW s, NEW pl, NEW op,
           op = OpRemoveLiquidity(t, s, q, k), OpOk(tx, op), Allowed(pl, op), pl = NoPool \/ PoolOk(pl)
    PROVE  PoolOk(PoolAfter(pl, op)) /\ FromTo(pl, PoolAfter(pl, op))
<1> DEFINE u == ShareId(t)
           in == One(u, s)
           out == Flow(QNT, q, t, k)
<1>1. op.type = "remove" /\ op.token = t /\ op.in = in /\ op.out = out
  BY DEF OpRemoveLiquidity
<1>2. t # QNT /\ Amounts(in) \subseteq Positive /\ Amounts(out) \subseteq Positive \union {0}
  BY <1>1, Zenon DEF OpOk
<1>3. u # QNT /\ u # t
  BY DEF SharesApart
<1> HIDE DEF u
<1>4. /\ Amounts(out) = {q, k} /\ out[QNT] = q /\ out[t] = k
      /\ \A c : Of(out, c) = IF c = QNT THEN q ELSE IF c = t THEN k ELSE 0
  BY <1>2, Flows
<1>5. Amounts(in) = {s} /\ in[u] = s /\ \A c : Of(in, c) = IF c = u THEN s ELSE 0
  BY Flows
<1> HIDE DEF in, out
<1>6. q \in Nat /\ k \in Nat /\ s \in Nat \ {0}
  <2>1. q \in Positive \union {0} /\ k \in Positive \union {0} /\ s \in Positive
    BY <1>2, <1>4, <1>5
  <2>2. Positive \union {0} \subseteq Nat
    BY PositiveNumbers
  <2> QED BY <2>1, <2>2, PositiveNumbers
<1> DEFINE x == pl.qnt
           y == pl.tok
           d == pl.shares
           p == PoolAfter(pl, op)
<1>7. pl # NoPool /\ s <= d - MIN_LIQUIDITY /\ q <= mul_div(s, x, d) /\ k <= mul_div(s, y, d)
  <2> DEFINE most == amm_remove_amounts(pl, op.in[ShareId(op.token)])
  <2>1. /\ pl # NoPool /\ op.in[ShareId(op.token)] <= pl.shares - MIN_LIQUIDITY
        /\ op.out[QNT] <= most.qnt /\ op.out[op.token] <= most.tok
    BY <1>1, Zenon DEF Allowed
  <2>2. most.qnt = mul_div(s, x, d) /\ most.tok = mul_div(s, y, d)
    BY <1>1, <1>5 DEF amm_remove_amounts, u
  <2> HIDE DEF most
  <2> QED BY <1>1, <1>4, <1>5, <2>1, <2>2 DEF u
<1>8. /\ x \in Nat \ {0} /\ y \in Nat \ {0} /\ d \in Nat \ {0}
      /\ MIN_LIQUIDITY \in Nat \ {0}
  BY <1>7, AmmAssumption DEF PoolOk
<1>9. p = [qnt |-> x - q, tok |-> y - k, shares |-> d - s]
  <2>1. p = [qnt |-> x + Of(in, QNT) - Of(out, QNT), tok |-> y + Of(in, t) - Of(out, t),
             shares |-> d + Of(out, u) - Of(in, u)]
    BY <1>1, <1>7 DEF PoolAfter, u
  <2>2. /\ Of(in, QNT) = 0 /\ Of(in, t) = 0 /\ Of(in, u) = s
        /\ Of(out, QNT) = q /\ Of(out, t) = k /\ Of(out, u) = 0
    BY <1>2, <1>3, <1>4, <1>5
  <2> HIDE DEF p, x, y, d
  <2>3. x + 0 - q = x - q /\ y + 0 - k = y - k /\ d + 0 - s = d - s
    BY <1>6, <1>8
  <2> QED BY <2>1, <2>2, <2>3
<1> HIDE DEF p, x, y, d
<1>10. q * d <= s * x /\ k * d <= s * y
  BY <1>6, <1>7, <1>8, PartOf
<1>11. s < d /\ d - s \in Nat \ {0} /\ MIN_LIQUIDITY <= d - s
  BY <1>6, <1>7, <1>8
<1>12. ASSUME NEW z \in Nat \ {0}, NEW m \in Nat, m * d <= s * z PROVE m < z
  <2>1. SUFFICES ASSUME z <= m PROVE FALSE
    BY <1>12
  <2>2. z * d <= m * d
    BY <1>8, <2>1, Products
  <2>3. (d - s) * z \in Nat /\ 1 * 1 <= (d - s) * z
    BY <1>11, <1>12, LargerProduct, Products
  <2>4. z * d = s * z + (d - s) * z
    BY <1>6, <1>8, <1>12
  <2>5. z * d \in Nat /\ m * d \in Nat /\ s * z \in Nat
    BY <1>6, <1>8, <1>12, Products
  <2> QED BY <1>12, <2>2, <2>3, <2>4, <2>5
<1>13. q < x /\ k < y
  BY <1>6, <1>8, <1>10, <1>12
<1>14. p.qnt = x - q /\ p.tok = y - k /\ p.shares = d - s
  BY <1>9
<1>15. PoolOk(p)
  <2>1. x - q \in Nat \ {0} /\ y - k \in Nat \ {0}
    BY <1>6, <1>8, <1>13
  <2> QED BY <1>9, <1>11, <1>14, <2>1 DEF PoolOk
<1>16. KeepsWorth(pl, p)
  <2>1. q \in 0..x /\ k \in 0..y /\ s \in 0..d
    BY <1>6, <1>8, <1>11, <1>13
  <2>2. (x * y) * ((d - s) * (d - s)) <= ((x - q) * (y - k)) * (d * d)
    BY <1>8, <1>10, <2>1, WithdrawalKeepsWorth
  <2> QED BY <1>14, <2>2 DEF KeepsWorth, Worth, Squared, x, y, d
<1> QED BY <1>7, <1>15, <1>16 DEF FromTo, p

\* A pool with the same shares keeps its worth if the product of its reserves
\* does not fall.
LEMMA SameShares ==
    ASSUME NEW pl, PoolOk(pl), NEW p, PoolOk(p), p.shares = pl.shares, Worth(pl) <= Worth(p)
    PROVE  FromTo(pl, p)
<1> DEFINE a == Worth(pl)
           b == Worth(p)
           c == Squared(pl.shares)
<1>1. a \in Nat /\ b \in Nat /\ c \in Nat
  BY Products DEF Worth, Squared, PoolOk
<1>2. a <= b /\ c = Squared(p.shares)
  OBVIOUS
<1> HIDE DEF a, b, c
<1>3. a * c <= b * c
  BY <1>1, <1>2, Products
<1>4. KeepsWorth(pl, p)
  <2>1. KeepsWorth(pl, p) = (a * Squared(p.shares) <= b * c)
    BY DEF KeepsWorth, a, b, c
  <2> QED BY <1>2, <1>3, <2>1
<1> QED BY <1>4, PoolThere DEF FromTo

\* A swap keeps the product of the reserves, whichever way it goes.
LEMMA SwapKeeps ==
    ASSUME SharesApart, NEW tx, NEW t, NEW q, NEW k, NEW pl, NEW op, NEW sell \in BOOLEAN,
           op = IF sell THEN OpSwap(t, TRUE, k, q) ELSE OpSwap(t, FALSE, q, k),
           OpOk(tx, op), Allowed(pl, op), pl = NoPool \/ PoolOk(pl)
    PROVE  PoolOk(PoolAfter(pl, op)) /\ FromTo(pl, PoolAfter(pl, op))
<1> DEFINE u == ShareId(t)
           a == IF sell THEN t ELSE QNT
           b == IF sell THEN QNT ELSE t
           n == IF sell THEN k ELSE q
           m == IF sell THEN q ELSE k
           in == One(a, n)
           out == One(b, m)
<1>1. op.type = "swap" /\ op.token = t /\ op.in = in /\ op.out = out /\ op.sell = sell
  <2>1. CASE sell = TRUE
    BY <2>1 DEF OpSwap
  <2>2. CASE sell = FALSE
    BY <2>2 DEF OpSwap
  <2> QED BY <2>1, <2>2
<1>2. t # QNT /\ Amounts(in) \union Amounts(out) \subseteq Positive
  BY <1>1, Zenon DEF OpOk
<1>3. u # QNT /\ u # t
  BY DEF SharesApart
<1> HIDE DEF u
<1>4. /\ Amounts(in) = {n} /\ in[a] = n /\ \A c : Of(in, c) = IF c = a THEN n ELSE 0
      /\ Amounts(out) = {m} /\ out[b] = m /\ \A c : Of(out, c) = IF c = b THEN m ELSE 0
  <2> HIDE DEF a, b, n, m
  <2> QED BY Flows
<1> HIDE DEF in, out
<1>5. n \in Nat \ {0} /\ m \in Nat \ {0}
  <2> HIDE DEF a, b, n, m
  <2> QED BY <1>2, <1>4, PositiveNumbers
<1> DEFINE x == pl.qnt
           y == pl.tok
           d == pl.shares
           p == PoolAfter(pl, op)
           rin == IF sell THEN y ELSE x
           rout == IF sell THEN x ELSE y
<1>6. pl # NoPool /\ m < rout /\ m <= amm_quote(n, rin, rout)
  <2>1. CASE sell = TRUE
    <3>1. /\ pl # NoPool /\ op.out[QNT] < pl.qnt
          /\ op.out[QNT] <= amm_quote(op.in[op.token], pl.tok, pl.qnt)
      BY <1>1, <2>1, Zenon DEF Allowed
    <3>2. op.in[op.token] = k /\ op.out[QNT] = q
      BY <1>1, <1>4, <2>1
    <3>3. n = k /\ m = q /\ rin = y /\ rout = x
      BY <2>1
    <3> QED BY <3>1, <3>2, <3>3
  <2>2. CASE sell = FALSE
    <3>1. /\ pl # NoPool /\ op.out[op.token] < pl.tok
          /\ op.out[op.token] <= amm_quote(op.in[QNT], pl.qnt, pl.tok)
      BY <1>1, <2>2, Zenon DEF Allowed
    <3>2. op.in[QNT] = q /\ op.out[op.token] = k
      BY <1>1, <1>4, <2>2
    <3>3. n = q /\ m = k /\ rin = x /\ rout = y
      BY <2>2
    <3> QED BY <3>1, <3>2, <3>3
  <2> QED BY <2>1, <2>2
<1>7. /\ x \in Nat \ {0} /\ y \in Nat \ {0} /\ d \in Nat \ {0} /\ MIN_LIQUIDITY <= d
      /\ pl \in [qnt : Nat \ {0}, tok : Nat \ {0}, shares : Nat \ {0}]
  BY <1>6 DEF PoolOk
<1>8. p = IF sell THEN [qnt |-> x - m, tok |-> y + n, shares |-> d]
          ELSE [qnt |-> x + n, tok |-> y - m, shares |-> d]
  <2>1. p = [qnt |-> x + Of(in, QNT) - Of(out, QNT), tok |-> y + Of(in, t) - Of(out, t),
             shares |-> d + Of(out, u) - Of(in, u)]
    BY <1>1, <1>6 DEF PoolAfter, u
  <2>2. /\ Of(in, QNT) = (IF sell THEN 0 ELSE n) /\ Of(in, t) = (IF sell THEN n ELSE 0)
        /\ Of(in, u) = 0 /\ Of(out, u) = 0
        /\ Of(out, QNT) = (IF sell THEN m ELSE 0) /\ Of(out, t) = (IF sell THEN 0 ELSE m)
    BY <1>2, <1>3, <1>4
  <2> HIDE DEF p, x, y, d, n, m
  <2>3. CASE sell = TRUE
    <3>1. x + 0 - m = x - m /\ y + n - 0 = y + n /\ d + 0 - 0 = d
      BY <1>5, <1>7
    <3> QED BY <2>1, <2>2, <2>3, <3>1
  <2>4. CASE sell = FALSE
    <3>1. x + n - 0 = x + n /\ y + 0 - m = y - m /\ d + 0 - 0 = d
      BY <1>5, <1>7
    <3> QED BY <2>1, <2>2, <2>4, <3>1
  <2> QED BY <2>3, <2>4
<1> HIDE DEF p, n, m
<1>9. rin * rout <= (rin + n) * (rout - m)
  <2>1. rin \in Nat \ {0} /\ rout \in Nat \ {0}
    BY <1>7
  <2> HIDE DEF rin, rout
  <2> QED BY <1>5, <1>6, <2>1, SwapKeepsProduct
<1>10. PoolOk(p) /\ p.shares = d /\ Worth(pl) <= Worth(p)
  <2> HIDE DEF x, y, d
  <2>1. CASE sell = TRUE
    <3>1. x - m \in Nat \ {0} /\ y + n \in Nat \ {0}
      BY <1>5, <1>6, <1>7, <2>1
    <3>2. p = [qnt |-> x - m, tok |-> y + n, shares |-> d]
      BY <1>8, <2>1
    <3>3. y * x = x * y /\ (y + n) * (x - m) = (x - m) * (y + n)
      BY <1>7, <3>1, Products
    <3>4. x * y <= (x - m) * (y + n)
      BY <1>9, <2>1, <3>3
    <3> QED BY <1>7, <3>1, <3>2, <3>4 DEF PoolOk, Worth, x, y
  <2>2. CASE sell = FALSE
    <3>1. x + n \in Nat \ {0} /\ y - m \in Nat \ {0}
      BY <1>5, <1>6, <1>7, <2>2
    <3>2. p = [qnt |-> x + n, tok |-> y - m, shares |-> d]
      BY <1>8, <2>2
    <3>3. x * y <= (x + n) * (y - m)
      BY <1>9, <2>2
    <3> QED BY <1>7, <3>1, <3>2, <3>3 DEF PoolOk, Worth, x, y
  <2> QED BY <2>1, <2>2
<1> QED BY <1>6, <1>10, SameShares DEF p

\* Every operation on a pool, as a wallet makes it and the ledger allows it.
LEMMA PoolKeeps ==
    ASSUME SharesApart, NEW tx, NEW op, op.type \notin {"create", "message"}, Shaped(op), OpOk(tx, op),
           NEW pl, pl = NoPool \/ PoolOk(pl), Allowed(pl, op)
    PROVE  PoolOk(PoolAfter(pl, op)) /\ FromTo(pl, PoolAfter(pl, op))
<1>1. PICK t, q, k, s : MadeOp(op, t, q, k, s)
  BY DEF Shaped
<1>2. CASE op = OpPoolCreate(t, q, k, s)
  BY <1>2, OpenKeeps
<1>3. CASE op = OpAddLiquidity(t, q, k, s)
  BY <1>3, AddKeeps
<1>4. CASE op = OpRemoveLiquidity(t, s, q, k)
  BY <1>4, RemoveKeeps
<1>5. CASE op = OpSwap(t, TRUE, k, q)
  BY <1>5, SwapKeeps
<1>6. CASE op = OpSwap(t, FALSE, q, k)
  BY <1>6, SwapKeeps
<1> QED BY <1>1, <1>2, <1>3, <1>4, <1>5, <1>6 DEF MadeOp

(***************************************************************************)
(* What the operations of a transaction do to the pools                    *)
(***************************************************************************)
AllPoolsOk(st) == \A t \in DOMAIN st.pools : PoolOk(st.pools[t])
ChangedWell(v, st) ==
    \A t \in DOMAIN v.pools : PoolOk(v.pools[t]) /\ FromTo(Before(st, t), v.pools[t])
RanWell(s, v) ==
    \A t \in DOMAIN s.pools : PoolOk(s.pools[t]) /\ FromTo(PoolOf(v, t), s.pools[t])
OpsFit(tx) == IsSeq(tx.ops) /\ \A i \in DOMAIN tx.ops : Shaped(tx.ops[i]) /\ OpOk(tx, tx.ops[i])

\* One operation on the pools as the transaction has changed them.
LEMMA RunOpPools ==
    ASSUME SharesApart, NEW v, \A t : PoolOf(v, t) = NoPool \/ PoolOk(PoolOf(v, t)),
           NEW tx, NEW i, Shaped(tx.ops[i]), OpOk(tx, tx.ops[i]),
           NEW s, OpsOk(s, v), s.ok, RanWell(s, v), RunOp(v, tx, s, i).ok
    PROVE  RanWell(RunOp(v, tx, s, i), v)
<1> DEFINE op == tx.ops[i]
           token == TokenId(tx.ins[1], i)
           r == RunOp(v, tx, s, i)
<1>1. s = [ok |-> s.ok, pools |-> s.pools, minted |-> s.minted]
  BY DEF OpsOk
<1>2. CASE op.type = "create"
  <2> DEFINE b == ~ Knows(v, s, token)
             o == One(token, op.supply)
  <2>1. r = [s EXCEPT !.ok = b, !.minted = Over(@, o)]
    BY <1>2, Zenon DEF RunOp
  <2> HIDE DEF r, b, o
  <2>2. r.pools = s.pools
    BY <1>1, <2>1
  <2>3. RanWell(r, v)
    BY <2>2 DEF RanWell
  <2> QED BY <2>3 DEF r
<1>3. CASE op.type # "create" /\ op.type = "message"
  <2> DEFINE b == \E k \in DOMAIN tx.ins : CoinOf(v, tx.ins[k]).out.owner = op.from
  <2>1. r = [s EXCEPT !.ok = b]
    BY <1>3, Zenon DEF RunOp
  <2> HIDE DEF r, b
  <2>2. r.pools = s.pools
    BY <1>1, <2>1
  <2>3. RanWell(r, v)
    BY <2>2 DEF RanWell
  <2> QED BY <2>3 DEF r
<1>4. CASE op.type # "create" /\ op.type # "message"
  <2> DEFINE t == op.token
             pl == PoolNow(v, s, t)
             b == (op.type = "open" => Knows(v, s, t)) /\ Allowed(pl, op)
             p == PoolAfter(pl, op)
             o == One(t, p)
  <2>1. r = [s EXCEPT !.ok = b, !.pools = Over(@, o)]
    BY <1>4, Zenon DEF RunOp
  <2> HIDE DEF r, b, o
  <2>2. r.pools = Over(s.pools, o) /\ r.ok = b
    BY <1>1, <2>1
  <2>3. Allowed(pl, op)
    BY <2>2 DEF r, b
  <2>4. pl = NoPool \/ PoolOk(pl)
    BY DEF PoolNow, RanWell
  <2> HIDE DEF pl
  <2>5. PoolOk(p) /\ FromTo(pl, p)
    BY <1>4, <2>3, <2>4, PoolKeeps
  <2> HIDE DEF p
  <2>6. FromTo(PoolOf(v, t), p)
    <3>1. CASE t \in DOMAIN s.pools
      <4>1. pl = s.pools[t]
        BY <3>1 DEF pl, PoolNow
      <4>2. PoolOk(pl) /\ FromTo(PoolOf(v, t), pl)
        BY <3>1, <4>1 DEF RanWell
      <4> HIDE DEF t
      <4> QED BY <2>5, <4>2, FromToPasses
    <3>2. CASE t \notin DOMAIN s.pools
      BY <2>5, <3>2 DEF pl, PoolNow
    <3> QED BY <3>1, <3>2
  <2>7. o = [x \in {t} |-> p]
    BY DEF o, One
  <2> HIDE DEF t
  <2>8. \A x \in DOMAIN r.pools : r.pools[x] = IF x = t THEN p ELSE s.pools[x]
    BY <2>2, <2>7 DEF Over
  <2>9. \A x \in DOMAIN r.pools : x = t \/ x \in DOMAIN s.pools
    BY <2>2, <2>7 DEF Over
  <2>10. RanWell(r, v)
    BY <2>5, <2>6, <2>8, <2>9 DEF RanWell
  <2> QED BY <2>10 DEF r
<1> QED BY <1>2, <1>3, <1>4

\* All the operations of a transaction, in turn.
LEMMA RunOpsPools ==
    ASSUME SharesApart, NEW v, \A t : PoolOf(v, t) = NoPool \/ PoolOk(PoolOf(v, t)),
           NEW tx, OpsFit(tx), RunOps(v, tx).ok
    PROVE  RanWell(RunOps(v, tx), v)
<1> DEFINE n == Len(tx.ops)
<1>1. n \in Nat /\ DOMAIN tx.ops = 1..n /\ IsSeq(tx.ops)
  BY SeqShape DEF OpsFit
<1>2. PICK r : RanOps(r, v, tx) /\ RunOps(v, tx) = r[n]
  BY <1>1, RunOpsRun
<1> DEFINE T == {k \in 0..n : OpsOk(r[k], v) /\ (r[k].ok => RanWell(r[k], v))}
<1>3. T \in SUBSET Nat /\ 0 \in T
  <2> DEFINE z == [ok |-> TRUE, pools |-> <<>>, minted |-> <<>>]
  <2>1. z.pools = <<>> /\ DOMAIN <<>> = {}
    BY FcnFacts
  <2>2. OpsOk(z, v)
    BY FcnFacts DEF OpsOk
  <2>3. r[0] = z
    BY <1>2 DEF RanOps
  <2> HIDE DEF z
  <2>4. RanWell(z, v)
    BY <2>1 DEF RanWell
  <2> QED BY <1>1, <2>2, <2>3, <2>4
<1>4. ASSUME NEW k \in 0..n, k \in T, k < n PROVE k + 1 \in T
  <2>1. k + 1 \in 1..n /\ (k + 1) - 1 = k /\ k + 1 \in 0..n
    BY <1>1, <1>4
  <2>2. r[k + 1] = RunNext(v, tx, r[k], k + 1)
    BY <1>2, <2>1 DEF RanOps
  <2>3. OpsOk(r[k], v) /\ (r[k].ok => RanWell(r[k], v))
    BY <1>4
  <2>4. CASE r[k].ok
    <3>1. r[k + 1] = RunOp(v, tx, r[k], k + 1)
      BY <2>2, <2>4 DEF RunNext
    <3>2. OpsOk(r[k + 1], v)
      BY <2>3, <2>4, <3>1, RunOpKeeps
    <3>3. Shaped(tx.ops[k + 1]) /\ OpOk(tx, tx.ops[k + 1])
      BY <1>1, <2>1 DEF OpsFit
    <3>4. r[k + 1].ok => RanWell(r[k + 1], v)
      BY <2>3, <2>4, <3>1, <3>3, RunOpPools
    <3> QED BY <2>1, <3>2, <3>4
  <2>5. CASE ~ r[k].ok
    BY <2>1, <2>2, <2>3, <2>5 DEF RunNext
  <2> QED BY <2>4, <2>5
<1> HIDE DEF T, n
<1>5. n \in T
  BY <1>1, <1>3, <1>4, Upward
<1> QED BY <1>2, <1>5 DEF T

\* A transaction on a view whose pools have kept their worth.
LEMMA AppliedPools ==
    ASSUME SharesApart, NEW v, NEW st, ViewOk(v, st), AllPoolsOk(st), ChangedWell(v, st),
           NEW tx, NEW h, OpsFit(tx), RunOps(v, tx).ok
    PROVE  ChangedWell(Applied(v, tx, h), st)
<1> DEFINE u == Applied(v, tx, h)
           ran == RunOps(v, tx)
<1>1. v = Fields(v) /\ v.base = st
  BY DEF ViewOk
<1>2. u.pools = Over(v.pools, ran.pools)
  <2>1. IsApplied(u, v, Range(tx.ins), ran, Outputs(tx, h))
    BY <1>1, AppliedParts
  <2> HIDE DEF u, ran
  <2> QED BY <2>1 DEF IsApplied
<1>3. \A t : PoolOf(v, t) = IF t \in DOMAIN v.pools THEN v.pools[t] ELSE Before(st, t)
  BY <1>1 DEF PoolOf, Before
<1>4. \A t : Before(st, t) = NoPool \/ PoolOk(Before(st, t))
  BY DEF Before, AllPoolsOk
<1>5. \A t : PoolOf(v, t) = NoPool \/ PoolOk(PoolOf(v, t))
  BY <1>3, <1>4 DEF ChangedWell
<1>6. RanWell(ran, v)
  BY <1>5, RunOpsPools
<1> HIDE DEF u, ran
<1>7. ASSUME NEW t \in DOMAIN u.pools PROVE PoolOk(u.pools[t]) /\ FromTo(Before(st, t), u.pools[t])
  <2>1. CASE t \in DOMAIN ran.pools
    <3>1. u.pools[t] = ran.pools[t]
      BY <1>2, <2>1 DEF Over
    <3>2. PoolOk(u.pools[t]) /\ FromTo(PoolOf(v, t), u.pools[t])
      BY <1>6, <2>1, <3>1 DEF RanWell
    <3>3. CASE t \in DOMAIN v.pools
      <4>1. PoolOk(PoolOf(v, t)) /\ FromTo(Before(st, t), PoolOf(v, t))
        BY <1>3, <3>3 DEF ChangedWell
      <4> DEFINE a == Before(st, t)
                 b == PoolOf(v, t)
                 c == u.pools[t]
      <4>2. (a = NoPool \/ PoolOk(a)) /\ PoolOk(b) /\ PoolOk(c) /\ FromTo(a, b) /\ FromTo(b, c)
        BY <1>4, <3>2, <4>1
      <4> HIDE DEF a, b, c
      <4>3. FromTo(a, c)
        BY <4>2, FromToPasses
      <4> QED BY <3>2, <4>3 DEF a, c
    <3>4. CASE t \notin DOMAIN v.pools
      BY <1>3, <3>2, <3>4
    <3> QED BY <3>3, <3>4
  <2>2. CASE t \notin DOMAIN ran.pools
    <3>1. t \in DOMAIN v.pools /\ u.pools[t] = v.pools[t]
      BY <1>2, <2>2 DEF Over
    <3> QED BY <3>1 DEF ChangedWell
  <2> QED BY <2>1, <2>2
<1> QED BY <1>7 DEF ChangedWell, u

(***************************************************************************)
(* What always holds of the pools                                          *)
(***************************************************************************)
PoolInv ==
    /\ AllPoolsOk(state) /\ \A i \in 1..Height : AllPoolsOk(chain[i].before)
    /\ ChangedWell(view, state)

\* The pools of the next state have each kept their worth.
PoolsStep == \A t \in DOMAIN state'.pools : FromTo(Before(state, t), state'.pools[t])

\* At first, and in a new view, there is no pool.
LEMMA NoPoolYet ==
    /\ \A st : ChangedWell(NewView(st), st)
    /\ \A st : st.pools = <<>> => AllPoolsOk(st)
<1>1. DOMAIN <<>> = {}
  BY FcnFacts
<1>2. \A st : NewView(st).pools = <<>>
  BY DEF NewView
<1> QED BY <1>1, <1>2 DEF ChangedWell, AllPoolsOk

\* A state that has not changed.
LEMMA SamePools ==
    ASSUME AllPoolsOk(state), state' = state
    PROVE  AllPoolsOk(state') /\ PoolsStep
<1>1. \A t \in DOMAIN state.pools : FromTo(Before(state, t), state.pools[t])
  BY PoolThere DEF AllPoolsOk, Before
<1> QED BY <1>1 DEF PoolsStep

\* The pools of a block are set one by one.
LEMMA PoolsSetWell ==
    ASSUME NEW st, AllPoolsOk(st), NEW v, ChangedWell(v, st), NEW new, new.pools = PoolsSet(st.pools, v.pools)
    PROVE  /\ AllPoolsOk(new)
           /\ \A t \in DOMAIN new.pools : FromTo(Before(st, t), new.pools[t])
<1> DEFINE f == st.pools
           g == v.pools
<1>1. /\ DOMAIN new.pools \subseteq DOMAIN f \union DOMAIN g
      /\ \A t \in DOMAIN new.pools : new.pools[t] = IF t \in DOMAIN g THEN g[t] ELSE f[t]
  BY DEF PoolsSet, Without, Over
<1>2. ASSUME NEW t \in DOMAIN new.pools
      PROVE  PoolOk(new.pools[t]) /\ FromTo(Before(st, t), new.pools[t])
  <2>1. CASE t \in DOMAIN g
    BY <1>1, <2>1 DEF ChangedWell
  <2>2. CASE t \notin DOMAIN g
    <3>1. t \in DOMAIN f /\ new.pools[t] = f[t]
      BY <1>1, <2>2
    <3> QED BY <3>1, PoolThere DEF AllPoolsOk, Before
  <2> QED BY <2>1, <2>2
<1> QED BY <1>2 DEF AllPoolsOk

\* Every step keeps what holds of the pools, and but for a block that is taken
\* back the worth of each.
LEMMA PoolStep ==
    ASSUME SharesApart, LedgerInv, PoolInv, [Next]_vars
    PROVE  PoolInv' /\ (Height' >= Height => PoolsStep)
<1>1. ChainOk /\ PendingOk
  BY DEF LedgerInv
<1>2. Height \in Nat /\ IsSeq(chain)
  BY <1>1, SeqShape DEF ChainOk, Height
<1>3. AllPoolsOk(state) /\ (\A i \in 1..Height : AllPoolsOk(chain[i].before)) /\ ChangedWell(view, state)
  BY DEF PoolInv
<1>4. ASSUME NEW tx, IsSeq(tx.ops), \A i \in DOMAIN tx.ops : Shaped(tx.ops[i]), Accept(tx)
      PROVE  PoolInv' /\ PoolsStep
  <2>1. /\ Accepted(tx) /\ view' = Applied(view, tx, Height + 1)
        /\ state' = state /\ chain' = chain /\ Height' = Height
    BY <1>4 DEF Accept, Height
  <2>2. RunOps(view, tx).ok /\ OpsFit(tx)
    BY <1>4, <2>1 DEF Accepted, Applies, check_tx_basic, OpsFit
  <2>3. ViewOk(view, state)
    BY <1>1 DEF PendingOk
  <2>4. ChangedWell(view', state)
    BY <1>3, <2>1, <2>2, <2>3, AppliedPools
  <2> QED BY <1>3, <2>1, <2>4, SamePools DEF PoolInv
<1>5. \A tx : WithId(tx).ops = tx.ops
  BY DEF WithId
<1>6. ASSUME NEW plan \in Plans, SendPlan(plan) PROVE PoolInv' /\ PoolsStep
  <2> DEFINE b == build(Me, Spendable, plan)
  <2>1. b.ok /\ Accept(WithId(b.tx))
    BY <1>6, Zenon DEF SendPlan
  <2>2. WithId(b.tx).ops = plan.ops
    <3>1. b.tx.ops = plan.ops
      BY <2>1, BuiltOps
    <3> HIDE DEF b
    <3> QED BY <1>5, <3>1
  <2> HIDE DEF b
  <2> QED BY <1>4, <2>1, <2>2, PlanOps
<1>7. ASSUME NEW o, NEW d, PassOn(o, d) PROVE PoolInv' /\ PoolsStep
  <2> DEFINE c == CoinOf(view, o).out
             tx == [ins |-> <<o>>, ops |-> <<>>, outs |-> <<Pay(You, c.asset, c.value + d)>>]
  <2>1. Accept(WithId(tx))
    BY <1>7, Zenon DEF PassOn
  <2>2. tx.ops = <<>> /\ IsSeq(<<>>) /\ DOMAIN <<>> = {}
    BY NewViewOk, FcnFacts
  <2> HIDE DEF tx
  <2> QED BY <1>4, <1>5, <2>1, <2>2
<1>8. ASSUME NEW values, NEW owner, ConnectBlock(values, owner) PROVE PoolInv' /\ PoolsStep
  <2> DEFINE cb == Coinbase(values, owner)
             run == AppliedAll(apply_coinbase(NewView(state), cb, Height + 1), pending, Height + 1)
             b == [txs |-> <<cb>> \o pending, fees |-> run.fees, undo |-> UndoOf(run.view), before |-> state]
  <2>1. state' = Committed(state, run.view) /\ chain' = Append(chain, b) /\ view' = NewView(state')
    BY <1>8, Zenon DEF ConnectBlock
  <2>2. run.view = apply_coinbase(view, cb, Height + 1)
    BY <1>1 DEF PendingOk, CoinbaseAhead
  <2>3. run.view.pools = view.pools
    <3>1. ViewOk(view, state)
      BY <1>1 DEF PendingOk
    <3>2. HasCoinbase(apply_coinbase(view, cb, Height + 1), view, Outputs(cb, Height + 1))
      BY <3>1, CoinbaseKeeps
    <3> HIDE DEF cb, run
    <3> QED BY <2>2, <3>2 DEF HasCoinbase
  <2>4. b.before = state
    OBVIOUS
  <2> HIDE DEF b, run
  <2>5. state'.pools = PoolsSet(state.pools, view.pools)
    BY <2>1, <2>3 DEF Committed
  <2>6. AllPoolsOk(state') /\ PoolsStep
    <3> DEFINE new == state'
    <3>1. new.pools = PoolsSet(state.pools, view.pools)
      BY <2>5
    <3> HIDE DEF new
    <3>2. AllPoolsOk(new) /\ \A t \in DOMAIN new.pools : FromTo(Before(state, t), new.pools[t])
      BY <1>3, <3>1, PoolsSetWell
    <3> QED BY <3>2 DEF new, PoolsStep
  <2>7. /\ Height' = Height + 1 /\ chain'[Height + 1] = b
        /\ \A i \in 1..Height : chain'[i] = chain[i]
    BY <1>2, <2>1, SeqShape DEF Height
  <2>8. ASSUME NEW i \in 1..Height + 1 PROVE AllPoolsOk(chain'[i].before)
    <3>1. i \in 1..Height \/ i = Height + 1
      BY <1>2
    <3> QED BY <1>3, <2>4, <2>7, <3>1
  <2>9. ChangedWell(view', state')
    BY <2>1, NoPoolYet
  <2> QED BY <2>6, <2>7, <2>8, <2>9 DEF PoolInv
<1>9. ASSUME MineBlock PROVE PoolInv' /\ PoolsStep
  <2>1. \E values : ConnectBlock(values, Me)
    BY <1>9, Zenon DEF MineBlock
  <2> QED BY <1>8, <2>1
<1>10. ASSUME OthersBlock PROVE PoolInv' /\ PoolsStep
  <2>1. \E values : ConnectBlock(values, You)
    BY <1>10, Zenon DEF OthersBlock
  <2> QED BY <1>8, <2>1
<1>11. ASSUME DisconnectTip PROVE PoolInv' /\ ~ (Height' >= Height)
  <2>1. Height > 0 /\ chain' = Front(chain) /\ view' = NewView(state')
    BY <1>11, Zenon DEF DisconnectTip
  <2>2. state' = Last(chain).before
    BY <1>11, DisconnectKeeps
  <2>3. /\ Height' = Height - 1 /\ Last(chain) = chain[Height]
        /\ \A i \in 1..Height - 1 : chain'[i] = chain[i]
    BY <1>2, <2>1, SeqShape DEF Height
  <2>4. Height \in 1..Height /\ \A i \in 1..Height - 1 : i \in 1..Height
    BY <1>2, <2>1
  <2>5. AllPoolsOk(state') /\ \A i \in 1..Height - 1 : AllPoolsOk(chain'[i].before)
    BY <1>3, <2>2, <2>3, <2>4
  <2>6. ChangedWell(view', state')
    BY <2>1, NoPoolYet
  <2>7. ~ (Height' >= Height)
    BY <1>2, <2>3
  <2> QED BY <2>3, <2>5, <2>6, <2>7 DEF PoolInv
<1>12. ASSUME state' = state, chain' = chain, view' = view PROVE PoolInv' /\ PoolsStep
  <2>1. Height' = Height
    BY <1>12 DEF Height
  <2> QED BY <1>3, <1>12, <2>1, SamePools DEF PoolInv
<1>13. ASSUME NEW h, GetEmission(h) PROVE PoolInv' /\ PoolsStep
  BY <1>12, <1>13 DEF GetEmission
<1>14. ASSUME UNCHANGED vars PROVE PoolInv' /\ PoolsStep
  BY <1>12, <1>14 DEF vars
<1>15. ASSUME NEW tx \in Foreign, ForeignTx(tx) PROVE PoolInv' /\ PoolsStep
  <2>1. Accept(WithId(tx)) /\ IsSeq(tx.ops) /\ \A i \in DOMAIN tx.ops : Shaped(tx.ops[i])
    BY <1>15, ReadTx DEF ForeignTx
  <2> QED BY <1>4, <1>5, <2>1
<1> QED BY <1>6, <1>7, <1>9, <1>10, <1>11, <1>13, <1>14, <1>15 DEF Next

\* At first there is no pool.
LEMMA PoolInit ==
    ASSUME Init
    PROVE  PoolInv
<1>1. state.pools = <<>> /\ view = NewView(state) /\ chain = <<>>
  BY DEF Init
<1>2. Height = 0
  BY <1>1, NewViewOk DEF Height
<1>3. \A i \in 1..0 : FALSE
  OBVIOUS
<1> QED BY <1>1, <1>2, <1>3, NoPoolYet DEF PoolInv

\* No sequence of swaps, deposits and withdrawals, in whatever transactions and
\* blocks, takes value out of a pool, whatever the fee, the width of an amount
\* and the shares that are locked (ledger.cpp:23-70).  The ids of shares are
\* taken to differ from those of tokens: both are hashes (transaction.cpp:133).
THEOREM PoolsAlwaysKeepWorth ==
    ASSUME SharesApart
    PROVE  Spec => PoolsKeepWorth
<1>1. Init => PoolInv
  BY PoolInit
<1>2. LedgerInv /\ PoolInv /\ [Next]_vars => PoolInv'
  BY PoolStep
<1>3. LedgerInv /\ PoolInv /\ [Next]_vars =>
        [Height' >= Height => \A t \in DOMAIN state'.pools :
           LET new == state'.pools[t] IN
           IF t \in DOMAIN state.pools
           THEN KeepsWorth(state.pools[t], new)
           ELSE Squared(new.shares) <= Worth(new)]_vars
  <2> SUFFICES ASSUME LedgerInv, PoolInv, [Next]_vars, Height' >= Height, NEW t \in DOMAIN state'.pools
               PROVE  IF t \in DOMAIN state.pools
                      THEN KeepsWorth(state.pools[t], state'.pools[t])
                      ELSE Squared(state'.pools[t].shares) <= Worth(state'.pools[t])
    OBVIOUS
  <2>1. FromTo(Before(state, t), state'.pools[t])
    BY PoolStep DEF PoolsStep
  <2>2. t \in DOMAIN state.pools => state.pools[t] # NoPool
    BY PoolThere DEF PoolInv, AllPoolsOk
  <2> QED BY <2>1, <2>2 DEF FromTo, Before
<1> QED BY <1>1, <1>2, <1>3, LedgerAlwaysOk, PTL DEF Spec, PoolsKeepWorth

(***************************************************************************)
(* The sums of coins                                                       *)
(***************************************************************************)
\* What a set of coins holds of an asset.
Val(c, a) == IF c.out.asset = a THEN c.out.value ELSE 0
Vals(k, a) == [o \in DOMAIN k |-> Val(k[o], a)]
CoinSum(k, a) == SumFunctionOnSet(Vals(k, a), DOMAIN k)
Counted(k) == IsFiniteSet(DOMAIN k) /\ \A o \in DOMAIN k : k[o].out.value \in Nat

\* It is a number, no less than what some of the coins hold, and nothing if
\* none is of the asset.
LEMMA CoinSumFacts ==
    ASSUME NEW k, Counted(k), NEW a
    PROVE  /\ Numbers(Vals(k, a), DOMAIN k) /\ CoinSum(k, a) \in Nat
           /\ \A s \in SUBSET DOMAIN k : /\ SumFunctionOnSet(Vals(k, a), s) \in Nat
                                         /\ SumFunctionOnSet(Vals(k, a), s) <= CoinSum(k, a)
           /\ (\A o \in DOMAIN k : k[o].out.asset # a) => CoinSum(k, a) = 0
<1> DEFINE f == Vals(k, a)
           D == DOMAIN k
<1>1. IsFiniteSet(D) /\ \A x \in D : f[x] \in Nat
  BY DEF Counted, Vals, Val
<1>2. (\A o \in D : k[o].out.asset # a) => \A x \in D : f[x] = 0
  BY DEF Vals, Val
<1> HIDE DEF f, D
<1>3. /\ Numbers(f, D) /\ SumFunctionOnSet(f, D) \in Nat
      /\ \A s \in SUBSET D : SumFunctionOnSet(f, s) <= SumFunctionOnSet(f, D)
      /\ (\A x \in D : f[x] = 0) => SumFunctionOnSet(f, D) = 0
  BY <1>1, SumNatural
<1>4. ASSUME NEW s \in SUBSET D PROVE SumFunctionOnSet(f, s) \in Nat
  <2>1. IsFiniteSet(s) /\ \A x \in s : f[x] \in Nat
    BY <1>1, FS_Subset
  <2> QED BY <2>1, SumNatural
<1> QED BY <1>2, <1>3, <1>4 DEF f, D, CoinSum

\* Some coins are spent and others made.
LEMMA CoinsReplaced ==
    ASSUME NEW k, Counted(k), NEW outs, Counted(outs), NEW ins \in SUBSET DOMAIN k,
           DOMAIN k \intersect DOMAIN outs = {}, NEW n, n = Over(Without(k, ins), outs)
    PROVE  /\ Counted(n)
           /\ \A a : CoinSum(n, a) = CoinSum(k, a) - SumFunctionOnSet(Vals(k, a), ins) + CoinSum(outs, a)
<1> DEFINE left == DOMAIN k \ ins
           new == DOMAIN outs
<1>1. DOMAIN n = left \union new /\ left \intersect new = {}
  BY DEF Over, Without
<1>2. /\ \A o \in left : n[o] = k[o]
      /\ \A o \in new : n[o] = outs[o]
  BY DEF Over, Without
<1>3. IsFiniteSet(left) /\ IsFiniteSet(new) /\ left \in SUBSET DOMAIN k
  BY FS_Subset DEF Counted
<1>4. Counted(n)
  <2>1. IsFiniteSet(DOMAIN n)
    <3> HIDE DEF left, new
    <3>1. IsFiniteSet(left \union new)
      BY <1>3, FS_Union, Zenon
    <3> QED BY <1>1, <3>1
  <2>2. ASSUME NEW o \in DOMAIN n PROVE n[o].out.value \in Nat
    BY <1>1, <1>2 DEF Counted
  <2> QED BY <2>1, <2>2 DEF Counted
<1>5. ASSUME NEW a
      PROVE  CoinSum(n, a) = CoinSum(k, a) - SumFunctionOnSet(Vals(k, a), ins) + CoinSum(outs, a)
  <2> DEFINE f == Vals(n, a)
             g == Vals(k, a)
             h == Vals(outs, a)
  <2>1. Numbers(f, DOMAIN n) /\ Numbers(g, DOMAIN k) /\ Numbers(h, new)
    BY <1>4, CoinSumFacts
  <2>2. /\ \A o \in left : f[o] = g[o]
        /\ \A o \in new : f[o] = h[o]
    BY <1>1, <1>2 DEF Vals
  <2> HIDE DEF f, g, h
  <2>3. Numbers(f, left) /\ Numbers(f, new) /\ Numbers(g, left) /\ Numbers(g, ins)
    BY <1>1, <2>1, FS_Subset DEF Numbers
  <2>4. SumFunctionOnSet(f, DOMAIN n) = SumFunctionOnSet(f, left) + SumFunctionOnSet(f, new)
    BY <1>1, <2>3, SumUnion
  <2>5. SumFunctionOnSet(f, left) = SumFunctionOnSet(g, left)
    BY <2>2, <2>3, SumSame
  <2>6. SumFunctionOnSet(f, new) = SumFunctionOnSet(h, new)
    BY <2>2, <2>3, SumSame
  <2>7. SumFunctionOnSet(g, DOMAIN k) = SumFunctionOnSet(g, left) + SumFunctionOnSet(g, ins)
    <3>1. left \intersect ins = {} /\ left \union ins = DOMAIN k
      OBVIOUS
    <3> HIDE DEF left
    <3>2. SumFunctionOnSet(g, left \union ins) = SumFunctionOnSet(g, left) + SumFunctionOnSet(g, ins)
      BY <2>3, <3>1, SumUnion
    <3> QED BY <3>1, <3>2
  <2>8. /\ SumFunctionOnSet(g, left) \in Nat /\ SumFunctionOnSet(g, ins) \in Nat
        /\ SumFunctionOnSet(h, new) \in Nat
    BY <1>3, CoinSumFacts DEF g, h
  <2>9. SumFunctionOnSet(f, DOMAIN n) = SumFunctionOnSet(g, DOMAIN k) - SumFunctionOnSet(g, ins)
                                          + SumFunctionOnSet(h, new)
    <3> HIDE DEF left, new
    <3> QED BY <2>4, <2>5, <2>6, <2>7, <2>8
  <2> QED BY <2>9 DEF CoinSum, f, g, h
<1> QED BY <1>4, <1>5

\* The coins a transaction spends are finitely many, each once.
LEMMA InputsSummed ==
    ASSUME NEW k, Counted(k), NEW ins, IsInjective(ins), \A i \in DOMAIN ins : ins[i] \in DOMAIN k
    PROVE  /\ Range(ins) \in SUBSET DOMAIN k
           /\ \A a : SumFunctionOnSet([i \in DOMAIN ins |-> Val(k[ins[i]], a)], DOMAIN ins)
                       = SumFunctionOnSet(Vals(k, a), Range(ins))
<1> DEFINE D == DOMAIN ins
<1>1. Range(ins) \in SUBSET DOMAIN k /\ Range(ins) = {ins[x] : x \in D}
  BY DEF Range
<1>2. \A x, y \in D : ins[x] = ins[y] => x = y
  BY DEF IsInjective
<1>3. IsFiniteSet(D)
  <2> DEFINE h == [x \in D |-> ins[x]]
  <2>1. h \in Injection(D, DOMAIN k)
    BY <1>2 DEF Injection, IsInjective
  <2>2. IsFiniteSet(DOMAIN k)
    BY DEF Counted
  <2> QED BY <2>1, <2>2, FS_Injection
<1>4. ASSUME NEW a
      PROVE  SumFunctionOnSet([i \in D |-> Val(k[ins[i]], a)], D) = SumFunctionOnSet(Vals(k, a), Range(ins))
  <2> DEFINE f == [i \in D |-> Val(k[ins[i]], a)]
             g == Vals(k, a)
  <2>1. Numbers(f, D)
    BY <1>3 DEF Numbers, Counted, Val
  <2>2. \A x \in D : g[ins[x]] = f[x]
    BY DEF Vals
  <2> HIDE DEF f, g, D
  <2>3. SumFunctionOnSet(g, {ins[x] : x \in D}) = SumFunctionOnSet(f, D)
    BY <1>2, <2>1, <2>2, SumRenamed
  <2> QED BY <1>1, <2>3 DEF f, g
<1> QED BY <1>1, <1>4

\* The coins a transaction makes.
LEMMA OutputsSummed ==
    ASSUME NEW tx, IsSeq(tx.outs), \A i \in DOMAIN tx.outs : tx.outs[i].value \in Nat, NEW h
    PROVE  /\ Counted(Outputs(tx, h))
           /\ \A a : /\ CoinSum(Outputs(tx, h), a) = ValueIn(tx.outs, a)
                     /\ ValueIn(tx.outs, a) \in Nat
<1> DEFINE D == DOMAIN tx.outs
           k == Outputs(tx, h)
           m == [i \in D |-> <<tx.id, i>>]
<1>1. DOMAIN k = {m[x] : x \in D} /\ \A x \in D : k[m[x]].out = tx.outs[x]
  BY DEF Outputs
<1>2. IsFiniteSet(D)
  <2>1. Len(tx.outs) \in Nat /\ D = 1..Len(tx.outs)
    BY SeqShape
  <2> QED BY <2>1, FS_Interval
<1>3. \A x, y \in D : m[x] = m[y] => x = y
  OBVIOUS
<1> HIDE DEF k, m
<1>4. Counted(k)
  <2> DEFINE zero == [x \in D |-> 0]
             none == [y \in {m[x] : x \in D} |-> 0]
  <2>1. Numbers(zero, D) /\ \A x \in D : none[m[x]] = zero[x]
    BY <1>2 DEF Numbers
  <2> HIDE DEF zero, none, D
  <2>2. Numbers(none, {m[x] : x \in D})
    BY <1>3, <2>1, SumRenamed
  <2>3. IsFiniteSet(DOMAIN k)
    BY <1>1, <2>2 DEF Numbers
  <2> QED BY <1>1, <2>3 DEF Counted, D
<1>5. ASSUME NEW a PROVE CoinSum(k, a) = ValueIn(tx.outs, a) /\ ValueIn(tx.outs, a) \in Nat
  <2> DEFINE f == [i \in D |-> IF tx.outs[i].asset = a THEN tx.outs[i].value ELSE 0]
             g == Vals(k, a)
  <2>1. Numbers(f, D)
    BY <1>2 DEF Numbers
  <2>2. \A x \in D : g[m[x]] = f[x]
    BY <1>1 DEF Vals, Val
  <2>3. ValueIn(tx.outs, a) = SumFunctionOnSet(f, D)
    BY DEF ValueIn, Sum, SumFunction
  <2> HIDE DEF f, g, D
  <2>4. SumFunctionOnSet(g, {m[x] : x \in D}) = SumFunctionOnSet(f, D)
    BY <1>3, <2>1, <2>2, SumRenamed
  <2>5. CoinSum(k, a) = ValueIn(tx.outs, a)
    BY <1>1, <2>3, <2>4 DEF CoinSum, g
  <2> QED BY <1>4, <2>5, CoinSumFacts
<1> QED BY <1>4, <1>5 DEF k

\* The sum over one element.
LEMMA SumOfOne ==
    ASSUME NEW f, NEW x, f[x] \in Int
    PROVE  SumFunctionOnSet(f, {x}) = f[x]
<1>1. Numbers(f, {x})
  BY FS_Singleton DEF Numbers
<1>2. SumFunctionOnSet(f, {x}) = f[x] + SumFunctionOnSet(f, {x} \ {x}) /\ SumFunctionOnSet(f, {}) = 0
  BY <1>1, SumTaken
<1>3. {x} \ {x} = {}
  OBVIOUS
<1> QED BY <1>2, <1>3

(***************************************************************************)
(* A view as the state it would be committed as                            *)
(***************************************************************************)
\* Functions over functions, one after another.
LEMMA OverTwice ==
    ASSUME NEW f, NEW g, NEW d
    PROVE  Over(f, Over(g, d)) = Over(Over(f, g), d)
BY DEF Over

\* What the view shows is what it would be committed as.
LEMMA ViewNow ==
    ASSUME NEW v, NEW st, ViewOk(v, st), AllPoolsOk(st), ChangedWell(v, st),
           NEW now, now = Committed(st, v)
    PROVE  /\ now.coins = Over(Without(st.coins, DOMAIN v.spentBase), v.created)
           /\ now.tokens = Over(st.tokens, v.tokens) /\ now.pools = Over(st.pools, v.pools)
           /\ \A o : HasCoin(v, o) => o \in DOMAIN now.coins /\ CoinOf(v, o) = now.coins[o]
           /\ \A t : HasToken(v, t) <=> t \in DOMAIN now.tokens
           /\ \A t : PoolOf(v, t) = Before(now, t)
           /\ AllPoolsOk(now)
<1>1. /\ now.coins = Over(Without(st.coins, DOMAIN v.spentBase), v.created)
      /\ now.tokens = Over(st.tokens, v.tokens) /\ now.pools = PoolsSet(st.pools, v.pools)
  BY DEF Committed
<1>2. v.base = st
  BY DEF ViewOk
<1>3. now.pools = Over(st.pools, v.pools)
  <2>1. {t \in DOMAIN v.pools : v.pools[t] = NoPool} = {}
    BY PoolThere DEF ChangedWell
  <2>2. PoolsSet(st.pools, v.pools) = Without(Over(st.pools, v.pools), {})
    BY <2>1 DEF PoolsSet
  <2>3. Without(Over(st.pools, v.pools), {}) = Over(st.pools, v.pools)
    BY DEF Without, Over
  <2> QED BY <1>1, <2>2, <2>3
<1>4. ASSUME NEW o, HasCoin(v, o) PROVE o \in DOMAIN now.coins /\ CoinOf(v, o) = now.coins[o]
  BY <1>1, <1>2, <1>4 DEF HasCoin, CoinOf, Over, Without
<1>5. ASSUME NEW t PROVE HasToken(v, t) <=> t \in DOMAIN now.tokens
  BY <1>1, <1>2 DEF HasToken, Over
<1>6. ASSUME NEW t PROVE PoolOf(v, t) = Before(now, t)
  BY <1>2, <1>3 DEF PoolOf, Before, Over
<1>7. AllPoolsOk(now)
  <2> SUFFICES ASSUME NEW t \in DOMAIN now.pools PROVE PoolOk(now.pools[t])
    BY DEF AllPoolsOk
  <2>1. CASE t \in DOMAIN v.pools
    BY <1>3, <2>1 DEF Over, ChangedWell
  <2>2. CASE t \notin DOMAIN v.pools
    BY <1>3, <2>2 DEF Over, AllPoolsOk
  <2> QED BY <2>1, <2>2
<1> QED BY <1>1, <1>3, <1>4, <1>5, <1>6, <1>7

\* A transaction takes its inputs from that state and adds its outputs, and what
\* its operations have made of tokens and pools.
LEMMA AppliedNow ==
    ASSUME NEW v, NEW st, ViewOk(v, st), AllPoolsOk(st), ChangedWell(v, st),
           DOMAIN v.created \intersect DOMAIN st.coins = {}, NEW tx, NEW h,
           \A i \in DOMAIN tx.ins : HasCoin(v, tx.ins[i]),
           ViewOk(Applied(v, tx, h), st), ChangedWell(Applied(v, tx, h), st),
           NEW now, now = Committed(st, v), NEW new, new = Committed(st, Applied(v, tx, h))
    PROVE  /\ new.coins = Over(Without(now.coins, Range(tx.ins)), Outputs(tx, h))
           /\ new.tokens = Over(now.tokens, RunOps(v, tx).minted)
           /\ new.pools = Over(now.pools, RunOps(v, tx).pools)
<1> DEFINE u == Applied(v, tx, h)
           ins == Range(tx.ins)
           own == ins \intersect DOMAIN v.created
           outs == Outputs(tx, h)
           ran == RunOps(v, tx)
<1>1. v = Fields(v) /\ v.base = st
  BY DEF ViewOk
<1>2. /\ u.created = Over(Without(v.created, own), outs)
      /\ u.spentBase = Over(v.spentBase, Only(st.coins, ins \ own))
      /\ u.tokens = Over(v.tokens, ran.minted) /\ u.pools = Over(v.pools, ran.pools)
  <2>1. IsApplied(u, v, ins, ran, outs)
    BY <1>1, AppliedParts
  <2> HIDE DEF u, ran, outs
  <2> QED BY <1>1, <2>1 DEF IsApplied
<1>3. /\ now.coins = Over(Without(st.coins, DOMAIN v.spentBase), v.created)
      /\ now.tokens = Over(st.tokens, v.tokens) /\ now.pools = Over(st.pools, v.pools)
  BY ViewNow
<1>4. /\ new.coins = Over(Without(st.coins, DOMAIN u.spentBase), u.created)
      /\ new.tokens = Over(st.tokens, u.tokens) /\ new.pools = Over(st.pools, u.pools)
  BY ViewNow
<1> HIDE DEF u, ran, outs
<1>5. new.tokens = Over(now.tokens, ran.minted) /\ new.pools = Over(now.pools, ran.pools)
  BY <1>2, <1>3, <1>4, OverTwice
<1>6. \A o \in ins : HasCoin(v, o)
  BY DEF Range
<1> HIDE DEF ins
<1>7. Without(st.coins, DOMAIN u.spentBase)
        = Without(Without(st.coins, DOMAIN v.spentBase), ins \ own)
  <2>1. DOMAIN u.spentBase = DOMAIN v.spentBase \union (DOMAIN st.coins \intersect (ins \ own))
    BY <1>2 DEF Over, Only
  <2> DEFINE a == Without(st.coins, DOMAIN u.spentBase)
             b == Without(Without(st.coins, DOMAIN v.spentBase), ins \ own)
  <2>2. DOMAIN a = DOMAIN b
    BY <2>1 DEF Without
  <2>3. \A o \in DOMAIN a : a[o] = b[o]
    BY <2>2 DEF Without
  <2>4. IsFcn(a) /\ IsFcn(b)
    BY FcnFacts
  <2> HIDE DEF a, b
  <2>5. a = b
    BY <2>2, <2>3, <2>4, SameFcn
  <2> QED BY <2>5 DEF a, b
<1>8. Over(Without(Without(st.coins, DOMAIN v.spentBase), ins \ own), Without(v.created, own))
        = Without(now.coins, ins)
  <2> DEFINE k == Without(st.coins, DOMAIN v.spentBase)
             c == v.created
  <2>1. now.coins = Over(k, c) /\ DOMAIN k \intersect DOMAIN c = {} /\ own = ins \intersect DOMAIN c
    BY <1>3 DEF Without
  <2> HIDE DEF k, c, own
  <2>2. Over(Without(k, ins \ own), Without(c, own)) = Without(Over(k, c), ins)
    <3> DEFINE a == Over(Without(k, ins \ own), Without(c, own))
               b == Without(Over(k, c), ins)
    <3>1. DOMAIN a = (DOMAIN k \ (ins \ own)) \union (DOMAIN c \ own)
      BY DEF Over, Without
    <3>2. DOMAIN b = (DOMAIN k \union DOMAIN c) \ ins
      BY DEF Over, Without
    <3>3. DOMAIN a = DOMAIN b
      BY <2>1, <3>1, <3>2
    <3>4. ASSUME NEW o \in DOMAIN a PROVE a[o] = b[o]
      <4>1. o \notin ins /\ o \notin own
        BY <2>1, <3>2, <3>3
      <4>2. b[o] = IF o \in DOMAIN c THEN c[o] ELSE k[o]
        BY <3>2, <3>3 DEF Over, Without
      <4>3. a[o] = IF o \in DOMAIN c THEN c[o] ELSE k[o]
        BY <3>1, <4>1 DEF Over, Without
      <4> QED BY <4>2, <4>3
    <3>5. IsFcn(a) /\ IsFcn(b)
      BY FcnFacts
    <3> HIDE DEF a, b
    <3>6. a = b
      BY <3>3, <3>4, <3>5, SameFcn
    <3> QED BY <3>6 DEF a, b
  <2> QED BY <2>1, <2>2 DEF k, c
<1>9. new.coins = Over(Without(now.coins, ins), outs)
  <2>1. new.coins = Over(Over(Without(st.coins, DOMAIN u.spentBase), Without(v.created, own)), outs)
    BY <1>2, <1>4, OverTwice
  <2> QED BY <1>7, <1>8, <2>1
<1> QED BY <1>5, <1>9 DEF ran, outs, ins

(***************************************************************************)
(* What a transaction moves                                                *)
(***************************************************************************)
Released(tx, a) == SumFunction([i \in DOMAIN tx.ops |-> Releases(tx, i, a)])
Absorbed(tx, a) == Sum(tx.ops, LAMBDA op : Absorbs(op, a))
OpAssets(tx) ==
    {TokenId(tx.ins[1], i) : i \in {k \in DOMAIN tx.ops : tx.ops[k].type = "create"}}
      \union UNION {DOMAIN tx.ops[i].in \union DOMAIN tx.ops[i].out : i \in {k \in DOMAIN tx.ops : OnPool(tx.ops[k])}}

\* An operation on a pool moves QNT, the token and its shares, and no others.
LEMMA MadeAmounts ==
    ASSUME NEW op, NEW t, NEW q, NEW k, NEW s, MadeOp(op, t, q, k, s), NEW tx, OpOk(tx, op)
    PROVE  /\ OnPool(op) /\ op.type \notin {"create", "message"} /\ op.token = t /\ t # QNT
           /\ \A a : /\ Of(op.in, a) \in Nat /\ Of(op.out, a) \in Nat
                     /\ Of(op.in, a) # 0 => a \in DOMAIN op.in
                     /\ Of(op.out, a) # 0 => a \in DOMAIN op.out
           /\ DOMAIN op.in \union DOMAIN op.out \subseteq {QNT, t, ShareId(t)}
<1>1. /\ op.token = t /\ DOMAIN op.in \union DOMAIN op.out \subseteq {QNT, t, ShareId(t)}
      /\ op.type \in {"open", "add", "remove", "swap"}
  <2>1. CASE op = OpPoolCreate(t, q, k, s)
    BY <2>1 DEF OpPoolCreate, Flow, One
  <2>2. CASE op = OpAddLiquidity(t, q, k, s)
    BY <2>2 DEF OpAddLiquidity, Flow, One
  <2>3. CASE op = OpRemoveLiquidity(t, s, q, k)
    BY <2>3 DEF OpRemoveLiquidity, Flow, One
  <2>4. CASE op = OpSwap(t, TRUE, k, q)
    BY <2>4 DEF OpSwap, One
  <2>5. CASE op = OpSwap(t, FALSE, q, k)
    BY <2>5 DEF OpSwap, One
  <2> QED BY <2>1, <2>2, <2>3, <2>4, <2>5 DEF MadeOp
<1>2. t # QNT /\ Amounts(op.in) \subseteq Positive /\ Amounts(op.out) \subseteq Positive \union {0}
  BY <1>1 DEF OpOk
<1>3. ASSUME NEW a
      PROVE  /\ Of(op.in, a) \in Nat /\ Of(op.out, a) \in Nat
             /\ Of(op.in, a) # 0 => a \in DOMAIN op.in
             /\ Of(op.out, a) # 0 => a \in DOMAIN op.out
  <2>1. \A f : Of(f, a) = 0 \/ (Of(f, a) \in Amounts(f) /\ a \in DOMAIN f)
    BY DEF Of, Amounts
  <2>2. Amounts(op.in) \subseteq Nat /\ Amounts(op.out) \subseteq Nat
    <3>1. \A x \in Positive : x \in Nat
      BY PositiveNumbers
    <3>2. \A x \in Positive \union {0} : x \in Nat
      BY <3>1
    <3> QED BY <1>2, <3>1, <3>2, Zenon
  <2> DEFINE in == Of(op.in, a)
             out == Of(op.out, a)
  <2>3. /\ in = 0 \/ (in \in Amounts(op.in) /\ a \in DOMAIN op.in)
        /\ out = 0 \/ (out \in Amounts(op.out) /\ a \in DOMAIN op.out)
    BY <2>1
  <2> HIDE DEF in, out
  <2>4. in \in Nat /\ out \in Nat /\ (in # 0 => a \in DOMAIN op.in) /\ (out # 0 => a \in DOMAIN op.out)
    BY <2>2, <2>3
  <2> QED BY <2>4 DEF in, out
<1> QED BY <1>1, <1>2, <1>3 DEF OnPool

\* A sum up to a number, step by step.
LEMMA SumTo ==
    ASSUME NEW n \in Nat, NEW f, Numbers(f, 1..n)
    PROVE  /\ SumFunctionOnSet(f, 1..0) = 0
           /\ \A i \in 0..n : SumFunctionOnSet(f, 1..i) \in Int
           /\ \A i \in 1..n : SumFunctionOnSet(f, 1..i) = SumFunctionOnSet(f, 1..i - 1) + f[i]
<1> DEFINE D == 1..n
<1>1. Numbers(f, D)
  OBVIOUS
<1>2. \A i \in 0..n : 1..i \in SUBSET D
  OBVIOUS
<1>3. SumFunctionOnSet(f, {}) = 0 /\ 1..0 = {}
  BY <1>1, SumTaken
<1>4. \A i \in 1..n : /\ i \in 1..i /\ (1..i) \ {i} = 1..i - 1 /\ i \in 0..n /\ i - 1 \in 0..n /\ i \in D
  OBVIOUS
<1>5. \A x \in D : f[x] \in Int
  BY <1>1 DEF Numbers
<1> HIDE DEF D
<1>6. /\ \A s \in SUBSET D : SumFunctionOnSet(f, s) \in Int
      /\ \A s \in SUBSET D : \A x \in s : SumFunctionOnSet(f, s) = f[x] + SumFunctionOnSet(f, s \ {x})
  BY <1>1, SumTaken
<1>7. \A i \in 0..n : SumFunctionOnSet(f, 1..i) \in Int
  BY <1>2, <1>6
<1>8. ASSUME NEW i \in 1..n
      PROVE  SumFunctionOnSet(f, 1..i) = SumFunctionOnSet(f, 1..i - 1) + f[i]
  <2>1. 1..i \in SUBSET D /\ i \in 1..i /\ (1..i) \ {i} = 1..i - 1
    BY <1>2, <1>4
  <2>2. SumFunctionOnSet(f, 1..i) = f[i] + SumFunctionOnSet(f, 1..i - 1)
    BY <1>6, <2>1, Zenon
  <2>3. f[i] \in Int /\ SumFunctionOnSet(f, 1..i - 1) \in Int
    BY <1>4, <1>5, <1>7
  <2> QED BY <2>2, <2>3
<1> QED BY <1>3, <1>7, <1>8

MakesAt(tx, i, a) == IF a = TokenId(tx.ins[1], i) THEN tx.ops[i].supply ELSE 0

\* What one operation takes and gives: a token it makes, or the assets of a pool.
LEMMA OpAmounts ==
    ASSUME NEW tx, OpsFit(tx), NEW i \in DOMAIN tx.ops
    PROVE  LET op == tx.ops[i] IN
           /\ \A a : /\ Releases(tx, i, a) \in Nat /\ Absorbs(op, a) \in Nat
                     /\ Releases(tx, i, a) # 0 \/ Absorbs(op, a) # 0 => a \in OpAssets(tx)
           /\ op.type = "create" => \A a : Releases(tx, i, a) = MakesAt(tx, i, a) /\ Absorbs(op, a) = 0
           /\ op.type = "message" => \A a : Releases(tx, i, a) = 0 /\ Absorbs(op, a) = 0
           /\ op.type \notin {"create", "message"} =>
                \A a : Releases(tx, i, a) = Of(op.out, a) /\ Absorbs(op, a) = Of(op.in, a)
<1> DEFINE op == tx.ops[i]
<1>1. Shaped(op) /\ OpOk(tx, op)
  BY DEF OpsFit
<1>2. CASE op.type = "create"
  <2>1. op.supply \in Nat
    BY <1>1, <1>2, LimitsAssumption DEF OpOk
  <2>2. \A a : Releases(tx, i, a) = MakesAt(tx, i, a) /\ Absorbs(op, a) = 0
    BY <1>2 DEF Releases, Absorbs, OnPool, MakesAt
  <2>3. \A a : MakesAt(tx, i, a) \in Nat /\ (MakesAt(tx, i, a) # 0 => a \in OpAssets(tx))
    <3>1. TokenId(tx.ins[1], i) \in OpAssets(tx)
      BY <1>2 DEF OpAssets
    <3> QED BY <2>1, <3>1 DEF MakesAt
  <2> QED BY <1>2, <2>2, <2>3
<1>3. CASE op.type = "message"
  <2>1. \A a : Releases(tx, i, a) = 0 /\ Absorbs(op, a) = 0
    BY <1>3 DEF Releases, Absorbs, OnPool
  <2> QED BY <1>3, <2>1
<1>4. CASE op.type \notin {"create", "message"}
  <2>1. PICK t, q, k, s : MadeOp(op, t, q, k, s)
    BY <1>1, <1>4 DEF Shaped
  <2>2. /\ OnPool(op)
        /\ \A a : /\ Of(op.in, a) \in Nat /\ Of(op.out, a) \in Nat
                  /\ Of(op.in, a) # 0 => a \in DOMAIN op.in
                  /\ Of(op.out, a) # 0 => a \in DOMAIN op.out
    BY <1>1, <2>1, MadeAmounts
  <2>3. \A a : Releases(tx, i, a) = Of(op.out, a) /\ Absorbs(op, a) = Of(op.in, a)
    BY <1>4, <2>2 DEF Releases, Absorbs
  <2>4. DOMAIN op.in \union DOMAIN op.out \subseteq OpAssets(tx)
    BY <2>2 DEF OpAssets
  <2> QED BY <1>4, <2>2, <2>3, <2>4
<1> QED BY <1>2, <1>3, <1>4

\* What the first operations take and give.
RelTo(tx, i, a) == SumFunctionOnSet([k \in DOMAIN tx.ops |-> Releases(tx, k, a)], 1..i)
AbsTo(tx, i, a) == SumFunctionOnSet([k \in DOMAIN tx.ops |-> Absorbs(tx.ops[k], a)], 1..i)

\* It adds up to what all of them do.
LEMMA OpMoves ==
    ASSUME NEW tx, OpsFit(tx), NEW a
    PROVE  /\ Released(tx, a) \in Nat /\ Absorbed(tx, a) \in Nat
           /\ Released(tx, a) # 0 \/ Absorbed(tx, a) # 0 => a \in OpAssets(tx)
           /\ RelTo(tx, 0, a) = 0 /\ AbsTo(tx, 0, a) = 0
           /\ RelTo(tx, Len(tx.ops), a) = Released(tx, a) /\ AbsTo(tx, Len(tx.ops), a) = Absorbed(tx, a)
           /\ \A i \in 0..Len(tx.ops) : RelTo(tx, i, a) \in Int /\ AbsTo(tx, i, a) \in Int
           /\ \A i \in DOMAIN tx.ops :
                /\ RelTo(tx, i, a) = RelTo(tx, i - 1, a) + Releases(tx, i, a)
                /\ AbsTo(tx, i, a) = AbsTo(tx, i - 1, a) + Absorbs(tx.ops[i], a)
<1> DEFINE n == Len(tx.ops)
           f == [k \in DOMAIN tx.ops |-> Releases(tx, k, a)]
           g == [k \in DOMAIN tx.ops |-> Absorbs(tx.ops[k], a)]
<1>1. n \in Nat /\ DOMAIN tx.ops = 1..n
  BY SeqShape DEF OpsFit
<1>2. \A k \in 1..n : /\ f[k] = Releases(tx, k, a) /\ g[k] = Absorbs(tx.ops[k], a)
                      /\ f[k] \in Nat /\ g[k] \in Nat
                      /\ f[k] # 0 \/ g[k] # 0 => a \in OpAssets(tx)
  BY <1>1, OpAmounts
<1>3. /\ Released(tx, a) = SumFunctionOnSet(f, 1..n) /\ Absorbed(tx, a) = SumFunctionOnSet(g, 1..n)
      /\ \A i : RelTo(tx, i, a) = SumFunctionOnSet(f, 1..i) /\ AbsTo(tx, i, a) = SumFunctionOnSet(g, 1..i)
  <2>1. Released(tx, a) = SumFunctionOnSet(f, DOMAIN tx.ops) /\ Absorbed(tx, a) = SumFunctionOnSet(g, DOMAIN tx.ops)
    BY Zenon DEF Released, Absorbed, Sum, SumFunction
  <2> QED BY <1>1, <2>1 DEF RelTo, AbsTo
<1> HIDE DEF f, g, n
<1>4. /\ SumFunctionOnSet(f, 1..0) = 0 /\ SumFunctionOnSet(g, 1..0) = 0
      /\ \A i \in 0..n : SumFunctionOnSet(f, 1..i) \in Int /\ SumFunctionOnSet(g, 1..i) \in Int
      /\ \A i \in 1..n : /\ SumFunctionOnSet(f, 1..i) = SumFunctionOnSet(f, 1..i - 1) + f[i]
                         /\ SumFunctionOnSet(g, 1..i) = SumFunctionOnSet(g, 1..i - 1) + g[i]
  <2>1. Numbers(f, 1..n) /\ Numbers(g, 1..n)
    <3>1. IsFiniteSet(1..n)
      BY <1>1, FS_Interval
    <3>2. \A x \in 1..n : f[x] \in Int /\ g[x] \in Int
      BY <1>2
    <3> QED BY <3>1, <3>2, Zenon DEF Numbers
  <2> QED BY <1>1, <2>1, SumTo
<1>5. /\ SumFunctionOnSet(f, 1..n) \in Nat /\ SumFunctionOnSet(g, 1..n) \in Nat
      /\ (\A x \in 1..n : f[x] = 0) => SumFunctionOnSet(f, 1..n) = 0
      /\ (\A x \in 1..n : g[x] = 0) => SumFunctionOnSet(g, 1..n) = 0
  <2>1. IsFiniteSet(1..n)
    BY <1>1, FS_Interval
  <2> QED BY <1>2, <2>1, SumNatural
<1> QED BY <1>1, <1>2, <1>3, <1>4, <1>5 DEF n

\* No operations move nothing.
LEMMA NoOps ==
    ASSUME NEW tx, tx.ops = <<>>
    PROVE  OpsFit(tx) /\ Len(tx.ops) = 0 /\ \A a : Released(tx, a) = 0 /\ Absorbed(tx, a) = 0
<1>1. OpsFit(tx) /\ Len(tx.ops) = 0
  BY DEF OpsFit, IsSeq, Range
<1> QED BY <1>1, OpMoves

\* The coins after a transaction that balances: of every asset but QNT, what
\* there was with what the operations have released less what they have absorbed; of
\* QNT the fee is left out.
CoinsAfter(v, k, tx, n) ==
    /\ Counted(n) /\ \A o \in DOMAIN n : n[o].out.value \in Positive
    /\ \A a : a # QNT => CoinSum(n, a) + Absorbed(tx, a) = CoinSum(k, a) + Released(tx, a)
    /\ CoinSum(n, QNT) + Absorbed(tx, QNT) + Fee(v, tx) = CoinSum(k, QNT) + Released(tx, QNT)
    /\ Fee(v, tx) \in Nat

\* A transaction that applies replaces coins by coins of the same amounts, but for
\* its fee and what its operations take and give.
LEMMA CoinsMoved ==
    ASSUME NEW v, NEW k, Counted(k), \A o \in DOMAIN k : k[o].out.value \in Positive,
           NEW tx, IsSeq(tx.outs), OpsFit(tx), check_tx_basic(tx), NEW h, Applies(v, tx, h),
           \A i \in DOMAIN tx.ins : tx.ins[i] \in DOMAIN k /\ CoinOf(v, tx.ins[i]) = k[tx.ins[i]],
           DOMAIN k \intersect DOMAIN Outputs(tx, h) = {},
           NEW n, n = Over(Without(k, Range(tx.ins)), Outputs(tx, h))
    PROVE  CoinsAfter(v, k, tx, n)
<1> DEFINE ins == Range(tx.ins)
           outs == Outputs(tx, h)
           in(a) == SumFunctionOnSet(Vals(k, a), ins)
           out(a) == ValueIn(tx.outs, a)
<1>1. /\ ~ is_coinbase(tx) /\ IsInjective(tx.ins)
      /\ \A i \in DOMAIN tx.outs : OutputOk(tx, tx.outs[i])
      /\ \A i \in DOMAIN tx.ops : OpOk(tx, tx.ops[i])
      /\ Balances(v, tx)
  BY DEF check_tx_basic, Applies
<1>2. \A i \in DOMAIN tx.outs : tx.outs[i].value \in Positive /\ tx.outs[i].value \in Nat
  BY <1>1, PositiveNumbers DEF OutputOk
<1>3. /\ ins \in SUBSET DOMAIN k
      /\ \A a : SumFunctionOnSet([i \in DOMAIN tx.ins |-> Val(k[tx.ins[i]], a)], DOMAIN tx.ins) = in(a)
  BY <1>1, InputsSummed
<1>4. Counted(outs) /\ \A a : CoinSum(outs, a) = out(a) /\ out(a) \in Nat
  BY <1>2, OutputsSummed
<1>5. Counted(n) /\ \A a : CoinSum(n, a) = CoinSum(k, a) - in(a) + out(a)
  <2> HIDE DEF out, ins, outs
  <2>1. /\ Counted(n)
        /\ \A a : CoinSum(n, a) = CoinSum(k, a) - SumFunctionOnSet(Vals(k, a), ins) + CoinSum(outs, a)
    BY <1>3, <1>4, CoinsReplaced DEF ins, outs
  <2> QED BY <1>4, <2>1
<1>6. \A o \in DOMAIN n : n[o].out.value \in Positive
  <2> TAKE o \in DOMAIN n
  <2>1. CASE o \in DOMAIN outs
    <3>1. n[o] = outs[o]
      BY <2>1 DEF Over
    <3>2. o[2] \in DOMAIN tx.outs /\ outs[o].out = tx.outs[o[2]]
      BY <2>1 DEF Outputs
    <3> QED BY <1>2, <3>1, <3>2
  <2>2. CASE o \notin DOMAIN outs
    <3>1. o \in DOMAIN k /\ n[o] = k[o]
      BY <2>2 DEF Over, Without
    <3> QED BY <3>1
  <2> QED BY <2>1, <2>2
<1>7. \A a : Plus(v, tx, a) = in(a) + Released(tx, a) /\ Minus(tx, a) = out(a) + Absorbed(tx, a)
  <2> TAKE a
  <2> DEFINE f == [i \in DOMAIN tx.ins |-> IF CoinOf(v, tx.ins[i]).out.asset = a
                                           THEN CoinOf(v, tx.ins[i]).out.value ELSE 0]
             g == [i \in DOMAIN tx.ins |-> Val(k[tx.ins[i]], a)]
  <2>1. f = g
    BY DEF Val
  <2>2. Plus(v, tx, a) = SumFunctionOnSet(f, DOMAIN tx.ins) + Released(tx, a)
    BY Zenon DEF Plus, Released, Sum, SumFunction
  <2>3. Minus(tx, a) = out(a) + Absorbed(tx, a)
    BY Zenon DEF Minus, Absorbed
  <2>4. SumFunctionOnSet(g, DOMAIN tx.ins) = in(a)
    BY <1>3
  <2> HIDE DEF f, g
  <2> QED BY <2>1, <2>2, <2>3, <2>4
<1>8. \A a : CoinSum(k, a) \in Nat /\ in(a) \in Nat
  BY <1>3, CoinSumFacts
<1>9. \A a : /\ Released(tx, a) \in Nat /\ Absorbed(tx, a) \in Nat
             /\ Released(tx, a) # 0 \/ Absorbed(tx, a) # 0 => a \in OpAssets(tx)
  BY <1>1, OpMoves
<1>10. ASSUME NEW a, a \notin AssetsOf(v, tx)
       PROVE  in(a) = 0 /\ out(a) = 0 /\ Released(tx, a) = 0 /\ Absorbed(tx, a) = 0
  <2>1. a \notin OpAssets(tx)
    BY <1>10 DEF AssetsOf, OpAssets
  <2>2. \A o \in DOMAIN outs : outs[o].out.asset # a
    <3> TAKE o \in DOMAIN outs
    <3>1. o[2] \in DOMAIN tx.outs /\ outs[o].out = tx.outs[o[2]]
      BY DEF Outputs
    <3> QED BY <1>10, <3>1 DEF AssetsOf
  <2>3. out(a) = 0
    <3> HIDE DEF outs, out
    <3>1. CoinSum(outs, a) = 0
      BY <1>4, <2>2, CoinSumFacts
    <3> QED BY <1>4, <3>1
  <2>4. in(a) = 0
    <3> DEFINE f == Vals(k, a)
    <3>1. \A i \in DOMAIN tx.ins : k[tx.ins[i]].out.asset # a
      BY <1>10 DEF AssetsOf
    <3>2. \A o \in ins : f[o] = 0
      BY <1>3, <3>1 DEF Range, Vals, Val
    <3>3. IsFiniteSet(ins) /\ \A o \in ins : f[o] \in Nat
      BY <1>3, <3>2, FS_Subset DEF Counted
    <3> HIDE DEF f, ins
    <3>4. SumFunctionOnSet(f, ins) = 0
      BY <3>2, <3>3, SumNatural
    <3> QED BY <3>4 DEF f
  <2> QED BY <1>9, <2>1, <2>3, <2>4
<1> HIDE DEF in, out
<1>11. ASSUME NEW a, a # QNT PROVE CoinSum(n, a) + Absorbed(tx, a) = CoinSum(k, a) + Released(tx, a)
  <2>1. out(a) + Absorbed(tx, a) = in(a) + Released(tx, a)
    <3>1. CASE a \in AssetsOf(v, tx)
      BY <1>1, <1>7, <1>11, <3>1 DEF Balances
    <3>2. CASE a \notin AssetsOf(v, tx)
      BY <1>10, <3>2
    <3> QED BY <3>1, <3>2
  <2> QED BY <1>4, <1>5, <1>8, <1>9, <2>1 DEF out
<1>12. CoinSum(n, QNT) + Absorbed(tx, QNT) + Fee(v, tx) = CoinSum(k, QNT) + Released(tx, QNT)
  BY <1>4, <1>5, <1>7, <1>8, <1>9 DEF Fee, out
<1>13. Fee(v, tx) \in Nat
  <2>1. Minus(tx, QNT) <= Plus(v, tx, QNT)
    <3>1. CASE QNT \in AssetsOf(v, tx)
      BY <1>1, <3>1 DEF Balances
    <3>2. CASE QNT \notin AssetsOf(v, tx)
      BY <1>7, <1>10, <3>2
    <3> QED BY <3>1, <3>2
  <2>2. Minus(tx, QNT) \in Nat /\ Plus(v, tx, QNT) \in Nat
    BY <1>4, <1>7, <1>8, <1>9 DEF out
  <2> QED BY <2>1, <2>2 DEF Fee
<1> QED BY <1>5, <1>6, <1>11, <1>12, <1>13 DEF CoinsAfter

(***************************************************************************)
(* A state in balance                                                      *)
(***************************************************************************)
\* Token ids are none of QNT's either.
TokensApart == \A o, i : TokenId(o, i) # QNT

InPool(st, t) == IF t \in DOMAIN st.pools THEN st.pools[t].tok ELSE 0
PoolSum(pools) == SumFunctionOnSet([t \in DOMAIN pools |-> pools[t].qnt], DOMAIN pools)
Known(st) == {QNT} \union DOMAIN st.tokens \union {ShareId(t) : t \in DOMAIN st.pools}
InRange(p) ==
    /\ p.qnt \in 1..MAX_MONEY /\ p.tok \in 1..MAX_TOKEN_SUPPLY
    /\ p.shares \in MIN_LIQUIDITY..MAX_TOKEN_SUPPLY /\ Squared(p.shares) <= Worth(p)
TokensBalanced(st) ==
    \A t \in DOMAIN st.tokens :
        /\ t # QNT /\ t[1] = "token" /\ st.tokens[t] \in 1..MAX_TOKEN_SUPPLY
        /\ CoinSum(st.coins, t) + InPool(st, t) = st.tokens[t]
SharesBalanced(st) ==
    \A t \in DOMAIN st.pools :
        /\ t \in DOMAIN st.tokens /\ InRange(st.pools[t])
        /\ CoinSum(st.coins, ShareId(t)) + MIN_LIQUIDITY = st.pools[t].shares
CoinsKnown(st) == \A o \in DOMAIN st.coins : st.coins[o].out.asset \in Known(st)
CoinsPositive(k) == Counted(k) /\ \A o \in DOMAIN k : k[o].out.value \in Positive

\* Coins and pools are finitely many, the coins are of assets there are, and of
\* each token and of the shares of each pool there is as much as was made.
Balanced(st) ==
    /\ CoinsPositive(st.coins) /\ IsFiniteSet(DOMAIN st.pools)
    /\ CoinsKnown(st) /\ TokensBalanced(st) /\ SharesBalanced(st)

\* An asset that no coin is of, and one that some coin is of.
LEMMA NoneOfAsset ==
    ASSUME NEW k, CoinsPositive(k), NEW a
    PROVE  /\ CoinSum(k, a) \in Nat
           /\ CoinSum(k, a) # 0 <=> \E o \in DOMAIN k : k[o].out.asset = a
<1>1. /\ CoinSum(k, a) \in Nat
      /\ \A s \in SUBSET DOMAIN k : /\ SumFunctionOnSet(Vals(k, a), s) \in Nat
                                    /\ SumFunctionOnSet(Vals(k, a), s) <= CoinSum(k, a)
      /\ (\A o \in DOMAIN k : k[o].out.asset # a) => CoinSum(k, a) = 0
  BY CoinSumFacts DEF CoinsPositive
<1>2. ASSUME NEW o \in DOMAIN k, k[o].out.asset = a PROVE CoinSum(k, a) # 0
  <2> DEFINE f == Vals(k, a)
  <2>1. f[o] \in Nat \ {0}
    BY <1>2, PositiveNumbers DEF Vals, Val, CoinsPositive
  <2> HIDE DEF f
  <2>2. SumFunctionOnSet(f, {o}) = f[o]
    BY <2>1, SumOfOne
  <2>3. SumFunctionOnSet(f, {o}) <= CoinSum(k, a)
    BY <1>1 DEF f
  <2> QED BY <1>1, <2>1, <2>2, <2>3
<1> QED BY <1>1, <1>2

\* A transaction's coins are of assets there are.
Moved(tx, now, new) ==
    /\ CoinsPositive(new.coins)
    /\ \A a : a # QNT => CoinSum(new.coins, a) + Absorbed(tx, a) = CoinSum(now.coins, a) + Released(tx, a)
    /\ \A a : Released(tx, a) \in Nat /\ Absorbed(tx, a) \in Nat

\* A pool that is set: the QNT in all of them.
LEMMA PoolSumSet ==
    ASSUME NEW pools, IsFiniteSet(DOMAIN pools), \A x \in DOMAIN pools : pools[x].qnt \in Int,
           NEW t, NEW p, p.qnt \in Int, NEW new, new = Over(pools, One(t, p))
    PROVE  /\ IsFiniteSet(DOMAIN new) /\ PoolSum(pools) \in Int
           /\ PoolSum(new) = PoolSum(pools) - (IF t \in DOMAIN pools THEN pools[t].qnt ELSE 0) + p.qnt
<1> DEFINE f == [x \in DOMAIN new |-> new[x].qnt]
           g == [x \in DOMAIN pools |-> pools[x].qnt]
           rest == DOMAIN pools \ {t}
<1>1. DOMAIN new = DOMAIN pools \union {t} /\ new[t] = p /\ \A x \in rest : new[x] = pools[x]
  BY DEF Over, One
<1>2. Numbers(g, DOMAIN pools)
  BY DEF Numbers
<1>3. IsFiniteSet(DOMAIN pools \union {t})
  BY FS_AddElement
<1>4. Numbers(f, DOMAIN new)
  BY <1>1, <1>3 DEF Numbers
<1>5. f[t] = p.qnt /\ \A x \in rest : f[x] = g[x]
  BY <1>1
<1>6. Numbers(f, rest)
  BY <1>1, <1>4, FS_Subset DEF Numbers
<1>7. t \in DOMAIN pools => g[t] = pools[t].qnt
  OBVIOUS
<1>8. PoolSum(new) = SumFunctionOnSet(f, DOMAIN new) /\ PoolSum(pools) = SumFunctionOnSet(g, DOMAIN pools)
  BY DEF PoolSum
<1> HIDE DEF f, g, rest
<1>9. SumFunctionOnSet(f, rest) = SumFunctionOnSet(g, rest)
  BY <1>5, <1>6, SumSame
<1>10. SumFunctionOnSet(f, DOMAIN new) = p.qnt + SumFunctionOnSet(f, rest)
  <2>1. t \in DOMAIN new /\ DOMAIN new \ {t} = rest
    BY <1>1 DEF rest
  <2>2. SumFunctionOnSet(f, DOMAIN new) = f[t] + SumFunctionOnSet(f, DOMAIN new \ {t})
    BY <1>4, <2>1, SumTaken
  <2> QED BY <1>5, <2>1, <2>2
<1>11. SumFunctionOnSet(f, rest) \in Int /\ SumFunctionOnSet(g, DOMAIN pools) \in Int
  BY <1>2, <1>6, SumTaken
<1>12. SumFunctionOnSet(g, DOMAIN pools)
         = (IF t \in DOMAIN pools THEN pools[t].qnt ELSE 0) + SumFunctionOnSet(g, rest)
  <2>1. CASE t \in DOMAIN pools
    <3>1. SumFunctionOnSet(g, DOMAIN pools) = g[t] + SumFunctionOnSet(g, DOMAIN pools \ {t})
      BY <1>2, <2>1, SumTaken
    <3> QED BY <1>7, <2>1, <3>1 DEF rest
  <2>2. CASE t \notin DOMAIN pools
    <3>1. rest = DOMAIN pools
      BY <2>2 DEF rest
    <3> QED BY <1>11, <2>2, <3>1
  <2> QED BY <2>1, <2>2
<1>13. (IF t \in DOMAIN pools THEN pools[t].qnt ELSE 0) \in Int
  OBVIOUS
<1> QED BY <1>1, <1>3, <1>8, <1>9, <1>10, <1>11, <1>12, <1>13

\* The QNT in a state, and what there is of an asset.
LEMMA SumsIn ==
    /\ \A st, a : CoinsIn(st, a) = CoinSum(st.coins, a)
    /\ \A st : QntIn(st) = CoinSum(st.coins, QNT) + PoolSum(st.pools)
    /\ \A st : Balanced(st) => /\ CoinSum(st.coins, QNT) \in Nat /\ PoolSum(st.pools) \in Nat
                               /\ QntIn(st) \in Nat
<1>1. ASSUME NEW st, NEW a PROVE CoinsIn(st, a) = CoinSum(st.coins, a)
  <2> DEFINE f == [o \in DOMAIN st.coins |-> IF st.coins[o].out.asset = a THEN st.coins[o].out.value ELSE 0]
  <2>1. CoinsIn(st, a) = SumFunctionOnSet(f, DOMAIN st.coins)
    BY DEF CoinsIn, Sum, SumFunction
  <2>2. f = Vals(st.coins, a)
    BY DEF Vals, Val
  <2> HIDE DEF f
  <2> QED BY <2>1, <2>2 DEF CoinSum
<1>2. ASSUME NEW st PROVE QntIn(st) = CoinSum(st.coins, QNT) + PoolSum(st.pools)
  <2>1. Sum(st.pools, LAMBDA p : p.qnt) = PoolSum(st.pools)
    BY DEF Sum, SumFunction, PoolSum
  <2> QED BY <1>1, <2>1 DEF QntIn
<1>3. ASSUME NEW st, Balanced(st) PROVE CoinSum(st.coins, QNT) \in Nat /\ PoolSum(st.pools) \in Nat
  <2>1. CoinSum(st.coins, QNT) \in Nat
    BY <1>3, NoneOfAsset DEF Balanced
  <2> DEFINE f == [t \in DOMAIN st.pools |-> st.pools[t].qnt]
             D == DOMAIN st.pools
  <2>2. IsFiniteSet(D) /\ \A t \in D : f[t] \in Nat
    BY <1>3, LimitsAssumption DEF Balanced, SharesBalanced, InRange
  <2> HIDE DEF f, D
  <2>3. SumFunctionOnSet(f, D) \in Nat
    BY <2>2, SumNatural
  <2> QED BY <2>1, <2>3 DEF f, D, PoolSum
<1>4. \A st : Balanced(st) => QntIn(st) \in Nat
  <2> TAKE st
  <2> HAVE Balanced(st)
  <2> QED BY <1>2, <1>3
<1> QED BY <1>1, <1>2, <1>3, <1>4

(***************************************************************************)
(* The books of a transaction: after each of its operations, what the coins*)
(* would hold if they were settled there                                   *)
(***************************************************************************)
Owned(now, tx, i, a) == CoinSum(now.coins, a) + RelTo(tx, i, a) - AbsTo(tx, i, a)
After(now, ran) == [tokens |-> Over(now.tokens, ran.minted), pools |-> Over(now.pools, ran.pools)]

\* A pool that is there, of no more QNT than there may be and fully covered.
Solid(p) == PoolOk(p) /\ p.qnt <= MAX_MONEY /\ Squared(p.shares) <= Worth(p)

TokenBooks(now, tx, s, i) ==
    \A t \in DOMAIN s.tokens :
        /\ t # QNT /\ t[1] = "token" /\ s.tokens[t] \in 1..MAX_TOKEN_SUPPLY
        /\ Owned(now, tx, i, t) + InPool(s, t) = s.tokens[t]
PoolBooks(now, tx, s, i) ==
    \A t \in DOMAIN s.pools :
        /\ t \in DOMAIN s.tokens /\ Solid(s.pools[t])
        /\ Owned(now, tx, i, ShareId(t)) + MIN_LIQUIDITY = s.pools[t].shares
QntBooks(now, tx, s, i) ==
    /\ IsFiniteSet(DOMAIN s.pools) /\ PoolSum(now.pools) \in Int /\ PoolSum(s.pools) \in Int
    /\ PoolSum(s.pools) + RelTo(tx, i, QNT) = PoolSum(now.pools) + AbsTo(tx, i, QNT)
Books(now, tx, s, i) ==
    /\ TokenBooks(now, tx, s, i) /\ PoolBooks(now, tx, s, i) /\ QntBooks(now, tx, s, i)
    /\ \A a : Owned(now, tx, i, a) # 0 => a \in Known(s)

\* What an operation adds to the books.
LEMMA OwnedNext ==
    ASSUME NEW tx, OpsFit(tx), NEW now, CoinsPositive(now.coins), NEW i \in DOMAIN tx.ops
    PROVE  \A a : /\ Owned(now, tx, i, a) \in Int /\ Owned(now, tx, i - 1, a) \in Int
                  /\ RelTo(tx, i - 1, a) \in Int /\ AbsTo(tx, i - 1, a) \in Int
                  /\ RelTo(tx, i, a) = RelTo(tx, i - 1, a) + Releases(tx, i, a)
                  /\ AbsTo(tx, i, a) = AbsTo(tx, i - 1, a) + Absorbs(tx.ops[i], a)
                  /\ Owned(now, tx, i, a)
                       = Owned(now, tx, i - 1, a) + Releases(tx, i, a) - Absorbs(tx.ops[i], a)
<1> TAKE a
<1>1. i \in 0..Len(tx.ops) /\ i - 1 \in 0..Len(tx.ops)
  BY SeqShape DEF OpsFit
<1>2. CoinSum(now.coins, a) \in Nat
  BY NoneOfAsset
<1>3. /\ RelTo(tx, i - 1, a) \in Int /\ AbsTo(tx, i - 1, a) \in Int
      /\ RelTo(tx, i, a) = RelTo(tx, i - 1, a) + Releases(tx, i, a)
      /\ AbsTo(tx, i, a) = AbsTo(tx, i - 1, a) + Absorbs(tx.ops[i], a)
  BY <1>1, OpMoves
<1>4. Releases(tx, i, a) \in Nat /\ Absorbs(tx.ops[i], a) \in Nat
  BY OpAmounts
<1> QED BY <1>2, <1>3, <1>4 DEF Owned

\* Before any operation they are those of the state.
LEMMA BooksStart ==
    ASSUME NEW tx, OpsFit(tx), NEW now, Balanced(now), AllPoolsOk(now),
           NEW s, s.tokens = now.tokens, s.pools = now.pools
    PROVE  Books(now, tx, s, 0)
<1>1. \A a : CoinSum(now.coins, a) \in Nat /\ Owned(now, tx, 0, a) = CoinSum(now.coins, a)
             /\ RelTo(tx, 0, a) = 0 /\ AbsTo(tx, 0, a) = 0
  <2> TAKE a
  <2>1. CoinSum(now.coins, a) \in Nat
    BY NoneOfAsset DEF Balanced
  <2>2. RelTo(tx, 0, a) = 0 /\ AbsTo(tx, 0, a) = 0
    BY OpMoves
  <2> QED BY <2>1, <2>2 DEF Owned
<1>2. TokenBooks(now, tx, s, 0)
  BY <1>1 DEF TokenBooks, TokensBalanced, Balanced, InPool
<1>3. PoolBooks(now, tx, s, 0)
  BY <1>1, LimitsAssumption DEF PoolBooks, SharesBalanced, Balanced, Solid, InRange, AllPoolsOk
<1>4. QntBooks(now, tx, s, 0)
  <2>1. PoolSum(now.pools) \in Int
    BY SumsIn
  <2> QED BY <1>1, <2>1 DEF QntBooks, Balanced
<1>5. \A a : Owned(now, tx, 0, a) # 0 => a \in Known(s)
  <2> SUFFICES ASSUME NEW a, Owned(now, tx, 0, a) # 0 PROVE a \in Known(s)
    OBVIOUS
  <2>1. \E o \in DOMAIN now.coins : now.coins[o].out.asset = a
    BY <1>1, NoneOfAsset DEF Balanced
  <2>2. a \in Known(now)
    BY <2>1 DEF Balanced, CoinsKnown
  <2> QED BY <2>2 DEF Known
<1> QED BY <1>2, <1>3, <1>4, <1>5 DEF Books

\* A message leaves them as they are.
LEMMA BooksAsIs ==
    ASSUME NEW tx, OpsFit(tx), NEW now, CoinsPositive(now.coins), NEW i \in DOMAIN tx.ops,
           tx.ops[i].type = "message", NEW s, Books(now, tx, s, i - 1),
           NEW new, new.tokens = s.tokens, new.pools = s.pools
    PROVE  Books(now, tx, new, i)
<1>1. \A a : Releases(tx, i, a) = 0 /\ Absorbs(tx.ops[i], a) = 0
  BY OpAmounts
<1>2. \A a : /\ Owned(now, tx, i, a) = Owned(now, tx, i - 1, a)
             /\ RelTo(tx, i, a) = RelTo(tx, i - 1, a) /\ AbsTo(tx, i, a) = AbsTo(tx, i - 1, a)
  <2> TAKE a
  <2>1. /\ Owned(now, tx, i - 1, a) \in Int /\ RelTo(tx, i - 1, a) \in Int /\ AbsTo(tx, i - 1, a) \in Int
        /\ RelTo(tx, i, a) = RelTo(tx, i - 1, a) + Releases(tx, i, a)
        /\ AbsTo(tx, i, a) = AbsTo(tx, i - 1, a) + Absorbs(tx.ops[i], a)
        /\ Owned(now, tx, i, a) = Owned(now, tx, i - 1, a) + Releases(tx, i, a) - Absorbs(tx.ops[i], a)
    BY OwnedNext
  <2> QED BY <1>1, <2>1
<1>3. TokenBooks(now, tx, new, i)
  BY <1>2 DEF Books, TokenBooks, InPool
<1>4. PoolBooks(now, tx, new, i)
  BY <1>2 DEF Books, PoolBooks
<1>5. QntBooks(now, tx, new, i)
  BY <1>2 DEF Books, QntBooks
<1>6. \A a : Owned(now, tx, i, a) # 0 => a \in Known(new)
  BY <1>2 DEF Books, Known
<1> QED BY <1>3, <1>4, <1>5, <1>6 DEF Books

\* A new token: all there is of it is with the transaction.
LEMMA BooksCreate ==
    ASSUME SharesApart, TokensApart,
           NEW tx, OpsFit(tx), NEW now, CoinsPositive(now.coins), NEW i \in DOMAIN tx.ops,
           tx.ops[i].type = "create", NEW s, Books(now, tx, s, i - 1),
           NEW token, token = TokenId(tx.ins[1], i), token \notin DOMAIN s.tokens,
           NEW new, new.tokens = Over(s.tokens, One(token, tx.ops[i].supply)), new.pools = s.pools
    PROVE  Books(now, tx, new, i)
<1> DEFINE n == tx.ops[i].supply
<1>1. n \in 1..MAX_TOKEN_SUPPLY
  BY DEF OpsFit, OpOk
<1>2. \A a : Releases(tx, i, a) = (IF a = token THEN n ELSE 0) /\ Absorbs(tx.ops[i], a) = 0
  BY OpAmounts DEF MakesAt
<1>3. token # QNT /\ token[1] = "token" /\ \A t : ShareId(t)[1] = "shares" /\ ShareId(t) # QNT
  BY DEF TokensApart, SharesApart, TokenId, ShareId
<1>4. \A t : ShareId(t) # token
  BY <1>3
<1>5. /\ DOMAIN new.tokens = DOMAIN s.tokens \union {token} /\ new.tokens[token] = n
      /\ \A t \in DOMAIN s.tokens : t # token /\ new.tokens[t] = s.tokens[t]
  BY DEF Over, One
<1>6. Owned(now, tx, i - 1, token) = 0
  <2>1. token \notin Known(s)
    BY <1>3, <1>4 DEF Known
  <2> QED BY <2>1 DEF Books
<1> HIDE DEF n
<1>7. /\ Owned(now, tx, i, token) = n
      /\ \A a : a # token => Owned(now, tx, i, a) = Owned(now, tx, i - 1, a)
      /\ RelTo(tx, i, QNT) = RelTo(tx, i - 1, QNT) /\ AbsTo(tx, i, QNT) = AbsTo(tx, i - 1, QNT)
  <2>1. \A a : /\ Owned(now, tx, i - 1, a) \in Int /\ RelTo(tx, i - 1, a) \in Int /\ AbsTo(tx, i - 1, a) \in Int
               /\ RelTo(tx, i, a) = RelTo(tx, i - 1, a) + Releases(tx, i, a)
               /\ AbsTo(tx, i, a) = AbsTo(tx, i - 1, a) + Absorbs(tx.ops[i], a)
               /\ Owned(now, tx, i, a) = Owned(now, tx, i - 1, a) + Releases(tx, i, a) - Absorbs(tx.ops[i], a)
    BY OwnedNext
  <2>2. Owned(now, tx, i, token) = n
    BY <1>1, <1>2, <1>6, <2>1, LimitsAssumption
  <2>3. ASSUME NEW a, a # token PROVE Owned(now, tx, i, a) = Owned(now, tx, i - 1, a)
    BY <1>2, <2>1, <2>3
  <2>4. RelTo(tx, i, QNT) = RelTo(tx, i - 1, QNT) /\ AbsTo(tx, i, QNT) = AbsTo(tx, i - 1, QNT)
    BY <1>2, <1>3, <2>1
  <2> QED BY <2>2, <2>3, <2>4
<1>8. TokenBooks(now, tx, new, i)
  <2> SUFFICES ASSUME NEW t \in DOMAIN new.tokens
               PROVE  /\ t # QNT /\ t[1] = "token" /\ new.tokens[t] \in 1..MAX_TOKEN_SUPPLY
                      /\ Owned(now, tx, i, t) + InPool(new, t) = new.tokens[t]
    BY DEF TokenBooks
  <2>1. CASE t = token
    <3>1. InPool(new, token) = 0
      BY DEF InPool, Books, PoolBooks
    <3> QED BY <1>1, <1>3, <1>5, <1>7, <2>1, <3>1, LimitsAssumption
  <2>2. CASE t # token
    <3>1. t \in DOMAIN s.tokens /\ InPool(new, t) = InPool(s, t) /\ new.tokens[t] = s.tokens[t]
      BY <1>5, <2>2 DEF InPool
    <3> QED BY <1>7, <2>2, <3>1 DEF Books, TokenBooks
  <2> QED BY <2>1, <2>2
<1>9. PoolBooks(now, tx, new, i)
  BY <1>4, <1>5, <1>7 DEF Books, PoolBooks
<1>10. QntBooks(now, tx, new, i)
  BY <1>7 DEF Books, QntBooks
<1>11. \A a : Owned(now, tx, i, a) # 0 => a \in Known(new)
  BY <1>5, <1>7 DEF Books, Known
<1> QED BY <1>8, <1>9, <1>10, <1>11 DEF Books

\* The QNT of a pool after an operation is no more than there may be, and its
\* shares no more than it covers.
LEMMA PoolSolid ==
    ASSUME SharesApart, NEW tx, NEW op, NEW t, NEW q, NEW k, NEW s, MadeOp(op, t, q, k, s), OpOk(tx, op),
           NEW pl, pl = NoPool \/ Solid(pl), Allowed(pl, op),
           NEW p, p = PoolAfter(pl, op)
    PROVE  Solid(p)
<1>1. PoolOk(p) /\ FromTo(pl, p)
  <2>1. Shaped(op) /\ op.type \notin {"create", "message"}
    BY MadeAmounts DEF Shaped
  <2> QED BY <2>1, PoolKeeps DEF Solid
<1>2. /\ op.token = t /\ t # QNT
      /\ \A a : Of(op.in, a) \in Nat /\ Of(op.out, a) \in Nat
  BY MadeAmounts
<1>3. p.qnt \in Nat
  BY <1>1 DEF PoolOk
<1>4. MAX_MONEY \in Nat
  BY LimitsAssumption
<1>5. ShareId(t) # QNT /\ ShareId(t) # t
  BY DEF SharesApart
<1>6. Squared(p.shares) <= Worth(p)
  <2>1. CASE pl = NoPool
    BY <1>1, <2>1 DEF FromTo
  <2>2. CASE pl # NoPool
    <3>1. PoolOk(pl) /\ FromTo(NoPool, pl)
      BY <2>2 DEF Solid, FromTo
    <3>2. FromTo(NoPool, p)
      BY <1>1, <3>1, FromToPasses
    <3> QED BY <3>2 DEF FromTo
  <2> QED BY <2>1, <2>2
<1> SUFFICES p.qnt <= MAX_MONEY
  BY <1>1, <1>6 DEF Solid
<1>7. CASE pl = NoPool
  <2>1. op = OpPoolCreate(t, q, k, s)
    BY <1>7 DEF MadeOp, Allowed, OpAddLiquidity, OpRemoveLiquidity, OpSwap
  <2>2. Of(op.in, QNT) = q /\ Of(op.out, QNT) = 0 /\ op.in[QNT] = q
    BY <1>2, <1>5, <2>1, Flows DEF OpPoolCreate
  <2>3. op.in[QNT] <= MAX_MONEY
    BY <2>1 DEF Allowed, OpPoolCreate
  <2>4. p.qnt = 0 + Of(op.in, QNT) - Of(op.out, QNT)
    BY <1>7 DEF PoolAfter
  <2>5. q \in Nat
    BY <1>2, <2>2
  <2> QED BY <2>2, <2>3, <2>4, <2>5
<1>8. CASE pl # NoPool
  <2>1. pl.qnt \in Nat /\ pl.qnt <= MAX_MONEY
    BY <1>8 DEF Solid, PoolOk
  <2>2. p.qnt = pl.qnt + Of(op.in, QNT) - Of(op.out, QNT)
    BY <1>2, <1>8 DEF PoolAfter
  <2>3. CASE op = OpPoolCreate(t, q, k, s)
    BY <1>8, <2>3 DEF Allowed, OpPoolCreate
  <2>4. CASE op = OpAddLiquidity(t, q, k, s)
    <3>1. /\ op.type = "add" /\ op.token = t /\ op.in = Flow(QNT, q, t, k) /\ op.out = One(ShareId(t), s)
      BY <2>4 DEF OpAddLiquidity
    <3>2. Of(op.in, QNT) = q /\ op.in[QNT] = q /\ Of(op.out, QNT) = 0
      BY <1>2, <1>5, <3>1, Flows
    <3>3. pl.qnt + op.in[QNT] <= MAX_MONEY
      BY <3>1 DEF Allowed
    <3>4. q \in Nat
      BY <1>2, <3>2
    <3> QED BY <1>4, <2>1, <2>2, <3>2, <3>3, <3>4
  <2>5. CASE Of(op.in, QNT) = 0
    <3> HIDE DEF Of
    <3>1. p.qnt <= pl.qnt
      BY <1>2, <2>1, <2>2, <2>5
    <3> QED BY <1>3, <1>4, <2>1, <3>1
  <2>6. CASE op = OpRemoveLiquidity(t, s, q, k)
    <3>1. op.in = One(ShareId(t), s)
      BY <2>6 DEF OpRemoveLiquidity
    <3> QED BY <1>5, <2>5, <3>1, Flows
  <2>7. CASE op = OpSwap(t, TRUE, k, q)
    <3>1. op.in = One(t, k)
      BY <2>7 DEF OpSwap
    <3> QED BY <1>2, <2>5, <3>1, Flows
  <2>8. CASE op = OpSwap(t, FALSE, q, k)
    <3>1. /\ op.type = "swap" /\ ~ op.sell /\ op.in = One(QNT, q) /\ op.out = One(t, k)
      BY <2>8 DEF OpSwap
    <3>2. Of(op.in, QNT) = q /\ op.in[QNT] = q /\ Of(op.out, QNT) = 0
      BY <1>2, <3>1, Flows
    <3>3. pl.qnt + op.in[QNT] <= MAX_MONEY
      BY <3>1 DEF Allowed
    <3>4. q \in Nat
      BY <1>2, <3>2
    <3> QED BY <1>4, <2>1, <2>2, <3>2, <3>3, <3>4
  <2> QED BY <2>3, <2>4, <2>6, <2>7, <2>8 DEF MadeOp
<1> QED BY <1>7, <1>8

\* An operation on a pool moves between the pool and the transaction.
LEMMA BooksPool ==
    ASSUME SharesApart, NEW tx, OpsFit(tx), NEW now, CoinsPositive(now.coins), NEW i \in DOMAIN tx.ops,
           NEW op, op = tx.ops[i], NEW t, NEW q, NEW k, NEW c, MadeOp(op, t, q, k, c),
           NEW s, Books(now, tx, s, i - 1),
           Allowed(Before(s, t), op), op.type = "open" => t \in DOMAIN s.tokens,
           NEW p, p = PoolAfter(Before(s, t), op),
           NEW new, new.tokens = s.tokens, new.pools = Over(s.pools, One(t, p))
    PROVE  Books(now, tx, new, i)
<1> DEFINE pl == Before(s, t)
           had == t \in DOMAIN s.pools
           in(a) == Of(op.in, a)
           out(a) == Of(op.out, a)
           had0(a) == Owned(now, tx, i - 1, a)
           has(a) == Owned(now, tx, i, a)
<1>1. /\ OnPool(op) /\ op.token = t /\ t # QNT /\ op.type \notin {"create", "message"}
      /\ \A a : in(a) \in Nat /\ out(a) \in Nat /\ (a \notin {QNT, t, ShareId(t)} => in(a) = 0 /\ out(a) = 0)
  <2>1. OpOk(tx, op)
    BY DEF OpsFit
  <2>2. /\ OnPool(op) /\ op.token = t /\ t # QNT /\ op.type \notin {"create", "message"}
        /\ \A a : /\ Of(op.in, a) \in Nat /\ Of(op.out, a) \in Nat
                  /\ Of(op.in, a) # 0 => a \in DOMAIN op.in
                  /\ Of(op.out, a) # 0 => a \in DOMAIN op.out
        /\ DOMAIN op.in \union DOMAIN op.out \subseteq {QNT, t, ShareId(t)}
    BY <2>1, MadeAmounts
  <2> QED BY <2>2
<1>2. /\ had => pl = s.pools[t] /\ Solid(pl) /\ pl # NoPool
      /\ ~ had => pl = NoPool
  BY PoolThere DEF Before, Books, PoolBooks, Solid
<1>3. t \in DOMAIN s.tokens
  <2>1. CASE had
    BY <2>1 DEF Books, PoolBooks
  <2>2. CASE ~ had
    <3>1. op.type = "open"
      BY <1>2, <2>2 DEF MadeOp, Allowed, OpAddLiquidity, OpRemoveLiquidity, OpSwap
    <3> QED BY <3>1
  <2> QED BY <2>1, <2>2
<1>4. /\ \A x \in DOMAIN s.tokens : x # QNT /\ x[1] = "token" /\ s.tokens[x] \in 1..MAX_TOKEN_SUPPLY
                                    /\ had0(x) + InPool(s, x) = s.tokens[x]
      /\ \A x : ShareId(x)[1] = "shares" /\ ShareId(x) # QNT /\ ShareId(x)[2] = x
  BY DEF Books, TokenBooks, SharesApart, ShareId
<1>5. \A x : ShareId(x) \notin DOMAIN s.tokens
  BY <1>4
<1>6. \A a : /\ Releases(tx, i, a) = out(a) /\ Absorbs(op, a) = in(a)
             /\ has(a) \in Int /\ had0(a) \in Int /\ has(a) = had0(a) + out(a) - in(a)
             /\ RelTo(tx, i - 1, a) \in Int /\ AbsTo(tx, i - 1, a) \in Int
             /\ RelTo(tx, i, a) = RelTo(tx, i - 1, a) + out(a)
             /\ AbsTo(tx, i, a) = AbsTo(tx, i - 1, a) + in(a)
  <2>1. \A a : Releases(tx, i, a) = out(a) /\ Absorbs(op, a) = in(a)
    BY <1>1, OpAmounts
  <2>2. \A a : /\ has(a) \in Int /\ had0(a) \in Int
               /\ RelTo(tx, i - 1, a) \in Int /\ AbsTo(tx, i - 1, a) \in Int
               /\ RelTo(tx, i, a) = RelTo(tx, i - 1, a) + Releases(tx, i, a)
               /\ AbsTo(tx, i, a) = AbsTo(tx, i - 1, a) + Absorbs(op, a)
               /\ has(a) = had0(a) + Releases(tx, i, a) - Absorbs(op, a)
    BY OwnedNext
  <2> HIDE DEF in, out, has, had0
  <2> QED BY <2>1, <2>2
<1>7. /\ DOMAIN new.pools = DOMAIN s.pools \union {t} /\ new.pools[t] = p
      /\ \A x \in DOMAIN s.pools : x # t => new.pools[x] = s.pools[x]
  BY DEF Over, One
<1> DEFINE was == IF had THEN pl ELSE [qnt |-> 0, tok |-> 0, shares |-> MIN_LIQUIDITY]
<1>8. /\ p.qnt = was.qnt + in(QNT) - out(QNT) /\ p.tok = was.tok + in(t) - out(t)
      /\ p.shares = was.shares + out(ShareId(t)) - in(ShareId(t))
      /\ was.qnt \in Nat /\ was.tok \in Nat /\ was.shares \in Nat
  <2>1. p = LET w == IF pl = NoPool THEN [qnt |-> 0, tok |-> 0, shares |-> MIN_LIQUIDITY] ELSE pl
            IN [qnt |-> w.qnt + in(QNT) - out(QNT), tok |-> w.tok + in(t) - out(t),
                shares |-> w.shares + out(ShareId(t)) - in(ShareId(t))]
    BY <1>1 DEF PoolAfter
  <2>2. was = IF pl = NoPool THEN [qnt |-> 0, tok |-> 0, shares |-> MIN_LIQUIDITY] ELSE pl
    BY <1>2
  <2>3. was.qnt \in Nat /\ was.tok \in Nat /\ was.shares \in Nat
    <3>1. CASE had
      BY <1>2, <3>1 DEF Solid, PoolOk
    <3>2. CASE ~ had
      BY <3>2, AmmAssumption
    <3> QED BY <3>1, <3>2
  <2> HIDE DEF was, in, out, pl
  <2> QED BY <2>1, <2>2, <2>3
<1>9. was.tok = InPool(s, t) /\ was.qnt = (IF had THEN s.pools[t].qnt ELSE 0)
  BY <1>2 DEF InPool
<1>10. had0(ShareId(t)) + MIN_LIQUIDITY = was.shares
  <2>1. CASE had
    BY <1>2, <2>1 DEF Books, PoolBooks
  <2>2. CASE ~ had
    <3>1. ShareId(t) \notin Known(s)
      <4>1. \A x : ShareId(x) = ShareId(t) => x = t
        BY <1>4
      <4> QED BY <1>4, <1>5, <2>2, <4>1 DEF Known
    <3>2. had0(ShareId(t)) = 0
      BY <3>1 DEF Books
    <3> QED BY <2>2, <3>2, AmmAssumption
  <2> QED BY <2>1, <2>2
<1> HIDE DEF was, in, out, has, had0
<1>11. has(t) + p.tok = s.tokens[t]
  <2>1. has(t) = had0(t) + out(t) - in(t) /\ had0(t) \in Int /\ in(t) \in Nat /\ out(t) \in Nat
    BY <1>1, <1>6 DEF in, out
  <2>2. had0(t) + was.tok = s.tokens[t]
    BY <1>3, <1>4, <1>9
  <2> QED BY <1>8, <2>1, <2>2
<1>12. has(ShareId(t)) + MIN_LIQUIDITY = p.shares
  <2> DEFINE a == ShareId(t)
  <2>1. has(a) = had0(a) + out(a) - in(a) /\ had0(a) \in Int /\ in(a) \in Nat /\ out(a) \in Nat
    BY <1>1, <1>6 DEF in, out
  <2> QED BY <1>8, <1>10, <2>1, AmmAssumption
<1>13. Solid(p)
  <2>1. pl = NoPool \/ Solid(pl)
    BY <1>2
  <2>2. OpOk(tx, op)
    BY DEF OpsFit
  <2> HIDE DEF pl
  <2> QED BY <2>1, <2>2, PoolSolid DEF pl
<1>14. ASSUME NEW a, a \notin {QNT, t, ShareId(t)} PROVE has(a) = had0(a)
  <2>1. in(a) = 0 /\ out(a) = 0
    BY <1>1, <1>14 DEF in, out
  <2>2. has(a) = had0(a) + out(a) - in(a) /\ had0(a) \in Int
    BY <1>6
  <2> QED BY <2>1, <2>2
<1>15. \A a : has(a) # 0 => a \in Known(new)
  <2> SUFFICES ASSUME NEW a, has(a) # 0, a \notin {QNT, t, ShareId(t)} PROVE a \in Known(new)
    BY <1>3, <1>7 DEF Known
  <2>1. a \in Known(s)
    BY <1>14 DEF Books, had0
  <2> QED BY <1>7, <2>1 DEF Known
<1>16. TokenBooks(now, tx, new, i)
  <2> SUFFICES ASSUME NEW x \in DOMAIN new.tokens
               PROVE  /\ x # QNT /\ x[1] = "token" /\ new.tokens[x] \in 1..MAX_TOKEN_SUPPLY
                      /\ has(x) + InPool(new, x) = new.tokens[x]
    BY DEF TokenBooks, has
  <2>1. CASE x = t
    BY <1>3, <1>4, <1>7, <1>11, <2>1 DEF InPool
  <2>2. CASE x # t
    <3>1. x # ShareId(t) /\ x # QNT
      BY <1>4, <1>5
    <3>2. has(x) = had0(x)
      BY <1>14, <2>2, <3>1
    <3>3. InPool(new, x) = InPool(s, x)
      BY <1>7, <2>2 DEF InPool
    <3> QED BY <1>4, <3>2, <3>3
  <2> QED BY <2>1, <2>2
<1>17. PoolBooks(now, tx, new, i)
  <2> SUFFICES ASSUME NEW x \in DOMAIN new.pools
               PROVE  /\ x \in DOMAIN new.tokens /\ Solid(new.pools[x])
                      /\ has(ShareId(x)) + MIN_LIQUIDITY = new.pools[x].shares
    BY DEF PoolBooks, has
  <2>1. CASE x = t
    BY <1>3, <1>7, <1>12, <1>13, <2>1
  <2>2. CASE x # t
    <3>1. x \in DOMAIN s.pools /\ new.pools[x] = s.pools[x]
      BY <1>7, <2>2
    <3>2. ShareId(x) # t /\ ShareId(x) # QNT /\ ShareId(x) # ShareId(t)
      BY <1>3, <1>4, <1>5, <2>2
    <3>3. has(ShareId(x)) = had0(ShareId(x))
      BY <1>14, <3>2
    <3> QED BY <3>1, <3>3 DEF Books, PoolBooks, had0
  <2> QED BY <2>1, <2>2
<1>18. QntBooks(now, tx, new, i)
  <2>1. \A x \in DOMAIN s.pools : s.pools[x].qnt \in Int
    BY DEF Books, PoolBooks, Solid, PoolOk
  <2>2. /\ IsFiniteSet(DOMAIN s.pools) /\ PoolSum(now.pools) \in Int /\ p.qnt \in Int
        /\ PoolSum(s.pools) + RelTo(tx, i - 1, QNT) = PoolSum(now.pools) + AbsTo(tx, i - 1, QNT)
    BY <1>13 DEF Books, QntBooks, Solid, PoolOk
  <2>3. /\ IsFiniteSet(DOMAIN new.pools) /\ PoolSum(s.pools) \in Int
        /\ PoolSum(new.pools) = PoolSum(s.pools) - (IF had THEN s.pools[t].qnt ELSE 0) + p.qnt
    BY <2>1, <2>2, PoolSumSet
  <2>4. /\ RelTo(tx, i, QNT) = RelTo(tx, i - 1, QNT) + out(QNT) /\ RelTo(tx, i - 1, QNT) \in Int
        /\ AbsTo(tx, i, QNT) = AbsTo(tx, i - 1, QNT) + in(QNT) /\ AbsTo(tx, i - 1, QNT) \in Int
        /\ in(QNT) \in Nat /\ out(QNT) \in Nat
    BY <1>1, <1>6 DEF in, out
  <2> HIDE DEF had
  <2>5. PoolSum(new.pools) \in Int /\ PoolSum(new.pools) = PoolSum(s.pools) + in(QNT) - out(QNT)
    BY <1>8, <1>9, <2>3, <2>4
  <2>6. PoolSum(new.pools) + RelTo(tx, i, QNT) = PoolSum(now.pools) + AbsTo(tx, i, QNT)
    BY <2>2, <2>3, <2>4, <2>5
  <2> QED BY <2>2, <2>3, <2>5, <2>6 DEF QntBooks
<1> QED BY <1>15, <1>16, <1>17, <1>18 DEF Books, has

\* One operation on the books as the transaction has kept them.
LEMMA RunOpBooks ==
    ASSUME SharesApart, TokensApart, NEW v, NEW now, CoinsPositive(now.coins),
           \A t : HasToken(v, t) <=> t \in DOMAIN now.tokens, \A t : PoolOf(v, t) = Before(now, t),
           NEW tx, OpsFit(tx), NEW i \in DOMAIN tx.ops, NEW s, OpsOk(s, v), s.ok,
           Books(now, tx, After(now, s), i - 1), RunOp(v, tx, s, i).ok
    PROVE  Books(now, tx, After(now, RunOp(v, tx, s, i)), i)
<1> DEFINE op == tx.ops[i]
           token == TokenId(tx.ins[1], i)
           r == RunOp(v, tx, s, i)
           m == After(now, s)
           n == After(now, r)
<1>1. s = [ok |-> s.ok, pools |-> s.pools, minted |-> s.minted]
  BY DEF OpsOk
<1>2. /\ m.tokens = Over(now.tokens, s.minted) /\ m.pools = Over(now.pools, s.pools)
      /\ n.tokens = Over(now.tokens, r.minted) /\ n.pools = Over(now.pools, r.pools)
  BY DEF After
<1>3. \A t : /\ PoolNow(v, s, t) = Before(m, t)
             /\ Knows(v, s, t) <=> t \in DOMAIN m.tokens
  BY <1>2 DEF PoolNow, Before, Knows, Over
<1>4. CASE op.type = "create"
  <2> DEFINE b == ~ Knows(v, s, token)
             o == One(token, op.supply)
  <2>1. r = [s EXCEPT !.ok = b, !.minted = Over(@, o)]
    BY <1>4, Zenon DEF RunOp
  <2>2. b
    BY <1>1, <2>1
  <2> HIDE DEF r, b, o
  <2>3. r.pools = s.pools /\ r.minted = Over(s.minted, o)
    BY <1>1, <2>1
  <2>4. n.tokens = Over(m.tokens, o) /\ n.pools = m.pools
    BY <1>2, <2>3, OverTwice
  <2>5. token \notin DOMAIN m.tokens
    BY <1>3, <2>2 DEF b
  <2> HIDE DEF m, n
  <2> QED BY <1>4, <2>4, <2>5, BooksCreate DEF m, n, o, r
<1>5. CASE op.type = "message"
  <2> DEFINE b == \E k \in DOMAIN tx.ins : CoinOf(v, tx.ins[k]).out.owner = op.from
  <2>1. r = [s EXCEPT !.ok = b]
    BY <1>5, Zenon DEF RunOp
  <2> HIDE DEF r, b
  <2>2. r.pools = s.pools /\ r.minted = s.minted
    BY <1>1, <2>1
  <2>3. n.tokens = m.tokens /\ n.pools = m.pools
    BY <1>2, <2>2
  <2> HIDE DEF m, n
  <2> QED BY <1>5, <2>3, BooksAsIs DEF m, n, r
<1>6. CASE op.type \notin {"create", "message"}
  <2> DEFINE t == op.token
             pl == PoolNow(v, s, t)
             b == (op.type = "open" => Knows(v, s, t)) /\ Allowed(pl, op)
             p == PoolAfter(pl, op)
             o == One(t, p)
  <2>1. r = [s EXCEPT !.ok = b, !.pools = Over(@, o)]
    BY <1>6, Zenon DEF RunOp
  <2> HIDE DEF r, b, o
  <2>2. r.pools = Over(s.pools, o) /\ r.minted = s.minted /\ r.ok = b
    BY <1>1, <2>1
  <2>3. (op.type = "open" => Knows(v, s, t)) /\ Allowed(pl, op)
    BY <2>2 DEF r, b
  <2>4. Shaped(op) /\ OpOk(tx, op)
    BY DEF OpsFit
  <2>5. PICK x, q, k, c : MadeOp(op, x, q, k, c)
    BY <1>6, <2>4 DEF Shaped
  <2>6. op.token = x
    BY <2>4, <2>5, MadeAmounts
  <2>7. n.tokens = m.tokens /\ n.pools = Over(m.pools, o)
    BY <1>2, <2>2, OverTwice
  <2>8. pl = Before(m, t) /\ (op.type = "open" => t \in DOMAIN m.tokens)
    BY <1>3, <2>3
  <2> HIDE DEF m, n, pl, op
  <2>9. /\ op = tx.ops[i] /\ Allowed(Before(m, x), op) /\ (op.type = "open" => x \in DOMAIN m.tokens)
        /\ n.tokens = m.tokens /\ n.pools = Over(m.pools, One(x, PoolAfter(Before(m, x), op)))
    BY <2>3, <2>6, <2>7, <2>8 DEF o, op
  <2>10. Books(now, tx, m, i - 1)
    BY DEF m
  <2>11. Books(now, tx, n, i)
    BY <2>5, <2>9, <2>10, BooksPool
  <2> QED BY <2>11 DEF n, r
<1> QED BY <1>4, <1>5, <1>6

\* All the operations of a transaction, in turn.
LEMMA RunBooks ==
    ASSUME SharesApart, TokensApart, NEW v, NEW now, Balanced(now), AllPoolsOk(now),
           IsFcn(now.tokens), IsFcn(now.pools),
           \A t : HasToken(v, t) <=> t \in DOMAIN now.tokens, \A t : PoolOf(v, t) = Before(now, t),
           NEW tx, OpsFit(tx), RunOps(v, tx).ok
    PROVE  Books(now, tx, After(now, RunOps(v, tx)), Len(tx.ops))
<1> DEFINE n == Len(tx.ops)
           Kept(s, k) == OpsOk(s, v) /\ (s.ok => Books(now, tx, After(now, s), k))
<1>1. n \in Nat /\ DOMAIN tx.ops = 1..n /\ IsSeq(tx.ops)
  BY SeqShape DEF OpsFit
<1>2. PICK r : RanOps(r, v, tx) /\ RunOps(v, tx) = r[n]
  BY <1>1, RunOpsRun
<1> DEFINE T == {k \in 0..n : Kept(r[k], k)}
<1>3. T \in SUBSET Nat /\ 0 \in T
  <2> DEFINE z == [ok |-> TRUE, pools |-> <<>>, minted |-> <<>>]
             s == After(now, z)
  <2>1. OpsOk(z, v)
    BY FcnFacts DEF OpsOk
  <2>2. r[0] = z
    BY <1>2 DEF RanOps
  <2>3. s.tokens = now.tokens /\ s.pools = now.pools
    <3>1. s.tokens = Over(now.tokens, <<>>) /\ s.pools = Over(now.pools, <<>>)
      BY DEF After
    <3>2. DOMAIN <<>> = {}
      BY FcnFacts
    <3>3. \A f : IsFcn(f) => Over(f, <<>>) = f
      BY <3>2 DEF IsFcn, Over
    <3> HIDE DEF s
    <3> QED BY <3>1, <3>3
  <2> HIDE DEF s
  <2>4. Books(now, tx, s, 0)
    BY <2>3, BooksStart
  <2> QED BY <1>1, <2>1, <2>2, <2>4 DEF s
<1>4. ASSUME NEW k \in 0..n, k \in T, k < n PROVE k + 1 \in T
  <2>1. k + 1 \in 1..n /\ (k + 1) - 1 = k /\ k + 1 \in 0..n
    BY <1>1, <1>4
  <2>2. r[k + 1] = RunNext(v, tx, r[k], k + 1)
    BY <1>2, <2>1 DEF RanOps
  <2>3. OpsOk(r[k], v) /\ (r[k].ok => Books(now, tx, After(now, r[k]), k))
    BY <1>4
  <2>4. CASE r[k].ok
    <3>1. r[k + 1] = RunOp(v, tx, r[k], k + 1)
      BY <2>2, <2>4 DEF RunNext
    <3>2. OpsOk(r[k + 1], v)
      BY <2>3, <2>4, <3>1, RunOpKeeps
    <3>3. k + 1 \in DOMAIN tx.ops
      BY <1>1, <2>1
    <3>4. CoinsPositive(now.coins)
      BY DEF Balanced
    <3>5. r[k + 1].ok => Books(now, tx, After(now, r[k + 1]), k + 1)
      BY <2>1, <2>3, <2>4, <3>1, <3>3, <3>4, RunOpBooks
    <3> QED BY <2>1, <3>2, <3>5
  <2>5. CASE ~ r[k].ok
    BY <2>1, <2>2, <2>3, <2>5 DEF RunNext
  <2> QED BY <2>4, <2>5
<1> HIDE DEF T, n
<1>5. n \in T
  <2>1. \A k \in 0..n : k \in T /\ k < n => k + 1 \in T
    BY <1>4
  <2>2. \A k \in 0..n : k \in T
    BY <1>1, <1>3, <2>1, Upward
  <2> QED BY <1>1, <2>2
<1> QED BY <1>2, <1>5 DEF T, n

\* A number is no more than another if its square is not.
LEMMA SmallerRoot ==
    ASSUME NEW x \in Nat, NEW m \in Nat, x * x <= m * m
    PROVE  x <= m
<1>1. ASSUME m < x PROVE FALSE
  <2>1. m + 1 <= x /\ m + 1 \in Nat
    BY <1>1
  <2>2. (m + 1) * (m + 1) <= x * x
    BY <2>1, LargerProduct
  <2>3. (m + 1) * (m + 1) = m * m + 2 * m + 1
    OBVIOUS
  <2>4. m * m \in Nat /\ x * x \in Nat
    BY Products
  <2> QED BY <2>2, <2>3, <2>4
<1> QED BY <1>1

\* What the books say after the last operation is what the coins hold.
LEMMA BooksEnd ==
    ASSUME NEW tx, OpsFit(tx), NEW now, Balanced(now), NEW new, Moved(tx, now, new), SharesApart,
           NEW s, Books(now, tx, s, Len(tx.ops)), new.tokens = s.tokens, new.pools = s.pools
    PROVE  /\ Balanced(new)
           /\ PoolSum(new.pools) + Released(tx, QNT) = PoolSum(now.pools) + Absorbed(tx, QNT)
<1> DEFINE has(a) == Owned(now, tx, Len(tx.ops), a)
<1>1. \A a : RelTo(tx, Len(tx.ops), a) = Released(tx, a) /\ AbsTo(tx, Len(tx.ops), a) = Absorbed(tx, a)
  BY OpMoves
<1>2. \A a : CoinSum(new.coins, a) \in Nat /\ (a # QNT => has(a) = CoinSum(new.coins, a))
  <2> TAKE a
  <2>1. /\ CoinSum(new.coins, a) \in Nat /\ CoinSum(now.coins, a) \in Nat
        /\ Released(tx, a) \in Nat /\ Absorbed(tx, a) \in Nat
    BY NoneOfAsset DEF Moved, Balanced
  <2>2. has(a) = CoinSum(now.coins, a) + Released(tx, a) - Absorbed(tx, a)
    BY <1>1 DEF Owned
  <2>3. a # QNT => CoinSum(new.coins, a) + Absorbed(tx, a) = CoinSum(now.coins, a) + Released(tx, a)
    BY DEF Moved
  <2> HIDE DEF has
  <2> QED BY <2>1, <2>2, <2>3
<1>3. /\ \A t \in DOMAIN new.tokens : /\ t # QNT /\ t[1] = "token" /\ new.tokens[t] \in 1..MAX_TOKEN_SUPPLY
                                      /\ has(t) + InPool(new, t) = new.tokens[t]
      /\ \A t \in DOMAIN new.pools : /\ t \in DOMAIN new.tokens /\ Solid(new.pools[t])
                                     /\ has(ShareId(t)) + MIN_LIQUIDITY = new.pools[t].shares
      /\ IsFiniteSet(DOMAIN new.pools)
      /\ \A a : has(a) # 0 => a \in Known(new)
  BY DEF Books, TokenBooks, PoolBooks, QntBooks, InPool, Known
<1> HIDE DEF has
<1>4. TokensBalanced(new)
  BY <1>2, <1>3 DEF TokensBalanced
<1>5. SharesBalanced(new)
  <2> SUFFICES ASSUME NEW t \in DOMAIN new.pools
               PROVE  /\ t \in DOMAIN new.tokens /\ InRange(new.pools[t])
                      /\ CoinSum(new.coins, ShareId(t)) + MIN_LIQUIDITY = new.pools[t].shares
    BY DEF SharesBalanced
  <2> DEFINE p == new.pools[t]
             m == MAX_TOKEN_SUPPLY
  <2>1. /\ t \in DOMAIN new.tokens /\ Solid(p) /\ t # QNT /\ new.tokens[t] \in 1..m
        /\ has(ShareId(t)) + MIN_LIQUIDITY = p.shares /\ has(t) + p.tok = new.tokens[t]
    BY <1>3 DEF InPool
  <2>2. ShareId(t) # QNT
    BY DEF SharesApart
  <2>3. CoinSum(new.coins, ShareId(t)) + MIN_LIQUIDITY = p.shares
    BY <1>2, <2>1, <2>2
  <2>4. CoinSum(new.coins, t) \in Nat /\ CoinSum(new.coins, t) + p.tok = new.tokens[t]
    BY <1>2, <2>1
  <2>5. m \in Nat /\ MAX_MONEY \in Nat /\ MAX_MONEY <= m /\ MIN_LIQUIDITY \in Nat
    BY LimitsAssumption, AmmAssumption
  <2>6. /\ p.qnt \in Nat \ {0} /\ p.tok \in Nat \ {0} /\ p.shares \in Nat \ {0} /\ MIN_LIQUIDITY <= p.shares
        /\ p.qnt <= MAX_MONEY /\ p.shares * p.shares <= p.qnt * p.tok
    BY <2>1 DEF Solid, PoolOk, Squared, Worth
  <2> HIDE DEF p, m
  <2>7. p.tok <= m
    BY <2>1, <2>4, <2>5, <2>6
  <2>8. p.qnt <= m
    BY <2>5, <2>6
  <2>9. p.qnt * p.tok <= m * m
    BY <2>5, <2>6, <2>7, <2>8, LargerProduct
  <2>10. p.shares <= m
    <3>1. p.shares * p.shares \in Nat /\ m * m \in Nat /\ p.qnt * p.tok \in Nat
      BY <2>5, <2>6, Products
    <3>2. p.shares * p.shares <= m * m
      BY <2>6, <2>9, <3>1
    <3> QED BY <2>5, <2>6, <3>2, SmallerRoot
  <2>11. InRange(p)
    <3>1. p.qnt \in 1..MAX_MONEY /\ p.tok \in 1..m /\ p.shares \in MIN_LIQUIDITY..m
      BY <2>5, <2>6, <2>7, <2>10
    <3> QED BY <2>6, <3>1 DEF InRange, m, Squared, Worth
  <2> QED BY <2>1, <2>3, <2>11 DEF p
<1>6. CoinsKnown(new)
  <2> SUFFICES ASSUME NEW o \in DOMAIN new.coins, new.coins[o].out.asset # QNT
               PROVE  new.coins[o].out.asset \in Known(new)
    BY DEF CoinsKnown, Known
  <2> DEFINE a == new.coins[o].out.asset
  <2>1. CoinSum(new.coins, a) # 0
    BY NoneOfAsset DEF Moved
  <2> QED BY <1>2, <1>3, <2>1
<1>7. PoolSum(new.pools) + Released(tx, QNT) = PoolSum(now.pools) + Absorbed(tx, QNT)
  BY <1>1 DEF Books, QntBooks
<1> QED BY <1>3, <1>4, <1>5, <1>6, <1>7 DEF Balanced, Moved

\* A transaction on a view in balance: all that is lost is its fee.
LEMMA AppliedBalances ==
    ASSUME SharesApart, TokensApart, NEW v, NEW st, ViewOk(v, st), AllPoolsOk(st), ChangedWell(v, st),
           DOMAIN v.created \intersect DOMAIN st.coins = {},
           NEW tx, NEW h, IsSeq(tx.outs), OpsFit(tx), check_tx_basic(tx), Applies(v, tx, h),
           NEW now, now = Committed(st, v), NEW new, new = Committed(st, Applied(v, tx, h)),
           Balanced(now), DOMAIN now.coins \intersect DOMAIN Outputs(tx, h) = {}
    PROVE  Balanced(new) /\ Fee(v, tx) \in Nat /\ QntIn(new) = QntIn(now) - Fee(v, tx)
<1> DEFINE ran == RunOps(v, tx)
<1>1. /\ \A i \in DOMAIN tx.ins : HasCoin(v, tx.ins[i])
      /\ ran.ok /\ IsSeq(tx.ops)
      /\ \A i \in DOMAIN tx.ops : OpOk(tx, tx.ops[i])
  BY DEF Applies, InputOk, OpsFit
<1>2. ViewOk(Applied(v, tx, h), st) /\ ChangedWell(Applied(v, tx, h), st)
  BY <1>1, AppliedKeeps, AppliedPools
<1>3. /\ new.coins = Over(Without(now.coins, Range(tx.ins)), Outputs(tx, h))
      /\ new.tokens = Over(now.tokens, ran.minted) /\ new.pools = Over(now.pools, ran.pools)
  BY <1>1, <1>2, AppliedNow
<1>4. /\ now.tokens = Over(st.tokens, v.tokens) /\ now.pools = Over(st.pools, v.pools)
      /\ \A o : HasCoin(v, o) => o \in DOMAIN now.coins /\ CoinOf(v, o) = now.coins[o]
      /\ \A t : HasToken(v, t) <=> t \in DOMAIN now.tokens
      /\ \A t : PoolOf(v, t) = Before(now, t)
      /\ AllPoolsOk(now)
  BY ViewNow
<1>5. /\ CoinsPositive(new.coins)
      /\ \A a : a # QNT => CoinSum(new.coins, a) + Absorbed(tx, a) = CoinSum(now.coins, a) + Released(tx, a)
      /\ CoinSum(new.coins, QNT) + Absorbed(tx, QNT) + Fee(v, tx) = CoinSum(now.coins, QNT) + Released(tx, QNT)
      /\ Fee(v, tx) \in Nat
  <2> DEFINE k == now.coins
             n == new.coins
  <2>1. \A i \in DOMAIN tx.ins : tx.ins[i] \in DOMAIN k /\ CoinOf(v, tx.ins[i]) = k[tx.ins[i]]
    BY <1>1, <1>4
  <2>2. Counted(k) /\ \A o \in DOMAIN k : k[o].out.value \in Positive
    BY DEF Balanced, CoinsPositive
  <2>3. n = Over(Without(k, Range(tx.ins)), Outputs(tx, h)) /\ DOMAIN k \intersect DOMAIN Outputs(tx, h) = {}
    BY <1>3
  <2> HIDE DEF ran, k, n
  <2>4. CoinsAfter(v, k, tx, n)
    BY <2>1, <2>2, <2>3, CoinsMoved, Zenon
  <2> QED BY <2>4 DEF k, n, CoinsPositive, CoinsAfter
<1>6. \A a : Released(tx, a) \in Nat /\ Absorbed(tx, a) \in Nat
  BY <1>1, OpMoves
<1>7. Moved(tx, now, new)
  BY <1>5, <1>6 DEF Moved
<1>8. IsFcn(now.tokens) /\ IsFcn(now.pools)
  BY <1>4, FcnFacts
<1>9. Books(now, tx, After(now, ran), Len(tx.ops))
  BY <1>1, <1>4, <1>8, RunBooks
<1>10. /\ Balanced(new)
       /\ PoolSum(new.pools) + Released(tx, QNT) = PoolSum(now.pools) + Absorbed(tx, QNT)
  <2> DEFINE s == After(now, ran)
  <2>1. new.tokens = s.tokens /\ new.pools = s.pools
    BY <1>3 DEF After
  <2> HIDE DEF s
  <2> QED BY <1>7, <1>9, <2>1, BooksEnd DEF s
<1>11. QntIn(new) = QntIn(now) - Fee(v, tx)
  <2> DEFINE cn == CoinSum(new.coins, QNT)
             co == CoinSum(now.coins, QNT)
             pn == PoolSum(new.pools)
             po == PoolSum(now.pools)
             r == Released(tx, QNT)
             b == Absorbed(tx, QNT)
             f == Fee(v, tx)
  <2>1. /\ cn \in Nat /\ co \in Nat /\ pn \in Nat /\ po \in Nat /\ r \in Nat /\ b \in Nat /\ f \in Nat
        /\ cn + b + f = co + r /\ pn + r = po + b
        /\ QntIn(new) = cn + pn /\ QntIn(now) = co + po
    BY <1>5, <1>6, <1>10, SumsIn
  <2> HIDE DEF cn, co, pn, po, r, b, f
  <2>2. QntIn(new) = QntIn(now) - f
    BY <2>1
  <2> QED BY <2>2 DEF f
<1> QED BY <1>5, <1>10, <1>11

\* A coinbase adds its outputs, all of them QNT.
LEMMA CoinbaseBalances ==
    ASSUME SharesApart, NEW v, NEW st, ViewOk(v, st), AllPoolsOk(st), ChangedWell(v, st),
           NEW cb, NEW h, IsSeq(cb.outs), cb.ops = <<>>, cb.ins = <<>>,
           \A i \in DOMAIN cb.outs : OutputOk(cb, cb.outs[i]) /\ cb.outs[i].asset = QNT,
           NEW now, now = Committed(st, v), NEW new, new = Committed(st, apply_coinbase(v, cb, h)),
           Balanced(now), DOMAIN now.coins \intersect DOMAIN Outputs(cb, h) = {}
    PROVE  /\ Balanced(new) /\ ValueIn(cb.outs, QNT) \in Nat
           /\ QntIn(new) = QntIn(now) + ValueIn(cb.outs, QNT)
<1> DEFINE w == apply_coinbase(v, cb, h)
           outs == Outputs(cb, h)
<1>1. ViewOk(w, st) /\ HasCoinbase(w, v, outs)
  BY CoinbaseKeeps
<1>2. ChangedWell(w, st)
  BY <1>1 DEF HasCoinbase, ChangedWell
<1>3. /\ now.coins = Over(Without(st.coins, DOMAIN v.spentBase), v.created)
      /\ now.tokens = Over(st.tokens, v.tokens) /\ now.pools = Over(st.pools, v.pools)
  BY ViewNow
<1>4. /\ new.coins = Over(Without(st.coins, DOMAIN w.spentBase), w.created)
      /\ new.tokens = Over(st.tokens, w.tokens) /\ new.pools = Over(st.pools, w.pools)
  BY <1>1, <1>2, ViewNow
<1>5. new.tokens = now.tokens /\ new.pools = now.pools
  BY <1>1, <1>3, <1>4 DEF HasCoinbase
<1> HIDE DEF outs
<1>6. new.coins = Over(Without(now.coins, {}), outs)
  <2>1. new.coins = Over(now.coins, outs)
    BY <1>1, <1>3, <1>4, OverTwice DEF HasCoinbase
  <2>2. Without(now.coins, {}) = now.coins
    BY <1>3 DEF Without, Over
  <2> QED BY <2>1, <2>2
<1>7. \A i \in DOMAIN cb.outs : cb.outs[i].value \in Positive /\ cb.outs[i].value \in Nat
  BY PositiveNumbers DEF OutputOk
<1>8. Counted(outs) /\ \A a : CoinSum(outs, a) = ValueIn(cb.outs, a) /\ ValueIn(cb.outs, a) \in Nat
  BY <1>7, OutputsSummed DEF outs
<1>9. \A o \in DOMAIN outs : outs[o].out.value \in Positive /\ outs[o].out.asset = QNT
  <2> TAKE o \in DOMAIN outs
  <2>1. o[2] \in DOMAIN cb.outs /\ outs[o].out = cb.outs[o[2]]
    BY DEF Outputs, outs
  <2> QED BY <1>7, <2>1
<1>10. Counted(now.coins) /\ \A o \in DOMAIN now.coins : now.coins[o].out.value \in Positive
  BY DEF Balanced, CoinsPositive
<1>11. /\ Counted(new.coins)
       /\ \A a : CoinSum(new.coins, a) = CoinSum(now.coins, a) + CoinSum(outs, a)
  <2> DEFINE none == {}
  <2>1. none \in SUBSET DOMAIN now.coins /\ DOMAIN now.coins \intersect DOMAIN outs = {}
    BY DEF outs
  <2>2. new.coins = Over(Without(now.coins, none), outs)
    BY <1>6
  <2>3. \A a : SumFunctionOnSet(Vals(now.coins, a), none) = 0 /\ CoinSum(now.coins, a) \in Nat
    BY <1>10, CoinSumFacts, SumTaken
  <2> HIDE DEF none
  <2>4. /\ Counted(new.coins)
        /\ \A a : CoinSum(new.coins, a) = CoinSum(now.coins, a) - SumFunctionOnSet(Vals(now.coins, a), none)
                                            + CoinSum(outs, a)
    BY <1>8, <1>10, <2>1, <2>2, CoinsReplaced
  <2> QED BY <1>8, <2>3, <2>4
<1>12. CoinsPositive(new.coins)
  <2>1. ASSUME NEW o \in DOMAIN new.coins PROVE new.coins[o].out.value \in Positive
    BY <1>6, <1>9, <1>10 DEF Over, Without
  <2> QED BY <1>11, <2>1 DEF CoinsPositive
<1>13. OpsFit(cb) /\ Len(cb.ops) = 0 /\ \A a : Released(cb, a) = 0 /\ Absorbed(cb, a) = 0
  BY NoOps
<1>14. \A a : a # QNT => CoinSum(new.coins, a) = CoinSum(now.coins, a)
  <2> TAKE a
  <2> HAVE a # QNT
  <2>1. CoinSum(outs, a) = 0
    BY <1>8, <1>9, CoinSumFacts
  <2>2. CoinSum(now.coins, a) \in Nat
    BY <1>10, CoinSumFacts
  <2> QED BY <1>11, <2>1, <2>2
<1>15. Moved(cb, now, new)
  BY <1>12, <1>13, <1>14 DEF Moved
<1>16. Balanced(new)
  <2>1. AllPoolsOk(now)
    BY ViewNow
  <2>2. Books(now, cb, now, 0)
    BY <1>13, <2>1, BooksStart
  <2> QED BY <1>5, <1>13, <1>15, <2>2, BooksEnd
<1>17. QntIn(new) = QntIn(now) + ValueIn(cb.outs, QNT)
  <2> DEFINE cn == CoinSum(new.coins, QNT)
             co == CoinSum(now.coins, QNT)
             p == PoolSum(now.pools)
             m == ValueIn(cb.outs, QNT)
  <2>1. /\ co \in Nat /\ p \in Nat /\ m \in Nat /\ cn = co + m /\ QntIn(new) = cn + p /\ QntIn(now) = co + p
    BY <1>5, <1>8, <1>11, SumsIn
  <2> HIDE DEF cn, co, p, m
  <2>2. QntIn(new) = QntIn(now) + m
    BY <2>1
  <2> QED BY <2>2 DEF m
<1> QED BY <1>8, <1>16, <1>17

(***************************************************************************)
(* The outputs a wallet builds                                             *)
(***************************************************************************)
FlattenFcn(f, s) == [i \in 1..Len(s) |-> IF i = 1 THEN s[i] ELSE f[i - 1] \o s[i]]

\* Sequences put one after another are a sequence.
LEMMA FlattenIsSeq ==
    ASSUME NEW S, NEW s \in Seq(Seq(S))
    PROVE  FlattenSeq(s) \in Seq(S)
<1> DEFINE n == Len(s)
           c == CHOOSE f : f = FlattenFcn(f, s)
<1>1. n \in Nat /\ \A i \in 1..n : s[i] \in Seq(S)
  OBVIOUS
<1>2. FlattenSeq(s) = IF n = 0 THEN s ELSE c[n]
  BY Zenon DEF FlattenSeq, FlattenFcn
<1>3. CASE n = 0
  <2>1. s = <<>>
    BY <1>3
  <2> QED BY <1>2, <1>3, <2>1
<1>4. CASE n # 0
  <2> DEFINE V == Seq(S)
             G == [i \in 1..n |-> [x \in V |-> x \o s[i]]]
  <2>1. Counting(V, <<>>, n, G)
    <3>1. <<>> \in V /\ \A x, y \in V : x \o y \in V
      OBVIOUS
    <3> HIDE DEF V
    <3>2. G \in [1..n -> [V -> V]]
      BY <1>1, <3>1 DEF V
    <3> QED BY <1>1, <3>1, <3>2 DEF Counting
  <2>2. PICK r : Counts(r, V, <<>>, n, G)
    BY <2>1, CountExists
  <2>3. /\ \A i \in 0..n : r[i] \in V
        /\ r[0] = <<>> /\ \A i \in 1..n : r[i] = r[i - 1] \o s[i]
    <3>1. r \in [0..n -> V] /\ r[0] = <<>> /\ \A i \in 1..n : r[i] = G[i][r[i - 1]]
      BY <2>2 DEF Counts
    <3>2. \A i \in 1..n : i - 1 \in 0..n
      BY <1>1
    <3> HIDE DEF V
    <3> QED BY <3>1, <3>2
  <2> DEFINE g == [i \in 1..n |-> r[i]]
  <2>4. g = FlattenFcn(g, s)
    <3>1. ASSUME NEW i \in 1..n PROVE g[i] = IF i = 1 THEN s[i] ELSE g[i - 1] \o s[i]
      <4>1. CASE i = 1
        <5>1. 1 \in 1..n /\ 1 - 1 = 0 /\ s[1] \in Seq(S)
          BY <1>1, <4>1
        <5>2. r[1] = <<>> \o s[1]
          BY <2>3, <5>1
        <5>3. \A x \in Seq(S) : <<>> \o x = x
          OBVIOUS
        <5>4. r[1] = s[1]
          BY <5>1, <5>2, <5>3
        <5> QED BY <4>1, <5>1, <5>4
      <4>2. CASE i # 1
        <5>1. i - 1 \in 1..n
          BY <1>1, <4>2
        <5> QED BY <2>3, <4>2, <5>1
      <4> QED BY <4>1, <4>2
    <3> QED BY <3>1 DEF FlattenFcn
  <2> HIDE DEF g
  <2>5. c = FlattenFcn(c, s)
    BY <2>4, Zenon
  <2> HIDE DEF c
  <2> DEFINE T == {k \in 0..n : k # 0 => c[k] \in Seq(S)}
  <2>6. ASSUME NEW k \in 0..n, k \in T, k < n PROVE k + 1 \in T
    <3>1. k + 1 \in 1..n /\ k + 1 \in 0..n
      BY <1>1, <2>6
    <3>2. c[k + 1] = IF k + 1 = 1 THEN s[k + 1] ELSE c[(k + 1) - 1] \o s[k + 1]
      BY <2>5, <3>1 DEF FlattenFcn
    <3>3. CASE k = 0
      BY <1>1, <3>1, <3>2, <3>3
    <3>4. CASE k # 0
      <4>1. (k + 1) - 1 = k /\ k + 1 # 1
        BY <3>4
      <4>2. c[k + 1] = c[k] \o s[k + 1]
        BY <3>2, <4>1
      <4>3. c[k] \in Seq(S) /\ s[k + 1] \in Seq(S)
        BY <1>1, <2>6, <3>1, <3>4
      <4>4. \A x, y \in Seq(S) : x \o y \in Seq(S)
        OBVIOUS
      <4>5. c[k + 1] \in Seq(S)
        BY <4>2, <4>3, <4>4
      <4> QED BY <3>1, <4>5
    <3> QED BY <3>3, <3>4
  <2>7. n \in T
    <3>1. T \in SUBSET Nat /\ 0 \in T
      BY <1>1
    <3> HIDE DEF T, n
    <3>2. \A k \in 0..n : k \in T
      BY <1>1, <2>6, <3>1, Upward
    <3> QED BY <1>1, <3>2
  <2> QED BY <1>2, <1>4, <2>7
<1> QED BY <1>3, <1>4

\* A finite set as a sequence.
LEMMA SetAsSeq ==
    ASSUME NEW S, IsFiniteSet(S)
    PROVE  SetToSeq(S) \in Seq(S)
<1> DEFINE n == Cardinality(S)
<1>1. n \in Nat /\ ExistsBijection(1..n, S)
  BY FS_CardinalityType
<1>2. \E f \in [1..n -> S] : IsInjective(f)
  <2>1. PICK f : f \in Bijection(1..n, S)
    BY <1>1 DEF ExistsBijection
  <2>2. f \in [1..n -> S] /\ \A a, b \in 1..n : f[a] = f[b] => a = b
    BY <2>1 DEF Bijection, Injection, IsInjective
  <2> QED BY <2>2 DEF IsInjective
<1> HIDE DEF n
<1>3. SetToSeq(S) \in [1..n -> S]
  BY <1>2, Zenon DEF SetToSeq, n
<1> QED BY <1>1, <1>3

\* An operation on a pool names three assets at most, and a plan pays one.
LEMMA MadeAssets ==
    ASSUME NEW op, NEW t, NEW q, NEW k, NEW s, MadeOp(op, t, q, k, s)
    PROVE  DOMAIN op.in \union DOMAIN op.out \subseteq {QNT, t, ShareId(t)}
<1>1. CASE op = OpPoolCreate(t, q, k, s)
  BY <1>1 DEF OpPoolCreate, Flow, One
<1>2. CASE op = OpAddLiquidity(t, q, k, s)
  BY <1>2 DEF OpAddLiquidity, Flow, One
<1>3. CASE op = OpRemoveLiquidity(t, s, q, k)
  BY <1>3 DEF OpRemoveLiquidity, Flow, One
<1>4. CASE op = OpSwap(t, TRUE, k, q)
  BY <1>4 DEF OpSwap, One
<1>5. CASE op = OpSwap(t, FALSE, q, k)
  BY <1>5 DEF OpSwap, One
<1> QED BY <1>1, <1>2, <1>3, <1>4, <1>5 DEF MadeOp

\* So it involves finitely many assets.
LEMMA PlanAssetsFinite ==
    ASSUME NEW plan, FewOuts(plan.outs), OneAtMost(plan.ops)
    PROVE  IsFiniteSet(PlanAssets(plan))
<1>1. \E a : {plan.outs[i].asset : i \in DOMAIN plan.outs} \subseteq {a}
  <2>1. CASE plan.outs = <<>>
    BY <2>1
  <2>2. ASSUME NEW x, plan.outs = <<x>> PROVE {plan.outs[i].asset : i \in DOMAIN plan.outs} \subseteq {x.asset}
    BY <2>2
  <2> QED BY <2>1, <2>2 DEF FewOuts
<1>2. \E t : UNION {DOMAIN plan.ops[i].in \union DOMAIN plan.ops[i].out : i \in {j \in DOMAIN plan.ops : OnPool(plan.ops[j])}}
               \subseteq {QNT, t, ShareId(t)}
  <2>1. CASE plan.ops = <<>>
    BY <2>1
  <2>2. ASSUME NEW op, Shaped(op), plan.ops = <<op>>
        PROVE  \E t : \A i \in DOMAIN plan.ops : OnPool(plan.ops[i]) =>
                 DOMAIN plan.ops[i].in \union DOMAIN plan.ops[i].out \subseteq {QNT, t, ShareId(t)}
    <3>1. \A i \in DOMAIN plan.ops : plan.ops[i] = op
      BY <2>2
    <3>2. CASE op.type \in {"create", "message"}
      BY <3>1, <3>2 DEF OnPool
    <3>3. CASE op.type \notin {"create", "message"}
      <4>1. PICK t, q, k, s : MadeOp(op, t, q, k, s)
        BY <2>2, <3>3 DEF Shaped
      <4>2. DOMAIN op.in \union DOMAIN op.out \subseteq {QNT, t, ShareId(t)}
        BY <4>1, MadeAssets
      <4> QED BY <3>1, <4>2
    <3> QED BY <3>2, <3>3
  <2>3. ASSUME NEW t, \A i \in DOMAIN plan.ops : OnPool(plan.ops[i]) =>
                 DOMAIN plan.ops[i].in \union DOMAIN plan.ops[i].out \subseteq {QNT, t, ShareId(t)}
        PROVE  UNION {DOMAIN plan.ops[i].in \union DOMAIN plan.ops[i].out : i \in {j \in DOMAIN plan.ops : OnPool(plan.ops[j])}}
                 \subseteq {QNT, t, ShareId(t)}
    BY <2>3
  <2> QED BY <2>1, <2>2, <2>3 DEF OneAtMost
<1> DEFINE paid == {plan.outs[i].asset : i \in DOMAIN plan.outs}
           moved == UNION {DOMAIN plan.ops[i].in \union DOMAIN plan.ops[i].out : i \in {j \in DOMAIN plan.ops : OnPool(plan.ops[j])}}
<1>3. PlanAssets(plan) = paid \union moved
  BY DEF PlanAssets
<1> HIDE DEF paid, moved
<1>4. PICK a, t : PlanAssets(plan) \subseteq {a, QNT, t, ShareId(t)}
  <2>1. PICK a : paid \subseteq {a}
    BY <1>1 DEF paid
  <2>2. PICK t : moved \subseteq {QNT, t, ShareId(t)}
    BY <1>2 DEF moved
  <2>3. PlanAssets(plan) \subseteq {a, QNT, t, ShareId(t)}
    BY <1>3, <2>1, <2>2
  <2> QED BY <2>3
<1>5. IsFiniteSet({a, QNT, t, ShareId(t)})
  <2>1. IsFiniteSet({a}) /\ IsFiniteSet({QNT})
    BY FS_Singleton
  <2>2. IsFiniteSet({a} \union {QNT})
    BY <2>1, FS_Union
  <2>3. IsFiniteSet(({a} \union {QNT}) \union {t})
    BY <2>2, FS_AddElement
  <2>4. IsFiniteSet((({a} \union {QNT}) \union {t}) \union {ShareId(t)})
    BY <2>3, FS_AddElement
  <2>5. (({a} \union {QNT}) \union {t}) \union {ShareId(t)} = {a, QNT, t, ShareId(t)}
    OBVIOUS
  <2> QED BY <2>4, <2>5
<1> QED BY <1>4, <1>5, FS_Subset

\* One sequence after another, of whatever they hold.
LEMMA ConcatIsSeq ==
    ASSUME NEW s, NEW t, IsSeq(s), IsSeq(t)
    PROVE  IsSeq(s \o t)
<1> DEFINE S == Range(s) \union Range(t)
<1>1. s \in Seq(S) /\ t \in Seq(S)
  <2>1. \A R : Range(s) \subseteq R => s \in Seq(R)
    BY DEF IsSeq
  <2>2. \A R : Range(t) \subseteq R => t \in Seq(R)
    BY DEF IsSeq
  <2> QED BY <2>1, <2>2
<1>2. s \o t \in Seq(S) /\ Range(s \o t) = S
  BY <1>1, ConcatFacts
<1> QED BY <1>2 DEF IsSeq

\* None and one are sequences.
LEMMA ShortIsSeq == IsSeq(<<>>) /\ \A x : IsSeq(<<x>>)
BY DEF IsSeq, Range

\* With the change of the tokens, and of QNT, and with a token that is made.
LEMMA BuildWithOuts ==
    ASSUME NEW owner, NEW coins, NEW plan, NEW tokIns, NEW tokChange, FewOuts(plan.outs), IsSeq(tokChange),
           BuildWith(owner, coins, plan, tokIns, tokChange).ok
    PROVE  IsSeq(BuildWith(owner, coins, plan, tokIns, tokChange).tx.outs)
<1> DEFINE Shape(b) ==
             \E y, less, rest, made :
                /\ b.tx.outs = (IF less THEN [plan.outs EXCEPT ![1].value = y] ELSE plan.outs)
                                 \o tokChange \o QntChange(owner, rest) \o made
                /\ made = <<>> \/ \E x : made = <<x>>
<1>1. Shape(BuildWith(owner, coins, plan, tokIns, tokChange))
  <2> DEFINE s == Sorted(coins, QNT)
             fee(n) == IN_FEE * (Len(tokIns) + n)
             want(n) == IF plan.sweep THEN 0
                        ELSE IF plan.subtract THEN Need(plan, QNT) ELSE Need(plan, QNT) + fee(n)
             ns == IF plan.sweep THEN {Len(s)} \ {0} ELSE Enough(coins, s, [k \in 1..Len(s) |-> want(k)])
             n == Min(ns)
             first == IF plan.sweep THEN Have(coins, s, n) - fee(n) ELSE plan.outs[1].value - fee(n)
             less == plan.sweep \/ plan.subtract
             outs == IF less THEN [plan.outs EXCEPT ![1].value = first] ELSE plan.outs
             left == IF plan.sweep THEN 0 ELSE Have(coins, s, n) - want(n)
             ins == tokIns \o SubSeq(s, 1, n)
             minted(i) == IF plan.ops[i].type = "create"
                          THEN <<Pay(owner, TokenId(ins[1], i), plan.ops[i].supply)>> ELSE <<>>
             made == IF plan.ops = <<>> THEN <<>> ELSE minted(1)
             b == [ok |-> TRUE,
                   tx |-> [ins |-> ins, ops |-> plan.ops,
                           outs |-> outs \o tokChange \o QntChange(owner, left) \o made]]
  <2>1. BuildWith(owner, coins, plan, tokIns, tokChange) = IF ns = {} \/ (less /\ first <= DUST_LIMIT) THEN Failed ELSE b
    BY Zenon DEF BuildWith
  <2>2. made = <<>> \/ \E x : made = <<x>>
    OBVIOUS
  <2> HIDE DEF first, less, ins, left, made, ns
  <2>3. BuildWith(owner, coins, plan, tokIns, tokChange) = b
    BY <2>1 DEF Failed
  <2>4. b.tx.outs = outs \o tokChange \o QntChange(owner, left) \o made
    OBVIOUS
  <2>5. Shape(b)
    BY <2>2, <2>4
  <2> HIDE DEF b, Shape
  <2> QED BY <2>3, <2>5
<1> DEFINE built == BuildWith(owner, coins, plan, tokIns, tokChange).tx.outs
<1>2. PICK y, less, rest, made :
         /\ built = (IF less THEN [plan.outs EXCEPT ![1].value = y] ELSE plan.outs)
                      \o tokChange \o QntChange(owner, rest) \o made
         /\ made = <<>> \/ \E x : made = <<x>>
  BY <1>1
<1> DEFINE outs == IF less THEN [plan.outs EXCEPT ![1].value = y] ELSE plan.outs
<1>3. IsSeq(outs)
  <2>1. CASE plan.outs = <<>>
    <3>1. [plan.outs EXCEPT ![1].value = y] = <<>>
      BY <2>1
    <3> QED BY <2>1, <3>1, ShortIsSeq
  <2>2. ASSUME NEW x, plan.outs = <<x>> PROVE IsSeq(outs)
    <3>1. [plan.outs EXCEPT ![1].value = y] = <<[x EXCEPT !.value = y]>>
      BY <2>2
    <3> QED BY <2>2, <3>1, ShortIsSeq
  <2> QED BY <2>1, <2>2 DEF FewOuts
<1>4. IsSeq(made) /\ IsSeq(QntChange(owner, rest))
  BY <1>2, ShortIsSeq DEF QntChange
<1> HIDE DEF outs, built
<1>5. built = ((outs \o tokChange) \o QntChange(owner, rest)) \o made
  BY <1>2 DEF outs
<1>6. IsSeq(outs \o tokChange)
  BY <1>3, ConcatIsSeq
<1>7. IsSeq((outs \o tokChange) \o QntChange(owner, rest))
  BY <1>4, <1>6, ConcatIsSeq
<1>8. IsSeq(((outs \o tokChange) \o QntChange(owner, rest)) \o made)
  BY <1>4, <1>7, ConcatIsSeq
<1> QED BY <1>5, <1>8 DEF built

\* The outputs of what a wallet builds are a sequence.
LEMMA BuiltOuts ==
    ASSUME NEW owner, NEW coins, NEW plan, FewOuts(plan.outs), OneAtMost(plan.ops),
           build(owner, coins, plan).ok
    PROVE  IsSeq(build(owner, coins, plan).tx.outs)
<1> DEFINE toks == SetToSeq(PlanAssets(plan) \ {QNT})
           parts == [i \in DOMAIN toks |-> TokenCoins(coins, plan, toks[i])]
           tokIns == FlattenSeq([i \in DOMAIN toks |-> parts[i].ins])
           changes == [i \in DOMAIN toks |-> ChangeOut(owner, toks[i], parts[i].change)]
           tokChange == FlattenSeq(changes)
<1>1. build(owner, coins, plan)
        = IF \E i \in DOMAIN parts : ~ parts[i].ok THEN Failed
          ELSE BuildWith(owner, coins, plan, tokIns, tokChange)
  BY Zenon DEF build
<1>2. toks \in Seq(PlanAssets(plan) \ {QNT})
  <2>1. IsFiniteSet(PlanAssets(plan) \ {QNT})
    BY PlanAssetsFinite, FS_Subset
  <2> QED BY <2>1, SetAsSeq
<1>3. IsSeq(tokChange)
  <2> DEFINE S == {Pay(owner, toks[i], parts[i].change) : i \in DOMAIN toks}
  <2>1. \A i \in DOMAIN toks : changes[i] \in Seq(S)
    <3> TAKE i \in DOMAIN toks
    <3>1. Pay(owner, toks[i], parts[i].change) \in S
      OBVIOUS
    <3> HIDE DEF S, toks, parts
    <3>2. changes[i] = ChangeOut(owner, toks[i], parts[i].change)
      OBVIOUS
    <3>3. ChangeOut(owner, toks[i], parts[i].change) \in {<<>>, <<Pay(owner, toks[i], parts[i].change)>>}
      BY DEF ChangeOut
    <3>4. <<>> \in Seq(S) /\ <<Pay(owner, toks[i], parts[i].change)>> \in Seq(S)
      BY <3>1
    <3> QED BY <3>2, <3>3, <3>4
  <2>2. DOMAIN changes = 1..Len(toks) /\ Len(toks) \in Nat
    BY <1>2
  <2>3. DOMAIN toks = DOMAIN changes /\ changes = [i \in DOMAIN changes |-> changes[i]]
    OBVIOUS
  <2> HIDE DEF changes, S, toks
  <2>4. changes \in Seq(Seq(S))
    BY <2>1, <2>2, <2>3
  <2>5. tokChange \in Seq(S)
    BY <2>4, FlattenIsSeq
  <2> HIDE DEF tokChange
  <2> QED BY <2>5 DEF IsSeq, Range
<1> HIDE DEF tokChange, tokIns, parts
<1>4. build(owner, coins, plan) = BuildWith(owner, coins, plan, tokIns, tokChange)
  BY <1>1 DEF Failed
<1> QED BY <1>3, <1>4, BuildWithOuts

(***************************************************************************)
(* What always holds of the money                                          *)
(***************************************************************************)
\* The fees of the pending transactions are what they have lost, with a coinbase
\* ahead of them or not.
FeesAhead(cb) ==
    AppliedAll(apply_coinbase(NewView(state), cb, Height + 1), pending, Height + 1).fees
      = QntIn(state) - QntIn(Committed(state, view))

\* What block i has added to the QNT there is, and what it could.
BlockSums(i) ==
    LET b == chain[i] IN
    /\ MintedBy(b) \in Nat /\ b.fees \in Int
    /\ QntIn(StateAfter(i)) = QntIn(b.before) + MintedBy(b) - b.fees
    /\ MintedBy(b) < AmountLimit => MintedBy(b) <= subsidy_after(IssuedBy[i - 1]) + b.fees

ChainSums ==
    /\ Balanced(state) /\ supply = Wrap(QntIn(state)) /\ Height <= MaxHeight
    /\ QntIn(StateAfter(0)) = 0
    /\ \A i \in 1..Height : Balanced(chain[i].before) /\ BlockSums(i)

PendingSums ==
    /\ Balanced(Committed(state, view)) /\ Len(pending) <= MaxPending
    /\ \A values, owner : FeesAhead(Coinbase(values, owner))

MoneyInv == ChainSums /\ PendingSums

\* Adding to a number that has wrapped.
LEMMA WrapAdds ==
    ASSUME NEW x \in Nat, NEW y \in Nat
    PROVE  /\ Wrap(Wrap(x) + y - x) = Wrap(y) /\ Wrap(y) \in 0..AmountLimit - 1
           /\ y < AmountLimit => Wrap(y) = y
<1> DEFINE L == AmountLimit
<1>1. L \in Nat \ {0}
  <2>1. WIDTH \in 0..2 * WIDTH
    BY AmmAssumption
  <2> QED BY <2>1, AmmAssumption DEF AmountLimit
<1>2. \A a : Wrap(a) = a % L
  BY DEF Wrap
<1> HIDE DEF L
<1>3. ASSUME NEW a \in Int
      PROVE  /\ a % L \in 0..L - 1 /\ a \div L \in Int /\ a = L * (a \div L) + (a % L)
             /\ L * (a \div L) \in Int
  BY <1>1
<1>4. ASSUME NEW d \in Int, NEW e \in Int, L * d = e, e < L, - L < e PROVE e = 0
  <2>1. CASE d >= 1
    <3>1. L * d >= L
      BY <1>1, <2>1
    <3> QED BY <1>4, <3>1, <1>1
  <2>2. CASE d <= -1
    <3>1. L * d <= - L
      BY <1>1, <2>2
    <3> QED BY <1>4, <3>1, <1>1
  <2>3. CASE d = 0
    <3>1. L * 0 = 0
      BY <1>1
    <3> QED BY <1>4, <2>3, <3>1
  <2> QED BY <2>1, <2>2, <2>3
<1> DEFINE a == (x % L) + y - x
           p == x \div L
           q == y \div L
           r == a \div L
<1>5. /\ x % L \in 0..L - 1 /\ p \in Int /\ x = L * p + (x % L) /\ L * p \in Int
      /\ y % L \in 0..L - 1 /\ q \in Int /\ y = L * q + (y % L) /\ L * q \in Int
  BY <1>3
<1>6. a \in Int
  BY <1>1, <1>5
<1>7. a % L \in 0..L - 1 /\ r \in Int /\ a = L * r + (a % L) /\ L * r \in Int
  BY <1>3, <1>6
<1> DEFINE e == (a % L) - (y % L)
           d == q - p - r
<1> HIDE DEF p, q, r
<1>8. L * d = L * q - L * p - L * r
  BY <1>1, <1>5, <1>7
<1>9. L * d = e
  <2> DEFINE u == x % L
             w == y % L
             z == a % L
             pp == L * p
             qq == L * q
             rr == L * r
  <2>1. /\ u \in Int /\ w \in Int /\ z \in Int /\ pp \in Int /\ qq \in Int /\ rr \in Int
        /\ x = pp + u /\ y = qq + w /\ u + y - x = rr + z /\ L * d = qq - pp - rr
    BY <1>1, <1>5, <1>7, <1>8
  <2> HIDE DEF u, w, z, pp, qq, rr, a, d
  <2>2. L * d = z - w
    BY <2>1
  <2> QED BY <2>2 DEF z, w
<1>10. d \in Int /\ e \in Int /\ e < L /\ - L < e
  BY <1>1, <1>5, <1>7
<1>11. e = 0
  <2> HIDE DEF d, e
  <2> QED BY <1>4, <1>9, <1>10
<1>12. a % L = y % L
  BY <1>5, <1>7, <1>11, <1>1
<1>13. y < L => y % L = y
  BY <1>1
<1> QED BY <1>2, <1>5, <1>12, <1>13 DEF L

\* No transaction has no fee.
LEMMA NoFees ==
    ASSUME NEW v, NEW h
    PROVE  AppliedAll(v, <<>>, h).fees = 0
<1>1. IsSeq(<<>>) /\ Len(<<>>) = 0
  BY NewViewOk
<1>2. PICK r : RanAll(r, v, <<>>, h) /\ AppliedAll(v, <<>>, h) = r[Len(<<>>)]
  BY <1>1, AppliedAllRun, Zenon
<1>3. AppliedAll(v, <<>>, h) = NoneApplied(v)
  BY <1>1, <1>2 DEF RanAll
<1> QED BY <1>3 DEF NoneApplied

\* A coinbase that it does not spend does not change the fee of a transaction.
LEMMA FeeBesideCoinbase ==
    ASSUME NEW v, NEW st, ViewOk(v, st), NEW cb, NEW h, NEW tx,
           \A k \in DOMAIN tx.ins : tx.ins[k] \notin DOMAIN Outputs(cb, h)
    PROVE  Fee(apply_coinbase(v, cb, h), tx) = Fee(v, tx)
<1> DEFINE w == apply_coinbase(v, cb, h)
           f(u) == [i \in DOMAIN tx.ins |-> IF CoinOf(u, tx.ins[i]).out.asset = QNT
                                            THEN CoinOf(u, tx.ins[i]).out.value ELSE 0]
           g == [i \in DOMAIN tx.ops |-> Releases(tx, i, QNT)]
<1>1. HasCoinbase(w, v, Outputs(cb, h))
  BY CoinbaseKeeps
<1>2. \A u : Plus(u, tx, QNT) = SumFunction(f(u)) + SumFunction(g)
  BY DEF Plus, Sum
<1>3. \A k \in DOMAIN tx.ins : CoinOf(w, tx.ins[k]) = CoinOf(v, tx.ins[k])
  <2> HIDE DEF w
  <2> QED BY <1>1 DEF HasCoinbase, CoinOf, Over
<1> HIDE DEF w
<1>4. f(w) = f(v)
  BY <1>3
<1> HIDE DEF f, g
<1> QED BY <1>2, <1>4 DEF Fee, w

\* The ids of pending transactions are their own.
LEMMA IdsApart ==
    ASSUME ChainOk, PendingOk
    PROVE  /\ \A i : Txid(i)[1] = Height + 1
           /\ \A i, j : Txid(i) = Txid(j) => i = j
           /\ \A o \in DOMAIN state.coins : o[1][1] # Height + 1
           /\ \A o \in DOMAIN view.created : \E i \in 1..Len(pending) : o[1] = Txid(i)
<1>1. Height \in Nat
  BY SeqShape DEF ChainOk, Height
<1>2. \A i : Txid(i)[1] = Height + 1 /\ Txid(i)[2] = i
  BY DEF Txid
<1>3. \A i, j : Txid(i) = Txid(j) => i = j
  BY <1>2
<1>4. ASSUME NEW o \in DOMAIN state.coins PROVE o[1][1] # Height + 1
  <2>1. o[1][1] \in 0..Height
    BY DEF ChainOk, GoodState
  <2> QED BY <1>1, <2>1
<1>5. ASSUME NEW o \in DOMAIN view.created PROVE \E i \in 1..Len(pending) : o[1] = Txid(i)
  <2>1. DOMAIN pending = 1..Len(pending)
    BY SeqShape DEF PendingOk
  <2>2. o \in Made(pending)
    BY DEF PendingOk
  <2>3. PICK i \in 1..Len(pending) : \E k : o = <<pending[i].id, k>>
    BY <2>1, <2>2 DEF Made
  <2> QED BY <2>3 DEF PendingOk
<1> QED BY <1>2, <1>3, <1>4, <1>5

\* An empty mempool after a state in balance.
LEMMA NothingPending ==
    ASSUME NEW st, NEW height, GoodState(st, height)
    PROVE  Committed(st, NewView(st)) = st
<1> DEFINE v == NewView(st)
           s == Committed(st, v)
<1>1. v.spentBase = <<>> /\ v.created = <<>> /\ v.tokens = <<>> /\ v.pools = <<>>
  BY DEF NewView
<1> HIDE DEF v
<1>2. DOMAIN <<>> = {} /\ IsFcn(st.coins) /\ IsFcn(st.tokens) /\ IsFcn(st.pools)
  BY FcnFacts DEF GoodState
<1>3. \A f : IsFcn(f) => Over(f, <<>>) = f /\ Without(f, {}) = f
  BY <1>2 DEF IsFcn, Over, Without
<1>4. PoolsSet(st.pools, v.pools) = st.pools
  BY <1>1, <1>2, <1>3 DEF PoolsSet
<1>5. s = [coins |-> st.coins, tokens |-> st.tokens, pools |-> st.pools]
  BY <1>1, <1>2, <1>3, <1>4 DEF Committed
<1> QED BY <1>5 DEF GoodState, StateShape, v

\* A transaction that the mempool accepts.
LEMMA AcceptBalances ==
    ASSUME SharesApart, TokensApart, LedgerInv, PoolInv, MoneyInv, Len(pending) < MaxPending,
           NEW tx, tx.id = Txid(Len(pending) + 1), IsSeq(tx.outs),
           IsSeq(tx.ops), \A i \in DOMAIN tx.ops : Shaped(tx.ops[i]), Accept(tx)
    PROVE  MoneyInv'
<1> DEFINE n == Len(pending)
           h == Height + 1
           now == Committed(state, view)
           new == Committed(state, Applied(view, tx, h))
<1>1. /\ check_tx_basic(tx) /\ Applies(view, tx, h)
      /\ pending' = Append(pending, tx) /\ view' = Applied(view, tx, h)
      /\ state' = state /\ chain' = chain /\ supply' = supply /\ Height' = Height
  BY DEF Accept, Accepted, Height
<1>2. ChainOk /\ PendingOk /\ ChainSums /\ PendingSums /\ ViewOk(view, state) /\ IsSeq(pending)
  BY DEF LedgerInv, MoneyInv, PendingOk
<1>3. n \in Nat /\ Len(pending') = n + 1
  BY <1>1, <1>2, SeqShape
<1>4. /\ \A i : Txid(i)[1] = Height + 1
      /\ \A i, j : Txid(i) = Txid(j) => i = j
      /\ \A o \in DOMAIN state.coins : o[1][1] # Height + 1
      /\ \A o \in DOMAIN view.created : \E i \in 1..n : o[1] = Txid(i)
  BY <1>2, IdsApart
<1>5. \A o \in DOMAIN Outputs(tx, h) : o[1] = Txid(n + 1)
  <2>1. DOMAIN Outputs(tx, h) = {<<tx.id, k>> : k \in DOMAIN tx.outs}
    BY MadeFacts, Zenon
  <2> QED BY <2>1
<1>6. OpsFit(tx) /\ IsSeq(tx.ops) /\ RunOps(view, tx).ok /\ \A i \in DOMAIN tx.ins : HasCoin(view, tx.ins[i])
  BY <1>1 DEF OpsFit, check_tx_basic, Applies, InputOk
<1>7. Balanced(new) /\ Fee(view, tx) \in Nat /\ QntIn(new) = QntIn(now) - Fee(view, tx)
  <2>1. AllPoolsOk(state) /\ ChangedWell(view, state) /\ Balanced(now)
    BY <1>2 DEF PoolInv, PendingSums
  <2>2. DOMAIN view.created \intersect DOMAIN state.coins = {}
    BY <1>4
  <2>3. DOMAIN now.coins \subseteq DOMAIN state.coins \union DOMAIN view.created
    BY DEF Committed, Over, Without
  <2>4. DOMAIN now.coins \intersect DOMAIN Outputs(tx, h) = {}
    <3>1. ASSUME NEW o, o \in DOMAIN now.coins, o \in DOMAIN Outputs(tx, h) PROVE FALSE
      <4>1. o[1] = Txid(n + 1)
        BY <1>5, <3>1
      <4>2. CASE o \in DOMAIN state.coins
        BY <1>4, <4>1, <4>2
      <4>3. CASE o \in DOMAIN view.created
        BY <1>3, <1>4, <4>1, <4>3
      <4> QED BY <2>3, <3>1, <4>2, <4>3
    <3> QED BY <3>1
  <2> HIDE DEF now, new, h
  <2> QED BY <1>1, <1>2, <1>6, <2>1, <2>2, <2>4, AppliedBalances DEF now, new
<1>8. QntIn(state) \in Nat /\ QntIn(now) \in Nat
  BY <1>2, SumsIn DEF ChainSums, PendingSums
<1>9. ASSUME NEW values, NEW owner PROVE FeesAhead(Coinbase(values, owner))'
  <2> DEFINE cb == Coinbase(values, owner)
             v0 == apply_coinbase(NewView(state), cb, h)
             fees == AppliedAll(v0, pending, h).fees
  <2>1. cb' = cb
    BY <1>1 DEF Coinbase, Txid
  <2>2. AppliedAll(v0, pending, h).view = apply_coinbase(view, cb, h)
    BY <1>2 DEF PendingOk, CoinbaseAhead
  <2>3. fees = QntIn(state) - QntIn(now)
    BY <1>2 DEF PendingSums, FeesAhead
  <2>4. \A k \in DOMAIN tx.ins : tx.ins[k] \notin DOMAIN Outputs(cb, h)
    <3> TAKE k \in DOMAIN tx.ins
    <3>1. tx.ins[k] \in DOMAIN view.created \/ tx.ins[k] \in DOMAIN state.coins
      BY <1>2, <1>6 DEF HasCoin, ViewOk
    <3>2. \A o \in DOMAIN Outputs(cb, h) : o[1] = Txid(0)
      BY CoinbaseApart
    <3>3. \A i \in 1..n : i # 0
      BY <1>3
    <3> QED BY <1>4, <3>1, <3>2, <3>3
  <2> HIDE DEF cb, v0, h, now, new
  <2>5. AppliedAll(v0, pending', h).fees = fees + Fee(apply_coinbase(view, cb, h), tx)
    <3>1. AppliedAll(v0, pending', h) = AppliedNext(AppliedAll(v0, pending, h), tx, h)
      BY <1>1, <1>2, AppliedAllGrows
    <3> QED BY <2>2, <3>1 DEF AppliedNext
  <2>6. Fee(apply_coinbase(view, cb, h), tx) = Fee(view, tx)
    BY <1>2, <2>4, FeeBesideCoinbase
  <2>7. AppliedAll(v0, pending', h).fees = QntIn(state) - QntIn(new)
    BY <1>7, <1>8, <2>3, <2>5, <2>6
  <2>8. v0 = apply_coinbase(NewView(state'), cb, Height' + 1) /\ h = Height' + 1
    BY <1>1 DEF v0, h
  <2>9. new = Committed(state', view')
    BY <1>1 DEF new
  <2>10. QntIn(state)' = QntIn(state) /\ QntIn(Committed(state, view))' = QntIn(new)
    BY <1>1, <2>9
  <2>11. FeesAhead(cb)'
    BY <1>1, <2>1, <2>7, <2>8, <2>10 DEF FeesAhead
  <2> QED BY <2>11 DEF cb
<1>10. PendingSums'
  <2>1. Balanced(Committed(state, view))'
    BY <1>1, <1>7
  <2>2. Len(pending') <= MaxPending
    BY <1>3, HeightsAssumption
  <2> QED BY <1>9, <2>1, <2>2 DEF PendingSums
<1>11. ChainSums'
  BY <1>1, <1>2 DEF ChainSums, BlockSums, StateAfter, MintedBy
<1> QED BY <1>10, <1>11 DEF MoneyInv

\* The fields of a coinbase.
LEMMA CoinbaseParts ==
    ASSUME NEW values, IsSeq(values), NEW owner
    PROVE  /\ Coinbase(values, owner).ops = <<>> /\ Coinbase(values, owner).ins = <<>>
           /\ IsSeq(Coinbase(values, owner).outs)
<1> DEFINE outs == [i \in DOMAIN values |-> Pay(owner, QNT, values[i])]
<1>1. Len(values) \in Nat /\ DOMAIN values = 1..Len(values)
  BY SeqShape
<1>2. IsSeq(outs)
  BY <1>1 DEF IsSeq, Range
<1> QED BY <1>2 DEF Coinbase

\* The mempool after a block came or went.
LEMMA NewPendingSums ==
    ASSUME Balanced(state'), \E height : GoodState(state', height),
           pending' = <<>>, view' = NewView(state')
    PROVE  PendingSums'
<1> DEFINE s == state'
<1>1. Committed(s, NewView(s)) = s
  <2> PICK height : GoodState(s, height)
    OBVIOUS
  <2> QED BY NothingPending
<1>2. Balanced(Committed(state, view))' /\ Committed(state, view)' = state'
  BY <1>1
<1>3. Len(pending') <= MaxPending
  BY NewViewOk, HeightsAssumption
<1>4. QntIn(s) \in Nat
  BY SumsIn
<1>5. ASSUME NEW values, NEW owner PROVE FeesAhead(Coinbase(values, owner))'
  <2>1. AppliedAll(apply_coinbase(NewView(state), Coinbase(values, owner), Height + 1), pending, Height + 1).fees' = 0
    BY NoFees
  <2>2. QntIn(Committed(state, view))' = QntIn(state)'
    BY <1>2
  <2>3. QntIn(state)' \in Nat
    BY <1>4
  <2> QED BY <2>1, <2>2, <2>3 DEF FeesAhead
<1> QED BY <1>2, <1>3, <1>5 DEF PendingSums

\* A new block adds its coinbase, less the fees.
LEMMA ConnectBalances ==
    ASSUME SharesApart, LedgerInv, PoolInv, MoneyInv,
           NEW values, IsSeq(values), NEW owner, ConnectBlock(values, owner)
    PROVE  MoneyInv'
<1> DEFINE h == Height
           cb == Coinbase(values, owner)
           run == AppliedAll(apply_coinbase(NewView(state), cb, h + 1), pending, h + 1)
           b == [txs |-> <<cb>> \o pending, fees |-> run.fees, undo |-> UndoOf(run.view), before |-> state]
           now == Committed(state, view)
           minted == ValueIn(cb.outs, QNT)
<1>1. /\ h < MaxHeight /\ check_tx_basic(cb) /\ ~ PaysTooMuch(cb, run.fees)
      /\ state' = Committed(state, run.view) /\ supply' = SupplyAfter(state')
      /\ chain' = Append(chain, b) /\ pending' = <<>> /\ view' = NewView(state')
  BY Zenon DEF ConnectBlock
<1>2. ChainOk /\ PendingOk /\ CacheOk(emission) /\ ChainSums /\ PendingSums /\ ViewOk(view, state)
  BY DEF LedgerInv, MoneyInv, PendingOk
<1>3. h \in Nat /\ IsSeq(chain) /\ IsSeq(pending)
  BY <1>2, SeqShape DEF ChainOk, PendingOk, Height
<1>4. /\ run.view = apply_coinbase(view, cb, h + 1)
      /\ run.fees = QntIn(state) - QntIn(now)
  BY <1>2 DEF PendingOk, CoinbaseAhead, PendingSums, FeesAhead
<1>5. cb.ops = <<>> /\ cb.ins = <<>> /\ IsSeq(cb.outs)
  BY CoinbaseParts
<1>6. \A o \in DOMAIN Outputs(cb, h + 1) : o[1] = Txid(0)
  BY CoinbaseApart
<1> HIDE DEF cb, now, run, b
<1>7. Balanced(state') /\ minted \in Nat /\ QntIn(state') = QntIn(now) + minted
  <2>1. AllPoolsOk(state) /\ ChangedWell(view, state) /\ Balanced(now)
    BY <1>2 DEF PoolInv, PendingSums, now
  <2>2. \A i \in DOMAIN cb.outs : OutputOk(cb, cb.outs[i]) /\ cb.outs[i].asset = QNT
    <3>1. is_coinbase(cb)
      BY <1>5 DEF is_coinbase
    <3> QED BY <1>1, <3>1 DEF check_tx_basic, OutputOk
  <2>3. DOMAIN now.coins \subseteq DOMAIN state.coins \union DOMAIN view.created
    BY DEF Committed, Over, Without, now
  <2>4. DOMAIN now.coins \intersect DOMAIN Outputs(cb, h + 1) = {}
    <3>1. /\ \A i : Txid(i)[1] = Height + 1
          /\ \A i, j : Txid(i) = Txid(j) => i = j
          /\ \A o \in DOMAIN state.coins : o[1][1] # Height + 1
          /\ \A o \in DOMAIN view.created : \E i \in 1..Len(pending) : o[1] = Txid(i)
      BY <1>2, IdsApart
    <3>2. Len(pending) \in Nat
      BY <1>3, SeqShape
    <3>3. ASSUME NEW o, o \in DOMAIN now.coins, o \in DOMAIN Outputs(cb, h + 1) PROVE FALSE
      <4>1. o[1] = Txid(0)
        BY <1>6, <3>3
      <4>2. CASE o \in DOMAIN state.coins
        BY <3>1, <4>1, <4>2
      <4>3. CASE o \in DOMAIN view.created
        BY <3>1, <3>2, <4>1, <4>3
      <4> QED BY <2>3, <3>3, <4>2, <4>3
    <3> QED BY <3>3
  <2>5. state' = Committed(state, apply_coinbase(view, cb, h + 1))
    BY <1>1, <1>4
  <2>6. now = Committed(state, view)
    BY DEF now
  <2> DEFINE new == state'
  <2> HIDE DEF h, new
  <2>7. Balanced(new) /\ minted \in Nat /\ QntIn(new) = QntIn(now) + minted
    BY <1>2, <1>5, <2>1, <2>2, <2>4, <2>5, <2>6, CoinbaseBalances DEF new
  <2> QED BY <2>7 DEF new
<1>8. QntIn(state) \in Nat /\ QntIn(now) \in Nat /\ QntIn(state') \in Nat
  BY <1>2, <1>7, SumsIn DEF ChainSums, PendingSums, now
<1>9. run.fees \in Int /\ QntIn(state') = QntIn(state) + minted - run.fees
  BY <1>4, <1>7, <1>8
<1>10. minted < AmountLimit => minted <= subsidy_after(IssuedBy[h]) + run.fees
  <2>1. HAVE minted < AmountLimit
  <2>2. total_qnt_out(cb) = minted
    BY <1>7, <2>1, WrapAdds DEF total_qnt_out
  <2>3. block_subsidy(emission, h + 1) = subsidy_after(IssuedBy[h])
    <3>1. issued_through(emission, h) = IssuedBy[h]
      BY <1>2, <1>3, IssuedThroughExact
    <3>2. h + 1 # 0 /\ (h + 1) - 1 = h
      BY <1>3
    <3> QED BY <3>1, <3>2 DEF block_subsidy
  <2>4. ~ (minted > subsidy_after(IssuedBy[h]) + run.fees)
    BY <1>1, <2>2, <2>3 DEF PaysTooMuch
  <2>5. subsidy_after(IssuedBy[h]) \in Nat
    BY <1>3, SubsidyFacts, IssuedFacts
  <2> QED BY <1>7, <1>9, <2>4, <2>5
<1>11. supply' = Wrap(QntIn(state'))
  <2>1. supply = Wrap(QntIn(state))
    BY <1>2 DEF ChainSums
  <2> QED BY <1>1, <1>8, <2>1, WrapAdds DEF SupplyAfter
<1>12. /\ IsSeq(chain') /\ Height' = h + 1 /\ chain'[h + 1] = b
       /\ \A i \in 1..h : chain'[i] = chain[i]
  BY <1>1, <1>3, SeqShape DEF Height
<1>13. MintedBy(b) = minted /\ b.fees = run.fees /\ b.before = state
  <2>1. (<<cb>> \o pending)[1] = cb
    BY <1>3, SeqShape
  <2> QED BY <2>1 DEF MintedBy, b
<1>14. \A i \in 0..h : StateAfter(i)' = StateAfter(i)
  <2> TAKE i \in 0..h
  <2>1. i # Height' /\ StateAfter(i)' = chain'[i + 1].before
    BY <1>3, <1>12 DEF StateAfter
  <2>2. CASE i = h
    BY <1>12, <1>13, <2>1, <2>2 DEF StateAfter, h
  <2>3. CASE i # h
    <3>1. i + 1 \in 1..h
      BY <1>3, <2>3
    <3> QED BY <1>12, <2>1, <2>3, <3>1 DEF StateAfter, h
  <2> QED BY <2>2, <2>3
<1>15. \E height : GoodState(state', height)
  <2>1. ChainOk'
    BY ConnectKeeps DEF LedgerInv
  <2> QED BY <2>1 DEF ChainOk
<1>16. PendingSums'
  BY <1>1, <1>7, <1>15, NewPendingSums
<1>17. ASSUME NEW i \in 1..h + 1 PROVE Balanced(chain'[i].before) /\ BlockSums(i)'
  <2>1. CASE i = h + 1
    <3>1. StateAfter(i)' = state' /\ i - 1 = h /\ chain'[i] = b
      BY <1>3, <1>12, <2>1 DEF StateAfter
    <3>2. Balanced(b.before)
      BY <1>2, <1>13 DEF ChainSums
    <3>3. BlockSums(i)'
      <4>1. chain'[i].fees = run.fees /\ chain'[i].before = state /\ MintedBy(chain'[i]) = minted
        BY <1>13, <3>1
      <4>2. QntIn(StateAfter(i))' = QntIn(state')
        BY <3>1
      <4> HIDE DEF minted
      <4> QED BY <1>7, <1>9, <1>10, <3>1, <4>1, <4>2 DEF BlockSums
    <3> QED BY <3>1, <3>2, <3>3
  <2>2. CASE i # h + 1
    <3>1. i \in 1..h /\ i \in 0..h
      BY <1>3, <2>2
    <3>2. chain'[i] = chain[i] /\ StateAfter(i)' = StateAfter(i)
      BY <1>12, <1>14, <3>1
    <3>3. Balanced(chain[i].before) /\ BlockSums(i)
      BY <1>2, <3>1 DEF ChainSums, h
    <3>4. QntIn(StateAfter(i))' = QntIn(StateAfter(i))
      BY <3>2
    <3>5. BlockSums(i)'
      BY <3>2, <3>3, <3>4 DEF BlockSums
    <3> QED BY <3>2, <3>3, <3>5
  <2> QED BY <2>1, <2>2
<1>18. ChainSums'
  <2>1. Height' <= MaxHeight
    BY <1>1, <1>3, <1>12, HeightsAssumption
  <2>2. QntIn(StateAfter(0))' = 0
    <3>1. 0 \in 0..h
      BY <1>3
    <3>2. QntIn(StateAfter(0))' = QntIn(StateAfter(0))
      BY <1>14, <3>1
    <3> QED BY <1>2, <3>2 DEF ChainSums
  <2>3. Balanced(state)' /\ supply' = Wrap(QntIn(state))'
    BY <1>7, <1>11
  <2> QED BY <1>12, <1>17, <2>1, <2>2, <2>3 DEF ChainSums
<1> QED BY <1>16, <1>18 DEF MoneyInv

\* The last block is taken back.
LEMMA DisconnectBalances ==
    ASSUME LedgerInv, MoneyInv, DisconnectTip
    PROVE  MoneyInv'
<1> DEFINE h == Height
<1>1. /\ h > 0 /\ supply' = SupplyAfter(state') /\ chain' = Front(chain)
      /\ pending' = <<>> /\ view' = NewView(state')
  BY Zenon DEF DisconnectTip
<1>2. ChainOk /\ ChainSums /\ LedgerInv' /\ state' = Last(chain).before
  BY DisconnectKeeps DEF LedgerInv, MoneyInv
<1>3. h \in Nat /\ IsSeq(chain)
  BY <1>2, SeqShape DEF ChainOk, Height
<1>4. /\ Height' = h - 1 /\ Last(chain) = chain[h]
      /\ \A i \in 1..h - 1 : chain'[i] = chain[i]
  BY <1>1, <1>3, SeqShape DEF Height
<1>5. h \in 1..h /\ state' = chain[h].before
  BY <1>1, <1>2, <1>3, <1>4
<1>6. Balanced(state')
  BY <1>2, <1>5 DEF ChainSums
<1>7. PendingSums'
  <2>1. \E height : GoodState(state', height)
    BY <1>2 DEF LedgerInv, ChainOk
  <2> QED BY <1>1, <1>6, <2>1, NewPendingSums
<1>8. \A i \in 0..h - 1 : StateAfter(i)' = StateAfter(i)
  <2> TAKE i \in 0..h - 1
  <2>1. i # h /\ StateAfter(i) = chain[i + 1].before
    BY <1>3 DEF StateAfter
  <2>2. CASE i = h - 1
    <3>1. i + 1 = h /\ StateAfter(i)' = state'
      BY <1>3, <1>4, <2>2 DEF StateAfter
    <3> QED BY <1>5, <2>1, <3>1
  <2>3. CASE i # h - 1
    <3>1. i + 1 \in 1..h - 1 /\ StateAfter(i)' = chain'[i + 1].before
      BY <1>3, <1>4, <2>3 DEF StateAfter
    <3> QED BY <1>4, <2>1, <3>1
  <2> QED BY <2>2, <2>3
<1>9. supply' = Wrap(QntIn(state'))
  <2>1. supply = Wrap(QntIn(state)) /\ QntIn(state) \in Nat /\ QntIn(state') \in Nat
    BY <1>2, <1>6, SumsIn DEF ChainSums
  <2> QED BY <1>1, <2>1, WrapAdds DEF SupplyAfter
<1>10. ASSUME NEW i \in 1..h - 1 PROVE Balanced(chain'[i].before) /\ BlockSums(i)'
  <2>1. i \in 1..h /\ i \in 0..h - 1
    BY <1>3
  <2>2. chain'[i] = chain[i] /\ StateAfter(i)' = StateAfter(i)
    BY <1>4, <1>8, <2>1
  <2>3. Balanced(chain[i].before) /\ BlockSums(i)
    BY <1>2, <2>1 DEF ChainSums
  <2>4. QntIn(StateAfter(i))' = QntIn(StateAfter(i))
    BY <2>2
  <2>5. BlockSums(i)'
    BY <2>2, <2>3, <2>4 DEF BlockSums
  <2> QED BY <2>2, <2>3, <2>5
<1>11. ChainSums'
  <2>1. Height' <= MaxHeight
    BY <1>2, <1>3, <1>4, HeightsAssumption DEF ChainSums
  <2>2. QntIn(StateAfter(0))' = 0
    <3>1. 0 \in 0..h - 1
      BY <1>1, <1>3
    <3>2. QntIn(StateAfter(0))' = QntIn(StateAfter(0))
      BY <1>8, <3>1
    <3> QED BY <1>2, <3>2 DEF ChainSums
  <2>3. Balanced(state)' /\ supply' = Wrap(QntIn(state))'
    BY <1>6, <1>9
  <2> QED BY <1>4, <1>10, <2>1, <2>2, <2>3 DEF ChainSums
<1> QED BY <1>7, <1>11 DEF MoneyInv

\* At first there is nothing.
LEMMA MoneyInit ==
    ASSUME Init
    PROVE  MoneyInv
<1>1. /\ state.coins = <<>> /\ state.tokens = <<>> /\ state.pools = <<>> /\ supply = 0
      /\ chain = <<>> /\ pending = <<>> /\ view = NewView(state)
  BY DEF Init
<1>2. DOMAIN <<>> = {} /\ Height = 0 /\ Len(<<>>) = 0
  BY <1>1, FcnFacts, NewViewOk DEF Height
<1>3. Balanced(state)
  <2>1. IsFiniteSet({})
    BY FS_EmptySet
  <2>2. CoinsPositive(state.coins) /\ CoinsKnown(state)
    BY <1>1, <1>2, <2>1 DEF CoinsPositive, Counted, CoinsKnown
  <2> QED BY <1>1, <1>2, <2>1, <2>2 DEF Balanced, TokensBalanced, SharesBalanced
<1>4. QntIn(state) = 0
  <2>1. CoinSum(state.coins, QNT) = 0
    <3>1. Counted(state.coins)
      BY <1>3 DEF Balanced, CoinsPositive
    <3> QED BY <1>1, <1>2, <3>1, CoinSumFacts
  <2>2. PoolSum(state.pools) = 0
    <3> DEFINE f == [t \in DOMAIN state.pools |-> state.pools[t].qnt]
    <3>1. IsFiniteSet({}) /\ DOMAIN state.pools = {}
      BY <1>1, <1>2, FS_EmptySet
    <3> HIDE DEF f
    <3>2. SumFunctionOnSet(f, {}) = 0
      BY <3>1, SumNatural
    <3> QED BY <3>1, <3>2 DEF f, PoolSum
  <2> QED BY <2>1, <2>2, SumsIn
<1>5. ChainSums
  <2>1. Wrap(0) = 0
    <3>1. AmountLimit \in Nat \ {0}
      <4>1. WIDTH \in 0..2 * WIDTH
        BY AmmAssumption
      <4> QED BY <4>1, AmmAssumption DEF AmountLimit
    <3> QED BY <3>1, WrapAdds
  <2>2. StateAfter(0) = state
    BY <1>2 DEF StateAfter
  <2>3. \A i \in 1..0 : FALSE
    OBVIOUS
  <2> QED BY <1>1, <1>2, <1>3, <1>4, <2>1, <2>2, <2>3, HeightsAssumption DEF ChainSums
<1>6. PendingSums
  <2>1. GoodState(state, 0)
    <3>1. ChainOk
      BY LedgerInit DEF LedgerInv
    <3> QED BY <1>2, <3>1 DEF ChainOk
  <2>2. Committed(state, view) = state
    BY <1>1, <2>1, NothingPending
  <2>3. \A values, owner : FeesAhead(Coinbase(values, owner))
    BY <1>1, <1>4, <2>2, NoFees DEF FeesAhead
  <2> QED BY <1>1, <1>2, <1>3, <2>2, <2>3, HeightsAssumption DEF PendingSums
<1> QED BY <1>5, <1>6 DEF MoneyInv

\* Every step keeps the sums.
LEMMA MoneyStep ==
    ASSUME SharesApart, TokensApart, LedgerInv, PoolInv, MoneyInv, [Next]_vars
    PROVE  MoneyInv'
<1>1. \A tx : /\ WithId(tx).id = Txid(Len(pending) + 1)
              /\ WithId(tx).ops = tx.ops /\ WithId(tx).outs = tx.outs
  BY DEF WithId
<1>2. ASSUME NEW plan \in Plans, SendPlan(plan) PROVE MoneyInv'
  <2> DEFINE b == build(Me, Spendable, plan)
  <2>1. b.ok /\ Accept(WithId(b.tx)) /\ Room
    BY <1>2, Zenon DEF SendPlan
  <2>2. /\ FewOuts(plan.outs) /\ OneAtMost(plan.ops)
        /\ IsSeq(plan.ops) /\ \A i \in DOMAIN plan.ops : Shaped(plan.ops[i])
    BY PlanShape, PlanOps
  <2>3. b.tx.ops = plan.ops
    BY <2>1, BuiltOps
  <2>4. IsSeq(b.tx.outs)
    BY <2>1, <2>2, BuiltOuts
  <2>5. Len(pending) < MaxPending
    BY <2>1 DEF Room
  <2> HIDE DEF b
  <2> DEFINE tx == WithId(b.tx)
  <2>6. /\ tx.id = Txid(Len(pending) + 1) /\ IsSeq(tx.outs) /\ Accept(tx)
        /\ IsSeq(tx.ops) /\ \A i \in DOMAIN tx.ops : Shaped(tx.ops[i])
    BY <1>1, <2>1, <2>2, <2>3, <2>4
  <2> HIDE DEF tx
  <2> QED BY <2>5, <2>6, AcceptBalances
<1>3. ASSUME NEW o, NEW d, PassOn(o, d) PROVE MoneyInv'
  <2> DEFINE c == CoinOf(view, o).out
             tx == [ins |-> <<o>>, ops |-> <<>>, outs |-> <<Pay(You, c.asset, c.value + d)>>]
  <2>1. Accept(WithId(tx)) /\ Room
    BY <1>3, Zenon DEF PassOn
  <2>2. tx.ops = <<>> /\ IsSeq(tx.outs)
    BY ShortIsSeq
  <2>3. Len(pending) < MaxPending
    BY <2>1 DEF Room
  <2> HIDE DEF tx
  <2>4. IsSeq(tx.ops) /\ \A i \in DOMAIN tx.ops : Shaped(tx.ops[i])
    BY <2>2, ShortIsSeq, FcnFacts
  <2> QED BY <1>1, <2>1, <2>2, <2>3, <2>4, AcceptBalances
<1>4. ASSUME MineBlock PROVE MoneyInv'
  <2>1. \E x : ConnectBlock(<<x>>, Me)
    BY <1>4, Zenon DEF MineBlock
  <2>2. PICK x : ConnectBlock(<<x>>, Me)
    BY <2>1
  <2>3. IsSeq(<<x>>)
    BY ShortIsSeq
  <2> QED BY <2>2, <2>3, ConnectBalances
<1>5. ASSUME OthersBlock PROVE MoneyInv'
  <2>1. PICK values \in CoinbaseValues : ConnectBlock(values, You)
    BY <1>5, Zenon DEF OthersBlock
  <2>2. values \in Seq(Nat)
    BY CoinbaseAssumption
  <2>3. IsSeq(values)
    BY <2>2 DEF IsSeq, Range
  <2> QED BY <2>1, <2>3, ConnectBalances
<1>6. ASSUME DisconnectTip PROVE MoneyInv'
  BY <1>6, DisconnectBalances
<1>7. ASSUME state' = state, supply' = supply, chain' = chain, pending' = pending, view' = view PROVE MoneyInv'
  <2>1. Height' = Height /\ \A i : Txid(i)' = Txid(i)
    BY <1>7 DEF Height, Txid
  <2>2. ChainSums'
    BY <1>7, <2>1 DEF MoneyInv, ChainSums, BlockSums, StateAfter, MintedBy
  <2>3. ASSUME NEW values, NEW owner PROVE FeesAhead(Coinbase(values, owner))'
    <3>1. Coinbase(values, owner)' = Coinbase(values, owner)
      BY <2>1 DEF Coinbase
    <3>2. FeesAhead(Coinbase(values, owner))
      BY DEF MoneyInv, PendingSums
    <3> DEFINE cb == Coinbase(values, owner)
    <3> HIDE DEF cb
    <3>3. FeesAhead(cb)'
      BY <1>7, <2>1, <3>1, <3>2 DEF FeesAhead, cb
    <3> QED BY <3>3 DEF cb
  <2>4. PendingSums'
    BY <1>7, <2>3 DEF MoneyInv, PendingSums
  <2> QED BY <2>2, <2>4 DEF MoneyInv
<1>8. ASSUME NEW h, GetEmission(h) PROVE MoneyInv'
  BY <1>7, <1>8 DEF GetEmission
<1>9. ASSUME UNCHANGED vars PROVE MoneyInv'
  BY <1>7, <1>9 DEF vars
<1>10. ASSUME NEW tx \in Foreign, ForeignTx(tx) PROVE MoneyInv'
  <2>1. Accept(WithId(tx)) /\ Len(pending) < MaxPending
    BY <1>10 DEF ForeignTx, Room
  <2>2. IsSeq(tx.outs) /\ IsSeq(tx.ops) /\ \A i \in DOMAIN tx.ops : Shaped(tx.ops[i])
    BY ReadTx
  <2> QED BY <1>1, <2>1, <2>2, AcceptBalances
<1> QED BY <1>2, <1>3, <1>4, <1>5, <1>6, <1>8, <1>9, <1>10 DEF Next

\* What the blocks have added, one after another.
LEMMA BlocksAdded ==
    ASSUME LedgerInv, MoneyInv
    PROVE  /\ QntIn(state) = Minted - Sum(chain, LAMBDA b : b.fees)
           /\ SumsExact => QntIn(state) <= IssuedBy[Height]
<1> DEFINE n == Height
           m == [i \in DOMAIN chain |-> MintedBy(chain[i])]
           f == [i \in DOMAIN chain |-> chain[i].fees]
           S == 1..n
           Q(i) == QntIn(StateAfter(i))
<1>1. n \in Nat /\ DOMAIN chain = S
  BY SeqShape DEF LedgerInv, ChainOk, Height
<1>2. /\ Balanced(state) /\ Q(0) = 0
      /\ \A i \in S : Balanced(chain[i].before) /\ BlockSums(i)
  BY DEF MoneyInv, ChainSums
<1>3. \A i \in 0..n : Q(i) \in Nat
  <2> TAKE i \in 0..n
  <2>1. Balanced(StateAfter(i))
    <3>1. i # n => i + 1 \in S
      BY <1>1
    <3> QED BY <1>2, <3>1 DEF StateAfter
  <2> QED BY <2>1, SumsIn
<1>4. \A i \in S : /\ m[i] \in Nat /\ f[i] \in Int
                   /\ Q(i) = Q(i - 1) + m[i] - f[i]
                   /\ m[i] < AmountLimit => m[i] <= subsidy_after(IssuedBy[i - 1]) + f[i]
  <2> TAKE i \in S
  <2>1. StateAfter(i - 1) = chain[i].before
    <3>1. i - 1 # Height /\ (i - 1) + 1 = i
      BY <1>1
    <3> QED BY <3>1 DEF StateAfter
  <2> QED BY <1>1, <1>2, <2>1 DEF BlockSums
<1>5. Numbers(m, S) /\ Numbers(f, S)
  <2>1. IsFiniteSet(S)
    BY <1>1, FS_Interval
  <2> HIDE DEF m, f
  <2>2. \A i \in S : m[i] \in Int /\ f[i] \in Int
    BY <1>4
  <2> QED BY <2>1, <2>2 DEF Numbers
<1>6. Minted = SumFunctionOnSet(m, S) /\ Sum(chain, LAMBDA b : b.fees) = SumFunctionOnSet(f, S)
  BY <1>1 DEF Minted, Sum, SumFunction
<1>7. SumsExact => \A i \in S : m[i] < AmountLimit
  BY <1>1 DEF SumsExact
<1>8. Q(n) = QntIn(state)
  BY DEF StateAfter
<1> HIDE DEF m, f, Q, n
<1> DEFINE M(i) == SumFunctionOnSet(m, 1..i)
           F(i) == SumFunctionOnSet(f, 1..i)
           T == {i \in 0..n : Q(i) = M(i) - F(i)}
           U == {i \in 0..n : Q(i) <= IssuedBy[i]}
<1>9. M(0) = 0 /\ F(0) = 0
  <2>1. 1..0 = {}
    OBVIOUS
  <2> QED BY <1>5, <2>1, SumTaken
<1>10. \A i \in S : M(i) \in Int /\ F(i) \in Int /\ M(i - 1) \in Int /\ F(i - 1) \in Int
                    /\ M(i) = m[i] + M(i - 1) /\ F(i) = f[i] + F(i - 1)
  <2> TAKE i \in S
  <2>1. /\ 1..i \in SUBSET S /\ 1..i - 1 \in SUBSET S /\ i \in 1..i
        /\ (1..i) \ {i} = 1..i - 1
    BY <1>1
  <2> HIDE DEF S
  <2> QED BY <1>5, <2>1, SumTaken
<1>11. \A i \in 0..n : i < n => i + 1 \in S /\ (i + 1) - 1 = i /\ i + 1 \in 0..n
  BY <1>1
<1> HIDE DEF S, M, F
<1>12. n \in T
  <2>1. T \in SUBSET Nat /\ 0 \in T
    BY <1>1, <1>2, <1>9
  <2>2. ASSUME NEW i \in 0..n, i \in T, i < n PROVE i + 1 \in T
    <3>1. i + 1 \in S /\ (i + 1) - 1 = i /\ i + 1 \in 0..n
      BY <1>11, <2>2
    <3>2. /\ Q(i + 1) = Q(i) + m[i + 1] - f[i + 1]
          /\ M(i + 1) = m[i + 1] + M(i) /\ F(i + 1) = f[i + 1] + F(i)
          /\ m[i + 1] \in Nat /\ f[i + 1] \in Int /\ M(i) \in Int /\ F(i) \in Int
      BY <1>4, <1>10, <3>1
    <3> QED BY <2>2, <3>1, <3>2
  <2> HIDE DEF T
  <2>3. n \in 0..n
    BY <1>1
  <2> QED BY <1>1, <2>1, <2>2, <2>3, Upward
<1>13. SumsExact => n \in U
  <2> HAVE SumsExact
  <2>1. T \in SUBSET Nat /\ U \in SUBSET Nat /\ 0 \in U
    BY <1>1, <1>2, IssuedFacts
  <2>2. ASSUME NEW i \in 0..n, i \in U, i < n PROVE i + 1 \in U
    <3>1. i + 1 \in S /\ (i + 1) - 1 = i /\ i + 1 \in 0..n /\ i \in Nat
      BY <1>1, <1>11, <2>2
    <3>2. /\ Q(i + 1) = Q(i) + m[i + 1] - f[i + 1] /\ Q(i) \in Nat /\ Q(i) <= IssuedBy[i]
          /\ m[i + 1] <= subsidy_after(IssuedBy[i]) + f[i + 1]
          /\ m[i + 1] \in Nat /\ f[i + 1] \in Int
      BY <1>3, <1>4, <1>7, <2>2, <3>1
    <3>3. /\ IssuedBy[i + 1] = IssuedBy[i] + subsidy_after(IssuedBy[i])
          /\ IssuedBy[i] \in Nat /\ subsidy_after(IssuedBy[i]) \in Nat
      BY <3>1, IssuedFacts, SubsidyFacts DEF Paid
    <3> QED BY <3>1, <3>2, <3>3
  <2> HIDE DEF U
  <2>3. n \in 0..n
    BY <1>1
  <2> QED BY <1>1, <2>1, <2>2, <2>3, Upward
<1> QED BY <1>6, <1>8, <1>12, <1>13 DEF M, F, S, n

\* Then nothing is created or lost.
LEMMA MoneyConserved ==
    ASSUME LedgerInv, MoneyInv
    PROVE  Conserved
<1>1. /\ Balanced(state) /\ supply = Wrap(QntIn(state)) /\ Height <= MaxHeight
      /\ Len(pending) <= MaxPending /\ Height \in Nat
  BY SeqShape DEF MoneyInv, ChainSums, PendingSums, LedgerInv, ChainOk, Height
<1>2. TypeOK
  <2>1. QntIn(state) \in Nat
    BY <1>1, SumsIn
  <2>2. supply \in 0..AmountLimit - 1 /\ Height \in 0..MaxHeight
    BY <1>1, <2>1, WrapAdds, HeightsAssumption
  <2> QED BY <1>1, <2>2 DEF TypeOK, Balanced, CoinsPositive, Positive, SharesBalanced, InRange
<1>3. /\ \A t \in DOMAIN state.tokens : CoinsIn(state, t) + InPool(state, t) = state.tokens[t]
      /\ \A t \in DOMAIN state.pools : CoinsIn(state, ShareId(t)) + MIN_LIQUIDITY = state.pools[t].shares
  BY <1>1, SumsIn DEF Balanced, TokensBalanced, SharesBalanced
<1>4. QntIn(state) = Minted - Sum(chain, LAMBDA b : b.fees) /\ (SumsExact => QntIn(state) <= IssuedBy[Height])
  BY BlocksAdded
<1> QED BY <1>1, <1>2, <1>3, <1>4 DEF Conserved, InPool

\* Nothing is created or lost between coins, pools and fees, and no more is held
\* than has been issued, whatever transactions and blocks come and go, for every
\* width of an amount, emission and limit (ledger.cpp:266, chainstate.cpp:774).
\* The ids of tokens and shares are taken to differ from each other and from
\* QNT's: they are hashes (transaction.cpp:133).
THEOREM AlwaysConserved ==
    ASSUME SharesApart, TokensApart
    PROVE  Spec => []Conserved
<1>1. Init => PoolInv /\ MoneyInv
  BY PoolInit, MoneyInit
<1>2. LedgerInv /\ PoolInv /\ MoneyInv /\ [Next]_vars => PoolInv' /\ MoneyInv'
  BY PoolStep, MoneyStep
<1>3. LedgerInv /\ MoneyInv => Conserved
  BY MoneyConserved
<1> QED BY <1>1, <1>2, <1>3, LedgerAlwaysOk, PTL DEF Spec
====
