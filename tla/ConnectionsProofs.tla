-------------------------- MODULE ConnectionsProofs --------------------------
(***************************************************************************)
(* Connections between any number of nodes: no two links to one node, an   *)
(* address book that calls good only what was reached, and bans that hold. *)
(*                                                                         *)
(* Most steps only take from connections (an end is marked, or closed and  *)
(* its stream lost), which no part of the invariant minds: relation Loses. *)
(* What is left is the handshake, where the invariant says which messages  *)
(* can be under way in which states of the two ends (Handshake).           *)
(***************************************************************************)
EXTENDS Connections, FiniteSetTheorems, WellFoundedInduction, TLAPS

(***************************************************************************)
(* Numbers and folds                                                       *)
(***************************************************************************)
\* The smaller of two numbers.
LEMMA MinOfTwo ==
    ASSUME NEW x \in Nat, NEW y \in Nat
    PROVE  Min({x, y}) \in {x, y} /\ Min({x, y}) <= x /\ Min({x, y}) <= y
<1> DEFINE P(m) == m \in {x, y} /\ \A z \in {x, y} : m <= z
<1>1. P(x) \/ P(y)
  OBVIOUS
<1>2. P(CHOOSE m \in {x, y} : \A z \in {x, y} : m <= z)
  BY <1>1, Zenon
<1> QED BY <1>2 DEF Min

\* A set of numbers that is not empty has a least one: what an induction needs.
LEMMA LeastNumber ==
    ASSUME NEW T \in SUBSET Nat, T # {}
    PROVE  \E x \in T : \A y \in T : x <= y
<1> DEFINE R == OpToRel(<, Nat)
<1>1. IsWellFoundedOn(R, Nat)
  BY NatLessThanWellFounded, Zenon
<1>2. \A x, y \in Nat : y < x => <<y, x>> \in R
  BY DEF OpToRel
<1> HIDE DEF R
<1>3. PICK x \in T : \A y \in T : ~ (<<y, x>> \in R)
  BY <1>1, WFMin, Zenon
<1>4. ASSUME NEW y \in T PROVE x <= y
  <2>1. ~ (y < x) /\ x \in Nat /\ y \in Nat
    BY <1>2, <1>3
  <2> QED BY <2>1
<1> QED BY <1>4

\* The address that a fold takes out of a set, and one step of the fold.
Pick(s) == CHOOSE a \in s : TRUE
AddOne(acc, n, a) == AddAddr(acc, a = n /\ External(n), a, FALSE)

\* The fold of AddAll as a function on the subsets of as.
IsFold(g, bk, n, as) ==
    g = [s \in SUBSET as |-> IF s = {} THEN bk ELSE AddOne(g[s \ {Pick(s)}], n, Pick(s))]

\* Folding over a finite set of addresses is well-defined.
LEMMA FoldExists ==
    ASSUME NEW bk, NEW n, NEW as, IsFiniteSet(as)
    PROVE  \E g : IsFold(g, bk, n, as)
<1> DEFINE Next1(g, s) == IF s = {} THEN bk ELSE AddOne(g[s \ {Pick(s)}], n, Pick(s))
           Upto(g, k) == /\ g = [s \in SUBSET as |-> g[s]]
                         /\ \A s \in SUBSET as : Cardinality(s) <= k => g[s] = Next1(g, s)
           T == {k \in Nat : ~ \E g : Upto(g, k)}
<1>1. \A s \in SUBSET as : /\ IsFiniteSet(s) /\ Cardinality(s) \in Nat
                           /\ Cardinality(s) = 0 <=> s = {}
                           /\ Cardinality(s) <= Cardinality(as)
  BY FS_Subset, FS_CardinalityType, FS_EmptySet
<1>2. \A s \in SUBSET as : s # {} => /\ Pick(s) \in s /\ s \ {Pick(s)} \in SUBSET as
                                     /\ Cardinality(s \ {Pick(s)}) = Cardinality(s) - 1
  BY <1>1, FS_RemoveElement DEF Pick
<1>3. 0 \notin T
  <2> DEFINE g0 == [s \in SUBSET as |-> bk]
  <2>1. ASSUME NEW s \in SUBSET as, Cardinality(s) <= 0 PROVE s = {}
    <3>1. Cardinality(s) \in Nat /\ (Cardinality(s) = 0 <=> s = {})
      BY <1>1, Zenon
    <3> QED BY <2>1, <3>1
  <2>2. \A s \in SUBSET as : g0[s] = bk
    OBVIOUS
  <2>3. \A s \in SUBSET as : Cardinality(s) <= 0 => g0[s] = Next1(g0, s)
    BY <2>1, <2>2
  <2>4. g0 = [s \in SUBSET as |-> g0[s]]
    OBVIOUS
  <2>5. Upto(g0, 0)
    BY <2>3, <2>4
  <2> QED BY <2>5
<1>4. ASSUME NEW k \in Nat, k \notin T PROVE k + 1 \notin T
  <2>1. PICK g : Upto(g, k)
    BY <1>4
  <2> DEFINE h == [s \in SUBSET as |-> Next1(g, s)]
  <2>2. \A s \in SUBSET as : Cardinality(s) <= k => h[s] = g[s]
    BY <2>1
  <2>3. ASSUME NEW s \in SUBSET as, Cardinality(s) <= k + 1 PROVE h[s] = Next1(h, s)
    <3>1. CASE s = {}
      BY <3>1
    <3>2. CASE s # {}
      <4> DEFINE r == s \ {Pick(s)}
      <4>1. r \in SUBSET as /\ Cardinality(r) <= k
        <5>1. r \in SUBSET as /\ Cardinality(r) = Cardinality(s) - 1
          BY <1>2, <2>3, <3>2
        <5>2. Cardinality(s) \in Nat
          BY <1>1
        <5>3. \A c \in Nat : c <= k + 1 => c - 1 <= k
          OBVIOUS
        <5> HIDE DEF r
        <5> QED BY <2>3, <5>1, <5>2, <5>3, Zenon
      <4>2. h[r] = g[r]
        <5> HIDE DEF h, r
        <5> QED BY <2>2, <4>1
      <4>3. h[s] = AddOne(g[r], n, Pick(s))
        BY <3>2
      <4>4. Next1(h, s) = AddOne(h[r], n, Pick(s))
        BY <3>2, Zenon
      <4> QED BY <4>2, <4>3, <4>4, Zenon
    <3> QED BY <3>1, <3>2
  <2>4. h = [s \in SUBSET as |-> h[s]]
    OBVIOUS
  <2>5. Upto(h, k + 1)
    BY <2>3, <2>4
  <2> QED BY <2>5
<1>5. T = {}
  <2> SUFFICES ASSUME T # {} PROVE FALSE
    OBVIOUS
  <2>1. PICK k \in T : \A j \in T : k <= j
    BY LeastNumber
  <2> HIDE DEF T
  <2>2. T \subseteq Nat
    BY DEF T
  <2>3. k \in Nat /\ k # 0
    BY <1>3, <2>2
  <2>4. k - 1 \in Nat /\ k - 1 \notin T /\ (k - 1) + 1 = k
    BY <2>1, <2>3
  <2> QED BY <1>4, <2>4
<1>6. PICK g : Upto(g, Cardinality(as))
  BY <1>1, <1>5
<1>7. \A s \in SUBSET as : g[s] = Next1(g, s)
  BY <1>1, <1>6
<1>8. g = [s \in SUBSET as |-> Next1(g, s)]
  BY <1>6, <1>7
<1> QED BY <1>8 DEF IsFold

\* AddAll is the value of such a function at the whole set.
LEMMA AddAllIsFold ==
    ASSUME NEW bk, NEW n, NEW as, IsFiniteSet(as)
    PROVE  \E g : IsFold(g, bk, n, as) /\ AddAll(bk, n, as) = g[as]
<1> DEFINE g == CHOOSE f : IsFold(f, bk, n, as)
<1>1. IsFold(g, bk, n, as)
  BY FoldExists
<1>2. AddAll(bk, n, as) = g[as]
  BY Zenon DEF AddAll, FoldSet, MapThenFoldSet, IsFold, AddOne, Pick
<1> QED BY <1>1, <1>2

(***************************************************************************)
(* The address book                                                        *)
(***************************************************************************)
IsBook(bk) == DOMAIN bk \subseteq Addrs /\ \A a \in DOMAIN bk : bk[a] \in AddrInfo

\* No address has become good, and none that is new is.
NoneBetter(new, bk) == \A a \in DOMAIN new : new[a].ok => a \in DOMAIN bk /\ bk[a].ok

\* What is known of an address is typed, also when nothing is.
LEMMA InfoType ==
    ASSUME NEW bk, IsBook(bk), NEW a \in Addrs
    PROVE  Info(bk, a) \in AddrInfo /\ (Info(bk, a).ok => a \in DOMAIN bk /\ bk[a].ok)
BY ConnectionsAssumption DEF IsBook, Info, NewInfo, AddrInfo

\* Putting information that is not better than before.
LEMMA PutGood ==
    ASSUME NEW bk, IsBook(bk), NEW a \in Addrs, NEW info \in AddrInfo,
           info.ok => a \in DOMAIN bk /\ bk[a].ok
    PROVE  /\ IsBook(Put(bk, a, info)) /\ NoneBetter(Put(bk, a, info), bk)
           /\ DOMAIN Put(bk, a, info) = DOMAIN bk \union {a}
BY DEF IsBook, Put, NoneBetter

\* Forgetting an address keeps a book and makes nothing good.
LEMMA ForgetKeeps ==
    ASSUME NEW bk, IsBook(bk), NEW a
    PROVE  /\ IsBook(Forget(bk, a)) /\ NoneBetter(Forget(bk, a), bk)
           /\ DOMAIN Forget(bk, a) \subseteq DOMAIN bk
BY DEF IsBook, Forget, NoneBetter

\* What add_addr and connect_to do to an entry leaves whether it is good.
Noted(i, manual) == [i EXCEPT !.manual = @ \/ manual]
Counted(i, manual) == [i EXCEPT !.attempts = Min({MaxAttempts, @ + 1}), !.manual = @ \/ manual]
LEMMA TouchKeeps ==
    ASSUME NEW i \in AddrInfo, NEW manual \in BOOLEAN
    PROVE  /\ Noted(i, manual) \in AddrInfo /\ Noted(i, manual).ok = i.ok
           /\ Counted(i, manual) \in AddrInfo /\ Counted(i, manual).ok = i.ok
<1>1. PICK o \in BOOLEAN, t \in 0..MaxAttempts, m \in BOOLEAN :
         i = [ok |-> o, attempts |-> t, manual |-> m]
  BY DEF AddrInfo
<1>2. Min({MaxAttempts, t + 1}) \in 0..MaxAttempts
  <2>1. MaxAttempts \in Nat /\ t + 1 \in Nat
    BY ConnectionsAssumption
  <2> QED BY <2>1, MinOfTwo
<1>3. PICK b \in BOOLEAN : b = (i.manual \/ manual)
  OBVIOUS
<1>4. PICK c \in 0..MaxAttempts : c = Min({MaxAttempts, i.attempts + 1})
  BY <1>1, <1>2
<1>5. Noted(i, manual) = [i EXCEPT !.manual = b]
  BY <1>3, Zenon DEF Noted
<1>6. Counted(i, manual) = [i EXCEPT !.attempts = c, !.manual = b]
  BY <1>3, <1>4, Zenon DEF Counted
<1> QED BY <1>1, <1>5, <1>6 DEF AddrInfo

\* A step of dialling.
LEMMA TriedKeeps ==
    ASSUME NEW bk, IsBook(bk), NEW a \in Addrs, NEW manual \in BOOLEAN
    PROVE  IsBook(Tried(bk, a, manual)) /\ NoneBetter(Tried(bk, a, manual), bk)
<1> DEFINE i == Counted(Info(bk, a), manual)
<1>1. i \in AddrInfo /\ (i.ok => a \in DOMAIN bk /\ bk[a].ok)
  <2>1. Info(bk, a) \in AddrInfo /\ (Info(bk, a).ok => a \in DOMAIN bk /\ bk[a].ok)
    BY InfoType
  <2> QED BY <2>1, TouchKeeps
<1>2. Tried(bk, a, manual) = Put(bk, a, i)
  BY Zenon DEF Tried, Counted
<1> HIDE DEF i
<1>3. IsBook(Put(bk, a, i)) /\ NoneBetter(Put(bk, a, i), bk)
  BY <1>1, PutGood
<1> QED BY <1>2, <1>3

\* An address heard of.
LEMMA AddAddrKeeps ==
    ASSUME NEW bk, IsBook(bk), NEW e, NEW a \in Addrs, NEW manual \in BOOLEAN
    PROVE  /\ IsBook(AddAddr(bk, e, a, manual)) /\ NoneBetter(AddAddr(bk, e, a, manual), bk)
           /\ DOMAIN AddAddr(bk, e, a, manual) \subseteq DOMAIN bk \union {a}
<1> DEFINE i == Noted(Info(bk, a), manual)
           new == Put(bk, a, i)
<1>1. i \in AddrInfo /\ (i.ok => a \in DOMAIN bk /\ bk[a].ok)
  <2>1. Info(bk, a) \in AddrInfo /\ (Info(bk, a).ok => a \in DOMAIN bk /\ bk[a].ok)
    BY InfoType
  <2> QED BY <2>1, TouchKeeps
<1>2. AddAddr(bk, e, a, manual) \in {bk, new, Forget(new, Worst(new))}
  BY DEF AddAddr, Noted
<1> HIDE DEF i
<1>3. IsBook(new) /\ NoneBetter(new, bk) /\ DOMAIN new = DOMAIN bk \union {a}
  BY <1>1, PutGood
<1> HIDE DEF new
<1>4. /\ IsBook(Forget(new, Worst(new))) /\ NoneBetter(Forget(new, Worst(new)), new)
      /\ DOMAIN Forget(new, Worst(new)) \subseteq DOMAIN new
  BY <1>3, ForgetKeeps
<1>5. NoneBetter(bk, bk)
  BY DEF NoneBetter
<1>6. CASE AddAddr(bk, e, a, manual) = Forget(new, Worst(new))
  BY <1>3, <1>4, <1>6 DEF NoneBetter
<1> QED BY <1>2, <1>3, <1>5, <1>6

\* Addresses heard of: by induction over the fold.
LEMMA AddAllKeeps ==
    ASSUME NEW bk, IsBook(bk), NEW n, NEW as \in SUBSET Addrs
    PROVE  /\ IsBook(AddAll(bk, n, as)) /\ NoneBetter(AddAll(bk, n, as), bk)
           /\ DOMAIN AddAll(bk, n, as) \subseteq DOMAIN bk \union as
<1>1. IsFiniteSet(as)
  BY ConnectionsAssumption, FS_Union, FS_Subset DEF Addrs
<1>2. PICK g : IsFold(g, bk, n, as) /\ AddAll(bk, n, as) = g[as]
  BY <1>1, AddAllIsFold
<1> DEFINE Good(s) == /\ IsBook(g[s]) /\ NoneBetter(g[s], bk)
                      /\ DOMAIN g[s] \subseteq DOMAIN bk \union s
           T == {Cardinality(s) : s \in {r \in SUBSET as : ~ Good(r)}}
<1>3. \A s \in SUBSET as : g[s] = IF s = {} THEN bk ELSE AddOne(g[s \ {Pick(s)}], n, Pick(s))
  BY <1>2, Zenon DEF IsFold
<1>4. ASSUME NEW s \in SUBSET as, s # {}, Good(s \ {Pick(s)}) PROVE Good(s)
  <2> DEFINE a == Pick(s)
             h == g[s \ {a}]
  <2>1. a \in s /\ a \in Addrs
    BY <1>4 DEF Pick
  <2>2. IsBook(h) /\ NoneBetter(h, bk) /\ DOMAIN h \subseteq DOMAIN bk \union (s \ {a})
    BY <1>4
  <2> DEFINE own == a = n /\ External(n)
  <2>3. g[s] = AddAddr(h, own, a, FALSE)
    BY <1>3, <1>4 DEF AddOne
  <2>5. PICK e, f \in BOOLEAN : e = own /\ f = FALSE
    OBVIOUS
  <2>6. g[s] = AddAddr(h, e, a, f)
    BY <2>3, <2>5, Zenon
  <2> HIDE DEF a, h
  <2>4. /\ IsBook(g[s]) /\ NoneBetter(g[s], h) /\ DOMAIN g[s] \subseteq DOMAIN h \union {a}
    BY <2>1, <2>2, <2>6, AddAddrKeeps
  <2> QED BY <2>1, <2>2, <2>4 DEF NoneBetter
<1>5. Good({})
  <2>1. g[{}] = bk
    BY <1>3
  <2> QED BY <2>1 DEF NoneBetter
<1>6. T \subseteq Nat
  BY <1>1, FS_Subset, FS_CardinalityType
<1>7. T = {}
  <2> SUFFICES ASSUME T # {} PROVE FALSE
    OBVIOUS
  <2>1. PICK k \in T : \A j \in T : k <= j
    BY <1>6, LeastNumber
  <2>2. PICK s \in SUBSET as : ~ Good(s) /\ k = Cardinality(s)
    BY <2>1
  <2>3. s # {}
    BY <1>5, <2>2
  <2> DEFINE r == s \ {Pick(s)}
  <2>4. Pick(s) \in s /\ IsFiniteSet(s) /\ Cardinality(s) \in Nat
    BY <1>1, <2>3, FS_Subset, FS_CardinalityType DEF Pick
  <2>5. Cardinality(r) = Cardinality(s) - 1 /\ r \in SUBSET as
    BY <2>4, FS_RemoveElement
  <2>6. ~ Good(r)
    BY <1>4, <2>2, <2>3
  <2>7. Cardinality(r) \in T
    BY <2>5, <2>6
  <2>8. k <= k - 1 /\ k \in Nat
    BY <2>1, <2>2, <2>4, <2>5, <2>7
  <2> QED BY <2>8
<1>8. Good(as)
  BY <1>7
<1> QED BY <1>2, <1>8

(***************************************************************************)
(* Connections that lose something                                         *)
(***************************************************************************)
\* c2 is c with some ends marked and some closed.
Loses(c, c2) ==
    /\ c2.from = c.from /\ c2.to = c.to /\ c2.manual = c.manual /\ c2.inc = c.inc
    /\ \A d \in Sides :
          /\ \/ c2.st[d] = c.st[d] /\ c2.queue[d] = c.queue[d]
             \/ c2.st[d] = "none" /\ c2.queue[d] = <<>>
          /\ d \in c.closing /\ c2.st[d] # "none" => d \in c2.closing

IsConns(cs) == cs \in [Slots -> Connection \union {NoConn}]

\* All connections of cs2 are connections of cs that may have lost something.
Quiet(cs, cs2) == \A s \in Slots : cs2[s] # NoConn => cs[s] # NoConn /\ Loses(cs[s], cs2[s])

\* Losing twice is losing.
LEMMA LosesTwice ==
    ASSUME NEW b, NEW c, NEW d, Loses(b, c), Loses(c, d)
    PROVE  Loses(b, d)
<1>1. ASSUME NEW e \in Sides
      PROVE  /\ \/ d.st[e] = b.st[e] /\ d.queue[e] = b.queue[e]
                \/ d.st[e] = "none" /\ d.queue[e] = <<>>
             /\ e \in b.closing /\ d.st[e] # "none" => e \in d.closing
  BY DEF Loses
<1> QED BY <1>1 DEF Loses

\* The fields of a closed end.
LEMMA ClosedLoses ==
    ASSUME NEW c \in Connection, NEW d \in Sides
    PROVE  /\ Closed(c, d) \in Connection /\ Loses(c, Closed(c, d))
           /\ Closed(c, d).st[d] = "none"
<1>1. c.st \in [Sides -> EndStates] /\ c.queue \in [Sides -> Seq(Messages)] /\ c.closing \subseteq Sides
  BY DEF Connection
<1> DEFINE st == [c.st EXCEPT ![d] = "none"]
           qu == [c.queue EXCEPT ![d] = <<>>]
<1>2. st \in [Sides -> EndStates] /\ qu \in [Sides -> Seq(Messages)]
  BY <1>1 DEF EndStates
<1>3. Closed(c, d) = [from |-> c.from, to |-> c.to, manual |-> c.manual, inc |-> c.inc,
                      st |-> st, queue |-> qu, closing |-> c.closing \ {d}]
  <2>1. Closed(c, d) = [c EXCEPT !.st = st, !.queue = qu, !.closing = c.closing \ {d}]
    BY DEF Closed
  <2> HIDE DEF st, qu
  <2> QED BY <2>1 DEF Connection
<1>4. \A e \in Sides : /\ st[e] = IF e = d THEN "none" ELSE c.st[e]
                       /\ qu[e] = IF e = d THEN <<>> ELSE c.queue[e]
  BY <1>1
<1> HIDE DEF st, qu
<1>5. Closed(c, d) \in Connection
  BY <1>1, <1>2, <1>3 DEF Connection
<1>6. Loses(c, Closed(c, d)) /\ Closed(c, d).st[d] = "none"
  BY <1>3, <1>4 DEF Loses
<1> QED BY <1>5, <1>6

\* The same for several ends.
LEMMA ClosedAllLoses ==
    ASSUME NEW c \in Connection, NEW ds \in SUBSET Sides
    PROVE  /\ ClosedAll(c, ds) \in Connection /\ Loses(c, ClosedAll(c, ds))
           /\ \A d \in ds : ClosedAll(c, ds).st[d] = "none"
<1>1. CASE ds = {}
  BY <1>1 DEF ClosedAll, Loses
<1>2. CASE ds = Sides
  <2> DEFINE i == Closed(c, "in")
  <2>1. i \in Connection /\ Loses(c, i) /\ i.st["in"] = "none"
    BY ClosedLoses DEF Sides
  <2> HIDE DEF i
  <2>2. /\ Closed(i, "out") \in Connection /\ Loses(i, Closed(i, "out"))
        /\ Closed(i, "out").st["out"] = "none"
    BY <2>1, ClosedLoses DEF Sides
  <2>3. ClosedAll(c, ds) = Closed(i, "out")
    BY <1>2 DEF ClosedAll, Sides, i
  <2>4. Closed(i, "out").st["in"] = "none"
    BY <2>1, <2>2 DEF Loses, Sides
  <2> QED BY <1>2, <2>1, <2>2, <2>3, <2>4, LosesTwice DEF Sides
<1>3. CASE ds # {} /\ ds # Sides
  <2> DEFINE d == CHOOSE d \in ds : TRUE
  <2>1. d \in Sides /\ ds = {d}
    BY <1>3 DEF Sides
  <2>2. ClosedAll(c, ds) = Closed(c, d)
    BY <1>3 DEF ClosedAll
  <2> HIDE DEF d
  <2> QED BY <2>1, <2>2, ClosedLoses
<1> QED BY <1>1, <1>2, <1>3

\* Reaping only closes.
LEMMA ReapedQuiet ==
    ASSUME NEW cs, IsConns(cs), NEW n
    PROVE  IsConns(Reaped(cs, n)) /\ Quiet(cs, Reaped(cs, n))
<1> DEFINE ds(s) == {d \in cs[s].closing : Node(cs[s], d) = n}
<1>1. ASSUME NEW s \in Slots
      PROVE  /\ Reaped(cs, n)[s] \in Connection \union {NoConn}
             /\ Reaped(cs, n)[s] # NoConn => cs[s] # NoConn /\ Loses(cs[s], Reaped(cs, n)[s])
  <2>1. CASE cs[s] = NoConn
    BY <2>1 DEF Reaped
  <2>2. CASE cs[s] # NoConn
    <3>1. cs[s] \in Connection /\ ds(s) \in SUBSET Sides
      BY <2>2 DEF IsConns, Connection
    <3>2. ClosedAll(cs[s], ds(s)) \in Connection /\ Loses(cs[s], ClosedAll(cs[s], ds(s)))
      BY <3>1, ClosedAllLoses
    <3>3. Reaped(cs, n)[s] \in {NoConn, ClosedAll(cs[s], ds(s))}
      BY <2>2 DEF Reaped, OrNone
    <3> QED BY <2>2, <3>2, <3>3
  <2> QED BY <2>1, <2>2
<1>2. Reaped(cs, n) = [s \in Slots |-> Reaped(cs, n)[s]]
  BY DEF Reaped
<1> QED BY <1>1, <1>2 DEF IsConns, Quiet

\* Marking ends.
LEMMA MarkedQuiet ==
    ASSUME IsConns(conn), NEW ends
    PROVE  /\ IsConns(MarkedEnds(ends)) /\ Quiet(conn, MarkedEnds(ends))
           /\ \A s \in Slots, d \in Sides : <<s, d>> \in ends /\ conn[s] # NoConn
                                            => d \in MarkedEnds(ends)[s].closing
<1>1. ASSUME NEW s \in Slots
      PROVE  /\ MarkedEnds(ends)[s] \in Connection \union {NoConn}
             /\ MarkedEnds(ends)[s] # NoConn => conn[s] # NoConn /\ Loses(conn[s], MarkedEnds(ends)[s])
             /\ \A d \in Sides : <<s, d>> \in ends /\ conn[s] # NoConn
                                            => d \in MarkedEnds(ends)[s].closing
  <2>1. CASE conn[s] = NoConn
    BY <2>1 DEF MarkedEnds
  <2>2. CASE conn[s] # NoConn
    <3> DEFINE cl == conn[s].closing \union {d \in Sides : <<s, d>> \in ends}
    <3>1. conn[s] \in Connection /\ cl \in SUBSET Sides
      BY <2>2 DEF IsConns, Connection
    <3>2. MarkedEnds(ends)[s] = [conn[s] EXCEPT !.closing = cl]
      BY <2>2 DEF MarkedEnds
    <3>3. conn[s].closing \subseteq cl /\ \A d \in Sides : <<s, d>> \in ends => d \in cl
      OBVIOUS
    <3> HIDE DEF cl
    <3>4. MarkedEnds(ends)[s] \in Connection
      BY <3>1, <3>2 DEF Connection
    <3>5. /\ MarkedEnds(ends)[s].closing = cl
          /\ Loses(conn[s], MarkedEnds(ends)[s])
      BY <3>1, <3>2, <3>3 DEF Loses, Connection
    <3> QED BY <2>2, <3>3, <3>4, <3>5
  <2> QED BY <2>1, <2>2
<1>2. MarkedEnds(ends) = [s \in Slots |-> MarkedEnds(ends)[s]]
  BY DEF MarkedEnds
<1> QED BY <1>1, <1>2 DEF IsConns, Quiet

\* A step that is quiet after a quiet one.
LEMMA QuietTwice ==
    ASSUME NEW a, NEW b, NEW c, Quiet(a, b), Quiet(b, c)
    PROVE  Quiet(a, c)
BY LosesTwice DEF Quiet

(***************************************************************************)
(* The inductive invariant of the connections                              *)
(***************************************************************************)
\* The next thing an end reads is the other's version message.
VersionNext(q) == q # <<>> /\ Head(q).type = "version"

\* Which messages can be under way before both ends have had a version message:
\* an accepting end that has had none finds nothing but the dialler's, and the
\* dialling end hears nothing before the acceptor's.
Handshake(c) ==
    /\ c.st["out"] # "backlog" /\ c.st["in"] # "connecting"
    /\ c.st["out"] = "connecting" =>
          c.st["in"] = "none" /\ c.queue["out"] = <<>> /\ c.queue["in"] = <<>>
    /\ c.st["in"] \in {"backlog", "open"} =>
          /\ c.st["out"] \in {"open", "none"} /\ c.queue["out"] = <<>>
          /\ "in" \notin c.closing => c.queue["in"] = Hello
    /\ c.st["out"] = "open" /\ "out" \notin c.closing =>
          /\ c.queue["out"] = <<>> \/ VersionNext(c.queue["out"])
          /\ GotVersion(c, "in") => c.queue["out"] # <<>>

\* A connection of a node with itself has the same nonce at both ends, only a
\* node answers, and past the version message there are two nodes.
Distinct(c) ==
    /\ c.from = c.to => c.inc["in"] = c.inc["out"]
    /\ c.to \in Nodes \/ (c.st["out"] \in {"none", "connecting"} /\ c.st["in"] = "none")
    /\ \A d \in Sides : GotVersion(c, d) => c.from # c.to

\* The ends that exist belong to nodes that run, as they were started last.
Alive(cs, u, i) ==
    \A s \in Slots, d \in Sides :
        cs[s] # NoConn /\ cs[s].st[d] # "none" =>
            LET n == Node(cs[s], d) IN n \in Nodes /\ u[n] /\ cs[s].inc[d] = i[n]

\* Two ends past the version message, at one node and not marked, have different
\* nodes at their other ends.
Links(cs) ==
    \A s, t \in Slots, d, e \in Sides :
        /\ cs[s] # NoConn /\ cs[t] # NoConn /\ <<s, d>> # <<t, e>>
        /\ GotVersion(cs[s], d) /\ GotVersion(cs[t], e) /\ Node(cs[s], d) = Node(cs[t], e)
        /\ d \notin cs[s].closing /\ e \notin cs[t].closing
        => Nonce(cs[s], Other(d)) # Nonce(cs[t], Other(e))

\* An end whose other side the operator has banned is marked, or was asked for.
Barred(cs, ord) ==
    \A s \in Slots, d \in Sides :
        /\ cs[s] # NoConn /\ cs[s].st[d] \notin {"none", "backlog"} /\ d \notin cs[s].closing
        /\ Node(cs[s], Other(d)) \in ord[Node(cs[s], d)]
        => d = "out" /\ cs[s].manual

\* The inbound ends of a node, and that they are no more than it takes.
Inbound(cs, n) ==
    {e \in Slots \X {"in"} : /\ cs[e[1]] # NoConn /\ cs[e[1]].to = n
                             /\ cs[e[1]].st["in"] \notin {"none", "backlog"}}
Admitted(cs) == \A n \in Nodes : Cardinality(Inbound(cs, n)) <= MaxInbound

ConnInv(cs, u, i, ord) ==
    /\ IsConns(cs)
    /\ \A s \in Slots : cs[s] # NoConn => Handshake(cs[s]) /\ Distinct(cs[s])
    /\ Alive(cs, u, i) /\ Links(cs) /\ Barred(cs, ord) /\ Admitted(cs)

\* The handshake survives the loss of an end.
LEMMA LosesKeeps ==
    ASSUME NEW c \in Connection, NEW c2 \in Connection, Loses(c, c2), Handshake(c), Distinct(c)
    PROVE  Handshake(c2) /\ Distinct(c2)
<1>1. /\ \/ c2.st["out"] = c.st["out"] /\ c2.queue["out"] = c.queue["out"]
         \/ c2.st["out"] = "none" /\ c2.queue["out"] = <<>>
      /\ \/ c2.st["in"] = c.st["in"] /\ c2.queue["in"] = c.queue["in"]
         \/ c2.st["in"] = "none" /\ c2.queue["in"] = <<>>
      /\ "out" \in c.closing /\ c2.st["out"] # "none" => "out" \in c2.closing
      /\ "in" \in c.closing /\ c2.st["in"] # "none" => "in" \in c2.closing
  BY DEF Loses, Sides
<1>2. Handshake(c2)
  BY <1>1 DEF Handshake, GotVersion
<1>3. Distinct(c2)
  <2>1. \A d \in Sides : GotVersion(c2, d) => GotVersion(c, d)
    BY DEF Loses, GotVersion
  <2> QED BY <1>1, <2>1 DEF Distinct, Loses
<1> QED BY <1>2, <1>3

\* What an end that is still there after losses says of the end before.
LEMMA EndBefore ==
    ASSUME NEW c, NEW c2, Loses(c, c2), NEW d \in Sides, c2.st[d] # "none"
    PROVE  /\ c2.st[d] = c.st[d] /\ (d \notin c2.closing => d \notin c.closing)
           /\ Node(c2, d) = Node(c, d) /\ Node(c2, Other(d)) = Node(c, Other(d))
           /\ Nonce(c2, Other(d)) = Nonce(c, Other(d)) /\ c2.inc[d] = c.inc[d]
           /\ (GotVersion(c2, d) => GotVersion(c, d)) /\ c2.manual = c.manual
BY DEF Loses, Node, Nonce, GotVersion, Other, Sides

\* Inbound ends are finitely many.
LEMMA InboundFinite ==
    ASSUME NEW cs, NEW n
    PROVE  IsFiniteSet(Inbound(cs, n)) /\ Cardinality(Inbound(cs, n)) \in Nat
<1>1. IsFiniteSet(Slots \X {"in"})
  BY ConnectionsAssumption, FS_Singleton, FS_Product
<1> QED BY <1>1, FS_Subset, FS_CardinalityType DEF Inbound

\* With fewer inbound ends no node has too many.
LEMMA FewerAdmitted ==
    ASSUME NEW cs, NEW cs2, Admitted(cs), \A n \in Nodes : Inbound(cs2, n) \subseteq Inbound(cs, n)
    PROVE  Admitted(cs2)
<1> SUFFICES ASSUME NEW n \in Nodes PROVE Cardinality(Inbound(cs2, n)) <= MaxInbound
  BY DEF Admitted
<1>1. /\ Cardinality(Inbound(cs2, n)) <= Cardinality(Inbound(cs, n))
      /\ Cardinality(Inbound(cs2, n)) \in Nat /\ Cardinality(Inbound(cs, n)) \in Nat
  BY InboundFinite, FS_Subset
<1>2. Cardinality(Inbound(cs, n)) <= MaxInbound /\ MaxInbound \in Nat
  BY ConnectionsAssumption DEF Admitted
<1> QED BY <1>1, <1>2

\* Losses keep the invariant.
LEMMA QuietKeeps ==
    ASSUME NEW cs, NEW cs2, NEW u, NEW i, NEW ord, ConnInv(cs, u, i, ord),
           IsConns(cs2), Quiet(cs, cs2)
    PROVE  ConnInv(cs2, u, i, ord)
<1>1. \A s \in Slots : cs2[s] # NoConn =>
         /\ cs[s] # NoConn /\ Loses(cs[s], cs2[s]) /\ cs[s] \in Connection /\ cs2[s] \in Connection
         /\ Handshake(cs[s]) /\ Distinct(cs[s])
  BY DEF ConnInv, IsConns, Quiet
<1>2. \A s \in Slots : cs2[s] # NoConn => Handshake(cs2[s]) /\ Distinct(cs2[s])
  BY <1>1, LosesKeeps
<1>3. Alive(cs2, u, i)
  <2> SUFFICES ASSUME NEW s \in Slots, NEW d \in Sides, cs2[s] # NoConn, cs2[s].st[d] # "none"
               PROVE  /\ Node(cs2[s], d) \in Nodes /\ u[Node(cs2[s], d)]
                      /\ cs2[s].inc[d] = i[Node(cs2[s], d)]
    BY DEF Alive
  <2> QED BY <1>1, EndBefore DEF ConnInv, Alive
<1>4. Links(cs2)
  <2> SUFFICES ASSUME NEW s \in Slots, NEW t \in Slots, NEW d \in Sides, NEW e \in Sides,
                      cs2[s] # NoConn, cs2[t] # NoConn, <<s, d>> # <<t, e>>,
                      GotVersion(cs2[s], d), GotVersion(cs2[t], e),
                      Node(cs2[s], d) = Node(cs2[t], e),
                      d \notin cs2[s].closing, e \notin cs2[t].closing
               PROVE  Nonce(cs2[s], Other(d)) # Nonce(cs2[t], Other(e))
    BY DEF Links
  <2>1. cs2[s].st[d] # "none" /\ cs2[t].st[e] # "none"
    BY DEF GotVersion
  <2>2. /\ cs[s] # NoConn /\ GotVersion(cs[s], d) /\ d \notin cs[s].closing
        /\ Node(cs2[s], d) = Node(cs[s], d)
        /\ Nonce(cs2[s], Other(d)) = Nonce(cs[s], Other(d))
    BY <1>1, <2>1, EndBefore
  <2>3. /\ cs[t] # NoConn /\ GotVersion(cs[t], e) /\ e \notin cs[t].closing
        /\ Node(cs2[t], e) = Node(cs[t], e)
        /\ Nonce(cs2[t], Other(e)) = Nonce(cs[t], Other(e))
    BY <1>1, <2>1, EndBefore
  <2>4. Links(cs)
    BY DEF ConnInv
  <2> QED BY <2>2, <2>3, <2>4 DEF Links
<1>5. Barred(cs2, ord)
  <2> SUFFICES ASSUME NEW s \in Slots, NEW d \in Sides, cs2[s] # NoConn,
                      cs2[s].st[d] \notin {"none", "backlog"}, d \notin cs2[s].closing,
                      Node(cs2[s], Other(d)) \in ord[Node(cs2[s], d)]
               PROVE  d = "out" /\ cs2[s].manual
    BY DEF Barred
  <2>1. Barred(cs, ord)
    BY DEF ConnInv
  <2> QED BY <1>1, <2>1, EndBefore DEF Barred
<1>6. Admitted(cs2)
  <2>1. ASSUME NEW n \in Nodes PROVE Inbound(cs2, n) \subseteq Inbound(cs, n)
    <3>1. ASSUME NEW s \in Slots, cs2[s] # NoConn, cs2[s].to = n,
                 cs2[s].st["in"] \notin {"none", "backlog"}
          PROVE  cs[s] # NoConn /\ cs[s].to = n /\ cs[s].st["in"] \notin {"none", "backlog"}
      BY <1>1, <3>1 DEF Loses, Sides
    <3> QED BY <3>1 DEF Inbound
  <2> QED BY <2>1, FewerAdmitted DEF ConnInv
<1> QED BY <1>2, <1>3, <1>4, <1>5, <1>6 DEF ConnInv

(***************************************************************************)
(* One connection that changes                                             *)
(***************************************************************************)
\* c can take the place of the connection in slot s.
Fits(cs, u, i, ord, s, c) ==
    /\ c \in Connection /\ Handshake(c) /\ Distinct(c)
    /\ \A d \in Sides : c.st[d] # "none" =>
          Node(c, d) \in Nodes /\ u[Node(c, d)] /\ c.inc[d] = i[Node(c, d)]
    /\ \A d, e \in Sides, t \in Slots \ {s} :
          /\ cs[t] # NoConn /\ GotVersion(c, d) /\ GotVersion(cs[t], e)
          /\ Node(c, d) = Node(cs[t], e) /\ d \notin c.closing /\ e \notin cs[t].closing
          => Nonce(c, Other(d)) # Nonce(cs[t], Other(e))
    /\ \A d \in Sides :
          /\ c.st[d] \notin {"none", "backlog"} /\ d \notin c.closing
          /\ Node(c, Other(d)) \in ord[Node(c, d)]
          => d = "out" /\ c.manual

\* A connection that fits keeps the invariant, if no node has too many for it.
LEMMA OneKeeps ==
    ASSUME NEW cs, NEW u, NEW i, NEW ord, ConnInv(cs, u, i, ord),
           NEW s \in Slots, NEW c, Fits(cs, u, i, ord, s, c), Admitted([cs EXCEPT ![s] = c])
    PROVE  ConnInv([cs EXCEPT ![s] = c], u, i, ord)
<1> DEFINE cs2 == [cs EXCEPT ![s] = c]
<1>1. c # NoConn /\ c \in Connection /\ c.from \in Nodes /\ cs \in [Slots -> Connection \union {NoConn}]
  BY NoConnAssumption DEF Fits, ConnInv, IsConns, Connection
<1>2. IsConns(cs2) /\ cs2[s] = c /\ \A t \in Slots : t # s => cs2[t] = cs[t]
  BY <1>1 DEF IsConns
<1>3. Admitted(cs2)
  OBVIOUS
<1> HIDE DEF cs2
<1>4. \A t \in Slots : cs2[t] # NoConn => Handshake(cs2[t]) /\ Distinct(cs2[t])
  BY <1>1, <1>2 DEF ConnInv, Fits
<1>5. Alive(cs2, u, i)
  <2> SUFFICES ASSUME NEW t \in Slots, NEW d \in Sides, cs2[t] # NoConn, cs2[t].st[d] # "none"
               PROVE  /\ Node(cs2[t], d) \in Nodes /\ u[Node(cs2[t], d)]
                      /\ cs2[t].inc[d] = i[Node(cs2[t], d)]
    BY DEF Alive
  <2>1. CASE t = s
    BY <1>2, <2>1 DEF Fits
  <2>2. CASE t # s
    BY <1>2, <2>2 DEF ConnInv, Alive
  <2> QED BY <2>1, <2>2
<1>6. Links(cs2)
  <2> SUFFICES ASSUME NEW t \in Slots, NEW r \in Slots, NEW d \in Sides, NEW e \in Sides,
                      cs2[t] # NoConn, cs2[r] # NoConn, <<t, d>> # <<r, e>>,
                      GotVersion(cs2[t], d), GotVersion(cs2[r], e),
                      Node(cs2[t], d) = Node(cs2[r], e),
                      d \notin cs2[t].closing, e \notin cs2[r].closing
               PROVE  Nonce(cs2[t], Other(d)) # Nonce(cs2[r], Other(e))
    BY DEF Links
  <2>1. CASE t = s /\ r = s
    <3>1. d # e /\ Node(c, d) = Node(c, e) /\ GotVersion(c, d)
      BY <1>2, <2>1
    <3>2. c.from = c.to
      BY <3>1 DEF Node, Sides
    <3> QED BY <3>1, <3>2 DEF Fits, Distinct
  <2>2. CASE t = s /\ r # s
    <3>1. cs2[r] = cs[r] /\ cs2[t] = c /\ r \in Slots \ {s}
      BY <1>2, <2>2
    <3> QED BY <3>1 DEF Fits
  <2>3. CASE t # s /\ r = s
    <3>1. cs2[t] = cs[t] /\ cs2[r] = c /\ t \in Slots \ {s}
      BY <1>2, <2>3
    <3>2. Nonce(c, Other(e)) # Nonce(cs[t], Other(d))
      BY <3>1 DEF Fits
    <3> QED BY <3>1, <3>2
  <2>4. CASE t # s /\ r # s
    <3>1. cs2[t] = cs[t] /\ cs2[r] = cs[r] /\ Links(cs)
      BY <1>2, <2>4 DEF ConnInv
    <3> QED BY <3>1 DEF Links
  <2> QED BY <2>1, <2>2, <2>3, <2>4
<1>7. Barred(cs2, ord)
  <2> SUFFICES ASSUME NEW t \in Slots, NEW d \in Sides, cs2[t] # NoConn,
                      cs2[t].st[d] \notin {"none", "backlog"}, d \notin cs2[t].closing,
                      Node(cs2[t], Other(d)) \in ord[Node(cs2[t], d)]
               PROVE  d = "out" /\ cs2[t].manual
    BY DEF Barred
  <2>1. CASE t = s
    BY <1>2, <2>1 DEF Fits
  <2>2. CASE t # s
    <3>1. cs2[t] = cs[t] /\ Barred(cs, ord)
      BY <1>2, <2>2 DEF ConnInv
    <3> QED BY <3>1 DEF Barred
  <2> QED BY <2>1, <2>2
<1>8. ConnInv(cs2, u, i, ord)
  BY <1>2, <1>3, <1>4, <1>5, <1>6, <1>7 DEF ConnInv
<1> QED BY <1>8 DEF cs2

\* A change of one connection that admits no further inbound end.
LEMMA SameAdmitted ==
    ASSUME NEW cs, IsConns(cs), Admitted(cs), NEW s \in Slots, NEW c,
           c.st["in"] \notin {"none", "backlog"} =>
              /\ cs[s] # NoConn /\ cs[s].to = c.to /\ cs[s].st["in"] \notin {"none", "backlog"}
    PROVE  Admitted([cs EXCEPT ![s] = c])
<1>1. \A n \in Nodes : Inbound([cs EXCEPT ![s] = c], n) \subseteq Inbound(cs, n)
  BY DEF IsConns, Inbound
<1> QED BY <1>1, FewerAdmitted

\* An end that is read, has had or gets its version message, and may answer.
Speaks(c, d, c2, msgs) ==
    /\ c2.from = c.from /\ c2.to = c.to /\ c2.manual = c.manual /\ c2.inc = c.inc
    /\ c2.closing = c.closing /\ c2 \in Connection /\ msgs \in Seq(Messages)
    /\ d \notin c.closing /\ c.st[d] \in {"open", "version", "active"} /\ c.queue[d] # <<>>
    /\ c2.st[d] \in {"version", "active"} /\ c2.st[Other(d)] = c.st[Other(d)]
    /\ c2.queue[Other(d)] = IF c.st[Other(d)] = "none" THEN c.queue[Other(d)]
                            ELSE c.queue[Other(d)] \o msgs
    /\ GotVersion(c, d) \/ (d = "in" => VersionNext(msgs))

\* Speaking keeps the handshake in order.
LEMMA SpeaksKeeps ==
    ASSUME NEW c \in Connection, NEW c2, NEW msgs, NEW d \in Sides,
           Handshake(c), Speaks(c, d, c2, msgs)
    PROVE  Handshake(c2)
<1>1. /\ c.queue["out"] \in Seq(Messages) /\ c.queue["in"] \in Seq(Messages) /\ msgs \in Seq(Messages)
      /\ c.st["out"] \in EndStates /\ c.st["in"] \in EndStates
  BY DEF Connection, Sides, Speaks
<1>2. CASE d = "in"
  <2>1. /\ c2.st["in"] \in {"version", "active"} /\ c2.st["out"] = c.st["out"]
        /\ c2.closing = c.closing
        /\ c2.queue["out"] = IF c.st["out"] = "none" THEN c.queue["out"] ELSE c.queue["out"] \o msgs
        /\ c.st["in"] \in {"open", "version", "active"}
        /\ c.st["in"] = "open" => VersionNext(msgs)
    BY <1>2 DEF Speaks, Other, GotVersion
  <2>2. c.st["out"] # "backlog" /\ c.st["out"] # "connecting"
    BY <2>1 DEF Handshake
  <2>3. ASSUME c.st["out"] = "open", "out" \notin c.closing
        PROVE  VersionNext(c2.queue["out"])
    <3>1. c2.queue["out"] = c.queue["out"] \o msgs
      BY <2>1, <2>3
    <3>2. CASE c.st["in"] = "open"
      <4>1. c.queue["out"] = <<>> /\ VersionNext(msgs)
        BY <2>1, <3>2 DEF Handshake
      <4>2. <<>> \o msgs = msgs
        BY <1>1
      <4> QED BY <3>1, <4>1, <4>2
    <3>3. CASE c.st["in"] # "open"
      <4>1. VersionNext(c.queue["out"])
        BY <2>1, <2>3, <3>3 DEF Handshake, GotVersion
      <4>2. Len(c.queue["out"]) >= 1
        BY <1>1, <4>1 DEF VersionNext
      <4>3. (c.queue["out"] \o msgs)[1] = c.queue["out"][1] /\ c.queue["out"] \o msgs # <<>>
        BY <1>1, <4>2
      <4>4. Head(c.queue["out"] \o msgs) = Head(c.queue["out"])
        BY <1>1, <4>2, <4>3
      <4> QED BY <3>1, <4>1, <4>3, <4>4 DEF VersionNext
    <3> QED BY <3>2, <3>3
  <2>4. c2.st["out"] = "open" /\ "out" \notin c2.closing => VersionNext(c2.queue["out"])
    BY <2>1, <2>3
  <2> QED BY <2>1, <2>2, <2>4 DEF Handshake, VersionNext
<1>3. CASE d = "out"
  <2>1. /\ c2.st["out"] \in {"version", "active"} /\ c2.st["in"] = c.st["in"]
        /\ c.queue["out"] # <<>> /\ c.st["out"] \in {"open", "version", "active"}
    BY <1>3 DEF Speaks, Other
  <2>2. c.st["in"] \notin {"backlog", "open", "connecting"}
    BY <2>1 DEF Handshake
  <2> QED BY <2>1, <2>2 DEF Handshake
<1> QED BY <1>2, <1>3 DEF Sides

\* What an end that has had no version message reads first is one.
LEMMA OpenReadsVersion ==
    ASSUME NEW c \in Connection, Handshake(c), NEW d \in Sides, d \notin c.closing,
           c.st[d] \notin {"none", "connecting", "backlog"}, c.queue[d] # <<>>
    PROVE  GotVersion(c, d) \/ (c.st[d] = "open" /\ VersionNext(c.queue[d]))
<1>1. c.st[d] \in EndStates
  BY DEF Connection
<1>2. VersionNext(Hello)
  BY DEF VersionNext, Hello
<1> QED BY <1>1, <1>2 DEF Handshake, GotVersion, EndStates, Sides

(***************************************************************************)
(* The inductive invariant                                                 *)
(***************************************************************************)
\* The types, and that a node that is down can be started once more.
TypeInv ==
    /\ up \in [Nodes -> BOOLEAN] /\ inc \in [Nodes -> 0..MaxRestarts]
    /\ \A n \in Nodes : ~ up[n] => inc[n] < MaxRestarts
    /\ DOMAIN book = Nodes /\ DOMAIN peersFile = Nodes
    /\ \A n \in Nodes : IsBook(book[n]) /\ DOMAIN peersFile[n] \subseteq Addrs
    /\ votes \in [Nodes -> 0..2] /\ selfAddrs \in [Nodes -> SUBSET Addrs]
    /\ dials \in [Nodes -> Nat] /\ \A n \in Nodes : dials[n] <= MaxDials[n]
    /\ events \in 0..MaxEvents

\* An operator's ban is in force, has a reason and is in the file.
BanInv ==
    /\ banned \in [Nodes -> SUBSET Addrs] /\ reasons \in [Nodes -> SUBSET Addrs]
    /\ bansFile \in [Nodes -> SUBSET Addrs] /\ ordered \in [Nodes -> SUBSET Addrs]
    /\ \A n \in Nodes : ordered[n] \subseteq banned[n] \intersect reasons[n] \intersect bansFile[n]

\* What is called good is another node.
GoodInv ==
    \A n \in Nodes :
        /\ \A a \in DOMAIN book[n] : book[n][a].ok => a \in Nodes \ {n}
        /\ \A a \in DOMAIN peersFile[n] : peersFile[n][a] \in BOOLEAN
                                         /\ (peersFile[n][a] => a \in Nodes \ {n})

Inv == TypeInv /\ BanInv /\ GoodInv /\ ConnInv(conn, up, inc, ordered)

\* The typed fields of a connection.
LEMMA ConnFields ==
    ASSUME NEW c \in Connection
    PROVE  /\ c.from \in Nodes /\ c.to \in Addrs /\ c.manual \in BOOLEAN
           /\ c.inc \in [Sides -> 0..MaxRestarts] /\ c.st \in [Sides -> EndStates]
           /\ c.queue \in [Sides -> Seq(Messages)] /\ c.closing \in SUBSET Sides
           /\ \A d \in Sides : Node(c, d) \in Addrs
BY DEF Connection, Node, Addrs

\* A connection that is there.
LEMMA ConnThere ==
    ASSUME NEW cs, NEW u, NEW i, NEW ord, ConnInv(cs, u, i, ord), NEW s \in Slots, cs[s] # NoConn
    PROVE  cs[s] \in Connection /\ Handshake(cs[s]) /\ Distinct(cs[s])
BY DEF ConnInv, IsConns

\* Marking an end is a loss.
LEMMA MarkLoses ==
    ASSUME NEW c \in Connection, NEW d \in Sides
    PROVE  Mark(c, d) \in Connection /\ Loses(c, Mark(c, d)) /\ d \in Mark(c, d).closing
<1> DEFINE cl == c.closing \union {d}
<1>1. cl \in SUBSET Sides /\ c.closing \subseteq cl /\ d \in cl
  BY ConnFields
<1>2. Mark(c, d) = [c EXCEPT !.closing = cl]
  BY DEF Mark
<1> HIDE DEF cl
<1> QED BY <1>1, <1>2 DEF Connection, Loses

\* One connection with a loss.
LEMMA OneQuiet ==
    ASSUME NEW cs, IsConns(cs), NEW s \in Slots, cs[s] # NoConn,
           NEW c \in Connection \union {NoConn}, c # NoConn => Loses(cs[s], c)
    PROVE  IsConns([cs EXCEPT ![s] = c]) /\ Quiet(cs, [cs EXCEPT ![s] = c])
<1>1. \A t \in Slots : cs[t] # NoConn => Loses(cs[t], cs[t])
  BY DEF Loses
<1> QED BY <1>1 DEF IsConns, Quiet

\* Fewer bans keep the invariant.
LEMMA FewerBans ==
    ASSUME NEW cs, NEW u, NEW i, NEW ord, NEW ord2, ConnInv(cs, u, i, ord),
           \A n \in Nodes : ord2[n] \subseteq ord[n]
    PROVE  ConnInv(cs, u, i, ord2)
<1>1. Barred(cs, ord2)
  <2> SUFFICES ASSUME NEW s \in Slots, NEW d \in Sides, cs[s] # NoConn,
                      cs[s].st[d] \notin {"none", "backlog"}, d \notin cs[s].closing,
                      Node(cs[s], Other(d)) \in ord2[Node(cs[s], d)]
               PROVE  d = "out" /\ cs[s].manual
    BY DEF Barred
  <2>1. Node(cs[s], d) \in Nodes /\ Barred(cs, ord)
    BY DEF ConnInv, Alive
  <2> QED BY <2>1 DEF Barred
<1> QED BY <1>1 DEF ConnInv

\* The ends of a node in terms of its connections.
LEMMA EndsAre ==
    ASSUME NEW n, NEW s \in Slots, NEW d \in Sides
    PROVE  <<s, d>> \in EndsOf(n) <=> /\ conn[s] # NoConn /\ conn[s].st[d] \notin {"none", "backlog"}
                                     /\ Node(conn[s], d) = n
BY DEF EndsOf, Has

\* The inbound ends that P2P::accept_inbound counts.
LEMMA InboundAre ==
    ASSUME NEW n
    PROVE  EndsOf(n) \ Outbound(n) = Inbound(conn, n)
BY DEF EndsOf, Outbound, Inbound, Has, Node, Sides

(***************************************************************************)
(* What the steps do to the connections                                    *)
(***************************************************************************)
\* Reaping keeps the invariant.
LEMMA ReapedKeeps ==
    ASSUME NEW cs, NEW u, NEW i, NEW ord, ConnInv(cs, u, i, ord), NEW n
    PROVE  ConnInv(Reaped(cs, n), u, i, ord)
BY ReapedQuiet, QuietKeeps DEF ConnInv

\* Dialling adds a connection that nobody has answered yet.
LEMMA DialKeeps ==
    ASSUME Inv, NEW n \in Nodes, NEW a \in Addrs, NEW manual \in BOOLEAN,
           up[n], Free # {}, MayDial(n, a, manual)
    PROVE  ConnInv(WithDial(n, a, manual), up, inc, ordered)
<1> DEFINE s == CHOOSE s \in Free : TRUE
           c == Dialled(n, a, manual)
<1>1. s \in Slots /\ conn[s] = NoConn
  BY DEF Free
<1>2. inc[n] \in 0..MaxRestarts
  BY DEF Inv, TypeInv
<1>3. /\ c.from = n /\ c.to = a /\ c.manual = manual /\ c.inc = [d \in Sides |-> inc[n]]
      /\ c.st["out"] = "connecting" /\ c.st["in"] = "none" /\ c.closing = {}
      /\ c.queue["out"] = <<>> /\ c.queue["in"] = <<>> /\ c \in Connection
  BY <1>2 DEF Dialled, Connection, Sides, EndStates
<1> HIDE DEF s, c
<1>4. Handshake(c) /\ Distinct(c)
  BY <1>3 DEF Handshake, Distinct, GotVersion, Sides
<1>5. Fits(conn, up, inc, ordered, s, c)
  <2>1. \A d \in Sides : c.st[d] # "none" =>
           Node(c, d) \in Nodes /\ up[Node(c, d)] /\ c.inc[d] = inc[Node(c, d)]
    BY <1>3 DEF Node, Sides
  <2>2. \A d \in Sides : ~ GotVersion(c, d)
    BY <1>3 DEF GotVersion, Sides
  <2>3. ASSUME NEW d \in Sides, c.st[d] \notin {"none", "backlog"},
               Node(c, Other(d)) \in ordered[Node(c, d)]
        PROVE  d = "out" /\ c.manual
    <3>1. d = "out"
      BY <1>3, <2>3 DEF Sides
    <3>2. Node(c, Other(d)) = a /\ Node(c, d) = n
      BY <1>3, <3>1 DEF Node, Other
    <3>3. a \in banned[n]
      BY <2>3, <3>2 DEF Inv, BanInv
    <3> QED BY <1>3, <3>1, <3>3 DEF MayDial
  <2> QED BY <1>3, <1>4, <2>1, <2>2, <2>3 DEF Fits
<1>6. Admitted([conn EXCEPT ![s] = c])
  BY <1>1, <1>3, SameAdmitted DEF Inv, ConnInv
<1>7. ConnInv([conn EXCEPT ![s] = c], up, inc, ordered)
  BY <1>1, <1>5, <1>6, OneKeeps DEF Inv
<1> QED BY <1>7 DEF WithDial, s, c

\* The other kernel takes the connection.
LEMMA ConnectedKeeps ==
    ASSUME Inv, NEW s \in Slots, Connected(s)
    PROVE  ConnInv(conn', up, inc, ordered)
<1> DEFINE c == conn[s]
           st == [out |-> "open", in |-> "backlog"]
           in2 == [c.inc EXCEPT !["in"] = inc[c.to]]
           qu == [c.queue EXCEPT !["in"] = Hello]
           c2 == [c EXCEPT !.st = st, !.inc = in2, !.queue = qu]
<1>1. /\ c # NoConn /\ c.st["out"] = "connecting" /\ c.to \in Nodes /\ up[c.to]
      /\ conn' = [conn EXCEPT ![s] = c2]
  BY DEF Connected, Has
<1>2. c \in Connection /\ Handshake(c) /\ Distinct(c)
  BY <1>1, ConnThere DEF Inv
<1>3. /\ c.inc \in [Sides -> 0..MaxRestarts] /\ c.queue \in [Sides -> Seq(Messages)]
      /\ c.from \in Nodes /\ inc[c.to] \in 0..MaxRestarts
  BY <1>1, <1>2, ConnFields DEF Inv, TypeInv
<1>4. Hello \in Seq(Messages)
  <2>1. [type |-> "version"] \in Messages
    BY DEF Messages
  <2> QED BY <2>1 DEF Hello
<1>5. st \in [Sides -> EndStates] /\ in2 \in [Sides -> 0..MaxRestarts] /\ qu \in [Sides -> Seq(Messages)]
  BY <1>3, <1>4 DEF EndStates, Sides
<1>6. c.st["in"] = "none" /\ c.queue["out"] = <<>>
  BY <1>1, <1>2 DEF Handshake
<1>7. /\ st["out"] = "open" /\ st["in"] = "backlog"
      /\ in2["out"] = c.inc["out"] /\ in2["in"] = inc[c.to]
      /\ qu["out"] = <<>> /\ qu["in"] = Hello
  BY <1>3, <1>6 DEF Sides
<1>8. c.inc["out"] = inc[c.from] /\ up[c.from]
  BY <1>1 DEF Inv, ConnInv, Alive, Node, Sides
<1> HIDE DEF c, st, in2, qu
<1>9. /\ c2 \in Connection /\ c2.from = c.from /\ c2.to = c.to /\ c2.manual = c.manual
      /\ c2.st = st /\ c2.inc = in2 /\ c2.queue = qu /\ c2.closing = c.closing
  BY <1>2, <1>5 DEF Connection
<1> HIDE DEF c2
<1>10. Handshake(c2)
  BY <1>7, <1>9 DEF Handshake, GotVersion
<1>11. Distinct(c2)
  BY <1>1, <1>7, <1>8, <1>9 DEF Distinct, GotVersion, Sides
<1>12. Fits(conn, up, inc, ordered, s, c2)
  <2>1. \A d \in Sides : ~ GotVersion(c2, d)
    BY <1>7, <1>9 DEF GotVersion, Sides
  <2>2. \A d \in Sides : Node(c2, d) \in Nodes /\ up[Node(c2, d)] /\ c2.inc[d] = inc[Node(c2, d)]
    BY <1>1, <1>3, <1>7, <1>8, <1>9 DEF Node, Sides
  <2>3. ASSUME NEW d \in Sides, c2.st[d] \notin {"none", "backlog"}, d \notin c2.closing,
               Node(c2, Other(d)) \in ordered[Node(c2, d)]
        PROVE  d = "out" /\ c2.manual
    <3>1. d = "out" /\ Node(c2, Other(d)) = Node(c, Other(d)) /\ Node(c2, d) = Node(c, d)
      BY <1>7, <1>9, <2>3 DEF Sides, Node, Other
    <3>2. Barred(conn, ordered)
      BY DEF Inv, ConnInv
    <3> QED BY <1>1, <1>9, <2>3, <3>1, <3>2 DEF Barred, c
  <2> QED BY <1>9, <1>10, <1>11, <2>1, <2>2, <2>3 DEF Fits
<1>13. Admitted([conn EXCEPT ![s] = c2])
  <2>1. c2.st["in"] = "backlog"
    BY <1>7, <1>9
  <2>2. IsConns(conn) /\ Admitted(conn)
    BY DEF Inv, ConnInv
  <2> QED BY <2>1, <2>2, SameAdmitted
<1>14. ConnInv([conn EXCEPT ![s] = c2], up, inc, ordered)
  BY <1>12, <1>13, OneKeeps DEF Inv
<1> QED BY <1>1, <1>14

\* An end is taken from the backlog, or closed.
LEMMA AcceptKeeps ==
    ASSUME Inv, NEW s \in Slots, AcceptInbound(s)
    PROVE  ConnInv(conn', up, inc, ordered)
<1> DEFINE c == conn[s]
           n == c.to
           st == [c.st EXCEPT !["in"] = "open"]
           c2 == [c EXCEPT !.st = st]
<1>1. c # NoConn /\ c.st["in"] = "backlog"
  BY DEF AcceptInbound, Has
<1>2. c \in Connection /\ Handshake(c) /\ Distinct(c) /\ IsConns(conn)
  BY <1>1, ConnThere DEF Inv, ConnInv
<1>3. CASE ~ Admits(n, c.from)
  <2> DEFINE r == OrNone(Closed(c, "in"))
  <2>1. conn' = [conn EXCEPT ![s] = r]
    BY <1>3 DEF AcceptInbound
  <2>2. r \in Connection \union {NoConn} /\ (r # NoConn => Loses(c, r))
    <3>1. Closed(c, "in") \in Connection /\ Loses(c, Closed(c, "in"))
      BY <1>2, ClosedLoses DEF Sides
    <3> QED BY <3>1 DEF OrNone
  <2> HIDE DEF r
  <2>3. IsConns(conn') /\ Quiet(conn, conn')
    BY <1>1, <1>2, <2>1, <2>2, OneQuiet
  <2> QED BY <2>3, QuietKeeps DEF Inv
<1>4. CASE Admits(n, c.from)
  <2>1. conn' = [conn EXCEPT ![s] = c2]
    BY <1>4 DEF AcceptInbound
  <2>2. c.st \in [Sides -> EndStates]
    BY <1>2, ConnFields
  <2>3. st \in [Sides -> EndStates] /\ st["in"] = "open" /\ st["out"] = c.st["out"]
    BY <2>2 DEF Sides, EndStates
  <2> HIDE DEF c, st
  <2>4. /\ c2 \in Connection /\ c2.from = c.from /\ c2.to = c.to /\ c2.manual = c.manual
        /\ c2.st = st /\ c2.inc = c.inc /\ c2.queue = c.queue /\ c2.closing = c.closing
    BY <1>2, <2>3 DEF Connection
  <2> HIDE DEF c2
  <2>5. Handshake(c2)
    BY <1>1, <1>2, <2>3, <2>4 DEF Handshake, GotVersion
  <2>6. Distinct(c2)
    BY <1>1, <1>2, <2>3, <2>4 DEF Distinct, GotVersion, Sides
  <2>7. ~ GotVersion(c2, "in") /\ (GotVersion(c2, "out") <=> GotVersion(c, "out"))
    BY <2>3, <2>4 DEF GotVersion
  <2>8. Fits(conn, up, inc, ordered, s, c2)
    <3>1. \A d \in Sides : Node(c2, d) = Node(c, d) /\ Node(c2, Other(d)) = Node(c, Other(d))
                           /\ Nonce(c2, Other(d)) = Nonce(c, Other(d))
      BY <2>4 DEF Node, Nonce, Other, Sides
    <3>2. Alive(conn, up, inc) /\ Links(conn) /\ Barred(conn, ordered)
      BY DEF Inv, ConnInv
    <3>3. \A d \in Sides : c2.st[d] # "none" => c.st[d] # "none"
      BY <1>1, <2>3, <2>4 DEF Sides
    <3>4. \A d \in Sides : c2.st[d] # "none" =>
            Node(c2, d) \in Nodes /\ up[Node(c2, d)] /\ c2.inc[d] = inc[Node(c2, d)]
      BY <1>1, <2>4, <3>1, <3>2, <3>3 DEF Alive, c
    <3>5. ASSUME NEW d \in Sides, NEW e \in Sides, NEW t \in Slots \ {s},
                 conn[t] # NoConn, GotVersion(c2, d), GotVersion(conn[t], e),
                 Node(c2, d) = Node(conn[t], e), d \notin c2.closing, e \notin conn[t].closing
          PROVE  Nonce(c2, Other(d)) # Nonce(conn[t], Other(e))
      <4>1. GotVersion(c, d) /\ d \notin c.closing /\ Node(c, d) = Node(conn[t], e) /\ <<s, d>> # <<t, e>>
        BY <2>4, <2>7, <3>1, <3>5 DEF Sides
      <4>2. Nonce(c, Other(d)) # Nonce(conn[t], Other(e))
        BY <1>1, <3>2, <3>5, <4>1 DEF Links, c
      <4> QED BY <3>1, <4>2
    <3>6. ASSUME NEW d \in Sides, c2.st[d] \notin {"none", "backlog"}, d \notin c2.closing,
                 Node(c2, Other(d)) \in ordered[Node(c2, d)]
          PROVE  d = "out" /\ c2.manual
      <4>1. CASE d = "in"
        <5>1. c.from \in ordered[n] /\ n \in Nodes
          BY <2>4, <3>4, <3>6, <4>1 DEF Node, Other, n
        <5>2. c.from \in banned[n]
          BY <5>1 DEF Inv, BanInv
        <5> QED BY <1>4, <5>2 DEF Admits
      <4>2. CASE d = "out"
        <5>1. c.st[d] \notin {"none", "backlog"} /\ d \notin c.closing
          BY <2>3, <2>4, <3>6, <4>2
        <5> QED BY <1>1, <2>4, <3>1, <3>2, <3>6, <5>1 DEF Barred, c
      <4> QED BY <4>1, <4>2 DEF Sides
    <3> QED BY <2>4, <2>5, <2>6, <3>4, <3>5, <3>6 DEF Fits
  <2>9. Admitted([conn EXCEPT ![s] = c2])
    <3> SUFFICES ASSUME NEW m \in Nodes
                 PROVE  Cardinality(Inbound([conn EXCEPT ![s] = c2], m)) <= MaxInbound
      BY DEF Admitted
    <3> DEFINE I == Inbound(conn, m)
               J == Inbound([conn EXCEPT ![s] = c2], m)
    <3>1. /\ IsFiniteSet(I) /\ Cardinality(I) \in Nat /\ Cardinality(I) <= MaxInbound
          /\ Cardinality(J) \in Nat /\ MaxInbound \in Nat
      BY InboundFinite, ConnectionsAssumption DEF Inv, ConnInv, Admitted
    <3>2. CASE m = n
      <4>1. Cardinality(I) < MaxInbound
        BY <1>4, <3>2, InboundAre DEF Admits
      <4>2. J \subseteq I \union {<<s, "in">>}
        BY <1>2 DEF Inbound, IsConns
      <4>3. /\ IsFiniteSet(I \union {<<s, "in">>})
            /\ Cardinality(I \union {<<s, "in">>}) \in {Cardinality(I), Cardinality(I) + 1}
        BY <3>1, FS_AddElement
      <4>4. Cardinality(J) <= Cardinality(I \union {<<s, "in">>})
        BY <4>2, <4>3, FS_Subset
      <4> HIDE DEF I, J
      <4>5. \A x, y, z \in Nat : x < MaxInbound /\ y \in {x, x + 1} /\ z <= y => z <= MaxInbound
        BY <3>1
      <4>6. Cardinality(J) <= MaxInbound
        BY <3>1, <4>1, <4>3, <4>4, <4>5
      <4> QED BY <4>6 DEF J
    <3>3. CASE m # n
      <4>1. J \subseteq I
        BY <1>2, <2>4, <3>3 DEF Inbound, IsConns, n
      <4>2. Cardinality(J) <= Cardinality(I)
        BY <3>1, <4>1, FS_Subset
      <4> HIDE DEF I, J
      <4>3. Cardinality(J) <= MaxInbound
        BY <3>1, <4>2
      <4> QED BY <4>3 DEF J
    <3> QED BY <3>2, <3>3
  <2>10. ConnInv([conn EXCEPT ![s] = c2], up, inc, ordered)
    BY <2>8, <2>9, OneKeeps DEF Inv
  <2> QED BY <2>1, <2>10
<1> QED BY <1>3, <1>4

\* Speaking keeps the invariant, for the first time only if the node at the other
\* end is not already spoken to.
LEMMA SpeaksFits ==
    ASSUME Inv, NEW s \in Slots, NEW d \in Sides, conn[s] # NoConn, NEW c2, NEW msgs,
           Speaks(conn[s], d, c2, msgs), Distinct(c2),
           GotVersion(conn[s], d) \/ ~ IsDuplicate(Node(conn[s], d), s, d)
    PROVE  ConnInv([conn EXCEPT ![s] = c2], up, inc, ordered)
<1> DEFINE c == conn[s]
<1>1. c # NoConn /\ c \in Connection /\ Handshake(c) /\ Distinct(c)
  BY ConnThere DEF Inv
<1>2. /\ c2.from = c.from /\ c2.to = c.to /\ c2.manual = c.manual /\ c2.inc = c.inc
      /\ c2.closing = c.closing /\ c2 \in Connection
      /\ d \notin c.closing /\ c.st[d] \in {"open", "version", "active"}
      /\ c2.st[d] \in {"version", "active"} /\ c2.st[Other(d)] = c.st[Other(d)]
  BY DEF Speaks
<1>3. Handshake(c2)
  BY <1>1, SpeaksKeeps
<1>4. /\ \A e \in Sides : Node(c2, e) = Node(c, e) /\ Node(c2, Other(e)) = Node(c, Other(e))
                           /\ Nonce(c2, Other(e)) = Nonce(c, Other(e))
      /\ \A e \in Sides : e = d \/ e = Other(d)
  BY <1>2 DEF Node, Nonce, Other, Sides
<1>5. Alive(conn, up, inc) /\ Links(conn) /\ Barred(conn, ordered) /\ IsConns(conn) /\ Admitted(conn)
  BY DEF Inv, ConnInv
<1> HIDE DEF c
<1>6. \A e \in Sides : c2.st[e] # "none" => c.st[e] # "none"
  BY <1>2, <1>4
<1>7. \A e \in Sides : c2.st[e] # "none" =>
         Node(c2, e) \in Nodes /\ up[Node(c2, e)] /\ c2.inc[e] = inc[Node(c2, e)]
  BY <1>1, <1>2, <1>4, <1>5, <1>6 DEF Alive, c
<1>8. ASSUME NEW e \in Sides, NEW f \in Sides, NEW t \in Slots \ {s},
             conn[t] # NoConn, GotVersion(c2, e), GotVersion(conn[t], f),
             Node(c2, e) = Node(conn[t], f), e \notin c2.closing, f \notin conn[t].closing
      PROVE  Nonce(c2, Other(e)) # Nonce(conn[t], Other(f))
  <2>1. Node(c, e) = Node(conn[t], f) /\ e \notin c.closing /\ <<s, e>> # <<t, f>> /\ t # s
    BY <1>2, <1>4, <1>8
  <2>2. CASE GotVersion(c, e)
    <3>1. Nonce(c, Other(e)) # Nonce(conn[t], Other(f))
      BY <1>1, <1>5, <1>8, <2>1, <2>2 DEF Links, c
    <3> QED BY <1>4, <3>1
  <2>3. CASE ~ GotVersion(c, e)
    <3>1. e = d
      BY <1>2, <1>4, <1>8, <2>3 DEF GotVersion
    <3>2. ~ IsDuplicate(Node(c, d), s, d)
      BY <2>3, <3>1 DEF c
    <3>3. <<t, f>> \in EndsOf(Node(c, d)) \ {<<s, d>>}
      <4>1. conn[t].st[f] \notin {"none", "backlog"}
        BY <1>8 DEF GotVersion
      <4> QED BY <1>8, <2>1, <3>1, <4>1, EndsAre
    <3>4. Nonce(conn[t], Other(f)) # Nonce(conn[s], Other(d))
      BY <1>8, <3>2, <3>3 DEF IsDuplicate
    <3> QED BY <1>4, <3>1, <3>4 DEF c
  <2> QED BY <2>2, <2>3
<1>9. ASSUME NEW e \in Sides, c2.st[e] \notin {"none", "backlog"}, e \notin c2.closing,
             Node(c2, Other(e)) \in ordered[Node(c2, e)]
      PROVE  e = "out" /\ c2.manual
  <2>1. c.st[e] \notin {"none", "backlog"} /\ e \notin c.closing
    BY <1>2, <1>4, <1>9
  <2> QED BY <1>1, <1>2, <1>4, <1>5, <1>9, <2>1 DEF Barred, c
<1>10. Fits(conn, up, inc, ordered, s, c2)
  BY <1>2, <1>3, <1>7, <1>8, <1>9 DEF Fits
<1>11. Admitted([conn EXCEPT ![s] = c2])
  <2>1. c2.st["in"] \notin {"none", "backlog"} => c.st["in"] \notin {"none", "backlog"}
    BY <1>2, <1>4 DEF Sides
  <2> QED BY <1>1, <1>2, <1>5, <2>1, SameAdmitted DEF c
<1> QED BY <1>10, <1>11, OneKeeps DEF Inv

\* The rest of the stream is still a stream.
LEMMA ReadFields ==
    ASSUME NEW s \in Slots, NEW d \in Sides, conn[s] \in Connection, conn[s].queue[d] # <<>>
    PROVE  LET c == conn[s]
               r == Read(s, d) IN
           /\ r \in Connection /\ r.from = c.from /\ r.to = c.to /\ r.manual = c.manual
           /\ r.inc = c.inc /\ r.closing = c.closing /\ r.st = c.st
           /\ r.queue[d] = Tail(c.queue[d]) /\ r.queue[Other(d)] = c.queue[Other(d)]
<1> DEFINE c == conn[s]
           q == [c.queue EXCEPT ![d] = Tail(@)]
<1>1. c \in Connection /\ c.queue \in [Sides -> Seq(Messages)]
  BY ConnFields
<1>2. Tail(c.queue[d]) \in Seq(Messages)
  BY <1>1
<1>3. /\ q \in [Sides -> Seq(Messages)] /\ q[d] = Tail(c.queue[d])
      /\ q[Other(d)] = c.queue[Other(d)]
  BY <1>1, <1>2 DEF Sides, Other
<1>4. Read(s, d) = [c EXCEPT !.queue = q]
  BY DEF Read
<1> HIDE DEF c, q
<1>5. /\ Read(s, d) \in Connection /\ Read(s, d).from = c.from /\ Read(s, d).to = c.to
      /\ Read(s, d).manual = c.manual /\ Read(s, d).inc = c.inc /\ Read(s, d).st = c.st
      /\ Read(s, d).closing = c.closing /\ Read(s, d).queue = q
  BY <1>1, <1>3, <1>4 DEF Connection
<1> QED BY <1>3, <1>5 DEF c

\* An end in another state.
LEMMA StateFields ==
    ASSUME NEW c \in Connection, NEW d \in Sides, NEW x \in EndStates
    PROVE  LET r == [c EXCEPT !.st[d] = x] IN
           /\ r \in Connection /\ r.from = c.from /\ r.to = c.to /\ r.manual = c.manual
           /\ r.inc = c.inc /\ r.closing = c.closing /\ r.queue = c.queue
           /\ r.st[d] = x /\ r.st[Other(d)] = c.st[Other(d)]
<1> DEFINE t == [c.st EXCEPT ![d] = x]
           r == [c EXCEPT !.st[d] = x]
<1>1. c.st \in [Sides -> EndStates]
  BY ConnFields
<1>2. t \in [Sides -> EndStates] /\ t[d] = x /\ t[Other(d)] = c.st[Other(d)]
  BY <1>1 DEF Sides, Other
<1>3. r = [c EXCEPT !.st = t]
  OBVIOUS
<1> HIDE DEF t, r
<1>4. /\ r \in Connection /\ r.from = c.from /\ r.to = c.to /\ r.manual = c.manual
      /\ r.inc = c.inc /\ r.closing = c.closing /\ r.queue = c.queue /\ r.st = t
  BY <1>2, <1>3 DEF Connection
<1> QED BY <1>2, <1>4 DEF r

\* What is sent arrives at the other end, if it is there.
LEMMA SendFields ==
    ASSUME NEW c \in Connection, NEW d \in Sides, NEW msgs \in Seq(Messages)
    PROVE  LET r == Send(c, d, msgs) IN
           /\ r \in Connection /\ r.from = c.from /\ r.to = c.to /\ r.manual = c.manual
           /\ r.inc = c.inc /\ r.closing = c.closing /\ r.st = c.st
           /\ r.queue[d] = c.queue[d]
           /\ r.queue[Other(d)] = IF c.st[Other(d)] = "none" THEN c.queue[Other(d)]
                                  ELSE c.queue[Other(d)] \o msgs
<1> DEFINE o == Other(d)
           q == [c.queue EXCEPT ![o] = @ \o msgs]
           r == Send(c, d, msgs)
<1>1. c.queue \in [Sides -> Seq(Messages)] /\ o \in Sides /\ o # d
  BY ConnFields DEF Sides, Other
<1>2. c.queue[o] \o msgs \in Seq(Messages)
  BY <1>1
<1>3. /\ q \in [Sides -> Seq(Messages)] /\ q[o] = c.queue[o] \o msgs
      /\ q[d] = c.queue[d]
  BY <1>1, <1>2
<1>4. r = IF c.st[o] = "none" THEN c ELSE [c EXCEPT !.queue = q]
  BY DEF Send
<1> HIDE DEF o, q, r
<1>5. CASE c.st[o] = "none"
  BY <1>4, <1>5 DEF r, o
<1>6. CASE c.st[o] # "none"
  <2>1. /\ r \in Connection /\ r.from = c.from /\ r.to = c.to /\ r.manual = c.manual
        /\ r.inc = c.inc /\ r.closing = c.closing /\ r.st = c.st /\ r.queue = q
    BY <1>3, <1>4, <1>6 DEF Connection
  <2> QED BY <1>3, <1>6, <2>1 DEF r, o
<1> QED BY <1>5, <1>6

\* An end that reads a message.
LEMMA Reader ==
    ASSUME Inv, NEW s \in Slots, NEW d \in Sides, NEW type, Reads(s, d, type)
    PROVE  LET c == conn[s] IN
           /\ c # NoConn /\ c \in Connection /\ Handshake(c) /\ Distinct(c)
           /\ d \notin c.closing /\ c.st[d] \in {"open", "version", "active"} /\ c.queue[d] # <<>>
           /\ GotVersion(c, d) \/ type = "version"
           /\ Head(c.queue[d]) \in Messages /\ Head(c.queue[d]).type = type
           /\ Node(c, d) \in Nodes /\ c.to \in Nodes
<1> DEFINE c == conn[s]
<1>1. /\ c # NoConn /\ c.st[d] \notin {"none", "connecting", "backlog"} /\ d \notin c.closing
      /\ c.queue[d] # <<>> /\ Head(c.queue[d]).type = type
  BY DEF Reads, Live, Has
<1>2. c \in Connection /\ Handshake(c) /\ Distinct(c)
  BY <1>1, ConnThere DEF Inv
<1>3. c.st[d] \in EndStates /\ c.queue[d] \in Seq(Messages) /\ c.from \in Nodes
  BY <1>2, ConnFields
<1>4. c.st[d] \in {"open", "version", "active"}
  BY <1>1, <1>3 DEF EndStates
<1> HIDE DEF c
<1>5. GotVersion(c, d) \/ VersionNext(c.queue[d])
  BY <1>1, <1>2, OpenReadsVersion
<1>6. c.to \in Nodes
  BY <1>2, <1>4 DEF Distinct, Sides
<1>7. Head(c.queue[d]) \in Messages
  BY <1>1, <1>3
<1>8. Node(c, d) \in Nodes
  BY <1>3, <1>6 DEF Node
<1> QED BY <1>1, <1>2, <1>4, <1>5, <1>6, <1>7, <1>8 DEF VersionNext, c

\* Speaking is between two nodes if the reader knows that it is.
LEMMA SpeaksDistinct ==
    ASSUME NEW c \in Connection, NEW d \in Sides, NEW c2, NEW msgs, Distinct(c), Speaks(c, d, c2, msgs),
           GotVersion(c, d) \/ c.from # c.to
    PROVE  Distinct(c2)
<1>1. c.from # c.to /\ c.to \in Nodes
  BY DEF Distinct, Speaks, Sides
<1> QED BY <1>1 DEF Distinct, Speaks

\* An end that answers a message.
LEMMA ReplySpeaks ==
    ASSUME NEW s \in Slots, NEW d \in Sides, conn[s] \in Connection, d \notin conn[s].closing,
           conn[s].st[d] \in {"open", "version", "active"}, conn[s].queue[d] # <<>>,
           NEW x \in {"version", "active"}, NEW msgs \in Seq(Messages),
           GotVersion(conn[s], d) \/ (d = "in" => VersionNext(msgs))
    PROVE  Speaks(conn[s], d, Send([Read(s, d) EXCEPT !.st[d] = x], d, msgs), msgs)
<1> DEFINE c == conn[s]
           r == Read(s, d)
           t == [r EXCEPT !.st[d] = x]
           c2 == Send(t, d, msgs)
<1>1. /\ r \in Connection /\ r.from = c.from /\ r.to = c.to /\ r.manual = c.manual
      /\ r.inc = c.inc /\ r.closing = c.closing /\ r.st = c.st
      /\ r.queue[Other(d)] = c.queue[Other(d)]
  BY ReadFields
<1>2. x \in EndStates
  BY DEF EndStates
<1> HIDE DEF r
<1>3. /\ t \in Connection /\ t.from = r.from /\ t.to = r.to /\ t.manual = r.manual
      /\ t.inc = r.inc /\ t.closing = r.closing /\ t.queue = r.queue
      /\ t.st[d] = x /\ t.st[Other(d)] = r.st[Other(d)]
  BY <1>1, <1>2, StateFields
<1> HIDE DEF t
<1>4. /\ c2 \in Connection /\ c2.from = t.from /\ c2.to = t.to /\ c2.manual = t.manual
      /\ c2.inc = t.inc /\ c2.closing = t.closing /\ c2.st = t.st
      /\ c2.queue[Other(d)] = IF t.st[Other(d)] = "none" THEN t.queue[Other(d)]
                              ELSE t.queue[Other(d)] \o msgs
  BY <1>3, SendFields
<1> HIDE DEF c2, c
<1>5. Speaks(c, d, c2, msgs)
  BY <1>1, <1>3, <1>4 DEF Speaks, c
<1> QED BY <1>5 DEF c, c2, t, r

\* Setting the state an end is in changes nothing.
LEMMA SameState ==
    ASSUME NEW c \in Connection, NEW d \in Sides
    PROVE  [c EXCEPT !.st[d] = c.st[d]] = c
<1>1. c.st = [e \in Sides |-> c.st[e]]
  BY ConnFields
<1>2. [c.st EXCEPT ![d] = c.st[d]] = c.st
  BY <1>1
<1>3. [c EXCEPT !.st[d] = c.st[d]] = [c EXCEPT !.st = c.st]
  BY <1>2
<1> QED BY <1>3 DEF Connection

\* An answer past the version message keeps the invariant.
LEMMA ReplyKeeps ==
    ASSUME Inv, NEW s \in Slots, NEW d \in Sides, NEW type, type # "version", Reads(s, d, type),
           NEW x \in {"version", "active"}, NEW msgs \in Seq(Messages)
    PROVE  ConnInv([conn EXCEPT ![s] = Send([Read(s, d) EXCEPT !.st[d] = x], d, msgs)],
                   up, inc, ordered)
<1> DEFINE c2 == Send([Read(s, d) EXCEPT !.st[d] = x], d, msgs)
<1>1. /\ conn[s] # NoConn /\ conn[s] \in Connection /\ Distinct(conn[s])
      /\ d \notin conn[s].closing /\ conn[s].st[d] \in {"open", "version", "active"}
      /\ conn[s].queue[d] # <<>> /\ GotVersion(conn[s], d)
  BY Reader
<1>2. Speaks(conn[s], d, c2, msgs)
  BY <1>1, ReplySpeaks
<1> HIDE DEF c2
<1>3. Distinct(c2)
  BY <1>1, <1>2, SpeaksDistinct
<1>4. ConnInv([conn EXCEPT ![s] = c2], up, inc, ordered)
  BY <1>1, <1>2, <1>3, SpeaksFits
<1> QED BY <1>4 DEF c2

\* The handlers of verack, getaddr and addr.
LEMMA OnVerackKeeps ==
    ASSUME Inv, NEW s \in Slots, NEW d \in Sides, OnVerack(s, d)
    PROVE  ConnInv(conn', up, inc, ordered)
<1> DEFINE n == Node(conn[s], d)
           ask == IF d = "out" THEN <<[type |-> "getaddr"]>> ELSE <<>>
           tell == IF External(n) /\ EndsOf(n) # Outbound(n)
                   THEN <<[type |-> "addr", addrs |-> {n}]>> ELSE <<>>
<1>1. /\ Reads(s, d, "verack")
      /\ conn' = [conn EXCEPT ![s] = Send([Read(s, d) EXCEPT !.st[d] = "active"], d, ask \o tell)]
  BY Zenon DEF OnVerack
<1>2. n \in Nodes
  BY <1>1, Reader
<1> HIDE DEF n
<1>3. ask \in Seq(Messages) /\ tell \in Seq(Messages)
  <2>1. [type |-> "getaddr"] \in Messages /\ [type |-> "addr", addrs |-> {n}] \in Messages
    BY <1>2 DEF Messages, Addrs
  <2> QED BY <2>1
<1>4. ask \o tell \in Seq(Messages)
  BY <1>3
<1> HIDE DEF ask, tell
<1> QED BY <1>1, <1>4, ReplyKeeps

LEMMA OnGetAddrKeeps ==
    ASSUME Inv, NEW s \in Slots, NEW d \in Sides, OnGetAddr(s, d)
    PROVE  ConnInv(conn', up, inc, ordered)
<1> DEFINE bk == book[Node(conn[s], d)]
           msgs == <<[type |-> "addr", addrs |-> {a \in DOMAIN bk : bk[a].ok}]>>
           x == conn[s].st[d]
<1>1. /\ Reads(s, d, "getaddr") /\ conn' = [conn EXCEPT ![s] = Send(Read(s, d), d, msgs)]
  BY Zenon DEF OnGetAddr
<1>2. /\ conn[s] \in Connection /\ Node(conn[s], d) \in Nodes /\ x \in {"version", "active"}
      /\ conn[s].queue[d] # <<>>
  BY <1>1, Reader DEF GotVersion
<1>3. msgs \in Seq(Messages)
  <2>1. DOMAIN bk \subseteq Addrs
    BY <1>2 DEF Inv, TypeInv, IsBook
  <2>2. [type |-> "addr", addrs |-> {a \in DOMAIN bk : bk[a].ok}] \in Messages
    BY <2>1 DEF Messages
  <2> QED BY <2>2
<1>4. Read(s, d) \in Connection /\ Read(s, d).st[d] = x
  BY <1>2, ReadFields
<1>5. [Read(s, d) EXCEPT !.st[d] = x] = Read(s, d)
  BY <1>4, SameState
<1> HIDE DEF msgs, x
<1>6. ConnInv([conn EXCEPT ![s] = Send([Read(s, d) EXCEPT !.st[d] = x], d, msgs)], up, inc, ordered)
  BY <1>1, <1>2, <1>3, ReplyKeeps
<1> QED BY <1>1, <1>5, <1>6

LEMMA OnAddrKeeps ==
    ASSUME Inv, NEW s \in Slots, NEW d \in Sides, OnAddr(s, d)
    PROVE  ConnInv(conn', up, inc, ordered)
<1> DEFINE x == conn[s].st[d]
<1>1. /\ Reads(s, d, "addr") /\ conn' = [conn EXCEPT ![s] = Read(s, d)]
  BY DEF OnAddr
<1>2. /\ conn[s] \in Connection /\ x \in {"version", "active"} /\ conn[s].queue[d] # <<>>
  BY <1>1, Reader DEF GotVersion
<1>3. Read(s, d) \in Connection /\ Read(s, d).st[d] = x
  BY <1>2, ReadFields
<1>4. [Read(s, d) EXCEPT !.st[d] = x] = Read(s, d)
  BY <1>3, SameState
<1>5. Send(Read(s, d), d, <<>>) = Read(s, d)
  <2> DEFINE r == Read(s, d)
             o == Other(d)
  <2>1. r.queue \in [Sides -> Seq(Messages)] /\ o \in Sides
    BY <1>3, ConnFields DEF Sides, Other
  <2> HIDE DEF r, o
  <2>2. r.queue[o] \o <<>> = r.queue[o]
    BY <2>1
  <2>3. [r EXCEPT !.queue[o] = @ \o <<>>] = [r EXCEPT !.queue = [r.queue EXCEPT ![o] = r.queue[o]]]
    BY <2>2
  <2>4. [r.queue EXCEPT ![o] = r.queue[o]] = r.queue
    BY <2>1
  <2>5. [r EXCEPT !.queue = r.queue] = r
    BY <1>3 DEF Connection, r
  <2>6. [r EXCEPT !.queue[o] = @ \o <<>>] = r
    BY <2>3, <2>4, <2>5
  <2> QED BY <2>6 DEF Send, r, o
<1> HIDE DEF x
<1>6. ConnInv([conn EXCEPT ![s] = Send([Read(s, d) EXCEPT !.st[d] = x], d, <<>>)], up, inc, ordered)
  <2>1. <<>> \in Seq(Messages)
    OBVIOUS
  <2> QED BY <1>1, <1>2, <2>1, ReplyKeeps
<1> QED BY <1>1, <1>4, <1>5, <1>6

\* A version message that is not wanted is read, and the end is marked.
LEMMA ReadMarkKeeps ==
    ASSUME Inv, NEW s \in Slots, NEW d \in Sides, NEW type, Reads(s, d, type)
    PROVE  ConnInv([conn EXCEPT ![s] = Mark(Read(s, d), d)], up, inc, ordered)
<1> DEFINE c == conn[s]
           r == Read(s, d)
           c2 == Mark(r, d)
<1>1. /\ c # NoConn /\ c \in Connection /\ Handshake(c) /\ Distinct(c)
      /\ d \notin c.closing /\ c.st[d] \in {"open", "version", "active"} /\ c.queue[d] # <<>>
  BY Reader
<1>2. /\ r \in Connection /\ r.from = c.from /\ r.to = c.to /\ r.manual = c.manual
      /\ r.inc = c.inc /\ r.closing = c.closing /\ r.st = c.st
      /\ r.queue[Other(d)] = c.queue[Other(d)]
  BY <1>1, ReadFields
<1> HIDE DEF r, c
<1>3. c2 = [r EXCEPT !.closing = @ \union {d}] /\ c2 \in Connection
  BY <1>2, MarkLoses DEF Mark
<1>4. /\ c2.from = c.from /\ c2.to = c.to /\ c2.manual = c.manual /\ c2.inc = c.inc
      /\ c2.st = c.st /\ c2.closing = c.closing \union {d}
      /\ c2.queue[Other(d)] = c.queue[Other(d)]
  BY <1>2, <1>3 DEF Connection
<1> HIDE DEF c2
<1>5. Handshake(c2)
  <2>1. CASE d = "in"
    BY <1>1, <1>4, <2>1 DEF Handshake, GotVersion, Other
  <2>2. CASE d = "out"
    BY <1>1, <1>4, <2>2 DEF Handshake, GotVersion, Other
  <2> QED BY <2>1, <2>2 DEF Sides
<1>6. Distinct(c2)
  BY <1>1, <1>4 DEF Distinct, GotVersion
<1>7. \A e \in Sides : /\ Node(c2, e) = Node(c, e) /\ Node(c2, Other(e)) = Node(c, Other(e))
                       /\ Nonce(c2, Other(e)) = Nonce(c, Other(e))
                       /\ (GotVersion(c2, e) <=> GotVersion(c, e))
  BY <1>4 DEF Node, Nonce, Other, GotVersion, Sides
<1>8. Alive(conn, up, inc) /\ Links(conn) /\ Barred(conn, ordered) /\ IsConns(conn) /\ Admitted(conn)
  BY DEF Inv, ConnInv
<1>9. \A e \in Sides : c2.st[e] # "none" =>
         Node(c2, e) \in Nodes /\ up[Node(c2, e)] /\ c2.inc[e] = inc[Node(c2, e)]
  BY <1>1, <1>4, <1>7, <1>8 DEF Alive, c
<1>10. ASSUME NEW e \in Sides, NEW f \in Sides, NEW t \in Slots \ {s},
              conn[t] # NoConn, GotVersion(c2, e), GotVersion(conn[t], f),
              Node(c2, e) = Node(conn[t], f), e \notin c2.closing, f \notin conn[t].closing
       PROVE  Nonce(c2, Other(e)) # Nonce(conn[t], Other(f))
  <2>1. GotVersion(c, e) /\ Node(c, e) = Node(conn[t], f) /\ e \notin c.closing /\ <<s, e>> # <<t, f>>
    BY <1>4, <1>7, <1>10
  <2>2. Nonce(c, Other(e)) # Nonce(conn[t], Other(f))
    BY <1>1, <1>8, <1>10, <2>1 DEF Links, c
  <2> QED BY <1>7, <2>2
<1>11. ASSUME NEW e \in Sides, c2.st[e] \notin {"none", "backlog"}, e \notin c2.closing,
              Node(c2, Other(e)) \in ordered[Node(c2, e)]
       PROVE  e = "out" /\ c2.manual
  BY <1>1, <1>4, <1>7, <1>8, <1>11 DEF Barred, c
<1>12. Fits(conn, up, inc, ordered, s, c2)
  BY <1>3, <1>5, <1>6, <1>9, <1>10, <1>11 DEF Fits, c2
<1>13. Admitted([conn EXCEPT ![s] = c2])
  BY <1>1, <1>4, <1>8, SameAdmitted DEF c
<1>14. ConnInv([conn EXCEPT ![s] = c2], up, inc, ordered)
  BY <1>12, <1>13, OneKeeps DEF Inv
<1> QED BY <1>14 DEF c2, r

\* The handler of version: a link to a node that is linked already, or to oneself,
\* is not made.
LEMMA OnVersionKeeps ==
    ASSUME Inv, NEW s \in Slots, NEW d \in Sides, OnVersion(s, d)
    PROVE  ConnInv(conn', up, inc, ordered)
<1> DEFINE n == Node(conn[s], d)
<1>1. Reads(s, d, "version")
  BY DEF OnVersion
<1>2. CASE VersionFromSelf(n, s, d)
  BY <1>1, <1>2, ReadMarkKeeps DEF VersionFromSelf
<1>3. CASE VersionFromKnown(n, s, d)
  BY <1>1, <1>3, ReadMarkKeeps DEF VersionFromKnown
<1>4. CASE VersionTaken(n, s, d)
  <2> DEFINE verack == <<[type |-> "verack"]>>
             reply == IF d = "in" THEN Hello \o verack ELSE verack
             c2 == Send([Read(s, d) EXCEPT !.st[d] = "version"], d, reply)
  <2>1. ~ IsSelf(s) /\ ~ IsDuplicate(n, s, d) /\ conn' = [conn EXCEPT ![s] = c2]
    BY <1>4, Zenon DEF VersionTaken
  <2>2. /\ conn[s] # NoConn /\ conn[s] \in Connection /\ Distinct(conn[s])
        /\ d \notin conn[s].closing /\ conn[s].st[d] \in {"open", "version", "active"}
        /\ conn[s].queue[d] # <<>>
    BY <1>1, Reader
  <2>3. reply \in Seq(Messages) /\ (d = "in" => VersionNext(reply))
    <3>1. [type |-> "version"] \in Messages /\ [type |-> "verack"] \in Messages
      BY DEF Messages
    <3>2. \A x, y \in Messages : /\ <<x>> \o <<y>> \in Seq(Messages) /\ <<x>> \o <<y>> # <<>>
                                  /\ Head(<<x>> \o <<y>>) = x
      OBVIOUS
    <3>3. PICK x, y \in Messages : x = [type |-> "version"] /\ y = [type |-> "verack"]
      BY <3>1
    <3>4. <<x>> \o <<y>> \in Seq(Messages) /\ VersionNext(<<x>> \o <<y>>)
      <4>1. x.type = "version"
        BY <3>3
      <4> QED BY <3>2, <4>1 DEF VersionNext
    <3>5. reply = IF d = "in" THEN <<x>> \o <<y>> ELSE <<y>>
      BY <3>3 DEF Hello
    <3>6. <<y>> \in Seq(Messages)
      OBVIOUS
    <3> HIDE DEF reply
    <3> QED BY <3>4, <3>5, <3>6, Zenon
  <2> HIDE DEF reply
  <2>4. Speaks(conn[s], d, c2, reply)
    BY <2>2, <2>3, ReplySpeaks
  <2> HIDE DEF c2
  <2>5. conn[s].from # conn[s].to
    BY <2>1, <2>2 DEF Distinct, IsSelf, Nonce, Node
  <2>6. Distinct(c2)
    BY <2>2, <2>4, <2>5, SpeaksDistinct
  <2> QED BY <2>1, <2>2, <2>4, <2>6, SpeaksFits
<1> QED BY <1>2, <1>3, <1>4 DEF OnVersion

(***************************************************************************)
(* Quiet steps and steps that dial                                         *)
(***************************************************************************)
\* An end is marked: refused, lost, or misbehaved.
LEMMA MarkKeeps ==
    ASSUME Inv, NEW s \in Slots, NEW d \in Sides, conn[s] # NoConn
    PROVE  ConnInv([conn EXCEPT ![s] = Mark(@, d)], up, inc, ordered)
<1>1. conn[s] \in Connection /\ IsConns(conn)
  BY ConnThere DEF Inv, ConnInv
<1>2. Mark(conn[s], d) \in Connection /\ Loses(conn[s], Mark(conn[s], d))
  BY <1>1, MarkLoses
<1>3. /\ IsConns([conn EXCEPT ![s] = Mark(conn[s], d)])
      /\ Quiet(conn, [conn EXCEPT ![s] = Mark(conn[s], d)])
  BY <1>1, <1>2, OneQuiet
<1> QED BY <1>3, QuietKeeps DEF Inv

\* Ends are marked and reaped: a command to disconnect, or a time-out.
LEMMA MarkedEndsKeep ==
    ASSUME Inv, NEW ends, NEW n
    PROVE  ConnInv(Reaped(MarkedEnds(ends), n), up, inc, ordered)
<1>1. IsConns(conn)
  BY DEF Inv, ConnInv
<1>2. IsConns(MarkedEnds(ends)) /\ Quiet(conn, MarkedEnds(ends))
  BY <1>1, MarkedQuiet
<1>3. ConnInv(MarkedEnds(ends), up, inc, ordered)
  BY <1>2, QuietKeeps DEF Inv
<1> QED BY <1>3, ReapedKeeps

\* The ends with an IP that an operator bans are marked, so that none is in the way
\* of the ban.
LEMMA QueueBanKeeps ==
    ASSUME Inv, NEW n \in Nodes, NEW ip \in Addrs, QueueBan(n, ip)
    PROVE  ConnInv(conn', up, inc, ordered')
<1> DEFINE ends == {e \in EndsOf(n) : Node(conn[e[1]], Other(e[2])) = ip}
           ord2 == [ordered EXCEPT ![n] = @ \union {ip}]
           cs == MarkedEnds(ends)
<1>1. conn' = Reaped(cs, n) /\ ordered' = ord2
  BY DEF QueueBan
<1>2. IsConns(conn) /\ Barred(conn, ordered)
  BY DEF Inv, ConnInv
<1>3. /\ IsConns(cs) /\ Quiet(conn, cs)
      /\ \A s \in Slots, d \in Sides : <<s, d>> \in ends /\ conn[s] # NoConn => d \in cs[s].closing
  BY <1>2, MarkedQuiet
<1>4. \A s \in Slots, d \in Sides :
         conn[s] # NoConn /\ conn[s].st[d] \notin {"none", "backlog"} /\ Node(conn[s], d) = n
         /\ Node(conn[s], Other(d)) = ip => <<s, d>> \in ends
  BY EndsAre
<1> HIDE DEF cs, ends
<1>5. ConnInv(cs, up, inc, ordered)
  BY <1>3, QuietKeeps DEF Inv
<1>6. ordered \in [Nodes -> SUBSET Addrs]
  BY DEF Inv, BanInv
<1>7. Barred(cs, ord2)
  <2> SUFFICES ASSUME NEW s \in Slots, NEW d \in Sides, cs[s] # NoConn,
                      cs[s].st[d] \notin {"none", "backlog"}, d \notin cs[s].closing,
                      Node(cs[s], Other(d)) \in ord2[Node(cs[s], d)]
               PROVE  d = "out" /\ cs[s].manual
    BY DEF Barred
  <2>1. /\ conn[s] # NoConn /\ conn[s].st[d] = cs[s].st[d] /\ Node(cs[s], d) = Node(conn[s], d)
        /\ Node(cs[s], Other(d)) = Node(conn[s], Other(d))
    BY <1>3, EndBefore DEF Quiet
  <2>2. Node(cs[s], d) \in Nodes
    BY <1>5 DEF ConnInv, Alive
  <2>3. ~ (Node(cs[s], d) = n /\ Node(cs[s], Other(d)) = ip)
    BY <1>3, <1>4, <2>1
  <2>4. Node(cs[s], Other(d)) \in ordered[Node(cs[s], d)]
    BY <1>6, <2>2, <2>3
  <2>5. Barred(cs, ordered)
    BY <1>5 DEF ConnInv
  <2> QED BY <2>4, <2>5 DEF Barred
<1> HIDE DEF ord2
<1>8. ConnInv(cs, up, inc, ord2)
  BY <1>5, <1>7 DEF ConnInv
<1> QED BY <1>1, <1>8, ReapedKeeps

\* Steps that may dial, and may reap after.
LEMMA FoundKeeps ==
    ASSUME Inv, NEW n \in Nodes, NEW a \in Addrs, NEW lan, Found(n, a, lan)
    PROVE  ConnInv(conn', up, inc, ordered)
<1>1. PICK f \in BOOLEAN : f = FALSE
  OBVIOUS
<1> DEFINE dial == lan /\ a # n /\ a \notin DOMAIN book[n] /\ MayDial(n, a, FALSE)
<1>2. /\ up[n] /\ (dial => Free # {} /\ MayDial(n, a, FALSE))
      /\ conn' = IF dial THEN WithDial(n, a, FALSE) ELSE conn
  BY Zenon DEF Found, CanDial
<1> HIDE DEF dial
<1>3. CASE dial
  <2>1. MayDial(n, a, f) /\ conn' = WithDial(n, a, f)
    BY <1>1, <1>2, <1>3, Zenon
  <2>2. ConnInv(WithDial(n, a, f), up, inc, ordered)
    BY <1>2, <1>3, <2>1, DialKeeps
  <2> QED BY <2>1, <2>2, Zenon
<1>4. CASE ~ dial
  BY <1>2, <1>4, Zenon DEF Inv
<1> QED BY <1>3, <1>4

LEMMA QueueAddNodeKeeps ==
    ASSUME Inv, NEW n \in Nodes, NEW a \in Addrs, QueueAddNode(n, a)
    PROVE  ConnInv(conn', up, inc, ordered)
<1>1. PICK m \in BOOLEAN : m = TRUE
  OBVIOUS
<1>2. /\ up[n] /\ (MayDial(n, a, TRUE) => Free # {})
      /\ conn' = Reaped(IF MayDial(n, a, TRUE) THEN WithDial(n, a, TRUE) ELSE conn, n)
  BY Zenon DEF QueueAddNode, CanDial
<1>3. CASE MayDial(n, a, TRUE)
  <2>1. MayDial(n, a, m) /\ conn' = Reaped(WithDial(n, a, m), n)
    BY <1>1, <1>2, <1>3, Zenon
  <2>2. ConnInv(WithDial(n, a, m), up, inc, ordered)
    BY <1>2, <1>3, <2>1, DialKeeps
  <2>3. ConnInv(Reaped(WithDial(n, a, m), n), up, inc, ordered)
    BY <2>2, ReapedKeeps
  <2> QED BY <2>1, <2>3, Zenon
<1>4. CASE ~ MayDial(n, a, TRUE)
  <2>1. conn' = Reaped(conn, n)
    BY <1>2, <1>4, Zenon
  <2> QED BY <2>1, ReapedKeeps DEF Inv
<1> QED BY <1>3, <1>4

LEMMA RedialKeeps ==
    ASSUME Inv, NEW n \in Nodes, NEW a \in Addrs, NEW manual \in BOOLEAN,
           up[n], Free # {}, MayDial(n, a, manual), conn' = Reaped(WithDial(n, a, manual), n)
    PROVE  ConnInv(conn', up, inc, ordered)
<1>1. ConnInv(WithDial(n, a, manual), up, inc, ordered)
  BY DialKeeps
<1>2. ConnInv(Reaped(WithDial(n, a, manual), n), up, inc, ordered)
  BY <1>1, ReapedKeeps
<1> QED BY <1>2

\* A node that stops or crashes takes its ends of all connections with it.
LEMMA HaltKeeps ==
    ASSUME Inv, NEW n \in Nodes, Halt(n)
    PROVE  ConnInv(conn', up', inc, ordered)
<1> DEFINE ds(s) == {d \in Sides : Node(conn[s], d) = n}
           u2 == [up EXCEPT ![n] = FALSE]
           cs == [s \in Slots |-> IF conn[s] = NoConn THEN NoConn ELSE OrNone(ClosedAll(conn[s], ds(s)))]
<1>1. conn' = cs /\ up' = u2
  BY DEF Halt
<1>2. IsConns(conn)
  BY DEF Inv, ConnInv
<1>3. ASSUME NEW s \in Slots
      PROVE  /\ cs[s] \in Connection \union {NoConn}
             /\ cs[s] # NoConn => /\ conn[s] # NoConn /\ Loses(conn[s], cs[s])
                                  /\ \A d \in Sides : Node(conn[s], d) = n => cs[s].st[d] = "none"
  <2>1. CASE conn[s] = NoConn
    BY <2>1
  <2>2. CASE conn[s] # NoConn
    <3>1. conn[s] \in Connection /\ ds(s) \in SUBSET Sides
      BY <1>2, <2>2 DEF IsConns
    <3>2. /\ ClosedAll(conn[s], ds(s)) \in Connection /\ Loses(conn[s], ClosedAll(conn[s], ds(s)))
          /\ \A d \in ds(s) : ClosedAll(conn[s], ds(s)).st[d] = "none"
      BY <3>1, ClosedAllLoses
    <3>3. cs[s] \in {NoConn, ClosedAll(conn[s], ds(s))}
      BY <2>2 DEF OrNone
    <3>4. \A d \in Sides : Node(conn[s], d) = n => d \in ds(s)
      OBVIOUS
    <3> HIDE DEF ds, cs
    <3> QED BY <2>2, <3>2, <3>3, <3>4
  <2> QED BY <2>1, <2>2
<1>4. cs = [s \in Slots |-> cs[s]]
  OBVIOUS
<1> HIDE DEF cs
<1>5. IsConns(cs) /\ Quiet(conn, cs)
  BY <1>3, <1>4 DEF IsConns, Quiet
<1>6. ConnInv(cs, up, inc, ordered)
  BY <1>5, QuietKeeps DEF Inv
<1>7. Alive(cs, u2, inc)
  <2> SUFFICES ASSUME NEW s \in Slots, NEW d \in Sides, cs[s] # NoConn, cs[s].st[d] # "none"
               PROVE  /\ Node(cs[s], d) \in Nodes /\ u2[Node(cs[s], d)]
                      /\ cs[s].inc[d] = inc[Node(cs[s], d)]
    BY DEF Alive
  <2>1. /\ Node(cs[s], d) \in Nodes /\ up[Node(cs[s], d)] /\ cs[s].inc[d] = inc[Node(cs[s], d)]
    BY <1>6 DEF ConnInv, Alive
  <2>2. Node(cs[s], d) # n
    BY <1>3, EndBefore
  <2>3. up \in [Nodes -> BOOLEAN]
    BY DEF Inv, TypeInv
  <2> QED BY <2>1, <2>2, <2>3
<1> HIDE DEF u2
<1>8. ConnInv(cs, u2, inc, ordered)
  BY <1>6, <1>7 DEF ConnInv
<1> QED BY <1>1, <1>8

\* A node that starts has no connections.
LEMMA StartKeeps ==
    ASSUME Inv, NEW n \in Nodes, Start(n)
    PROVE  ConnInv(conn', up', inc', ordered')
<1> DEFINE u2 == [up EXCEPT ![n] = TRUE]
           i2 == [inc EXCEPT ![n] = @ + 1]
<1>1. conn' = conn /\ up' = u2 /\ inc' = i2 /\ ordered' = ordered /\ ~ up[n]
  BY DEF Start
<1>2. Alive(conn, u2, i2)
  <2> SUFFICES ASSUME NEW s \in Slots, NEW d \in Sides, conn[s] # NoConn, conn[s].st[d] # "none"
               PROVE  /\ Node(conn[s], d) \in Nodes /\ u2[Node(conn[s], d)]
                      /\ conn[s].inc[d] = i2[Node(conn[s], d)]
    BY DEF Alive
  <2>1. /\ Node(conn[s], d) \in Nodes /\ up[Node(conn[s], d)] /\ conn[s].inc[d] = inc[Node(conn[s], d)]
    BY DEF Inv, ConnInv, Alive
  <2>2. Node(conn[s], d) # n
    BY <1>1, <2>1
  <2>3. up \in [Nodes -> BOOLEAN] /\ inc \in [Nodes -> 0..MaxRestarts]
    BY DEF Inv, TypeInv
  <2> QED BY <2>1, <2>2, <2>3
<1> HIDE DEF u2, i2
<1>3. ConnInv(conn, u2, i2, ordered)
  BY <1>2 DEF Inv, ConnInv
<1> QED BY <1>1, <1>3

\* The connections after any step.
LEMMA ConnStep ==
    ASSUME Inv, [Next]_vars
    PROVE  ConnInv(conn', up', inc', ordered')
<1>1. CASE UNCHANGED vars
  BY <1>1 DEF vars, nodeVars, Inv
<1>2. ASSUME NEW s \in Slots, Connected(s) \/ Refused(s) \/ AcceptInbound(s)
      PROVE  ConnInv(conn', up', inc', ordered')
  <2>1. up' = up /\ inc' = inc /\ ordered' = ordered
    BY <1>2 DEF Connected, Refused, AcceptInbound, nodeVars
  <2>2. CASE Refused(s)
    BY <2>1, <2>2, MarkKeeps DEF Refused, Has, Sides
  <2> QED BY <1>2, <2>1, <2>2, ConnectedKeeps, AcceptKeeps
<1>3. ASSUME NEW s \in Slots, NEW d \in Sides, Handle(s, d) \/ ConnectionLost(s, d) \/ Misbehaves(s, d)
      PROVE  ConnInv(conn', up', inc', ordered')
  <2>1. up' = up /\ inc' = inc /\ ordered' = ordered
    BY <1>3 DEF Handle, OnVersion, OnVerack, OnGetAddr, OnAddr, ConnectionLost, Misbehaves, nodeVars
  <2>2. CASE ConnectionLost(s, d) \/ Misbehaves(s, d)
    BY <2>1, <2>2, MarkKeeps DEF ConnectionLost, Misbehaves, Live, Has
  <2> QED BY <1>3, <2>1, <2>2, OnVersionKeeps, OnVerackKeeps, OnGetAddrKeeps, OnAddrKeeps DEF Handle
<1>4. ASSUME NEW n \in Nodes, Reap(n) \/ SaveAddrs(n)
      PROVE  ConnInv(conn', up', inc', ordered')
  <2>1. /\ up' = up /\ inc' = inc /\ ordered' = ordered
        /\ conn' = Reaped(conn, n)
    BY <1>4 DEF Reap, SaveAddrs, nodeVars
  <2> QED BY <2>1, ReapedKeeps DEF Inv
<1>5. ASSUME NEW n \in Nodes, Stop(n) \/ Crash(n)
      PROVE  ConnInv(conn', up', inc', ordered')
  <2>1. Halt(n) /\ inc' = inc /\ ordered' = ordered
    BY <1>5 DEF Stop, Crash, Halt, nodeVars
  <2> QED BY <2>1, HaltKeeps
<1>6. ASSUME NEW n \in Nodes, NEW s \in Slots, NEW d \in Sides, TimeOut(n, <<s, d>>) \/ QueueDisconnect(n, s, d)
      PROVE  ConnInv(conn', up', inc', ordered')
  <2>1. /\ up' = up /\ inc' = inc /\ ordered' = ordered
        /\ conn' = Reaped(MarkedEnds({<<s, d>>}), n)
    BY <1>6 DEF TimeOut, QueueDisconnect, nodeVars
  <2> QED BY <2>1, MarkedEndsKeep
<1>7. ASSUME NEW n \in Nodes, NEW a \in Addrs, Redial(n, a) \/ DialKnown(n, a)
      PROVE  ConnInv(conn', up', inc', ordered')
  <2>1. PICK t, f \in BOOLEAN : t = TRUE /\ f = FALSE
    OBVIOUS
  <2>2. /\ up' = up /\ inc' = inc /\ ordered' = ordered /\ up[n] /\ Free # {}
    BY <1>7, Zenon DEF Redial, DialKnown, CanDial
  <2>3. CASE Redial(n, a)
    <3>1. MayDial(n, a, t) /\ conn' = Reaped(WithDial(n, a, t), n)
      BY <2>1, <2>3, Zenon DEF Redial
    <3> QED BY <2>2, <3>1, RedialKeeps
  <2>4. CASE DialKnown(n, a)
    <3>1. MayDial(n, a, f) /\ conn' = Reaped(WithDial(n, a, f), n)
      BY <2>1, <2>4, Zenon DEF DialKnown
    <3> QED BY <2>2, <3>1, RedialKeeps
  <2> QED BY <1>7, <2>3, <2>4
<1>8. ASSUME NEW n \in Nodes, NEW a \in Addrs, QueueUnban(n, a) \/ BanExpires(n, a)
      PROVE  ConnInv(conn', up', inc', ordered')
  <2> DEFINE ord2 == [ordered EXCEPT ![n] = @ \ {a}]
  <2>1. /\ up' = up /\ inc' = inc /\ ordered' = ord2 /\ conn' \in {conn, Reaped(conn, n)}
    BY <1>8 DEF QueueUnban, BanExpires
  <2>2. \A m \in Nodes : ord2[m] \subseteq ordered[m]
    BY DEF Inv, BanInv
  <2> HIDE DEF ord2
  <2>3. ConnInv(conn, up, inc, ord2)
    BY <2>2, FewerBans DEF Inv
  <2>4. ConnInv(Reaped(conn, n), up, inc, ord2)
    BY <2>3, ReapedKeeps
  <2> QED BY <2>1, <2>3, <2>4
<1>9. ASSUME NEW n \in Nodes, NEW a \in Addrs, QueueBan(n, a)
      PROVE  ConnInv(conn', up', inc', ordered')
  <2>1. up' = up /\ inc' = inc
    BY <1>9 DEF QueueBan
  <2> QED BY <1>9, <2>1, QueueBanKeeps
<1>10. ASSUME NEW n \in Nodes, NEW a \in Addrs, NEW lan, Found(n, a, lan)
       PROVE  ConnInv(conn', up', inc', ordered')
  <2>1. up' = up /\ inc' = inc /\ ordered' = ordered
    BY <1>10 DEF Found
  <2> QED BY <1>10, <2>1, FoundKeeps
<1>11. ASSUME NEW n \in Nodes, NEW a \in Addrs, QueueAddNode(n, a)
       PROVE  ConnInv(conn', up', inc', ordered')
  <2>1. up' = up /\ inc' = inc /\ ordered' = ordered
    BY <1>11 DEF QueueAddNode
  <2> QED BY <1>11, <2>1, QueueAddNodeKeeps
<1> QED BY <1>1, <1>2, <1>3, <1>4, <1>5, <1>6, <1>7, <1>8, <1>9, <1>10, <1>11, StartKeeps DEF Next

(***************************************************************************)
(* Bans                                                                    *)
(***************************************************************************)
\* A command of the operator, its end, or a restart keeps the bans in force.
LEMMA BanStep ==
    ASSUME Inv, [Next]_vars
    PROVE  BanInv'
<1> USE DEF BanInv
<1>1. CASE UNCHANGED <<banned, reasons, bansFile, ordered>>
  BY <1>1 DEF Inv
<1>2. ASSUME NEW s \in Slots, NEW d \in Sides, Misbehaves(s, d) PROVE BanInv'
  <2> DEFINE n == Node(conn[s], d)
             ip == Node(conn[s], Other(d))
  <2>1. /\ banned' = [banned EXCEPT ![n] =
                         IF conn[s].manual /\ d = "out" THEN @ ELSE @ \union {ip}]
        /\ UNCHANGED <<reasons, bansFile, ordered>>
    BY <1>2 DEF Misbehaves, files
  <2>2. conn[s] \in Connection /\ conn[s].st[d] # "none" /\ conn[s] # NoConn
    BY <1>2, ConnThere DEF Inv, Misbehaves, Live, Has
  <2>3. ip \in Addrs
    BY <2>2, ConnFields DEF Other, Sides
  <2>4. n \in Nodes
    BY <2>2 DEF Inv, ConnInv, Alive
  <2> HIDE DEF n, ip
  <2> QED BY <2>1, <2>3, <2>4 DEF Inv
<1>3. ASSUME NEW n \in Nodes, NEW ip \in Addrs,
             QueueBan(n, ip) \/ QueueUnban(n, ip) \/ BanExpires(n, ip)
      PROVE  BanInv'
  BY <1>3 DEF Inv, QueueBan, QueueUnban, BanExpires, SaveBans
<1>4. ASSUME NEW n \in Nodes, Start(n) PROVE BanInv'
  BY <1>4 DEF Inv, Start, LoadBans, files
<1>5. ASSUME NEW s \in Slots, Connected(s) \/ Refused(s) \/ AcceptInbound(s) PROVE BanInv'
  BY <1>1, <1>5 DEF Connected, Refused, AcceptInbound, nodeVars, files
<1>6. ASSUME NEW s \in Slots, NEW d \in Sides, Handle(s, d) \/ ConnectionLost(s, d) PROVE BanInv'
  BY <1>1, <1>6 DEF Handle, OnVersion, OnVerack, OnGetAddr, OnAddr, ConnectionLost, nodeVars, files
<1>7. ASSUME NEW n \in Nodes, Reap(n) \/ SaveAddrs(n) \/ Stop(n) \/ Crash(n) PROVE BanInv'
  BY <1>1, <1>7 DEF Reap, SaveAddrs, Stop, Crash, Halt, nodeVars, files
<1>8. ASSUME NEW n \in Nodes, NEW s \in Slots, NEW d \in Sides, TimeOut(n, <<s, d>>) \/ QueueDisconnect(n, s, d)
      PROVE  BanInv'
  BY <1>1, <1>8 DEF TimeOut, QueueDisconnect, nodeVars, files
<1>9. ASSUME NEW n \in Nodes, NEW a \in Addrs, NEW lan,
             Redial(n, a) \/ DialKnown(n, a) \/ QueueAddNode(n, a) \/ Found(n, a, lan)
      PROVE  BanInv'
  BY <1>1, <1>9, Zenon DEF Redial, DialKnown, QueueAddNode, Found, files
<1>10. CASE UNCHANGED vars
  BY <1>1, <1>10 DEF vars, nodeVars, files
<1> QED BY <1>2, <1>3, <1>4, <1>5, <1>6, <1>7, <1>8, <1>9, <1>10 DEF Next

(***************************************************************************)
(* What is called good                                                     *)
(***************************************************************************)
\* A book of node n that calls good only other nodes.
GoodBook(n, bk) == IsBook(bk) /\ \A a \in DOMAIN bk : bk[a].ok => a \in Nodes \ {n}
Books(bks) == DOMAIN bks = Nodes /\ \A n \in Nodes : GoodBook(n, bks[n])

\* One book is replaced.
LEMMA OneBook ==
    ASSUME NEW bks, Books(bks), NEW n, NEW bk, n \in Nodes => GoodBook(n, bk)
    PROVE  Books([bks EXCEPT ![n] = bk])
BY DEF Books

\* A book in which nothing became good.
LEMMA NotBetter ==
    ASSUME NEW n, NEW bk, GoodBook(n, bk), NEW new, IsBook(new), NoneBetter(new, bk)
    PROVE  GoodBook(n, new)
BY DEF GoodBook, NoneBetter

\* The book and the file agree on what is good when one is made from the other.
LEMMA SavedGood ==
    ASSUME NEW n, NEW bk, GoodBook(n, bk)
    PROVE  /\ DOMAIN Saved(bk) \subseteq Addrs
           /\ \A a \in DOMAIN Saved(bk) : /\ Saved(bk)[a] \in BOOLEAN
                                          /\ (Saved(bk)[a] => a \in Nodes \ {n})
BY DEF GoodBook, IsBook, Saved, AddrInfo

LEMMA LoadedGood ==
    ASSUME NEW n, NEW file, DOMAIN file \subseteq Addrs,
           \A a \in DOMAIN file : file[a] \in BOOLEAN /\ (file[a] => a \in Nodes \ {n})
    PROVE  GoodBook(n, Loaded(file))
<1>1. DOMAIN Loaded(file) = DOMAIN file
  BY DEF Loaded
<1>2. ASSUME NEW a \in DOMAIN file
      PROVE  Loaded(file)[a] \in AddrInfo /\ (Loaded(file)[a].ok => a \in Nodes \ {n})
  <2>1. file[a] \in BOOLEAN /\ (file[a] => a \in Nodes \ {n})
    OBVIOUS
  <2>2. PICK good \in BOOLEAN : good = file[a]
    BY <2>1
  <2>3. Loaded(file)[a] = [ok |-> good, attempts |-> 0, manual |-> FALSE]
    BY <2>2 DEF Loaded, NewInfo
  <2>4. 0 \in 0..MaxAttempts
    BY ConnectionsAssumption
  <2>5. Loaded(file)[a] \in AddrInfo /\ Loaded(file)[a].ok = good
    BY <2>3, <2>4 DEF AddrInfo
  <2> QED BY <2>1, <2>2, <2>5
<1> QED BY <1>1, <1>2 DEF GoodBook, IsBook

\* The address of a peer is good after its verack, which only another node sends.
LEMMA VerackGood ==
    ASSUME Inv, NEW s \in Slots, Reads(s, "out", "verack"), NEW bk,
           GoodBook(conn[s].from, bk)
    PROVE  GoodBook(conn[s].from,
               Put(bk, conn[s].to, [Info(bk, conn[s].to) EXCEPT !.ok = TRUE, !.attempts = 0]))
<1> DEFINE n == conn[s].from
           a == conn[s].to
           i == [Info(bk, a) EXCEPT !.ok = TRUE, !.attempts = 0]
<1>1. /\ Distinct(conn[s]) /\ GotVersion(conn[s], "out") /\ a \in Nodes
  BY Reader DEF Sides
<1>2. a \in Nodes \ {n} /\ a \in Addrs
  BY <1>1 DEF Distinct, Sides, Addrs
<1> HIDE DEF n, a
<1>3. Info(bk, a) \in AddrInfo
  BY <1>2, InfoType DEF GoodBook, n
<1>4. i \in AddrInfo
  <2>1. MaxAttempts \in Nat
    BY ConnectionsAssumption
  <2>2. PICK t \in BOOLEAN : t = TRUE
    OBVIOUS
  <2>6. PICK z \in 0..MaxAttempts : z = 0
    BY <2>1
  <2>3. PICK o \in BOOLEAN, k \in 0..MaxAttempts, m \in BOOLEAN :
           Info(bk, a) = [ok |-> o, attempts |-> k, manual |-> m]
    BY <1>3 DEF AddrInfo
  <2>4. i = [[ok |-> o, attempts |-> k, manual |-> m] EXCEPT !.ok = t, !.attempts = z]
    BY <2>2, <2>3, <2>6, Zenon
  <2> HIDE DEF i
  <2>5. i = [ok |-> t, attempts |-> z, manual |-> m]
    BY <2>4
  <2> QED BY <2>5 DEF AddrInfo
<1> HIDE DEF i
<1>5. /\ IsBook(Put(bk, a, i)) /\ DOMAIN Put(bk, a, i) = DOMAIN bk \union {a}
      /\ \A x \in DOMAIN Put(bk, a, i) : Put(bk, a, i)[x] = IF x = a THEN i ELSE bk[x]
  <2>1. IsBook(bk)
    BY DEF GoodBook
  <2> QED BY <1>2, <1>4, <2>1 DEF Put, IsBook
<1>6. GoodBook(n, bk)
  BY DEF n
<1>7. GoodBook(n, Put(bk, a, i))
  BY <1>2, <1>5, <1>6 DEF GoodBook
<1> QED BY <1>7 DEF n, a, i

\* The address books after any step.
LEMMA BookStep ==
    ASSUME Inv, [Next]_vars
    PROVE  Books(book')
<1>1. Books(book)
  BY DEF Inv, TypeInv, GoodInv, Books, GoodBook
<1>2. CASE UNCHANGED book
  BY <1>1, <1>2
<1>3. \A n \in Nodes : GoodBook(n, book[n])
  BY <1>1 DEF Books
<1>4. PICK f, t \in BOOLEAN : f = FALSE /\ t = TRUE
  OBVIOUS
<1>5. ASSUME NEW n \in Nodes, NEW a \in Addrs, NEW e, NEW m \in BOOLEAN, NEW bk, GoodBook(n, bk)
      PROVE  GoodBook(n, AddAddr(bk, e, a, m)) /\ GoodBook(n, Tried(bk, a, m)) /\ GoodBook(n, Forget(bk, a))
  <2>1. IsBook(bk)
    BY <1>5 DEF GoodBook
  <2>2. IsBook(AddAddr(bk, e, a, m)) /\ NoneBetter(AddAddr(bk, e, a, m), bk)
    BY <2>1, AddAddrKeeps
  <2>3. IsBook(Tried(bk, a, m)) /\ NoneBetter(Tried(bk, a, m), bk)
    BY <2>1, TriedKeeps
  <2>4. IsBook(Forget(bk, a)) /\ NoneBetter(Forget(bk, a), bk)
    BY <2>1, ForgetKeeps
  <2> QED BY <1>5, <2>2, <2>3, <2>4, NotBetter
<1>6. ASSUME NEW s \in Slots, NEW d \in Sides, OnVersion(s, d) PROVE Books(book')
  <2> DEFINE n == Node(conn[s], d)
             c == conn[s]
  <2>1. c \in Connection /\ n \in Nodes /\ n \in Addrs /\ c.from \in Addrs
    <3>1. c \in Connection /\ n \in Nodes
      BY <1>6, Reader DEF OnVersion
    <3> QED BY <3>1, ConnFields DEF Addrs
  <2> HIDE DEF n, c
  <2>2. GoodBook(n, book[n]) /\ GoodBook(n, Forget(book[n], n))
    BY <1>3, <1>4, <1>5, <2>1
  <2>3. CASE VersionFromSelf(n, s, d)
    <3>1. book' = [book EXCEPT ![n] = IF d = "out" THEN Forget(@, n) ELSE @]
      BY <2>3 DEF VersionFromSelf
    <3>2. CASE d = "out"
      BY <1>1, <2>2, <3>1, <3>2, OneBook
    <3>3. CASE d # "out"
      BY <1>1, <2>2, <3>1, <3>3, OneBook
    <3> QED BY <3>2, <3>3
  <2>4. CASE VersionTaken(n, s, d)
    <3> DEFINE added == IF d = "in" THEN AddAddr(book[n], FALSE, c.from, FALSE) ELSE book[n]
    <3>1. book' = [book EXCEPT ![n] = IF votes[n] = 1 THEN Forget(added, n) ELSE added]
      <4> DEFINE r == [Read(s, d) EXCEPT !.st[d] = "version"]
                 From(x) == IF d = "in" THEN AddAddr(book[n], FALSE, x, FALSE) ELSE book[n]
      <4>1. book' = [book EXCEPT ![n] = IF votes[n] = 1 THEN Forget(From(r.from), n) ELSE From(r.from)]
        BY <2>4, Zenon DEF VersionTaken
      <4>2. conn[s].queue[d] # <<>> /\ "version" \in EndStates /\ c = conn[s]
        BY <1>6, Reader DEF OnVersion, EndStates, c
      <4>3. Read(s, d) \in Connection /\ Read(s, d).from = c.from
        BY <2>1, <4>2, ReadFields
      <4>4. r.from = c.from
        BY <4>2, <4>3, StateFields
      <4>5. added = From(c.from)
        OBVIOUS
      <4> HIDE DEF r, From, added
      <4> QED BY <4>1, <4>4, <4>5, Zenon
    <3>2. GoodBook(n, added)
      <4>1. GoodBook(n, AddAddr(book[n], f, c.from, f))
        BY <1>5, <2>1, <2>2
      <4>2. AddAddr(book[n], FALSE, c.from, FALSE) = AddAddr(book[n], f, c.from, f)
        BY <1>4, Zenon
      <4> QED BY <2>2, <4>1, <4>2, Zenon
    <3> HIDE DEF added
    <3>3. GoodBook(n, Forget(added, n))
      BY <1>4, <1>5, <2>1, <3>2
    <3> DEFINE new == IF votes[n] = 1 THEN Forget(added, n) ELSE added
    <3>4. GoodBook(n, new) /\ book' = [book EXCEPT ![n] = new]
      BY <3>1, <3>2, <3>3
    <3> HIDE DEF new
    <3> QED BY <1>1, <3>4, OneBook
  <2>5. CASE VersionFromKnown(n, s, d)
    BY <1>2, <2>5 DEF VersionFromKnown
  <2> QED BY <1>6, <2>3, <2>4, <2>5 DEF OnVersion, n
<1>7. ASSUME NEW s \in Slots, NEW d \in Sides, OnVerack(s, d) PROVE Books(book')
  <2> DEFINE n == Node(conn[s], d)
             a == conn[s].to
             new == Put(book[n], a, [Info(book[n], a) EXCEPT !.ok = TRUE, !.attempts = 0])
  <2>1. Reads(s, d, "verack") /\ n \in Nodes
    BY <1>7, Reader DEF OnVerack
  <2>2. Read(s, d).to = a
    <3>1. conn[s] \in Connection /\ conn[s].queue[d] # <<>>
      BY <2>1, Reader
    <3> QED BY <3>1, ReadFields
  <2>3. [Read(s, d) EXCEPT !.st[d] = "active"].to = a
    <3>1. conn[s] \in Connection /\ conn[s].queue[d] # <<>> /\ "active" \in EndStates
      BY <2>1, Reader DEF EndStates
    <3>2. Read(s, d) \in Connection
      BY <3>1, ReadFields
    <3>3. [Read(s, d) EXCEPT !.st[d] = "active"].to = Read(s, d).to
      BY <3>1, <3>2, StateFields
    <3> QED BY <2>2, <3>3
  <2>4. book' = [book EXCEPT ![n] = IF d = "out" THEN new ELSE @]
    <3> DEFINE r == [Read(s, d) EXCEPT !.st[d] = "active"]
               Reached(x) == Put(book[n], x, [Info(book[n], x) EXCEPT !.ok = TRUE, !.attempts = 0])
    <3>1. book' = [book EXCEPT ![n] = IF d = "out" THEN Reached(r.to) ELSE @]
      BY <1>7, Zenon DEF OnVerack
    <3>2. r.to = a
      BY <2>3
    <3>3. new = Reached(a)
      OBVIOUS
    <3> HIDE DEF r, Reached, new, a
    <3> QED BY <3>1, <3>2, <3>3, Zenon
  <2>5. CASE d = "out"
    <3>1. n = conn[s].from
      BY <2>5 DEF Node
    <3>2. GoodBook(n, book[n])
      BY <1>3, <2>1
    <3> HIDE DEF n
    <3>3. GoodBook(n, Put(book[n], a, [Info(book[n], a) EXCEPT !.ok = TRUE, !.attempts = 0]))
      BY <2>1, <2>5, <3>1, <3>2, VerackGood
    <3> HIDE DEF new
    <3>4. GoodBook(n, new) /\ book' = [book EXCEPT ![n] = new]
      BY <2>4, <2>5, <3>3 DEF new
    <3> QED BY <1>1, <3>4, OneBook
  <2>6. CASE d # "out"
    <3>1. book' = [book EXCEPT ![n] = book[n]]
      BY <2>4, <2>6
    <3> HIDE DEF n
    <3> QED BY <1>1, <1>3, <2>1, <3>1, OneBook
  <2> QED BY <2>5, <2>6
<1>8. ASSUME NEW s \in Slots, NEW d \in Sides, OnAddr(s, d) PROVE Books(book')
  <2> DEFINE n == Node(conn[s], d)
             as == Head(conn[s].queue[d]).addrs
  <2>1. Reads(s, d, "addr") /\ n \in Nodes /\ book' = [book EXCEPT ![n] = AddAll(book[n], n, as)]
    BY <1>8, Reader DEF OnAddr
  <2>2. as \in SUBSET Addrs
    <3>1. Head(conn[s].queue[d]) \in Messages /\ Head(conn[s].queue[d]).type = "addr"
      BY <2>1, Reader
    <3> QED BY <3>1 DEF Messages
  <2> HIDE DEF n, as
  <2>3. GoodBook(n, book[n]) /\ IsBook(book[n])
    BY <1>3, <2>1 DEF GoodBook
  <2>4. GoodBook(n, AddAll(book[n], n, as))
    <3>1. IsBook(AddAll(book[n], n, as)) /\ NoneBetter(AddAll(book[n], n, as), book[n])
      BY <2>2, <2>3, AddAllKeeps
    <3> QED BY <2>3, <3>1, NotBetter
  <2> QED BY <1>1, <2>1, <2>4, OneBook
<1>9. ASSUME NEW n \in Nodes, NEW a \in Addrs, NEW lan, Found(n, a, lan) PROVE Books(book')
  <2> DEFINE own == a = n /\ External(n)
             added == AddAddr(book[n], own, a, FALSE)
             dial == lan /\ a # n /\ a \notin DOMAIN book[n] /\ MayDial(n, a, FALSE)
             new == IF dial THEN Tried(added, a, FALSE) ELSE added
  <2>1. book' = [book EXCEPT ![n] = new]
    BY <1>9, Zenon DEF Found
  <2>2. PICK o \in BOOLEAN : o = own
    OBVIOUS
  <2>3. added = AddAddr(book[n], o, a, f)
    BY <1>4, <2>2, Zenon
  <2> HIDE DEF added, dial
  <2>4. GoodBook(n, added)
    BY <1>3, <1>5, <2>3
  <2>5. GoodBook(n, Tried(added, a, f))
    BY <1>4, <1>5, <2>4
  <2>6. new \in {Tried(added, a, f), added}
    BY <1>4, Zenon
  <2> HIDE DEF new
  <2>7. GoodBook(n, new)
    BY <2>4, <2>5, <2>6
  <2> QED BY <1>1, <2>1, <2>7, OneBook
<1>10. ASSUME NEW n \in Nodes, NEW a \in Addrs, QueueAddNode(n, a) PROVE Books(book')
  <2> DEFINE own == a = n /\ External(n)
             added == AddAddr(book[n], own, a, TRUE)
             new == IF MayDial(n, a, TRUE) THEN Tried(added, a, TRUE) ELSE added
  <2>1. book' = [book EXCEPT ![n] = new]
    BY <1>10, Zenon DEF QueueAddNode
  <2>2. PICK o \in BOOLEAN : o = own
    OBVIOUS
  <2>3. added = AddAddr(book[n], o, a, t)
    BY <1>4, <2>2, Zenon
  <2> HIDE DEF added
  <2>4. GoodBook(n, added)
    BY <1>3, <1>5, <2>3
  <2>5. GoodBook(n, Tried(added, a, t))
    BY <1>4, <1>5, <2>4
  <2>6. new \in {Tried(added, a, t), added}
    BY <1>4, Zenon
  <2> HIDE DEF new
  <2>7. GoodBook(n, new)
    BY <2>4, <2>5, <2>6
  <2> QED BY <1>1, <2>1, <2>7, OneBook
<1>11. ASSUME NEW n \in Nodes, NEW a \in Addrs, Redial(n, a) \/ DialKnown(n, a) PROVE Books(book')
  <2>1. \/ book' = [book EXCEPT ![n] = Tried(@, a, TRUE)]
        \/ book' = [book EXCEPT ![n] = Tried(@, a, FALSE)]
    BY <1>11, Zenon DEF Redial, DialKnown
  <2>2. PICK m \in BOOLEAN : book' = [book EXCEPT ![n] = Tried(book[n], a, m)]
    BY <1>4, <2>1, Zenon
  <2>3. GoodBook(n, Tried(book[n], a, m))
    BY <1>3, <1>4, <1>5
  <2> QED BY <1>1, <2>2, <2>3, OneBook
<1>12. ASSUME NEW n \in Nodes, Start(n) PROVE Books(book')
  <2>1. book' = [book EXCEPT ![n] = Loaded(peersFile[n])]
    BY <1>12 DEF Start
  <2>2. /\ DOMAIN peersFile[n] \subseteq Addrs
        /\ \A a \in DOMAIN peersFile[n] : /\ peersFile[n][a] \in BOOLEAN
                                          /\ (peersFile[n][a] => a \in Nodes \ {n})
    BY DEF Inv, TypeInv, GoodInv
  <2>3. GoodBook(n, Loaded(peersFile[n]))
    BY <2>2, LoadedGood
  <2> QED BY <1>1, <2>1, <2>3, OneBook
<1>13. ASSUME NEW s \in Slots, Connected(s) \/ Refused(s) \/ AcceptInbound(s) PROVE Books(book')
  BY <1>2, <1>13 DEF Connected, Refused, AcceptInbound, nodeVars
<1>14. ASSUME NEW s \in Slots, NEW d \in Sides, OnGetAddr(s, d) \/ ConnectionLost(s, d) \/ Misbehaves(s, d)
       PROVE  Books(book')
  BY <1>2, <1>14 DEF OnGetAddr, ConnectionLost, Misbehaves, nodeVars
<1>15. ASSUME NEW n \in Nodes, Reap(n) \/ SaveAddrs(n) \/ Stop(n) \/ Crash(n) PROVE Books(book')
  BY <1>2, <1>15 DEF Reap, SaveAddrs, Stop, Crash, Halt, nodeVars
<1>16. ASSUME NEW n \in Nodes, NEW s \in Slots, NEW d \in Sides, TimeOut(n, <<s, d>>) \/ QueueDisconnect(n, s, d)
       PROVE  Books(book')
  BY <1>2, <1>16 DEF TimeOut, QueueDisconnect, nodeVars
<1>17. ASSUME NEW n \in Nodes, NEW a \in Addrs, QueueBan(n, a) \/ QueueUnban(n, a) \/ BanExpires(n, a)
       PROVE  Books(book')
  BY <1>2, <1>17 DEF QueueBan, QueueUnban, BanExpires
<1>18. CASE UNCHANGED vars
  BY <1>2, <1>18 DEF vars, nodeVars
<1> QED BY <1>6, <1>7, <1>8, <1>9, <1>10, <1>11, <1>12, <1>13, <1>14, <1>15, <1>16, <1>17, <1>18
        DEF Next, Handle

\* A file of peers of every node that calls good only other nodes.
Files(pfs) ==
    /\ DOMAIN pfs = Nodes
    /\ \A n \in Nodes : /\ DOMAIN pfs[n] \subseteq Addrs
                        /\ \A a \in DOMAIN pfs[n] : pfs[n][a] \in BOOLEAN /\ (pfs[n][a] => a \in Nodes \ {n})

\* The files of peers after any step.
LEMMA FileStep ==
    ASSUME Inv, [Next]_vars
    PROVE  Files(peersFile')
<1>1. Files(peersFile)
  BY DEF Inv, TypeInv, GoodInv, Files
<1>2. CASE UNCHANGED peersFile
  BY <1>1, <1>2
<1>3. ASSUME NEW n \in Nodes, SaveAddrs(n) \/ Stop(n) PROVE Files(peersFile')
  <2>1. peersFile' = [peersFile EXCEPT ![n] = Saved(book[n])]
    BY <1>3 DEF SaveAddrs, Stop
  <2>2. GoodBook(n, book[n])
    BY DEF Inv, TypeInv, GoodInv, GoodBook
  <2>3. /\ DOMAIN Saved(book[n]) \subseteq Addrs
        /\ \A a \in DOMAIN Saved(book[n]) : /\ Saved(book[n])[a] \in BOOLEAN
                                            /\ (Saved(book[n])[a] => a \in Nodes \ {n})
    BY <2>2, SavedGood
  <2> QED BY <1>1, <2>1, <2>3 DEF Files
<1>4. ASSUME NEW s \in Slots, Connected(s) \/ Refused(s) \/ AcceptInbound(s) PROVE Files(peersFile')
  BY <1>2, <1>4 DEF Connected, Refused, AcceptInbound, files
<1>5. ASSUME NEW s \in Slots, NEW d \in Sides, Handle(s, d) \/ ConnectionLost(s, d) \/ Misbehaves(s, d)
      PROVE  Files(peersFile')
  BY <1>2, <1>5 DEF Handle, OnVersion, OnVerack, OnGetAddr, OnAddr, ConnectionLost, Misbehaves, files
<1>6. ASSUME NEW n \in Nodes, Reap(n) \/ Crash(n) \/ Start(n) PROVE Files(peersFile')
  BY <1>2, <1>6 DEF Reap, Crash, Start, files
<1>7. ASSUME NEW n \in Nodes, NEW s \in Slots, NEW d \in Sides, TimeOut(n, <<s, d>>) \/ QueueDisconnect(n, s, d)
      PROVE  Files(peersFile')
  BY <1>2, <1>7 DEF TimeOut, QueueDisconnect, files
<1>8. ASSUME NEW n \in Nodes, NEW a \in Addrs, NEW lan,
             \/ Redial(n, a) \/ DialKnown(n, a) \/ QueueAddNode(n, a) \/ Found(n, a, lan)
             \/ QueueBan(n, a) \/ QueueUnban(n, a) \/ BanExpires(n, a)
      PROVE  Files(peersFile')
  BY <1>2, <1>8, Zenon DEF Redial, DialKnown, QueueAddNode, Found, QueueBan, QueueUnban, BanExpires, files
<1>9. CASE UNCHANGED vars
  BY <1>2, <1>9 DEF vars, files
<1> QED BY <1>3, <1>4, <1>5, <1>6, <1>7, <1>8, <1>9 DEF Next

\* The counters and what a node knows of itself.
CountInv ==
    /\ up \in [Nodes -> BOOLEAN] /\ inc \in [Nodes -> 0..MaxRestarts]
    /\ \A n \in Nodes : ~ up[n] => inc[n] < MaxRestarts
    /\ votes \in [Nodes -> 0..2] /\ selfAddrs \in [Nodes -> SUBSET Addrs]
    /\ dials \in [Nodes -> Nat] /\ \A n \in Nodes : dials[n] <= MaxDials[n]
    /\ events \in 0..MaxEvents

LEMMA CountStep ==
    ASSUME Inv, [Next]_vars
    PROVE  CountInv'
<1> USE DEF CountInv
<1>1. CountInv /\ MaxEvents \in Nat /\ MaxRestarts \in Nat /\ MaxDials \in [Nodes -> Nat]
  BY ConnectionsAssumption DEF Inv, TypeInv
<1>2. CASE UNCHANGED <<up, inc, votes, selfAddrs, dials, events>>
  BY <1>1, <1>2
<1>3. CASE UseEvent /\ UNCHANGED <<up, inc, votes, selfAddrs, dials>>
  BY <1>1, <1>3 DEF UseEvent
<1>4. ASSUME NEW n \in Nodes, CanDial(n), CountDial(n), UNCHANGED <<up, inc, votes, selfAddrs>>,
             UseEvent \/ UNCHANGED events
      PROVE  CountInv'
  BY <1>1, <1>4 DEF UseEvent, CanDial, CountDial
<1>5. ASSUME NEW s \in Slots, Connected(s) \/ Refused(s) \/ AcceptInbound(s) PROVE CountInv'
  BY <1>2, <1>5 DEF Connected, Refused, AcceptInbound, nodeVars
<1>6. ASSUME NEW s \in Slots, NEW d \in Sides, OnVersion(s, d) PROVE CountInv'
  <2> DEFINE n == Node(conn[s], d)
  <2>1. n \in Nodes /\ n \in Addrs /\ UNCHANGED <<up, inc, dials, events>>
    BY <1>6, Reader DEF OnVersion, Addrs
  <2> HIDE DEF n
  <2>2. CASE VersionFromSelf(n, s, d)
    BY <1>1, <2>1, <2>2 DEF VersionFromSelf
  <2>3. CASE VersionFromKnown(n, s, d)
    BY <1>2, <2>1, <2>3 DEF VersionFromKnown
  <2>4. CASE VersionTaken(n, s, d)
    <3>1. votes' = [votes EXCEPT ![n] = Min({2, votes[n] + 1})] /\ selfAddrs' = selfAddrs
      BY <2>4, Zenon DEF VersionTaken
    <3>2. Min({2, votes[n] + 1}) \in 0..2
      <4>1. 2 \in Nat /\ votes[n] + 1 \in Nat
        BY <1>1, <2>1
      <4>2. \A x, y \in Nat : x \in {2, y} /\ x <= 2 => x \in 0..2
        OBVIOUS
      <4> QED BY <4>1, <4>2, MinOfTwo
    <3> QED BY <1>1, <2>1, <3>1, <3>2
  <2> QED BY <1>6, <2>2, <2>3, <2>4 DEF OnVersion, n
<1>7. ASSUME NEW s \in Slots, NEW d \in Sides,
             OnVerack(s, d) \/ OnGetAddr(s, d) \/ OnAddr(s, d) \/ ConnectionLost(s, d) \/ Misbehaves(s, d)
      PROVE  CountInv'
  <2>1. /\ UNCHANGED <<up, inc, votes, selfAddrs, dials>>
        /\ UseEvent \/ UNCHANGED events
    BY <1>7, Zenon DEF OnVerack, OnGetAddr, OnAddr, ConnectionLost, Misbehaves, nodeVars
  <2> QED BY <1>2, <1>3, <2>1
<1>8. ASSUME NEW n \in Nodes, Reap(n) \/ SaveAddrs(n) PROVE CountInv'
  <2>1. /\ UNCHANGED <<up, inc, votes, selfAddrs, dials>>
        /\ UseEvent \/ UNCHANGED events
    BY <1>8, Zenon DEF Reap, SaveAddrs, nodeVars
  <2> QED BY <1>2, <1>3, <2>1
<1>9. ASSUME NEW n \in Nodes, Stop(n) \/ Crash(n) PROVE CountInv'
  <2>1. /\ up' = [up EXCEPT ![n] = FALSE] /\ inc[n] < MaxRestarts /\ UseEvent
        /\ UNCHANGED <<inc, votes, selfAddrs, dials>>
    BY <1>9 DEF Stop, Crash, Halt, nodeVars
  <2> QED BY <1>1, <2>1 DEF UseEvent
<1>10. ASSUME NEW n \in Nodes, Start(n) PROVE CountInv'
  BY <1>1, <1>10 DEF Start
<1>11. ASSUME NEW n \in Nodes, NEW s \in Slots, NEW d \in Sides, TimeOut(n, <<s, d>>) \/ QueueDisconnect(n, s, d)
       PROVE  CountInv'
  <2>1. /\ UNCHANGED <<up, inc, votes, selfAddrs, dials>>
        /\ UseEvent \/ UNCHANGED events
    BY <1>11, Zenon DEF TimeOut, QueueDisconnect, nodeVars
  <2> QED BY <1>2, <1>3, <2>1
<1>12. ASSUME NEW n \in Nodes, NEW a \in Addrs, Redial(n, a) \/ DialKnown(n, a) PROVE CountInv'
  <2>1. /\ UNCHANGED <<up, inc, votes, selfAddrs>>
        /\ CanDial(n) /\ CountDial(n) /\ UNCHANGED events
    BY <1>12, Zenon DEF Redial, DialKnown
  <2> QED BY <1>4, <2>1
<1>13. ASSUME NEW n \in Nodes, NEW a \in Addrs, NEW lan, QueueAddNode(n, a) \/ Found(n, a, lan)
       PROVE  CountInv'
  <2>1. /\ UNCHANGED <<up, inc, votes, selfAddrs>> /\ UseEvent
        /\ (CanDial(n) /\ CountDial(n)) \/ UNCHANGED dials
    BY <1>13, Zenon DEF QueueAddNode, Found
  <2> QED BY <1>3, <1>4, <2>1
<1>14. ASSUME NEW n \in Nodes, NEW a \in Addrs, QueueBan(n, a) \/ QueueUnban(n, a) \/ BanExpires(n, a)
       PROVE  CountInv'
  <2>1. UNCHANGED <<up, inc, votes, selfAddrs, dials>> /\ UseEvent
    BY <1>14 DEF QueueBan, QueueUnban, BanExpires
  <2> QED BY <1>3, <2>1
<1>15. CASE UNCHANGED vars
  BY <1>2, <1>15 DEF vars, nodeVars
<1> QED BY <1>5, <1>6, <1>7, <1>8, <1>9, <1>10, <1>11, <1>12, <1>13, <1>14, <1>15 DEF Next, Handle

(***************************************************************************)
(* The theorems                                                            *)
(***************************************************************************)
LEMMA InitInv == Init => Inv
<1> SUFFICES ASSUME Init PROVE Inv
  OBVIOUS
<1> USE ConnectionsAssumption DEF Init
<1>1. NewInfo \in AddrInfo /\ NewInfo.ok = FALSE
  BY DEF NewInfo, AddrInfo
<1>2. TypeInv
  BY <1>1 DEF TypeInv, IsBook, Addrs
<1>3. BanInv
  BY DEF BanInv, Addrs
<1>4. GoodInv
  BY <1>1 DEF GoodInv
<1>5. ConnInv(conn, up, inc, ordered)
  <2>1. \A s \in Slots : conn[s] = NoConn
    OBVIOUS
  <2>2. IsConns(conn)
    BY DEF IsConns
  <2>3. Admitted(conn)
    <3>1. \A n \in Nodes : Inbound(conn, n) = {}
      BY <2>1 DEF Inbound
    <3>2. \A n \in Nodes : Cardinality(Inbound(conn, n)) = 0
      BY <3>1, FS_EmptySet, Zenon
    <3>3. 0 <= MaxInbound
      OBVIOUS
    <3> HIDE DEF Init
    <3> QED BY <3>2, <3>3 DEF Admitted
  <2> HIDE DEF Init
  <2> QED BY <2>1, <2>2, <2>3 DEF ConnInv, Alive, Links, Barred
<1> QED BY <1>2, <1>3, <1>4, <1>5 DEF Inv

LEMMA StepInv == Inv /\ [Next]_vars => Inv'
<1> SUFFICES ASSUME Inv, [Next]_vars PROVE Inv'
  OBVIOUS
<1>1. Books(book') /\ Files(peersFile') /\ CountInv'
  BY BookStep, FileStep, CountStep
<1>2. TypeInv'
  BY <1>1 DEF TypeInv, Books, GoodBook, Files, CountInv
<1>3. GoodInv'
  BY <1>1 DEF GoodInv, Books, GoodBook, Files
<1>4. BanInv' /\ ConnInv(conn', up', inc', ordered')
  BY BanStep, ConnStep
<1> QED BY <1>2, <1>3, <1>4 DEF Inv

\* The invariant holds in every behaviour, whatever the number of nodes,
\* connections, restarts and faults (P2P::loop, p2p.cpp:898).
THEOREM ConnectionsInvariant == Spec => []Inv
BY InitInv, StepInv, PTL DEF Spec

\* The state has its shape, and no node takes more inbound connections than it is
\* configured for (P2P::accept_inbound, p2p.cpp:202).
THEOREM ConnectionsTyped == Spec => []TypeOK
<1>1. Inv => TypeOK
  <2> SUFFICES ASSUME Inv PROVE TypeOK
    OBVIOUS
  <2>1. \A n \in Nodes : Cardinality(EndsOf(n) \ Outbound(n)) <= MaxInbound
    BY InboundAre DEF Inv, ConnInv, Admitted
  <2> QED BY <2>1 DEF TypeOK, Inv, TypeInv, BanInv, ConnInv, IsConns, IsBook
<1> QED BY <1>1, ConnectionsInvariant, PTL

\* No node talks to one node over two connections, nor to itself: not when both
\* dialled at once, nor when a connection to the same node by another of its
\* addresses completes between the messages of the handshake (p2p.cpp:326).
THEOREM OneLinkAlways == Spec => []OneLink
<1>1. Inv /\ TypeOK => OneLink
  <2> SUFFICES ASSUME Inv, TypeOK, NEW n \in Nodes, NEW e \in EndsOf(n), NEW f \in EndsOf(n), e # f,
                      GotVersion(conn[e[1]], e[2]), GotVersion(conn[f[1]], f[2]),
                      e[2] \notin conn[e[1]].closing, f[2] \notin conn[f[1]].closing
               PROVE  Nonce(conn[e[1]], Other(e[2])) # Nonce(conn[f[1]], Other(f[2]))
    BY DEF OneLink
  <2>1. PICK s \in Slots, d \in Sides : e = <<s, d>> /\ conn[s] # NoConn /\ Node(conn[s], d) = n
    BY DEF EndsOf, Has
  <2>2. PICK t \in Slots, g \in Sides : f = <<t, g>> /\ conn[t] # NoConn /\ Node(conn[t], g) = n
    BY DEF EndsOf, Has
  <2>3. Links(conn)
    BY DEF Inv, ConnInv
  <2> QED BY <2>1, <2>2, <2>3 DEF Links
<1> QED BY <1>1, ConnectionsInvariant, ConnectionsTyped, PTL

\* Only nodes that answered are called good, in memory, in peers.txt and after a
\* restart, which takes over every entry of the file before the process knows an
\* address of its own (p2p.cpp:124, :143, :319, :344, :380).
THEOREM GoodAreReached == Spec => []GoodMeansReached
<1>1. Inv => GoodMeansReached
  BY DEF Inv, GoodInv, GoodMeansReached
<1> QED BY <1>1, ConnectionsInvariant, PTL

\* While an operator's ban is in force the IP is not connected, unless the operator
\* dials it (p2p.cpp:176, :204, :757).
THEOREM BansHold == Spec => []BannedStayOut
<1>1. Inv => BannedStayOut
  <2> SUFFICES ASSUME Inv, NEW n \in Nodes
               PROVE  /\ ordered[n] \subseteq banned[n] \intersect bansFile[n]
                      /\ \A e \in EndsOf(n) :
                           /\ Node(conn[e[1]], Other(e[2])) \in ordered[n]
                           /\ e[2] \notin conn[e[1]].closing
                           => e[2] = "out" /\ conn[e[1]].manual
    BY DEF BannedStayOut
  <2>1. ordered[n] \subseteq banned[n] \intersect bansFile[n]
    BY DEF Inv, BanInv
  <2>2. ASSUME NEW e \in EndsOf(n), Node(conn[e[1]], Other(e[2])) \in ordered[n],
               e[2] \notin conn[e[1]].closing
        PROVE  e[2] = "out" /\ conn[e[1]].manual
    <3>1. PICK s \in Slots, d \in Sides :
             e = <<s, d>> /\ conn[s] # NoConn /\ Node(conn[s], d) = n
             /\ conn[s].st[d] \notin {"none", "backlog"}
      BY DEF EndsOf, Has
    <3>2. Barred(conn, ordered)
      BY DEF Inv, ConnInv
    <3> QED BY <2>2, <3>1, <3>2 DEF Barred
  <2> QED BY <2>1, <2>2
<1> QED BY <1>1, ConnectionsInvariant, PTL
====
