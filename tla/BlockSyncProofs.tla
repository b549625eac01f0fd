--------------------------- MODULE BlockSyncProofs ---------------------------
(***************************************************************************)
(* Proofs about BlockSync: the bookkeeping of the block download and of    *)
(* the snapshot download survives time-outs, late and repeated answers,    *)
(* and peers that leave.                                                   *)
(***************************************************************************)
EXTENDS BlockSync, Induction

---------------------------------------------------------------------------
(* The invariant. *)

\* What a peer can have sent when the best header has height top: no block
\* that was not asked for comes, and only known ones are asked for.
Message(top) ==
    [type : {"headers"}, from : Nat, to : 0..Top]
    \union [type : {"block"}, h : 1..top, wit : BOOLEAN]
    \union [type : {"notfound"}, hs : SUBSET (1..top)]
    \union [type : {"snapshot"}, block : Nat, off : Nat, total : Nat]

\* Requests in flight for known blocks.
Requests(top) == UNION {[D -> Peers] : D \in SUBSET (1..top)}

Streams(ch, top) == ch \in [Peers -> Seq(Message(top))]

\* A stream answers the request for the block at h.
Answers(s, h) ==
    \E m \in Range(s) : \/ m.type = "block" /\ m.h = h
                        \/ m.type = "notfound" /\ h \in m.hs

\* The requests inf, the streams ch and the peers ps are consistent, with the
\* blocks hv stored and a best header at top; the peers in dropped do not count.
Asked(inf, ch, ps, hv, top, dropped) ==
    /\ inf \in Requests(top) /\ DOMAIN inf \intersect hv = {}
    /\ Streams(ch, top)
    /\ \A h \in DOMAIN inf :
          inf[h] \notin dropped => inf[h] \in Range(ps) /\ Answers(ch[inf[h]], h)
    /\ \A p \in Peers : Load(inf, p) <= MaxInflight

\* The peers: each connected once, never a banned one, and none connected that
\* has timed out too often.
PeersInv ==
    /\ theirs \in [Peers -> 0..Top] /\ best \in [Peers -> 0..Top]
    /\ peers \in Seq(Peers) /\ NoRepeat(peers)
    /\ banned \subseteq Peers \ Connected
    /\ servesSnap \in [Peers -> BOOLEAN]
    /\ stalls \in [Peers -> 0..MaxStalls + MaxFaults]
    /\ \A p \in Connected : stalls[p] <= MaxStalls

ChainInv ==
    /\ hdr \in 0..Top /\ tip \in 0..hdr /\ have \subseteq 1..hdr
    /\ noWitness \subseteq (1..hdr) \X Peers

\* A download s of a snapshot of a known block: its first chunks, in order.
Download(s, top) ==
    /\ s \in [peer : Peers \union {NoPeer, Gone}, block : 0..top, buf : Seq(Nat \X Nat)]
    /\ s.buf = [i \in 1..Len(s.buf) |-> <<s.block, i - 1>>]
    /\ s.peer = NoPeer => s.buf = <<>>

SnapInv == Download(snap, hdr) /\ snapBad \subseteq Peers

\* The inductive invariant.
Inv ==
    /\ PeersInv /\ ChainInv /\ SnapInv /\ faults \in 0..MaxFaults
    /\ Asked(inflight, chan, peers, have, hdr, {})

---------------------------------------------------------------------------
(* Numbers, sequences and streams. *)

\* The least loaded of some peers, the first of them if there are several.
LEMMA LeastLoaded ==
    ASSUME NEW S \in SUBSET Nat, S # {}, NEW f \in [S -> Nat]
    PROVE  \E i \in S : \A j \in S : f[i] < f[j] \/ (f[i] = f[j] /\ i <= j)
<1> DEFINE U == {f[i] : i \in S}
<1>1. PICK u \in U : \A v \in U : u <= v
  <2>1. U \in SUBSET Nat /\ U # {}
    OBVIOUS
  <2> QED BY <2>1, LeastNumber
<1> DEFINE W == {i \in S : f[i] = u}
<1>2. PICK i \in W : \A j \in W : i <= j
  <2>1. W \in SUBSET Nat /\ W # {}
    OBVIOUS
  <2> QED BY <2>1, LeastNumber
<1>3. ASSUME NEW j \in S PROVE f[i] < f[j] \/ (f[i] = f[j] /\ i <= j)
  <2>1. f[i] = u /\ u <= f[j] /\ u \in Nat /\ f[j] \in Nat
    BY <1>1
  <2>2. f[j] = u => i <= j
    BY <1>2
  <2> QED BY <2>1, <2>2
<1>4. i \in S
  OBVIOUS
<1> QED BY <1>3, <1>4

\* The heights above t, in order.
LEMMA HeightsAbove ==
    ASSUME NEW t \in Nat, NEW w \in Nat
    PROVE  LET s == [i \in 1..w |-> t + i]
           IN  s \in Seq(Nat) /\ t + 1 .. t + w \subseteq Range(s)
<1> DEFINE s == [i \in 1..w |-> t + i]
<1>1. s \in [1..w -> Nat] /\ \A i \in 1..w : s[i] = t + i
  OBVIOUS
<1> HIDE DEF s
<1>2. ASSUME NEW h \in t + 1 .. t + w PROVE h \in Range(s)
  <2>1. h - t \in 1..w /\ t + (h - t) = h
    OBVIOUS
  <2> QED BY <1>1, <2>1 DEF Range
<1>3. s \in Seq(Nat) /\ t + 1 .. t + w \subseteq Range(s)
  BY <1>1, <1>2
<1> QED BY <1>3 DEF s

\* A sequence is one over any set that holds its elements.
LEMMA SeqOver ==
    ASSUME NEW R, NEW T, NEW s \in Seq(R), Range(s) \subseteq T
    PROVE  s \in Seq(T)
<1>1. \A i \in 1..Len(s) : s[i] \in T
  BY RangeFacts
<1> QED BY <1>1

\* The first message of a stream, and the rest of it.
LEMMA PopFacts ==
    ASSUME NEW S, NEW s \in Seq(S), s # <<>>
    PROVE  /\ Head(s) \in S /\ Tail(s) \in Seq(S)
           /\ Range(s) \subseteq {Head(s)} \union Range(Tail(s))
<1>1. /\ Head(s) \in S /\ Tail(s) \in Seq(S) /\ Head(s) = s[1]
      /\ Len(Tail(s)) = Len(s) - 1 /\ Len(s) \in Nat
      /\ \A i \in 1..Len(s) - 1 : Tail(s)[i] = s[i + 1]
  OBVIOUS
<1>2. ASSUME NEW x \in Range(s), x # Head(s) PROVE x \in Range(Tail(s))
  <2>1. PICK i \in 1..Len(s) : x = s[i]
    BY RangeFacts
  <2>2. i # 1 /\ i - 1 \in 1..Len(Tail(s)) /\ Tail(s)[i - 1] = x
    BY <1>1, <1>2, <2>1
  <2> QED BY <1>1, <2>2, RangeFacts
<1> QED BY <1>1, <1>2

\* What the kinds of messages carry.
LEMMA MessageKinds ==
    ASSUME NEW top \in Nat, NEW m \in Message(top)
    PROVE  /\ m.type = "headers" => m.from \in Nat /\ m.to \in 0..Top
           /\ m.type = "block" => m.h \in 1..top
           /\ m.type = "snapshot" => m.block \in Nat /\ m.off \in Nat /\ m.total \in Nat
  BY DEF Message

\* More headers, more messages and requests.
LEMMA MoreHeaders ==
    ASSUME NEW t \in Nat, NEW u \in Nat, t <= u
    PROVE  /\ Message(t) \subseteq Message(u) /\ Requests(t) \subseteq Requests(u)
           /\ Seq(Message(t)) \subseteq Seq(Message(u))
<1>1. 1..t \subseteq 1..u
  OBVIOUS
<1>2. Message(t) \subseteq Message(u)
  BY <1>1 DEF Message
<1>3. Requests(t) \subseteq Requests(u)
  BY <1>1 DEF Requests
<1> HIDE DEF Message
<1> QED BY <1>2, <1>3

\* A stream that holds more messages answers no less.
LEMMA AnswersMore ==
    ASSUME NEW s, NEW t, NEW h, Range(s) \subseteq Range(t), Answers(s, h)
    PROVE  Answers(t, h)
  BY DEF Answers

---------------------------------------------------------------------------
(* Requests. *)

\* The load of a peer is a number; fewer requests are no greater load, and one
\* more request is a load of one for the peer that is asked.
LEMMA LoadFacts ==
    ASSUME NEW top \in Nat, NEW r \in Requests(top), NEW p
    PROVE  /\ Load(r, p) \in Nat
           /\ \A D \in SUBSET DOMAIN r : Load([k \in D |-> r[k]], p) <= Load(r, p)
           /\ \A h \in 1..top \ DOMAIN r : \A q \in Peers :
                 LET n == [k \in DOMAIN r \union {h} |-> IF k = h THEN q ELSE r[k]]
                 IN  /\ n \in Requests(top)
                     /\ Load(n, p) = IF p = q THEN Load(r, p) + 1 ELSE Load(r, p)
<1> DEFINE A == {k \in DOMAIN r : r[k] = p}
<1>1. DOMAIN r \subseteq 1..top /\ r \in [DOMAIN r -> Peers]
  BY DEF Requests
<1>2. IsFiniteSet(A) /\ Cardinality(A) \in Nat
  <2>1. IsFiniteSet(1..top)
    BY FS_Interval
  <2> QED BY <1>1, <2>1, FS_Subset, FS_CardinalityType
<1>3. Load(r, p) = Cardinality(A)
  BY DEF Load
<1>4. ASSUME NEW D \in SUBSET DOMAIN r PROVE Load([k \in D |-> r[k]], p) <= Load(r, p)
  <2> DEFINE B == {k \in DOMAIN [x \in D |-> r[x]] : [x \in D |-> r[x]][k] = p}
  <2>1. B \subseteq A
    OBVIOUS
  <2>2. Cardinality(B) <= Cardinality(A)
    BY <1>2, <2>1, FS_Subset
  <2> QED BY <1>3, <2>2 DEF Load
<1>5. ASSUME NEW h \in 1..top \ DOMAIN r, NEW q \in Peers,
             NEW n, n = [k \in DOMAIN r \union {h} |-> IF k = h THEN q ELSE r[k]]
      PROVE  /\ n \in Requests(top)
             /\ Load(n, p) = IF p = q THEN Load(r, p) + 1 ELSE Load(r, p)
  <2>1. n \in [DOMAIN r \union {h} -> Peers] /\ DOMAIN r \union {h} \in SUBSET (1..top)
    BY <1>1, <1>5
  <2>2. n \in Requests(top)
    BY <2>1 DEF Requests
  <2> DEFINE B == {k \in DOMAIN n : n[k] = p}
  <2>3. B = IF p = q THEN A \union {h} ELSE A
    BY <1>5
  <2>4. h \notin A
    OBVIOUS
  <2>5. Cardinality(A \union {h}) = Cardinality(A) + 1
    BY <1>2, <2>4, FS_AddElement
  <2>6. Load(n, p) = Cardinality(B)
    BY DEF Load
  <2> HIDE DEF A, B
  <2> QED BY <1>3, <2>2, <2>3, <2>5, <2>6
<1> QED BY <1>2, <1>3, <1>4, <1>5

\* Fewer requests are requests.
LEMMA Fewer ==
    ASSUME NEW t, NEW r \in Requests(t), NEW D \in SUBSET DOMAIN r
    PROVE  [h \in D |-> r[h]] \in Requests(t)
<1>1. [h \in D |-> r[h]] \in [D -> Peers] /\ D \in SUBSET (1..t)
  BY DEF Requests
<1> QED BY <1>1 DEF Requests

\* Dropping requests, reading on and learning headers keeps what is asked
\* consistent, if what is left is still answered.
LEMMA StillAsked ==
    ASSUME NEW t \in Nat, NEW u \in Nat, t <= u, NEW inf, NEW ch, NEW ch2, NEW ps, NEW ps2,
           NEW hv, NEW hv2, NEW gone, NEW dropped,
           Asked(inf, ch, ps, hv, t, gone),
           NEW D \in SUBSET DOMAIN inf, D \intersect hv2 = {}, \A h \in D : inf[h] \notin gone,
           Streams(ch2, u),
           \A h \in D : inf[h] \notin dropped =>
              inf[h] \in Range(ps2) /\ (Answers(ch[inf[h]], h) => Answers(ch2[inf[h]], h))
    PROVE  Asked([h \in D |-> inf[h]], ch2, ps2, hv2, u, dropped)
<1> DEFINE r == [h \in D |-> inf[h]]
<1>1. inf \in Requests(t) /\ inf \in Requests(u)
  BY MoreHeaders DEF Asked
<1>2. r \in Requests(u)
  BY <1>1, Fewer
<1>3. \A h \in D : r[h] \notin dropped => r[h] \in Range(ps2) /\ Answers(ch2[r[h]], h)
  <2>1. \A h \in D : Answers(ch[inf[h]], h)
    BY DEF Asked
  <2> QED BY <2>1
<1>4. ASSUME NEW p \in Peers PROVE Load(r, p) <= MaxInflight
  <2>1. Load(inf, p) <= MaxInflight /\ Load(inf, p) \in Nat
    BY <1>1, LoadFacts DEF Asked
  <2>2. Load(r, p) <= Load(inf, p) /\ Load(r, p) \in Nat
    BY <1>1, <1>2, LoadFacts
  <2> QED BY <2>1, <2>2, SyncAssumption
<1>5. DOMAIN r = D
  OBVIOUS
<1> HIDE DEF r
<1>6. Asked(r, ch2, ps2, hv2, u, dropped)
  BY <1>2, <1>3, <1>4, <1>5 DEF Asked
<1> QED BY <1>6 DEF r

\* A request function is made of its heights and peers.
LEMMA RequestsExt ==
    ASSUME NEW t, NEW inf \in Requests(t)
    PROVE  inf = [h \in DOMAIN inf |-> inf[h]]
  BY DEF Requests

---------------------------------------------------------------------------
(* The answers of a peer. *)

\* What a peer answers to a request for headers or for a part of a snapshot.
LEMMA ReplyKinds ==
    ASSUME PeersInv, NEW p \in Peers, NEW h \in Nat, NEW off \in Nat, NEW top \in Nat
    PROVE  /\ HeadersReply(p, h) \in Message(top)
           /\ SnapReply(p, h, off) \in Message(top)
<1>1. theirs[p] \in 0..Top /\ Top \in Nat /\ BatchSize \in Nat \ {0} /\ SnapChunks \in Nat
  BY SyncAssumption DEF PeersInv
<1>2. /\ Min2(h, theirs[p]) + 1 \in Nat
      /\ Min2(Min2(h, theirs[p]) + BatchSize, theirs[p]) \in 0..Top
  BY <1>1 DEF Min2
<1>3. HeadersReply(p, h) \in Message(top)
  BY <1>2 DEF HeadersReply, Message
<1>4. SnapReply(p, h, off) \in Message(top)
  BY <1>1 DEF SnapReply, Message
<1> QED BY <1>3, <1>4

\* A peer answers for every block that it is asked for, and for no other.
LEMMA RepliesAnswer ==
    ASSUME NEW top \in Nat, NEW p, NEW hs \in Seq(1..top)
    PROVE  /\ BlocksReply(p, hs) \in Seq(Message(top))
           /\ \A h \in Range(hs) : Answers(BlocksReply(p, hs), h)
<1> DEFINE F == {h \in Range(hs) : HasData(p, h)}
           found == Filter(hs, F)
           lost == {h \in Range(hs) : ~ HasData(p, h)}
           bs == [i \in DOMAIN found |-> [type |-> "block", h |-> found[i], wit |-> HasWitness(p, found[i])]]
           nf == IF lost = {} THEN <<>> ELSE <<[type |-> "notfound", hs |-> lost]>>
<1>1. found \in Seq(1..top) /\ Range(found) = Range(hs) \intersect F
  BY FilterFacts
<1>2. Range(hs) \subseteq 1..top
  BY RangeFacts
<1>3. lost \subseteq 1..top /\ F \subseteq Range(hs)
  BY <1>2
<1>4. \A h : HasWitness(p, h) \in BOOLEAN
  BY DEF HasWitness
<1> HIDE DEF F, found
<1>5. /\ bs \in Seq(Message(top)) /\ Len(bs) = Len(found)
      /\ \A i \in 1..Len(found) : bs[i].type = "block" /\ bs[i].h = found[i]
  BY <1>1, <1>4 DEF Message
<1>6. nf \in Seq(Message(top)) /\ (lost # {} => nf = <<[type |-> "notfound", hs |-> lost]>>)
  <2> HIDE DEF lost
  <2> DEFINE m == [type |-> "notfound", hs |-> lost]
  <2>1. m \in Message(top)
    BY <1>3 DEF Message
  <2> HIDE DEF m
  <2>2. <<>> \in Seq(Message(top)) /\ <<m>> \in Seq(Message(top))
    BY <2>1
  <2>3. nf = IF lost = {} THEN <<>> ELSE <<m>>
    BY DEF m
  <2> HIDE DEF nf
  <2>4. nf \in Seq(Message(top)) /\ (lost # {} => nf = <<m>>)
    BY <2>2, <2>3
  <2> QED BY <2>4 DEF m
<1>7. BlocksReply(p, hs) = bs \o nf
  BY DEF BlocksReply, found, F
<1> HIDE DEF bs, nf
<1>8. bs \o nf \in Seq(Message(top)) /\ Range(bs \o nf) = Range(bs) \union Range(nf)
  BY <1>5, <1>6, ConcatFacts
<1>9. ASSUME NEW h \in Range(hs) PROVE Answers(bs \o nf, h)
  <2>1. CASE HasData(p, h)
    <3>1. h \in Range(found)
      BY <1>1, <2>1 DEF F
    <3>2. PICK i \in 1..Len(found) : h = found[i]
      BY <1>1, <3>1, RangeFacts
    <3>3. bs[i] \in Range(bs)
      BY <1>5, RangeFacts
    <3> QED BY <1>5, <1>8, <3>2, <3>3 DEF Answers
  <2>2. CASE ~ HasData(p, h)
    <3>1. h \in lost
      BY <2>2
    <3> DEFINE m == [type |-> "notfound", hs |-> lost]
    <3>2. nf = <<m>> /\ m.type = "notfound" /\ h \in m.hs
      BY <1>6, <3>1
    <3> HIDE DEF m
    <3>3. m \in Range(nf)
      BY <3>2 DEF Range
    <3> QED BY <1>8, <3>2, <3>3 DEF Answers
  <2> QED BY <2>1, <2>2
<1> QED BY <1>7, <1>8, <1>9

---------------------------------------------------------------------------
(* request_blocks. *)

\* What the loop of request_blocks adds to the requests inf.
Grown(inf, dropped) ==
    {r \in Requests(hdr') :
        /\ DOMAIN inf \subseteq DOMAIN r /\ \A k \in DOMAIN inf : r[k] = inf[k]
        /\ DOMAIN r \intersect have' = {}
        /\ DOMAIN r \ DOMAIN inf \subseteq tip' + 1 .. WindowEnd
        /\ \A k \in DOMAIN r \ DOMAIN inf : r[k] \in Range(peers') \ dropped
        /\ \A p \in Peers : Load(r, p) <= MaxInflight}

\* The heights that request_blocks looks at are those of known blocks.
LEMMA WindowFacts ==
    ASSUME ChainInv'
    PROVE  /\ hdr' \in Nat /\ tip' \in Nat /\ WindowEnd \in Nat
           /\ tip' <= WindowEnd /\ WindowEnd <= hdr' /\ WindowEnd <= tip' + Window
  BY SyncAssumption DEF ChainInv, WindowEnd, Min2

\* One turn of the loop asks at most one peer, a connected one that is not
\* dropped and has a free slot.
LEMMA AssignGrows ==
    ASSUME PeersInv', ChainInv', NEW inf, NEW dropped, NEW r \in Grown(inf, dropped),
           NEW h \in tip' + 1 .. WindowEnd
    PROVE  Assign(r, h, dropped) \in Grown(inf, dropped)
<1> DEFINE cands == Askable(r, h, dropped)
           ld == [i \in cands |-> Load(r, peers'[i])]
           Better(i, j) == \/ Load(r, peers'[i]) < Load(r, peers'[j])
                           \/ Load(r, peers'[i]) = Load(r, peers'[j]) /\ i <= j
<1>1. CASE h \in have' \union DOMAIN r \/ cands = {}
  <2>1. Assign(r, h, dropped) = r
    BY <1>1 DEF Assign
  <2> QED BY <2>1
<1>2. CASE h \notin have' \union DOMAIN r /\ cands # {}
  <2>0. r \in Requests(hdr') /\ hdr' \in Nat /\ h \in 1..hdr'
    BY WindowFacts DEF Grown
  <2>1. cands \in SUBSET Nat
    BY DEF Askable, PeersInv
  <2>2. ld \in [cands -> Nat]
    BY <2>0, LoadFacts
  <2>3. PICK x \in cands : \A y \in cands : ld[x] < ld[y] \/ (ld[x] = ld[y] /\ x <= y)
    <3> HIDE DEF cands, ld
    <3> QED BY <1>2, <2>1, <2>2, LeastLoaded
  <2>4. \A y \in cands : Better(x, y)
    BY <2>3
  <2> DEFINE i == CHOOSE z \in cands : \A y \in cands : Better(z, y)
             q == peers'[i]
             n == [k \in DOMAIN r \union {h} |-> IF k = h THEN q ELSE r[k]]
  <2>5. Assign(r, h, dropped) = n
    BY <1>2, Zenon DEF Assign
  <2>6. i \in cands
    <3> HIDE DEF cands
    <3> QED BY <2>4
  <2> HIDE DEF i
  <2>7. q \in Range(peers') \ dropped /\ q \in Peers /\ Load(r, q) < MaxInflight
    BY <2>6 DEF Askable, PeersInv, Range
  <2>8. h \in 1..hdr' \ DOMAIN r
    BY <1>2, <2>0
  <2> HIDE DEF q
  <2>9. n \in Requests(hdr')
    BY <2>0, <2>7, <2>8, LoadFacts
  <2>10. ASSUME NEW p \in Peers PROVE Load(n, p) <= MaxInflight
    <3>1. Load(r, p) \in Nat /\ Load(r, q) \in Nat /\ Load(r, p) <= MaxInflight
      BY <2>0, LoadFacts DEF Grown
    <3>2. Load(n, p) = IF p = q THEN Load(r, p) + 1 ELSE Load(r, p)
      BY <2>0, <2>7, <2>8, LoadFacts
    <3> QED BY <2>7, <3>1, <3>2, SyncAssumption
  <2>11. DOMAIN n = DOMAIN r \union {h} /\ \A k \in DOMAIN n : n[k] = IF k = h THEN q ELSE r[k]
    OBVIOUS
  <2> HIDE DEF n
  <2>12. /\ DOMAIN inf \subseteq DOMAIN r /\ \A k \in DOMAIN inf : r[k] = inf[k]
         /\ DOMAIN r \intersect have' = {}
         /\ DOMAIN r \ DOMAIN inf \subseteq tip' + 1 .. WindowEnd
         /\ \A k \in DOMAIN r \ DOMAIN inf : r[k] \in Range(peers') \ dropped
    BY DEF Grown
  <2>13. /\ DOMAIN inf \subseteq DOMAIN n /\ \A k \in DOMAIN inf : n[k] = inf[k]
         /\ DOMAIN n \intersect have' = {}
         /\ DOMAIN n \ DOMAIN inf \subseteq tip' + 1 .. WindowEnd
         /\ \A k \in DOMAIN n \ DOMAIN inf : n[k] \in Range(peers') \ dropped
    BY <1>2, <2>7, <2>11, <2>12
  <2>14. n \in Grown(inf, dropped)
    BY <2>9, <2>10, <2>13 DEF Grown
  <2> QED BY <2>5, <2>14
<1> QED BY <1>1, <1>2

\* The loop as a function of the number of turns.
TurnsFcn(f, inf, dropped) ==
    [i \in 0..WindowEnd - tip' |-> IF i = 0 THEN inf ELSE Assign(f[i - 1], tip' + i, dropped)]

\* The whole loop only adds such requests.
LEMMA AssignedGrows ==
    ASSUME PeersInv', ChainInv', NEW inf, NEW dropped, inf \in Grown(inf, dropped)
    PROVE  Assigned(inf, dropped) \in Grown(inf, dropped)
<1> DEFINE V == Grown(inf, dropped)
           n == WindowEnd - tip'
           S == tip' + 1 .. WindowEnd
           s == [i \in 1..n |-> tip' + i]
           G == [h \in S |-> [r \in V |-> Assign(r, h, dropped)]]
<1>1. n \in Nat /\ s \in Seq(S) /\ Len(s) = n /\ \A i \in 1..n : s[i] = tip' + i /\ s[i] \in S
  <2>1. n \in Nat /\ \A i \in 1..n : tip' + i \in S
    BY WindowFacts
  <2> HIDE DEF n, S
  <2>2. s \in [1..n -> S] /\ \A i \in 1..n : s[i] = tip' + i
    BY <2>1
  <2> HIDE DEF s
  <2> QED BY <2>1, <2>2
<1>2. Steps(S, V, inf, G)
  <2>1. \A h \in S : \A r \in V : Assign(r, h, dropped) \in V
    BY AssignGrows
  <2> HIDE DEF V, S
  <2> QED BY <2>1 DEF Steps, V
<1>3. \A h \in S : \A r \in V : G[h][r] = Assign(r, h, dropped)
  <2> HIDE DEF V, S
  <2> QED OBVIOUS
<1> HIDE DEF G, V, s, n, S
<1>4. Ends(V, G, inf, s)
  BY <1>1, <1>2, RunExists
<1>5. PICK r : r \in [0..n -> V] /\ IsRun(r, G, inf, s) /\ Run(G, inf, s) = r[n]
  BY <1>1, <1>4 DEF Ends
<1>6. \A i \in 1..n : i - 1 \in 0..n /\ i \in 0..n /\ i # 0
  BY <1>1
<1>7. r[0] = inf /\ \A i \in 1..n : r[i] = Assign(r[i - 1], tip' + i, dropped)
  BY <1>1, <1>3, <1>5, <1>6 DEF IsRun
<1>8. r = TurnsFcn(r, inf, dropped)
  <2>1. TurnsFcn(r, inf, dropped) =
           [i \in 0..n |-> IF i = 0 THEN inf ELSE Assign(r[i - 1], tip' + i, dropped)]
    BY DEF TurnsFcn, n
  <2>2. \A i \in 0..n : r[i] = IF i = 0 THEN inf ELSE Assign(r[i - 1], tip' + i, dropped)
    BY <1>1, <1>7
  <2> QED BY <1>5, <2>1, <2>2
<1> DEFINE c == CHOOSE f : f = TurnsFcn(f, inf, dropped)
<1>9. c = TurnsFcn(c, inf, dropped)
  BY <1>8, Zenon
<1>10. Assigned(inf, dropped) = c[n]
  BY Zenon DEF Assigned, TurnsFcn, n
<1> HIDE DEF c
<1>11. /\ TurnsFcn(c, inf, dropped)[0] = inf
       /\ \A i \in 1..n : TurnsFcn(c, inf, dropped)[i] = Assign(c[i - 1], tip' + i, dropped)
  <2>1. TurnsFcn(c, inf, dropped) =
           [i \in 0..n |-> IF i = 0 THEN inf ELSE Assign(c[i - 1], tip' + i, dropped)]
    BY DEF TurnsFcn, n
  <2>2. 0 \in 0..n
    BY <1>1
  <2> QED BY <1>6, <2>1, <2>2, Zenon
<1>12. c[0] = inf /\ \A i \in 1..n : c[i - 1] \in V => c[i] = G[s[i]][c[i - 1]]
  BY <1>1, <1>3, <1>9, <1>11
<1>13. c[n] = Run(G, inf, s)
  BY <1>1, <1>2, <1>12, EndsAsRun
<1>14. r[n] \in V
  BY <1>1, <1>5
<1> QED BY <1>5, <1>10, <1>13, <1>14 DEF V

\* What is asked of a peer is answered on its stream, and what was asked before
\* still is.
LEMMA RepliesAdded ==
    ASSUME PeersInv, ChainInv', NEW inf, NEW ch, NEW dropped, NEW new \in Grown(inf, dropped),
           Streams(ch, hdr'), NEW p \in Peers \ dropped
    PROVE  LET s == WithBlockReplies(ch, inf, new, dropped)[p]
           IN  /\ s \in Seq(Message(hdr')) /\ Range(ch[p]) \subseteq Range(s)
               /\ \A h \in DOMAIN new \ DOMAIN inf : new[h] = p => Answers(s, h)
<1> DEFINE wanted == [i \in 1..Window |-> tip' + i]
           K == {h \in DOMAIN new \ DOMAIN inf : new[h] = p}
           hs == Filter(wanted, K)
           s == WithBlockReplies(ch, inf, new, dropped)[p]
<1>1. s = ch[p] \o BlocksReply(p, hs)
  BY DEF WithBlockReplies
<1>2. Window \in Nat /\ tip' \in Nat /\ hdr' \in Nat
  BY WindowFacts, SyncAssumption
<1>3. K \subseteq 1..hdr' /\ K \subseteq tip' + 1 .. tip' + Window
  <2>1. DOMAIN new \subseteq 1..hdr'
    BY DEF Grown, Requests
  <2>2. K \subseteq tip' + 1 .. WindowEnd
    BY DEF Grown
  <2>3. tip' + 1 .. WindowEnd \subseteq tip' + 1 .. tip' + Window
    BY <1>2, WindowFacts
  <2> QED BY <2>1, <2>2, <2>3
<1> HIDE DEF K
<1>4. wanted \in Seq(Nat) /\ K \subseteq Range(wanted)
  BY <1>2, <1>3, HeightsAbove
<1> HIDE DEF wanted
<1>5. hs \in Seq(Nat) /\ Range(hs) = K
  <2>1. hs \in Seq(Nat) /\ Range(hs) = Range(wanted) \intersect K
    BY <1>4, FilterFacts, Zenon
  <2> QED BY <1>4, <2>1
<1> HIDE DEF hs
<1>6. hs \in Seq(1..hdr')
  BY <1>3, <1>5, SeqOver
<1>7. /\ BlocksReply(p, hs) \in Seq(Message(hdr'))
      /\ \A h \in Range(hs) : Answers(BlocksReply(p, hs), h)
  BY <1>2, <1>6, RepliesAnswer
<1>8. ch[p] \in Seq(Message(hdr'))
  BY DEF Streams
<1>9. s \in Seq(Message(hdr')) /\ Range(s) = Range(ch[p]) \union Range(BlocksReply(p, hs))
  BY <1>1, <1>7, <1>8, ConcatFacts
<1> HIDE DEF s
<1>10. \A h \in K : Answers(s, h)
  BY <1>5, <1>7, <1>9, AnswersMore
<1>11. \A h \in DOMAIN new \ DOMAIN inf : new[h] = p => Answers(s, h)
  BY <1>10 DEF K
<1>12. s \in Seq(Message(hdr')) /\ Range(ch[p]) \subseteq Range(s)
  BY <1>9
<1> QED BY <1>11, <1>12 DEF s

\* Asking for blocks keeps what is asked consistent; dropped peers are asked
\* nothing.
LEMMA AskingKeeps ==
    ASSUME PeersInv, PeersInv', ChainInv', NEW inf, NEW ch, NEW dropped,
           Asked(inf, ch, peers', have', hdr', dropped),
           AskForBlocks(inf, ch, dropped)
    PROVE  Asked(inflight', chan', peers', have', hdr', {})
<1> DEFINE new == Assigned(inf, dropped)
           D == {k \in DOMAIN new : new[k] \notin dropped}
<1>0. hdr' \in Nat
  BY WindowFacts
<1>1. inf \in Grown(inf, dropped)
  BY DEF Asked, Grown
<1>2. new \in Grown(inf, dropped)
  BY <1>1, AssignedGrows
<1>3. inflight' = [h \in D |-> new[h]] /\ chan' = WithBlockReplies(ch, inf, new, dropped)
  BY DEF AskForBlocks
<1> HIDE DEF new
<1>4. /\ new \in Requests(hdr') /\ DOMAIN new \intersect have' = {}
      /\ \A k \in DOMAIN inf : new[k] = inf[k]
      /\ \A k \in DOMAIN new \ DOMAIN inf : new[k] \in Range(peers')
      /\ \A p \in Peers : Load(new, p) <= MaxInflight
  BY <1>2 DEF Grown
<1>5. Streams(ch, hdr')
  BY DEF Asked
<1>6. \A p \in Peers \ dropped :
         /\ chan'[p] \in Seq(Message(hdr')) /\ Range(ch[p]) \subseteq Range(chan'[p])
         /\ \A h \in DOMAIN new \ DOMAIN inf : new[h] = p => Answers(chan'[p], h)
  BY <1>2, <1>3, <1>5, RepliesAdded
<1>7. Streams(chan', hdr')
  <2>1. DOMAIN chan' = Peers /\ chan' = [p \in Peers |-> chan'[p]]
    BY <1>3 DEF WithBlockReplies
  <2>2. \A p \in Peers \intersect dropped : chan'[p] = <<>>
    BY <1>3 DEF WithBlockReplies
  <2>3. <<>> \in Seq(Message(hdr'))
    OBVIOUS
  <2>4. ASSUME NEW p \in Peers PROVE chan'[p] \in Seq(Message(hdr'))
    BY <1>6, <2>2, <2>3, Zenon
  <2> QED BY <2>1, <2>4 DEF Streams
<1>8. ASSUME NEW h \in D PROVE new[h] \in Range(peers') /\ Answers(chan'[new[h]], h)
  <2>1. new[h] \in Peers \ dropped
    BY <1>4 DEF Requests
  <2>2. CASE h \in DOMAIN inf
    <3>1. inf[h] = new[h] /\ inf[h] \in Range(peers') /\ Answers(ch[inf[h]], h)
      BY <1>4, <2>1, <2>2 DEF Asked
    <3>2. Range(ch[new[h]]) \subseteq Range(chan'[new[h]])
      BY <1>6, <2>1
    <3> QED BY <3>1, <3>2, AnswersMore
  <2>3. CASE h \notin DOMAIN inf
    BY <1>4, <1>6, <2>1, <2>3
  <2> QED BY <2>2, <2>3
<1> DEFINE r == [h \in D |-> new[h]]
<1>9. r \in Requests(hdr') /\ DOMAIN r = D /\ \A h \in D : r[h] = new[h]
  BY <1>4, Fewer
<1>10. ASSUME NEW p \in Peers PROVE Load(r, p) <= MaxInflight
  <2>1. Load(r, p) <= Load(new, p) /\ Load(r, p) \in Nat /\ Load(new, p) \in Nat
    BY <1>0, <1>4, <1>9, LoadFacts
  <2> QED BY <1>4, <2>1, SyncAssumption
<1>11. D \intersect have' = {}
  BY <1>4
<1> HIDE DEF r
<1>12. Asked(r, chan', peers', have', hdr', {})
  BY <1>7, <1>8, <1>9, <1>10, <1>11 DEF Asked
<1> QED BY <1>3, <1>12 DEF r

\* Nothing is asked: the requests and streams stay as the handler leaves them.
LEMMA SettlingKeeps ==
    ASSUME ChainInv', NEW inf, NEW ch, NEW dropped,
           Asked(inf, ch, peers', have', hdr', dropped),
           Settle(inf, ch, dropped)
    PROVE  Asked(inflight', chan', peers', have', hdr', {})
<1> DEFINE D == {k \in DOMAIN inf : inf[k] \notin dropped}
<1>1. hdr' \in Nat /\ Streams(ch, hdr') /\ D \intersect have' = {}
  BY WindowFacts DEF Asked
<1>2. inflight' = [h \in D |-> inf[h]] /\ chan' = [p \in Peers |-> IF p \in dropped THEN <<>> ELSE ch[p]]
  BY DEF Settle
<1>3. Streams(chan', hdr')
  BY <1>1, <1>2 DEF Streams
<1>4. ASSUME NEW h \in D PROVE inf[h] \in Range(peers') /\ chan'[inf[h]] = ch[inf[h]]
  <2>1. inf[h] \in Peers /\ inf[h] \in Range(peers')
    BY DEF Asked, Requests
  <2> QED BY <1>2, <2>1
<1>5. Asked([h \in D |-> inf[h]], chan', peers', have', hdr', {})
  BY <1>1, <1>3, <1>4, StillAsked
<1> QED BY <1>2, <1>5

\* A multiple below a number.
LEMMA MultipleBelow ==
    ASSUME NEW h \in Nat, NEW d \in Nat, NEW k \in Nat \ {0}
    PROVE  (IF h < d THEN 0 ELSE ((h - d) \div k) * k) \in 0..h
<1>1. \A a \in Nat : (a \div k) * k \in 0..a
  BY SMTT(60)
<1>2. CASE h < d
  BY <1>2
<1>3. CASE ~ (h < d)
  <2>1. h - d \in Nat /\ h - d <= h
    BY <1>3
  <2>2. ((h - d) \div k) * k \in 0..h - d
    BY <1>1, <2>1
  <2>3. 0..h - d \subseteq 0..h
    BY <2>1
  <2> QED BY <1>3, <2>2, <2>3
<1> QED BY <1>2, <1>3

\* The snapshot asked for is below the best header.
LEMMA TargetKnown ==
    ASSUME ChainInv'
    PROVE  SnapTarget \in 0..hdr'
<1>1. hdr' \in Nat /\ SnapDelay \in Nat /\ SnapInterval \in Nat \ {0}
  BY SyncAssumption, WindowFacts
<1>2. \A h, d \in Nat : \A k \in Nat \ {0} : (IF h < d THEN 0 ELSE ((h - d) \div k) * k) \in 0..h
  BY MultipleBelow
<1> QED BY <1>1, <1>2, Zenon DEF SnapTarget

\* Downloads that may follow: none, one that begins, one whose peer is gone.
LEMMA Downloads ==
    ASSUME NEW t \in Nat, NEW u \in Nat, t <= u, NEW s, Download(s, t)
    PROVE  /\ Download(s, u)
           /\ Download([s EXCEPT !.peer = NoPeer, !.buf = <<>>], u)
           /\ Download([s EXCEPT !.peer = Gone], u)
           /\ \A p \in Peers, b \in 0..u : s.buf = <<>> => Download([s EXCEPT !.peer = p, !.block = b], u)
<1>1. \A b : <<>> = [i \in 1..Len(<<>>) |-> <<b, i - 1>>]
  <2>1. ASSUME NEW b PROVE <<>> = [i \in 1..Len(<<>>) |-> <<b, i - 1>>]
    <3>1. 1..Len(<<>>) = {} /\ DOMAIN <<>> = {}
      OBVIOUS
    <3> QED BY <3>1
  <2> QED BY <2>1
<1>2. NoPeer \notin Peers /\ NoPeer # Gone
  BY SyncAssumption
<1> DEFINE Rec(x) == [peer : Peers \union {NoPeer, Gone}, block : 0..x, buf : Seq(Nat \X Nat)]
<1>3. s \in Rec(u) /\ s \in Rec(t)
  <2>1. s \in Rec(t) /\ 0..t \subseteq 0..u
    BY DEF Download
  <2> QED BY <2>1
<1>4. Download(s, u)
  BY <1>3 DEF Download
<1>5. Download([s EXCEPT !.peer = NoPeer, !.buf = <<>>], u)
  <2> DEFINE n == [s EXCEPT !.peer = NoPeer, !.buf = <<>>]
  <2>1. n \in Rec(u) /\ n.buf = <<>>
    <3>1. s.block \in 0..u /\ <<>> \in Seq(Nat \X Nat) /\ NoPeer \in Peers \union {NoPeer, Gone}
      BY <1>3
    <3>2. \A e : [s EXCEPT !.peer = NoPeer, !.buf = e] = [peer |-> NoPeer, block |-> s.block, buf |-> e]
      <4> DEFINE w == [s EXCEPT !.peer = NoPeer]
      <4>1. w = [peer |-> NoPeer, block |-> s.block, buf |-> s.buf]
        BY <1>3
      <4> HIDE DEF w
      <4>2. \A e : [w EXCEPT !.buf = e] = [peer |-> NoPeer, block |-> s.block, buf |-> e]
        BY <4>1
      <4> QED BY <4>2, Zenon DEF w
    <3>3. n = [peer |-> NoPeer, block |-> s.block, buf |-> <<>>]
      BY <3>2, Zenon
    <3> HIDE DEF n
    <3> QED BY <3>1, <3>3
  <2> HIDE DEF n
  <2>2. n.buf = [i \in 1..Len(n.buf) |-> <<n.block, i - 1>>]
    BY <1>1, <2>1, Zenon
  <2>3. Download(n, u)
    BY <2>1, <2>2 DEF Download
  <2> QED BY <2>3 DEF n
<1>6. Download([s EXCEPT !.peer = Gone], u)
  <2> DEFINE n == [s EXCEPT !.peer = Gone]
  <2>1. n \in Rec(u) /\ n.buf = s.buf /\ n.block = s.block /\ n.peer = Gone
    BY <1>3
  <2>2. s.buf = [i \in 1..Len(s.buf) |-> <<s.block, i - 1>>]
    BY DEF Download
  <2> HIDE DEF n
  <2>3. n.buf = [i \in 1..Len(n.buf) |-> <<n.block, i - 1>>]
    BY <2>1, <2>2, Zenon
  <2>4. Download(n, u)
    BY <1>2, <2>1, <2>3 DEF Download
  <2> QED BY <2>4 DEF n
<1>7. ASSUME NEW p \in Peers, NEW b \in 0..u, s.buf = <<>>
      PROVE  Download([s EXCEPT !.peer = p, !.block = b], u)
  <2> DEFINE n == [s EXCEPT !.peer = p, !.block = b]
  <2>1. n \in Rec(u) /\ n.buf = <<>> /\ n.peer = p
    BY <1>3, <1>7
  <2> HIDE DEF n
  <2>2. n.buf = [i \in 1..Len(n.buf) |-> <<n.block, i - 1>>]
    BY <1>1, <2>1, Zenon
  <2>3. Download(n, u)
    BY <1>2, <2>1, <2>2 DEF Download
  <2> QED BY <2>3 DEF n
<1> QED BY <1>4, <1>5, <1>6, <1>7, Zenon

\* A message more on a stream.
LEMMA OneMore ==
    ASSUME NEW top, NEW ch, Streams(ch, top), NEW p, NEW m \in Message(top)
    PROVE  /\ Streams([ch EXCEPT ![p] = Append(@, m)], top)
           /\ \A q \in Peers : Range(ch[q]) \subseteq Range([ch EXCEPT ![p] = Append(@, m)][q])
<1> DEFINE n == [ch EXCEPT ![p] = Append(@, m)]
<1>1. ASSUME NEW q \in Peers
      PROVE  n[q] \in Seq(Message(top)) /\ Range(ch[q]) \subseteq Range(n[q])
  <2>1. ch[q] \in Seq(Message(top))
    BY DEF Streams
  <2>2. Append(ch[q], m) \in Seq(Message(top)) /\ Range(Append(ch[q], m)) = Range(ch[q]) \union {m}
    BY <2>1, AppendFacts
  <2>3. n[q] = IF q = p THEN Append(ch[q], m) ELSE ch[q]
    BY DEF Streams
  <2> HIDE DEF n
  <2> QED BY <2>1, <2>2, <2>3
<1>2. n \in [Peers -> Seq(Message(top))]
  <2>1. DOMAIN n = Peers /\ n = [q \in Peers |-> n[q]]
    BY DEF Streams
  <2> HIDE DEF n
  <2> QED BY <1>1, <2>1
<1> HIDE DEF n
<1>3. Streams(n, top) /\ \A q \in Peers : Range(ch[q]) \subseteq Range(n[q])
  BY <1>1, <1>2 DEF Streams
<1> QED BY <1>3 DEF n

\* The same requests on streams that hold more.
LEMMA AskedOnMore ==
    ASSUME NEW t \in Nat, NEW inf, NEW ch, NEW ch2, NEW ps, NEW hv, NEW dropped,
           Asked(inf, ch, ps, hv, t, dropped), Streams(ch2, t),
           \A q \in Peers : Range(ch[q]) \subseteq Range(ch2[q])
    PROVE  Asked(inf, ch2, ps, hv, t, dropped)
<1>1. inf \in Requests(t) /\ DOMAIN inf \intersect hv = {} /\ \A p \in Peers : Load(inf, p) <= MaxInflight
  BY DEF Asked
<1>2. ASSUME NEW h \in DOMAIN inf, inf[h] \notin dropped
      PROVE  inf[h] \in Range(ps) /\ Answers(ch2[inf[h]], h)
  <2>1. inf[h] \in Peers /\ inf[h] \in Range(ps) /\ Answers(ch[inf[h]], h)
    BY <1>2 DEF Asked, Requests
  <2> QED BY <2>1, AnswersMore
<1> QED BY <1>1, <1>2 DEF Asked

\* A snapshot download that starts, after the stalled one is given up, keeps
\* what is asked and what is downloaded consistent; so does asking for blocks
\* when nobody serves snapshots.
LEMMA StartingKeeps ==
    ASSUME PeersInv, PeersInv', ChainInv', SnapInv, hdr <= hdr', hdr \in Nat,
           NEW inf, NEW ch, NEW dropped,
           Asked(inf, ch, peers', have', hdr', dropped),
           StartSnapshot(inf, ch, dropped)
    PROVE  Asked(inflight', chan', peers', have', hdr', {}) /\ SnapInv'
<1> DEFINE old == IF snap.peer = NoPeer THEN snap ELSE StalledSnap
           servers == SnapServers(snapBad', dropped)
           i == CHOOSE x \in servers : \A y \in servers : x <= y
           p == peers'[i]
<1>0. hdr' \in Nat
  BY WindowFacts
<1>1. Download(snap, hdr) /\ snapBad' \subseteq Peers
  BY DEF SnapInv, StartSnapshot
<1>2. Download(old, hdr) /\ old.buf = <<>>
  <2>1. CASE snap.peer = NoPeer
    BY <1>1, <2>1 DEF Download
  <2>2. CASE snap.peer # NoPeer
    <3>1. Download(StalledSnap, hdr)
      <4>1. hdr <= hdr
        OBVIOUS
      <4> QED BY <1>1, <4>1, Downloads, Zenon DEF StalledSnap
    <3>2. StalledSnap.peer = NoPeer
      BY <1>1 DEF Download, StalledSnap
    <3>3. StalledSnap.buf = <<>>
      BY <3>1, <3>2 DEF Download
    <3> QED BY <2>2, <3>1, <3>3
  <2> QED BY <2>1, <2>2
<1> HIDE DEF old
<1>3. CASE servers = {}
  <2>1. snap' = old /\ AskForBlocks(inf, ch, dropped)
    BY <1>3 DEF StartSnapshot, old
  <2>2. Download(snap', hdr')
    BY <1>0, <1>2, <2>1, Downloads, Zenon
  <2> QED BY <1>1, <2>1, <2>2, AskingKeeps DEF SnapInv
<1>4. CASE servers # {}
  <2> DEFINE ch2 == [ch EXCEPT ![p] = Append(@, SnapReply(p, SnapTarget, 0))]
  <2>1. snap' = [old EXCEPT !.peer = p, !.block = SnapTarget] /\ Settle(inf, ch2, dropped)
    BY <1>4, Zenon DEF StartSnapshot, old
  <2>2. p \in Peers
    <3>1. servers \in SUBSET Nat
      <4>1. peers' \in Seq(Peers)
        BY DEF PeersInv
      <4>2. DOMAIN peers' = 1..Len(peers') /\ Len(peers') \in Nat
        BY <4>1
      <4> QED BY <4>2 DEF SnapServers
    <3>2. i \in servers
      <4> HIDE DEF servers
      <4>1. PICK x \in servers : \A y \in servers : x <= y
        BY <1>4, <3>1, LeastNumber
      <4> QED BY <4>1
    <3> HIDE DEF i
    <3> QED BY <3>2 DEF SnapServers, PeersInv
  <2> HIDE DEF p
  <2>3. SnapTarget \in 0..hdr' /\ SnapTarget \in Nat
    BY <1>0, TargetKnown
  <2>4. Download(snap', hdr')
    <3>1. \A q \in Peers, b \in 0..hdr' : Download([old EXCEPT !.peer = q, !.block = b], hdr')
      BY <1>0, <1>2, Downloads, Zenon
    <3> QED BY <2>1, <2>2, <2>3, <3>1, Zenon
  <2>5. SnapReply(p, SnapTarget, 0) \in Message(hdr')
    BY <1>0, <2>2, <2>3, ReplyKinds
  <2>6. Streams(ch, hdr')
    BY DEF Asked
  <2>7. Streams(ch2, hdr') /\ \A q \in Peers : Range(ch[q]) \subseteq Range(ch2[q])
    BY <2>5, <2>6, OneMore
  <2> HIDE DEF ch2
  <2>8. Asked(inf, ch2, peers', have', hdr', dropped)
    BY <1>0, <2>7, AskedOnMore
  <2> QED BY <1>1, <2>1, <2>4, <2>8, SettlingKeeps DEF SnapInv
<1> QED BY <1>3, <1>4

\* request_blocks keeps what is asked and what is downloaded consistent.
LEMMA RequestKeeps ==
    ASSUME PeersInv, PeersInv', ChainInv', SnapInv, hdr <= hdr', hdr \in Nat,
           NEW late, NEW inf, NEW ch, NEW dropped,
           Asked(inf, ch, peers', have', hdr', dropped),
           RequestBlocks(late, inf, ch, dropped)
    PROVE  Asked(inflight', chan', peers', have', hdr', {}) /\ SnapInv'
<1>0. hdr' \in Nat
  BY WindowFacts
<1>1. CASE snap' = SnapAfter(dropped) /\ snapBad' = snapBad
  <2>1. SnapInv'
    <3>1. Download(snap, hdr) /\ snapBad' \subseteq Peers
      BY <1>1 DEF SnapInv
    <3>2. Download(snap', hdr')
      BY <1>0, <1>1, <3>1, Downloads, Zenon DEF SnapAfter
    <3> QED BY <3>1, <3>2 DEF SnapInv
  <2>2. Settle(inf, ch, dropped) => Asked(inflight', chan', peers', have', hdr', {})
    BY SettlingKeeps
  <2>3. AskForBlocks(inf, ch, dropped) => Asked(inflight', chan', peers', have', hdr', {})
    BY AskingKeeps
  <2>4. Settle(inf, ch, dropped) \/ AskForBlocks(inf, ch, dropped) \/ StartSnapshot(inf, ch, dropped)
    BY Zenon DEF RequestBlocks
  <2> QED BY <2>1, <2>2, <2>3, <2>4, StartingKeeps
<1>2. CASE StartSnapshot(inf, ch, dropped)
  BY <1>2, StartingKeeps
<1>3. (snap' = SnapAfter(dropped) /\ snapBad' = snapBad) \/ StartSnapshot(inf, ch, dropped)
  BY Zenon DEF RequestBlocks
<1> QED BY <1>1, <1>2, <1>3

---------------------------------------------------------------------------
(* The handlers. *)

\* The chain ends where the first block above the tip is missing.
LEMMA TipFacts ==
    ASSUME NEW u \in 0..Top, NEW hv \in SUBSET (1..u), NEW t \in 0..u
    PROVE  NewTip(hv, t) \in 0..u
<1> DEFINE T == {k \in t..u : k + 1 \notin hv}
           IsTip(k) == t + 1 .. k \subseteq hv /\ k + 1 \notin hv
<1>1. u \in Nat /\ t \in Nat /\ Top \in Nat /\ t <= u /\ u <= Top
  BY SyncAssumption
<1>2. PICK x \in T : \A y \in T : x <= y
  <2>1. u + 1 \notin hv /\ u \in t..u
    BY <1>1
  <2>2. T \in SUBSET Nat /\ T # {}
    BY <1>1, <2>1
  <2> HIDE DEF T
  <2> QED BY <2>2, LeastNumber
<1>3. ASSUME NEW j \in t + 1 .. x PROVE j \in hv
  <2>1. j - 1 \in t..u /\ (j - 1) + 1 = j /\ ~ (x <= j - 1)
    BY <1>1, <1>2
  <2>2. j - 1 \notin T
    BY <1>2, <2>1
  <2> QED BY <2>1, <2>2
<1>4. x \in t..Top /\ IsTip(x)
  BY <1>1, <1>2, <1>3
<1>5. NewTip(hv, t) \in t..Top /\ IsTip(NewTip(hv, t))
  <2>1. NewTip(hv, t) = CHOOSE k \in t..Top : IsTip(k)
    BY Zenon DEF NewTip
  <2> HIDE DEF IsTip
  <2> QED BY <1>4, <2>1, Zenon
<1> DEFINE k == NewTip(hv, t)
<1> HIDE DEF k
<1>6. k \in t..Top /\ t + 1 .. k \subseteq hv
  BY <1>5 DEF k
<1>7. CASE k = t
  BY <1>1, <1>7 DEF k
<1>8. CASE k # t
  <2>1. k \in t + 1 .. k /\ k \in Nat
    BY <1>1, <1>6, <1>8
  <2>2. k \in 1..u
    BY <1>6, <2>1
  <2> QED BY <1>1, <2>2 DEF k
<1> QED BY <1>7, <1>8

\* What is left when some peers are dropped.
LEMMA DropFacts ==
    ASSUME PeersInv, NEW dropped, peers' = Filter(peers, Connected \ dropped)
    PROVE  peers' \in Seq(Peers) /\ NoRepeat(peers') /\ Range(peers') = Connected \ dropped
<1>1. peers \in Seq(Peers) /\ NoRepeat(peers)
  BY DEF PeersInv
<1>2. LET q == Filter(peers, Connected \ dropped)
      IN  q \in Seq(Peers) /\ Range(q) = Range(peers) \intersect (Connected \ dropped) /\ NoRepeat(q)
  BY <1>1, FilterFacts
<1>3. Range(peers) \intersect (Connected \ dropped) = Connected \ dropped
  BY DEF Connected
<1> QED BY <1>2, <1>3

\* The message at the head of a stream, and what is answered by the rest.
LEMMA ReadFacts ==
    ASSUME Inv, NEW p \in Peers, NEW ty, Receives(p, ty)
    PROVE  LET m == Head(chan[p])
           IN  /\ hdr \in Nat /\ p \in Connected /\ m \in Message(hdr) /\ m.type = ty
               /\ Streams(Rest(p), hdr)
               /\ \A q \in Peers : \A h :
                     Answers(chan[q], h) =>
                        \/ Answers(Rest(p)[q], h)
                        \/ q = p /\ m.type = "block" /\ m.h = h
                        \/ q = p /\ m.type = "notfound" /\ h \in m.hs
<1> DEFINE m == Head(chan[p])
<1>1. Streams(chan, hdr) /\ hdr \in Nat
  BY SyncAssumption DEF Inv, Asked, ChainInv
<1>2. p \in Connected /\ chan[p] # <<>> /\ m.type = ty
  BY DEF Receives
<1>3. chan[p] \in Seq(Message(hdr))
  BY <1>1 DEF Streams
<1>4. /\ m \in Message(hdr) /\ Tail(chan[p]) \in Seq(Message(hdr))
      /\ Range(chan[p]) \subseteq {m} \union Range(Tail(chan[p]))
  BY <1>2, <1>3, PopFacts
<1>5. Streams(Rest(p), hdr)
  BY <1>1, <1>4 DEF Streams, Rest
<1>6. \A q \in Peers : Rest(p)[q] = IF q = p THEN Tail(chan[p]) ELSE chan[q]
  BY <1>1 DEF Streams, Rest
<1> HIDE DEF m
<1>7. ASSUME NEW q \in Peers, NEW h, Answers(chan[q], h)
      PROVE  \/ Answers(Rest(p)[q], h)
             \/ q = p /\ m.type = "block" /\ m.h = h
             \/ q = p /\ m.type = "notfound" /\ h \in m.hs
  <2>1. CASE q # p
    BY <1>6, <1>7, <2>1
  <2>2. CASE q = p
    <3>1. PICK x \in Range(chan[p]) : \/ x.type = "block" /\ x.h = h
                                      \/ x.type = "notfound" /\ h \in x.hs
      BY <1>7, <2>2 DEF Answers
    <3>2. CASE x \in Range(Tail(chan[p]))
      BY <1>6, <2>2, <3>1, <3>2 DEF Answers
    <3>3. CASE x = m
      BY <2>2, <3>1, <3>3
    <3> QED BY <1>4, <3>2, <3>3
  <2> QED BY <2>1, <2>2
<1>8. /\ hdr \in Nat /\ p \in Connected /\ m \in Message(hdr) /\ m.type = ty
      /\ Streams(Rest(p), hdr)
  BY <1>1, <1>2, <1>4, <1>5
<1> QED BY <1>7, <1>8 DEF m

\* Reading a message that answers no request changes nothing of what is asked.
LEMMA ReadingKeeps ==
    ASSUME Inv, NEW p \in Peers, NEW ty, Receives(p, ty), ty \notin {"block", "notfound"},
           NEW u \in Nat, hdr <= u
    PROVE  Asked(inflight, Rest(p), peers, have, u, {})
<1>1. /\ hdr \in Nat /\ Head(chan[p]).type = ty /\ Streams(Rest(p), hdr)
      /\ \A q \in Peers : \A h :
            Answers(chan[q], h) =>
               \/ Answers(Rest(p)[q], h)
               \/ q = p /\ Head(chan[p]).type = "block" /\ Head(chan[p]).h = h
               \/ q = p /\ Head(chan[p]).type = "notfound" /\ h \in Head(chan[p]).hs
  BY ReadFacts
<1>2. Streams(Rest(p), u)
  BY <1>1, MoreHeaders DEF Streams
<1>3. Asked(inflight, chan, peers, have, hdr, {})
  BY DEF Inv
<1>4. /\ inflight \in Requests(hdr) /\ DOMAIN inflight \intersect have = {}
      /\ \A h \in DOMAIN inflight : inflight[h] \in Range(peers) /\ inflight[h] \in Peers
  BY <1>3 DEF Asked, Requests
<1>5. \A h \in DOMAIN inflight : Answers(chan[inflight[h]], h) => Answers(Rest(p)[inflight[h]], h)
  BY <1>1, <1>4
<1>6. Asked([h \in DOMAIN inflight |-> inflight[h]], Rest(p), peers, have, u, {})
  BY <1>1, <1>2, <1>3, <1>4, <1>5, StillAsked
<1> QED BY <1>4, <1>6, RequestsExt

\* What stays as it is.
LEMMA Unchanged ==
    ASSUME Inv
    PROVE  /\ UNCHANGED peerVars => PeersInv'
           /\ UNCHANGED <<chainVars, noWitness>> => ChainInv'
           /\ UNCHANGED <<hdr, snap, snapBad>> => SnapInv'
<1>1. PeersInv /\ ChainInv /\ SnapInv
  BY DEF Inv
<1>2. UNCHANGED peerVars => PeersInv'
  BY <1>1 DEF peerVars, PeersInv, Connected
<1>3. UNCHANGED <<chainVars, noWitness>> => ChainInv'
  BY <1>1 DEF chainVars, ChainInv
<1>4. UNCHANGED <<hdr, snap, snapBad>> => SnapInv'
  BY <1>1 DEF SnapInv
<1> QED BY <1>2, <1>3, <1>4

\* The facts about what is asked that most steps use.
LEMMA AskedFacts ==
    ASSUME Inv
    PROVE  /\ hdr \in Nat /\ Streams(chan, hdr)
           /\ inflight \in Requests(hdr) /\ DOMAIN inflight \in SUBSET (1..hdr)
           /\ DOMAIN inflight \intersect have = {}
           /\ \A h \in DOMAIN inflight : inflight[h] \in Connected /\ inflight[h] \in Peers
           /\ inflight = [h \in DOMAIN inflight |-> inflight[h]]
<1>1. /\ hdr \in Nat /\ Streams(chan, hdr)
      /\ inflight \in Requests(hdr) /\ DOMAIN inflight \intersect have = {}
      /\ \A h \in DOMAIN inflight : inflight[h] \in Range(peers)
  BY SyncAssumption DEF Inv, ChainInv, Asked
<1>2. DOMAIN inflight \in SUBSET (1..hdr) /\ \A h \in DOMAIN inflight : inflight[h] \in Peers
  BY <1>1 DEF Requests
<1>3. inflight = [h \in DOMAIN inflight |-> inflight[h]]
  BY <1>1, RequestsExt
<1> QED BY <1>1, <1>2, <1>3 DEF Connected

\* A new connection: nothing is asked of it, and its stream begins anew.
LEMMA ConnectKeeps ==
    ASSUME Inv, NEW p \in Peers, Connect(p)
    PROVE  Inv'
<1>1. /\ p \notin Connected /\ p \notin banned /\ peers' = Append(peers, p)
      /\ best' = [best EXCEPT ![p] = theirs[p]]
      /\ servesSnap' = [servesSnap EXCEPT ![p] = Committed(p)]
      /\ stalls' = [stalls EXCEPT ![p] = 0]
      /\ noWitness' = {x \in noWitness : x[2] # p}
      /\ snapBad' = snapBad \ {p}
      /\ chan' = [chan EXCEPT ![p] = <<HeadersReply(p, hdr)>>]
      /\ UNCHANGED <<theirs, banned, chainVars, inflight, snap, faults>>
  BY DEF Connect
<1>2. PeersInv /\ ChainInv /\ SnapInv /\ faults \in 0..MaxFaults
  BY DEF Inv
<1>3. peers \in Seq(Peers) /\ NoRepeat(peers) /\ p \notin Range(peers)
  BY <1>1, <1>2 DEF PeersInv, Connected
<1>4. peers' \in Seq(Peers) /\ Range(peers') = Range(peers) \union {p} /\ NoRepeat(peers')
  BY <1>1, <1>3, AppendFacts, NoRepeatAppend
<1>5. PeersInv'
  <2>1. MaxStalls \in Nat /\ MaxFaults \in Nat
    BY SyncAssumption
  <2>2. Committed(p) \in BOOLEAN
    BY DEF Committed
  <2>3. /\ theirs' \in [Peers -> 0..Top] /\ best' \in [Peers -> 0..Top]
        /\ servesSnap' \in [Peers -> BOOLEAN]
    BY <1>1, <1>2, <2>2 DEF PeersInv
  <2>4. /\ stalls' \in [Peers -> 0..MaxStalls + MaxFaults]
        /\ \A q \in Range(peers') : stalls'[q] <= MaxStalls
    BY <1>1, <1>2, <1>4, <2>1 DEF PeersInv, Connected
  <2>5. banned' \subseteq Peers \ Range(peers')
    BY <1>1, <1>2, <1>4 DEF PeersInv, Connected
  <2> QED BY <1>4, <2>3, <2>4, <2>5 DEF PeersInv, Connected
<1>6. ChainInv'
  BY <1>1, <1>2 DEF ChainInv, chainVars
<1>7. SnapInv'
  BY <1>1, <1>2 DEF SnapInv, chainVars
<1>8. Asked(inflight', chan', peers', have', hdr', {})
  <2>1. hdr' = hdr /\ have' = have /\ inflight' = inflight
    BY <1>1 DEF chainVars
  <2>2. HeadersReply(p, hdr) \in Message(hdr)
    BY <1>2, AskedFacts, ReplyKinds, SyncAssumption
  <2>3. <<HeadersReply(p, hdr)>> \in Seq(Message(hdr))
    BY <2>2
  <2>4. Streams(chan', hdr)
    BY <1>1, <2>3, AskedFacts DEF Streams
  <2>5. \A h \in DOMAIN inflight :
           inflight[h] \in Range(peers') /\ chan'[inflight[h]] = chan[inflight[h]]
    BY <1>1, <1>4, AskedFacts DEF Connected, Streams
  <2>6. Asked(inflight, chan, peers, have, hdr, {})
    BY DEF Inv
  <2>7. hdr \in Nat /\ DOMAIN inflight \intersect have = {}
    BY AskedFacts
  <2>8. Asked([h \in DOMAIN inflight |-> inflight[h]], chan', peers', have, hdr, {})
    BY <2>4, <2>5, <2>6, <2>7, StillAsked
  <2> QED BY <2>1, <2>8, AskedFacts
<1>9. faults' \in 0..MaxFaults
  BY <1>1, <1>2
<1> QED BY <1>5, <1>6, <1>7, <1>8, <1>9 DEF Inv

\* Reaping connections forgets what was asked of them.
LEMMA ReapingKeeps ==
    ASSUME Inv, NEW dropped, Reap(dropped), ChainInv', UNCHANGED <<hdr, have>>
    PROVE  /\ Asked(inflight', chan', peers', have', hdr', {})
           /\ peers' \in Seq(Peers) /\ NoRepeat(peers') /\ Range(peers') = Connected \ dropped
<1>1. peers' = Filter(peers, Connected \ dropped) /\ Settle(inflight, chan, dropped)
  BY DEF Reap
<1>2. peers' \in Seq(Peers) /\ NoRepeat(peers') /\ Range(peers') = Connected \ dropped
  BY <1>1, DropFacts DEF Inv
<1>3. Asked(inflight, chan, peers', have', hdr', dropped)
  <2>1. Asked(inflight, chan, peers, have, hdr, {})
    BY DEF Inv
  <2>2. hdr \in Nat /\ DOMAIN inflight \intersect have = {} /\ Streams(chan, hdr)
    BY AskedFacts
  <2>3. \A h \in DOMAIN inflight : inflight[h] \notin dropped => inflight[h] \in Range(peers')
    BY <1>2, AskedFacts
  <2>4. Asked([h \in DOMAIN inflight |-> inflight[h]], chan, peers', have, hdr, dropped)
    BY <2>1, <2>2, <2>3, StillAsked
  <2> QED BY <2>4, AskedFacts
<1>4. Asked(inflight', chan', peers', have', hdr', {})
  BY <1>1, <1>3, SettlingKeeps
<1> QED BY <1>2, <1>4

\* A lost connection takes what was asked of it along; a snapshot download from
\* it stays, its peer Gone.
LEMMA DisconnectKeeps ==
    ASSUME Inv, NEW p \in Peers, Disconnect(p)
    PROVE  Inv'
<1>1. /\ Reap({p}) /\ snap' = SnapAfter({p})
      /\ faults < MaxFaults /\ faults' = faults + 1
      /\ UNCHANGED <<theirs, banned, best, servesSnap, stalls, chainVars, noWitness, snapBad>>
  BY DEF Disconnect
<1>2. PeersInv /\ SnapInv /\ faults \in 0..MaxFaults
  BY DEF Inv
<1>3. ChainInv' /\ hdr' = hdr /\ have' = have
  BY <1>1, Unchanged DEF chainVars
<1>4. /\ Asked(inflight', chan', peers', have', hdr', {})
      /\ peers' \in Seq(Peers) /\ NoRepeat(peers') /\ Range(peers') = Connected \ {p}
  BY <1>1, <1>3, ReapingKeeps
<1>5. PeersInv'
  BY <1>1, <1>2, <1>4 DEF PeersInv, Connected
<1>6. SnapInv'
  <2>1. hdr \in Nat /\ hdr <= hdr /\ Download(snap, hdr)
    BY <1>2, AskedFacts DEF SnapInv
  <2>2. Download(snap', hdr)
    BY <1>1, <2>1, Downloads, Zenon DEF SnapAfter
  <2> QED BY <1>1, <1>2, <1>3, <2>2 DEF SnapInv
<1>7. faults' \in 0..MaxFaults
  BY <1>1, <1>2, SyncAssumption
<1> QED BY <1>3, <1>4, <1>5, <1>6, <1>7 DEF Inv

\* A ban that expires.
LEMMA BanExpiresKeeps ==
    ASSUME Inv, NEW p \in Peers, BanExpires(p)
    PROVE  Inv'
<1>1. /\ banned' = banned \ {p}
      /\ UNCHANGED <<theirs, peers, best, servesSnap, stalls, chan, chainVars, inflight,
                     noWitness, snap, snapBad, faults>>
  BY DEF BanExpires
<1>2. PeersInv'
  BY <1>1 DEF Inv, PeersInv, Connected
<1>3. ChainInv' /\ SnapInv' /\ hdr' = hdr /\ have' = have
  BY <1>1, Unchanged DEF chainVars
<1>4. Asked(inflight', chan', peers', have', hdr', {}) /\ faults' \in 0..MaxFaults
  BY <1>1, <1>3 DEF Inv
<1> QED BY <1>2, <1>3, <1>4 DEF Inv

\* An announcement by a peer whose chain grows.
LEMMA PeerGrowsKeeps ==
    ASSUME Inv, NEW p \in Peers, PeerGrows(p)
    PROVE  Inv'
<1>1. /\ theirs[p] < Top /\ theirs' = [theirs EXCEPT ![p] = @ + 1]
      /\ UNCHANGED <<peers, banned, best, servesSnap, stalls, chainVars, inflight, noWitness,
                     snap, snapBad, faults>>
  BY DEF PeerGrows
<1>2. theirs \in [Peers -> 0..Top] /\ Top \in Nat
  BY SyncAssumption DEF Inv, PeersInv
<1>3. theirs' \in [Peers -> 0..Top] /\ theirs'[p] \in 0..Top
  BY <1>1, <1>2
<1>4. PeersInv'
  BY <1>1, <1>3 DEF Inv, PeersInv, Connected
<1>5. ChainInv' /\ SnapInv' /\ hdr' = hdr /\ have' = have /\ hdr \in Nat /\ Streams(chan, hdr)
  BY <1>1, Unchanged, AskedFacts DEF chainVars
<1> DEFINE m == [type |-> "headers", from |-> theirs'[p], to |-> theirs'[p]]
<1>6. m \in Message(hdr)
  BY <1>3 DEF Message
<1>7. chan' = chan \/ chan' = [chan EXCEPT ![p] = Append(@, m)]
  BY Zenon DEF PeerGrows
<1> HIDE DEF m
<1>8. Streams(chan', hdr) /\ \A q \in Peers : Range(chan[q]) \subseteq Range(chan'[q])
  <2>1. CASE chan' = chan
    BY <1>5, <2>1
  <2>2. CASE chan' = [chan EXCEPT ![p] = Append(@, m)]
    BY <1>5, <1>6, <2>2, OneMore, Zenon
  <2> QED BY <1>7, <2>1, <2>2
<1>9. Asked(inflight, chan, peers, have, hdr, {}) /\ faults \in 0..MaxFaults
  BY DEF Inv
<1>10. Asked(inflight, chan', peers, have, hdr, {})
  BY <1>5, <1>8, <1>9, AskedOnMore
<1> QED BY <1>1, <1>4, <1>5, <1>9, <1>10 DEF Inv

\* Headers that extend ours, or that make us ask for more.
LEMMA OnHeadersKeeps ==
    ASSUME Inv, NEW p \in Peers, OnHeaders(p)
    PROVE  Inv'
<1> DEFINE m == Head(chan[p])
           some == m.from <= m.to
           orphan == some /\ m.from > hdr + 1
           more == orphan \/ m.to - m.from + 1 = BatchSize
           ch == IF more THEN [Rest(p) EXCEPT ![p] = Append(@, HeadersReply(p, hdr'))] ELSE Rest(p)
<1>1. /\ Receives(p, "headers")
      /\ hdr' = IF some /\ ~ orphan THEN Max2(hdr, m.to) ELSE hdr
      /\ best' = IF some /\ ~ orphan THEN [best EXCEPT ![p] = Max2(@, m.to)] ELSE best
      /\ UNCHANGED <<theirs, peers, banned, servesSnap, stalls, have, tip, noWitness, faults>>
      /\ RequestBlocks(FALSE, inflight, ch, {})
  BY Zenon DEF OnHeaders
<1>2. PeersInv /\ ChainInv /\ SnapInv /\ faults \in 0..MaxFaults
  BY DEF Inv
<1>3. /\ hdr \in Nat /\ m \in Message(hdr) /\ m.type = "headers"
  BY <1>1, ReadFacts
<1>4. m.from \in Nat /\ m.to \in 0..Top
  BY <1>3, MessageKinds
<1> HIDE DEF m
<1>5. hdr' \in 0..Top /\ hdr <= hdr' /\ hdr' \in Nat
  <2>1. hdr' = hdr \/ hdr' = Max2(hdr, m.to)
    BY <1>1, Zenon
  <2>2. hdr \in 0..Top /\ Top \in Nat
    BY <1>2, SyncAssumption DEF ChainInv
  <2>3. \A x \in 0..Top : Max2(hdr, x) \in 0..Top /\ hdr <= Max2(hdr, x)
    BY <2>2 DEF Max2
  <2> QED BY <1>4, <2>1, <2>2, <2>3
<1>6. best' \in [Peers -> 0..Top]
  BY <1>1, <1>2, <1>4, SyncAssumption DEF PeersInv, Max2
<1> HIDE DEF some, orphan, more
<1>7. PeersInv'
  BY <1>1, <1>2, <1>6 DEF PeersInv, Connected
<1>8. ChainInv'
  <2>1. 0..hdr \subseteq 0..hdr' /\ 1..hdr \subseteq 1..hdr'
    BY <1>3, <1>5
  <2> QED BY <1>1, <1>2, <1>5, <2>1 DEF ChainInv
<1>9. Asked(inflight, Rest(p), peers, have, hdr', {})
  BY <1>1, <1>5, ReadingKeeps
<1>10. Asked(inflight, ch, peers, have, hdr', {})
  <2>1. CASE more
    <3>1. HeadersReply(p, hdr') \in Message(hdr')
      BY <1>2, <1>5, ReplyKinds, SyncAssumption
    <3>2. Streams(Rest(p), hdr')
      BY <1>9 DEF Asked
    <3>3. ch = [Rest(p) EXCEPT ![p] = Append(@, HeadersReply(p, hdr'))]
      BY <2>1
    <3> HIDE DEF ch
    <3>4. Streams(ch, hdr') /\ \A q \in Peers : Range(Rest(p)[q]) \subseteq Range(ch[q])
      BY <3>1, <3>2, <3>3, OneMore, Zenon
    <3> QED BY <1>5, <1>9, <3>4, AskedOnMore
  <2>2. CASE ~ more
    BY <1>9, <2>2
  <2> QED BY <2>1, <2>2
<1> HIDE DEF ch
<1>11. Asked(inflight', chan', peers', have', hdr', {}) /\ SnapInv'
  BY <1>1, <1>2, <1>3, <1>5, <1>7, <1>8, <1>10, RequestKeeps
<1>12. faults' \in 0..MaxFaults
  BY <1>1, <1>2
<1> QED BY <1>7, <1>8, <1>11, <1>12 DEF Inv

\* A block was read: the request for it is over, the others are still answered.
LEMMA BlockRead ==
    ASSUME Inv, NEW p \in Peers, Receives(p, "block"), NEW hv,
           hv \subseteq have \union {Head(chan[p]).h}
    PROVE  LET m == Head(chan[p])
           IN  m.h \in 1..hdr /\ Asked(Settled(inflight, m.h, p), Rest(p), peers, hv, hdr, {})
<1> DEFINE m == Head(chan[p])
           D == DOMAIN inflight \ {m.h}
<1>1. /\ hdr \in Nat /\ m \in Message(hdr) /\ m.type = "block" /\ Streams(Rest(p), hdr)
      /\ \A q \in Peers : \A h :
            Answers(chan[q], h) =>
               \/ Answers(Rest(p)[q], h)
               \/ q = p /\ m.type = "block" /\ m.h = h
               \/ q = p /\ m.type = "notfound" /\ h \in m.hs
  BY ReadFacts
<1>2. m.h \in 1..hdr
  BY <1>1, MessageKinds
<1> HIDE DEF m
<1>3. \A h \in D : inflight[h] \in Range(peers) /\ inflight[h] \in Peers
  BY AskedFacts DEF Connected
<1>4. \A h \in D : Answers(chan[inflight[h]], h) => Answers(Rest(p)[inflight[h]], h)
  BY <1>1, <1>3
<1>5. D \intersect hv = {}
  BY AskedFacts DEF m
<1>6. Asked(inflight, chan, peers, have, hdr, {})
  BY DEF Inv
<1>7. Asked([h \in D |-> inflight[h]], Rest(p), peers, hv, hdr, {})
  BY <1>1, <1>3, <1>4, <1>5, <1>6, StillAsked
<1>8. Settled(inflight, m.h, p) = [h \in D |-> inflight[h]]
  BY DEF Settled
<1>9. m.h \in 1..hdr /\ Asked(Settled(inflight, m.h, p), Rest(p), peers, hv, hdr, {})
  BY <1>2, <1>7, <1>8
<1> QED BY <1>9 DEF m

\* A block that is stored, or one that lacks signatures we need.
LEMMA OnBlockKeeps ==
    ASSUME Inv, NEW p \in Peers, OnBlock(p)
    PROVE  Inv'
<1> DEFINE m == Head(chan[p])
           left == Settled(inflight, m.h, p)
<1>1. Receives(p, "block")
  BY DEF OnBlock
<1>2. PeersInv /\ ChainInv /\ SnapInv /\ faults \in 0..MaxFaults /\ hdr \in Nat
  BY AskedFacts DEF Inv
<1>3. \A hv : hv \subseteq have \union {m.h} =>
         m.h \in 1..hdr /\ Asked(left, Rest(p), peers, hv, hdr, {})
  BY <1>1, BlockRead
<1>4. m.h \in 1..hdr
  BY <1>3
<1>5. CASE /\ noWitness' = noWitness \union {<<m.h, p>>}
           /\ inflight' = left
           /\ chan' = Rest(p)
           /\ UNCHANGED <<peerVars, chainVars, snap, snapBad, faults>>
  <2>1. hdr' = hdr /\ have' = have /\ tip' = tip /\ peers' = peers
    BY <1>5 DEF chainVars, peerVars
  <2>2. Asked(inflight', chan', peers', have', hdr', {})
    BY <1>3, <1>5, <2>1
  <2>3. PeersInv' /\ SnapInv'
    BY <1>5, <2>1, Unchanged
  <2> HIDE DEF m
  <2>4. ChainInv'
    BY <1>2, <1>4, <1>5, <2>1 DEF ChainInv
  <2>5. faults' \in 0..MaxFaults
    BY <1>2, <1>5
  <2> QED BY <2>2, <2>3, <2>4, <2>5 DEF Inv
<1>6. CASE /\ have' = have \union {m.h}
           /\ tip' = NewTip(have', tip)
           /\ UNCHANGED <<peerVars, hdr, noWitness, faults>>
           /\ RequestBlocks(FALSE, left, Rest(p), {})
  <2>1. Asked(left, Rest(p), peers, have', hdr, {})
    BY <1>3, <1>6
  <2>2. PeersInv' /\ peers' = peers
    BY <1>6, Unchanged DEF peerVars
  <2> HIDE DEF m, left
  <2>3. have' \in SUBSET (1..hdr) /\ hdr \in 0..Top /\ tip \in 0..hdr
    BY <1>2, <1>4, <1>6 DEF ChainInv
  <2>4. tip' \in 0..hdr
    BY <1>6, <2>3, TipFacts
  <2>5. ChainInv'
    BY <1>2, <1>6, <2>3, <2>4 DEF ChainInv
  <2>6. Asked(inflight', chan', peers', have', hdr', {}) /\ SnapInv'
    <3>1. Asked(left, Rest(p), peers', have', hdr', {}) /\ hdr <= hdr'
      BY <1>2, <1>6, <2>1, <2>2
    <3> QED BY <1>2, <1>6, <2>2, <2>5, <3>1, RequestKeeps
  <2>7. faults' \in 0..MaxFaults
    BY <1>2, <1>6
  <2> QED BY <2>2, <2>5, <2>6, <2>7 DEF Inv
<1>7. \/ /\ noWitness' = noWitness \union {<<m.h, p>>}
         /\ inflight' = left
         /\ chan' = Rest(p)
         /\ UNCHANGED <<peerVars, chainVars, snap, snapBad, faults>>
      \/ /\ have' = have \union {m.h}
         /\ tip' = NewTip(have', tip)
         /\ UNCHANGED <<peerVars, hdr, noWitness, faults>>
         /\ RequestBlocks(FALSE, left, Rest(p), {})
  BY Zenon DEF OnBlock
<1> QED BY <1>5, <1>6, <1>7

\* A peer that lacks some of the blocks asked for.
LEMMA OnNotFoundKeeps ==
    ASSUME Inv, NEW p \in Peers, OnNotFound(p)
    PROVE  Inv'
<1> DEFINE m == Head(chan[p])
           hs == {h \in m.hs \intersect DOMAIN inflight : inflight[h] = p}
           D == DOMAIN inflight \ hs
<1>1. /\ Receives(p, "notfound")
      /\ inflight' = [h \in D |-> inflight[h]]
      /\ noWitness' = noWitness \union {<<h, p>> : h \in hs}
      /\ chan' = Rest(p)
      /\ UNCHANGED <<peerVars, chainVars, snap, snapBad, faults>>
  BY DEF OnNotFound
<1>2. PeersInv /\ ChainInv /\ SnapInv /\ faults \in 0..MaxFaults /\ Asked(inflight, chan, peers, have, hdr, {})
  BY DEF Inv
<1>3. /\ hdr \in Nat /\ m.type = "notfound" /\ Streams(Rest(p), hdr)
      /\ \A q \in Peers : \A h :
            Answers(chan[q], h) =>
               \/ Answers(Rest(p)[q], h)
               \/ q = p /\ m.type = "block" /\ m.h = h
               \/ q = p /\ m.type = "notfound" /\ h \in m.hs
  BY <1>1, ReadFacts
<1>4. hdr' = hdr /\ have' = have /\ tip' = tip /\ peers' = peers
  BY <1>1 DEF chainVars, peerVars
<1>5. PeersInv' /\ SnapInv'
  BY <1>1, <1>4, Unchanged
<1> HIDE DEF m
<1>6. hs \subseteq 1..hdr
  BY AskedFacts
<1>7. ChainInv'
  BY <1>1, <1>2, <1>4, <1>6 DEF ChainInv
<1>8. \A h \in D : inflight[h] \in Range(peers) /\ inflight[h] \in Peers
  BY AskedFacts DEF Connected
<1>9. \A h \in D : Answers(chan[inflight[h]], h) => Answers(Rest(p)[inflight[h]], h)
  BY <1>3, <1>8
<1>10. D \intersect have = {} /\ D \in SUBSET DOMAIN inflight
  BY AskedFacts
<1> HIDE DEF D, hs
<1>11. Asked([h \in D |-> inflight[h]], Rest(p), peers, have, hdr, {})
  BY <1>2, <1>3, <1>8, <1>9, <1>10, StillAsked
<1>12. Asked(inflight', chan', peers', have', hdr', {}) /\ faults' \in 0..MaxFaults
  BY <1>1, <1>2, <1>4, <1>11
<1> QED BY <1>5, <1>7, <1>12 DEF Inv

\* A snapshot message that is ignored, or that ends the download.
LEMMA OnSnapshotEndsKeeps ==
    ASSUME Inv, NEW p \in Peers, OnSnapshotIgnored(p) \/ OnSnapshotRefused(p)
    PROVE  Inv'
<1>1. /\ Receives(p, "snapshot") /\ chan' = Rest(p)
      /\ UNCHANGED <<peerVars, chainVars, inflight, noWitness, faults>>
      /\ \/ UNCHANGED <<snap, snapBad>>
         \/ snap' = StalledSnap /\ snapBad' = snapBad \union {p}
  BY DEF OnSnapshotIgnored, OnSnapshotRefused
<1>2. hdr' = hdr /\ have' = have /\ peers' = peers /\ hdr \in Nat
  BY <1>1, AskedFacts DEF chainVars, peerVars
<1>3. SnapInv /\ faults' \in 0..MaxFaults
  BY <1>1 DEF Inv
<1>4. PeersInv' /\ ChainInv'
  BY <1>1, Unchanged
<1>5. SnapInv'
  <2>1. CASE UNCHANGED <<snap, snapBad>>
    BY <1>2, <2>1, Unchanged
  <2>2. CASE snap' = StalledSnap /\ snapBad' = snapBad \union {p}
    <3>1. hdr <= hdr /\ Download(snap, hdr) /\ snapBad' \subseteq Peers
      BY <1>2, <1>3, <2>2 DEF SnapInv
    <3>2. Download(snap', hdr)
      BY <1>2, <2>2, <3>1, Downloads, Zenon DEF StalledSnap
    <3> QED BY <1>2, <3>1, <3>2 DEF SnapInv
  <2> QED BY <1>1, <2>1, <2>2
<1>6. Asked(inflight, Rest(p), peers, have, hdr, {})
  <2>1. hdr <= hdr
    BY <1>2
  <2> QED BY <1>1, <1>2, <2>1, ReadingKeeps
<1>7. Asked(inflight', chan', peers', have', hdr', {})
  BY <1>1, <1>2, <1>6
<1> QED BY <1>3, <1>4, <1>5, <1>7 DEF Inv

\* The next chunk of the snapshot that is downloaded.
LEMMA ChunkAdded ==
    ASSUME NEW t \in Nat, NEW s, Download(s, t), s.peer # NoPeer
    PROVE  /\ Download([s EXCEPT !.buf = Append(s.buf, <<s.block, Len(s.buf)>>)], t)
           /\ Len(Append(s.buf, <<s.block, Len(s.buf)>>)) \in Nat
<1> DEFINE x == <<s.block, Len(s.buf)>>
           b == Append(s.buf, x)
           n == [s EXCEPT !.buf = b]
           P == Nat \X Nat
<1>1. /\ s \in [peer : Peers \union {NoPeer, Gone}, block : 0..t, buf : Seq(P)]
      /\ s.buf = [i \in 1..Len(s.buf) |-> <<s.block, i - 1>>]
  BY DEF Download
<1>2. s.buf \in Seq(P) /\ s.block \in Nat /\ x \in P /\ Len(s.buf) \in Nat
  BY <1>1
<1>3. \A i \in 1..Len(s.buf) : s.buf[i] = <<s.block, i - 1>>
  BY <1>1
<1> HIDE DEF x, P
<1>4. /\ b \in Seq(P) /\ Len(b) = Len(s.buf) + 1
      /\ \A i \in 1..Len(s.buf) : b[i] = s.buf[i]
      /\ b[Len(s.buf) + 1] = x
  BY <1>2, AppendFacts
<1> HIDE DEF b
<1>5. \A i \in 1..Len(b) : b[i] = <<s.block, i - 1>>
  <2>1. ASSUME NEW i \in 1..Len(b) PROVE b[i] = <<s.block, i - 1>>
    <3>1. CASE i = Len(s.buf) + 1
      <4>1. i - 1 = Len(s.buf)
        BY <1>2, <3>1
      <4> QED BY <1>4, <3>1, <4>1 DEF x
    <3>2. CASE i # Len(s.buf) + 1
      <4>1. i \in 1..Len(s.buf)
        BY <1>2, <1>4, <3>2
      <4> QED BY <1>3, <1>4, <4>1
    <3> QED BY <3>1, <3>2
  <2> QED BY <2>1
<1>6. b = [i \in 1..Len(b) |-> <<s.block, i - 1>>]
  <2>1. b = [i \in 1..Len(b) |-> b[i]]
    BY <1>4
  <2> QED BY <1>5, <2>1
<1>7. n \in [peer : Peers \union {NoPeer, Gone}, block : 0..t, buf : Seq(P)]
  BY <1>1, <1>4
<1>8. n.buf = b /\ n.block = s.block /\ n.peer = s.peer
  BY <1>1
<1> HIDE DEF n
<1>9. Download(n, t)
  <2>1. n.buf = [i \in 1..Len(n.buf) |-> <<n.block, i - 1>>]
    BY <1>6, <1>8, Zenon
  <2> QED BY <1>7, <1>8, <2>1 DEF Download, P
<1>10. Len(b) \in Nat
  BY <1>2, <1>4
<1> QED BY <1>9, <1>10 DEF n, b, x

\* A chunk of the snapshot: the next one is asked for, the snapshot is loaded, or
\* its sender banned.
LEMMA OnSnapshotChunkKeeps ==
    ASSUME Inv, NEW p \in Peers, OnSnapshotChunk(p)
    PROVE  Inv'
<1> DEFINE m == Head(chan[p])
           buf == Append(snap.buf, <<m.block, m.off>>)
           done == Len(buf) = m.total
           ch == IF done THEN Rest(p)
                 ELSE [Rest(p) EXCEPT ![p] = Append(@, SnapReply(p, snap.block, Len(buf)))]
<1>1. /\ Receives(p, "snapshot") /\ p = snap.peer /\ m.block = snap.block /\ m.off = Len(snap.buf)
      /\ snap' = IF done THEN StalledSnap ELSE [snap EXCEPT !.buf = buf]
      /\ tip' = IF done /\ tip = 0 THEN NewTip(have, snap.block) ELSE tip
      /\ UNCHANGED <<theirs, best, servesSnap, stalls, hdr, have, noWitness, snapBad, faults>>
  BY DEF OnSnapshotChunk, SnapshotIgnored
<1>2. PeersInv /\ ChainInv /\ SnapInv /\ faults' \in 0..MaxFaults /\ hdr \in Nat /\ hdr <= hdr
  BY <1>1, AskedFacts DEF Inv
<1>3. Download(snap, hdr)
  BY <1>2 DEF SnapInv
<1>4. snap.peer # NoPeer /\ snap.block \in 0..hdr /\ snap.block \in Nat
  BY <1>1, <1>2, <1>3, SyncAssumption DEF Download
<1>5. buf = Append(snap.buf, <<snap.block, Len(snap.buf)>>)
  BY <1>1
<1>6. Download([snap EXCEPT !.buf = buf], hdr) /\ Len(buf) \in Nat
  BY <1>2, <1>3, <1>4, <1>5, ChunkAdded, Zenon
<1>7. \/ done /\ tip > 0 /\ banned' = banned \union {p} /\ Reap({p})
      \/ ~ (done /\ tip > 0) /\ chan' = ch /\ UNCHANGED <<banned, peers, inflight>>
  BY Zenon DEF OnSnapshotChunk
<1> HIDE DEF m, buf, done
<1>8. SnapInv'
  <2>1. Download(StalledSnap, hdr)
    BY <1>2, <1>3, Downloads, Zenon DEF StalledSnap
  <2>2. Download(snap', hdr)
    BY <1>1, <1>6, <2>1
  <2> QED BY <1>1, <1>2, <2>2 DEF SnapInv
<1>9. ChainInv'
  <2>1. tip' \in 0..hdr
    <3>1. hdr \in 0..Top /\ have \in SUBSET (1..hdr) /\ tip \in 0..hdr
      BY <1>2 DEF ChainInv
    <3>2. NewTip(have, snap.block) \in 0..hdr
      BY <1>4, <3>1, TipFacts
    <3> QED BY <1>1, <3>1, <3>2
  <2> QED BY <1>1, <1>2, <2>1 DEF ChainInv
<1>10. CASE banned' = banned \union {p} /\ Reap({p})
  <2>1. /\ Asked(inflight', chan', peers', have', hdr', {})
        /\ peers' \in Seq(Peers) /\ NoRepeat(peers') /\ Range(peers') = Connected \ {p}
    BY <1>1, <1>9, <1>10, ReapingKeeps
  <2>2. PeersInv'
    BY <1>1, <1>2, <1>10, <2>1 DEF PeersInv, Connected
  <2> QED BY <1>2, <1>8, <1>9, <2>1, <2>2 DEF Inv
<1>11. CASE chan' = ch /\ UNCHANGED <<banned, peers, inflight>>
  <2>1. PeersInv'
    BY <1>1, <1>11, Unchanged DEF peerVars
  <2>2. Asked(inflight, Rest(p), peers, have, hdr, {})
    BY <1>1, <1>2, ReadingKeeps
  <2>3. Asked(inflight, ch, peers, have, hdr, {})
    <3>1. CASE done
      BY <2>2, <3>1
    <3>2. CASE ~ done
      <4>1. SnapReply(p, snap.block, Len(buf)) \in Message(hdr)
        BY <1>2, <1>4, <1>6, ReplyKinds
      <4>2. Streams(Rest(p), hdr)
        BY <2>2 DEF Asked
      <4>3. ch = [Rest(p) EXCEPT ![p] = Append(@, SnapReply(p, snap.block, Len(buf)))]
        BY <3>2
      <4> HIDE DEF ch
      <4>4. Streams(ch, hdr) /\ \A q \in Peers : Range(Rest(p)[q]) \subseteq Range(ch[q])
        BY <4>1, <4>2, <4>3, OneMore, Zenon
      <4> QED BY <1>2, <2>2, <4>4, AskedOnMore
    <3> QED BY <3>1, <3>2
  <2>4. Asked(inflight', chan', peers', have', hdr', {})
    BY <1>1, <1>11, <2>3
  <2> QED BY <1>2, <1>8, <1>9, <2>1, <2>4 DEF Inv
<1> QED BY <1>7, <1>10, <1>11

\* The time-outs of a peer in one round: none of a peer that is not connected,
\* no more than there are faults left.
LEMMA HitsFacts ==
    ASSUME Inv, NEW expired \in SUBSET DOMAIN inflight, Cardinality(expired) <= MaxFaults
    PROVE  \A p \in Peers :
              LET hits == Cardinality({h \in expired : inflight[h] = p})
              IN  hits \in 0..MaxFaults /\ (p \notin Connected => hits = 0)
<1> SUFFICES ASSUME NEW p \in Peers
             PROVE  LET hits == Cardinality({h \in expired : inflight[h] = p})
                    IN  hits \in 0..MaxFaults /\ (p \notin Connected => hits = 0)
  OBVIOUS
<1> DEFINE H == {h \in expired : inflight[h] = p}
<1>1. IsFiniteSet(expired)
  <2>1. hdr \in Nat /\ expired \subseteq 1..hdr
    BY AskedFacts
  <2>2. IsFiniteSet(1..hdr)
    BY <2>1, FS_Interval
  <2> QED BY <2>1, <2>2, FS_Subset
<1>2. Cardinality(expired) \in Nat /\ MaxFaults \in Nat
  BY <1>1, FS_CardinalityType, SyncAssumption
<1>3. IsFiniteSet(H) /\ Cardinality(H) <= Cardinality(expired)
  <2>1. H \subseteq expired
    OBVIOUS
  <2> QED BY <1>1, <2>1, FS_Subset
<1>4. Cardinality(H) \in Nat
  BY <1>3, FS_CardinalityType
<1>5. p \notin Connected => H = {}
  BY AskedFacts
<1> HIDE DEF H
<1>6. p \notin Connected => Cardinality(H) = 0
  BY <1>5, FS_EmptySet
<1>7. Cardinality(H) \in 0..MaxFaults
  BY <1>2, <1>3, <1>4
<1> QED BY <1>6, <1>7 DEF H

\* Requests given up, peers dropped for too many of them, headers asked again.
LEMMA MaintainKeeps ==
    ASSUME Inv, NEW expired \in SUBSET DOMAIN inflight, NEW late \in BOOLEAN,
           NEW again \in SUBSET MayAskAgain, Maintain(expired, late, again)
    PROVE  Inv'
<1> DEFINE hits(p) == Cardinality({h \in expired : inflight[h] = p})
           D == DOMAIN inflight \ expired
           left == [h \in D |-> inflight[h]]
           dropped == {p \in Connected : stalls[p] + hits(p) > MaxStalls}
           ch == [p \in Peers |-> IF p \in again THEN Append(chan[p], HeadersReply(p, hdr)) ELSE chan[p]]
           tardy == IF late /\ snap.peer # Gone THEN 1 ELSE 0
<1>1. /\ stalls' = [p \in Peers |-> stalls[p] + hits(p)]
      /\ faults' = faults + Cardinality(expired) + tardy
      /\ faults' <= MaxFaults
      /\ peers' = Filter(peers, Connected \ dropped)
      /\ UNCHANGED <<theirs, banned, best, servesSnap, chainVars, noWitness>>
      /\ RequestBlocks(late, left, ch, dropped)
  BY Zenon DEF Maintain
<1>2. PeersInv /\ ChainInv /\ SnapInv /\ faults \in 0..MaxFaults /\ hdr \in Nat
  BY AskedFacts DEF Inv
<1>3. Cardinality(expired) \in Nat
  <2>1. expired \subseteq 1..hdr
    BY AskedFacts
  <2>2. IsFiniteSet(1..hdr)
    BY <1>2, FS_Interval
  <2> QED BY <2>1, <2>2, FS_Subset, FS_CardinalityType
<1>4. faults' \in 0..MaxFaults /\ Cardinality(expired) <= MaxFaults
  <2>1. tardy \in {0, 1} /\ MaxFaults \in Nat
    BY SyncAssumption
  <2> HIDE DEF tardy
  <2> QED BY <1>1, <1>2, <1>3, <2>1
<1>5. \A p \in Peers : hits(p) \in 0..MaxFaults /\ (p \notin Connected => hits(p) = 0)
  BY <1>4, HitsFacts
<1> HIDE DEF hits
<1>6. peers' \in Seq(Peers) /\ NoRepeat(peers') /\ Range(peers') = Connected \ dropped
  BY <1>1, <1>2, DropFacts
<1>7. PeersInv'
  <2>0. MaxStalls \in Nat /\ MaxFaults \in Nat
    BY SyncAssumption
  <2>1. ASSUME NEW p \in Peers
        PROVE  /\ stalls[p] + hits(p) \in 0..MaxStalls + MaxFaults
               /\ p \in Connected \ dropped => stalls[p] + hits(p) <= MaxStalls
    <3>1. /\ stalls[p] \in 0..MaxStalls + MaxFaults /\ (p \in Connected => stalls[p] <= MaxStalls)
          /\ hits(p) \in 0..MaxFaults /\ (p \notin Connected => hits(p) = 0)
      BY <1>2, <1>5 DEF PeersInv
    <3>2. p \in Connected \ dropped => ~ (stalls[p] + hits(p) > MaxStalls)
      OBVIOUS
    <3> HIDE DEF dropped
    <3> QED BY <2>0, <3>1, <3>2
  <2>2. /\ stalls' \in [Peers -> 0..MaxStalls + MaxFaults]
        /\ \A p \in Connected \ dropped : stalls'[p] <= MaxStalls
    <3>1. Connected \ dropped \subseteq Peers
      BY <1>2, RangeFacts DEF PeersInv, Connected
    <3> HIDE DEF dropped
    <3> QED BY <1>1, <2>1, <3>1
  <2> HIDE DEF dropped
  <2>3. /\ theirs' \in [Peers -> 0..Top] /\ best' \in [Peers -> 0..Top]
        /\ servesSnap' \in [Peers -> BOOLEAN] /\ banned' \subseteq Peers \ Connected
    BY <1>1, <1>2 DEF PeersInv
  <2>4. banned' \subseteq Peers \ Range(peers') /\ \A p \in Range(peers') : stalls'[p] <= MaxStalls
    BY <1>6, <2>2, <2>3
  <2> QED BY <1>6, <2>2, <2>3, <2>4 DEF PeersInv, Connected
<1>8. ChainInv' /\ hdr' = hdr /\ have' = have
  BY <1>1, Unchanged DEF chainVars
<1> HIDE DEF dropped
<1>9. Streams(ch, hdr) /\ \A q \in Peers : Range(chan[q]) \subseteq Range(ch[q])
  <2>1. ASSUME NEW p \in Peers
        PROVE  ch[p] \in Seq(Message(hdr)) /\ Range(chan[p]) \subseteq Range(ch[p])
    <3>1. chan[p] \in Seq(Message(hdr))
      BY AskedFacts DEF Streams
    <3>2. HeadersReply(p, hdr) \in Message(hdr)
      BY <1>2, ReplyKinds, SyncAssumption
    <3>3. Append(chan[p], HeadersReply(p, hdr)) \in Seq(Message(hdr))
          /\ Range(chan[p]) \subseteq Range(Append(chan[p], HeadersReply(p, hdr)))
      BY <3>1, <3>2, AppendFacts
    <3>4. ch[p] = IF p \in again THEN Append(chan[p], HeadersReply(p, hdr)) ELSE chan[p]
      OBVIOUS
    <3> HIDE DEF ch
    <3> QED BY <3>1, <3>3, <3>4
  <2>2. DOMAIN ch = Peers /\ ch = [p \in Peers |-> ch[p]]
    OBVIOUS
  <2> HIDE DEF ch
  <2> QED BY <2>1, <2>2 DEF Streams
<1> HIDE DEF ch
<1>10. Asked(left, ch, peers', have', hdr', dropped)
  <2>1. Asked(inflight, chan, peers, have, hdr, {})
    BY DEF Inv
  <2>2. D \in SUBSET DOMAIN inflight /\ D \intersect have = {}
    BY AskedFacts
  <2>3. \A h \in D : inflight[h] \notin dropped =>
           inflight[h] \in Range(peers')
           /\ (Answers(chan[inflight[h]], h) => Answers(ch[inflight[h]], h))
    <3>1. \A h \in D : inflight[h] \in Connected /\ inflight[h] \in Peers
      BY AskedFacts
    <3> QED BY <1>6, <1>9, <3>1, AnswersMore
  <2> HIDE DEF D
  <2>4. Asked(left, ch, peers', have, hdr, dropped)
    BY <1>2, <1>9, <2>1, <2>2, <2>3, StillAsked
  <2> QED BY <1>8, <2>4
<1> HIDE DEF left
<1>11. hdr <= hdr'
  BY <1>2, <1>8
<1>12. Asked(inflight', chan', peers', have', hdr', {}) /\ SnapInv'
  BY <1>1, <1>2, <1>7, <1>8, <1>10, <1>11, RequestKeeps
<1> QED BY <1>4, <1>7, <1>8, <1>12 DEF Inv

---------------------------------------------------------------------------
(* The theorem. *)

\* The invariant holds at the start.
LEMMA InvInit ==
    Init => Inv
<1> SUFFICES ASSUME Init PROVE Inv
  OBVIOUS
<1>1. MaxStalls \in Nat /\ MaxFaults \in Nat /\ Top \in Nat /\ MaxInflight \in Nat
  BY SyncAssumption
<1>2. Range(<<>>) = {} /\ <<>> \in Seq(Peers) /\ NoRepeat(<<>>)
  BY DEF Range, NoRepeat
<1>3. PeersInv
  <2>1. StartHeight \in [Peers -> 0..Top]
    BY SyncAssumption
  <2> QED BY <1>1, <1>2, <2>1 DEF Init, PeersInv, Connected
<1>4. ChainInv
  BY <1>1 DEF Init, ChainInv
<1>5. SnapInv
  <2>1. Download(NoSnap, 0)
    <3>1. NoSnap = [peer |-> NoPeer, block |-> 0, buf |-> <<>>]
      BY DEF NoSnap
    <3>2. <<>> = [i \in 1..Len(<<>>) |-> <<0, i - 1>>]
      <4>1. 1..Len(<<>>) = {} /\ DOMAIN <<>> = {}
        OBVIOUS
      <4> QED BY <4>1
    <3>3. NoSnap.buf = <<>> /\ NoSnap.block = 0
      BY <3>1
    <3>4. NoSnap \in [peer : Peers \union {NoPeer, Gone}, block : 0..0, buf : Seq(Nat \X Nat)]
      <4>1. <<>> \in Seq(Nat \X Nat) /\ 0 \in 0..0
        OBVIOUS
      <4> QED BY <3>1, <4>1
    <3> QED BY <3>2, <3>3, <3>4, Zenon DEF Download
  <2> QED BY <2>1 DEF Init, SnapInv
<1>6. Asked(inflight, chan, peers, have, hdr, {})
  <2>1. inflight = <<>> /\ hdr = 0 /\ have = {} /\ chan = [p \in Peers |-> <<>>]
    BY DEF Init
  <2>2. DOMAIN inflight = {} /\ inflight \in [{} -> Peers]
    BY <2>1
  <2>3. inflight \in Requests(hdr)
    BY <2>1, <2>2 DEF Requests
  <2>4. Streams(chan, hdr)
    BY <2>1 DEF Streams
  <2>5. ASSUME NEW p \in Peers PROVE Load(inflight, p) <= MaxInflight
    <3>1. {h \in DOMAIN inflight : inflight[h] = p} = {}
      BY <2>2
    <3>2. Load(inflight, p) = 0
      BY <3>1, FS_EmptySet DEF Load
    <3> QED BY <1>1, <3>2
  <2> QED BY <2>2, <2>3, <2>4, <2>5 DEF Asked
<1>7. faults \in 0..MaxFaults
  BY <1>1 DEF Init
<1> QED BY <1>3, <1>4, <1>5, <1>6, <1>7 DEF Inv

\* Every step keeps it.
LEMMA InvNext ==
    Inv /\ [Next]_vars => Inv'
<1> SUFFICES ASSUME Inv, [Next]_vars PROVE Inv'
  OBVIOUS
<1>1. CASE UNCHANGED vars
  <2>1. /\ UNCHANGED peerVars /\ UNCHANGED <<chainVars, noWitness>> /\ UNCHANGED <<hdr, snap, snapBad>>
        /\ UNCHANGED <<inflight, chan, peers, have, hdr, faults>>
    BY <1>1 DEF vars, peerVars, chainVars
  <2>2. PeersInv' /\ ChainInv' /\ SnapInv'
    BY <2>1, Unchanged
  <2> QED BY <2>1, <2>2 DEF Inv
<1>2. ASSUME NEW p \in Peers, Connect(p) \/ Disconnect(p) \/ BanExpires(p) \/ PeerGrows(p)
      PROVE  Inv'
  BY <1>2, ConnectKeeps, DisconnectKeeps, BanExpiresKeeps, PeerGrowsKeeps
<1>3. ASSUME NEW p \in Peers, Receive(p)
      PROVE  Inv'
  BY <1>3, OnHeadersKeeps, OnBlockKeeps, OnNotFoundKeeps, OnSnapshotEndsKeeps, OnSnapshotChunkKeeps
     DEF Receive
<1>4. ASSUME Tick PROVE Inv'
  BY <1>4, MaintainKeeps, Zenon DEF Tick
<1> QED BY <1>1, <1>2, <1>3, <1>4 DEF Next

\* The invariant gives what the run checks.
LEMMA InvSound ==
    Inv => DownloadsSound
<1> SUFFICES ASSUME Inv PROVE DownloadsSound
  OBVIOUS
<1>1. PeersInv /\ ChainInv /\ SnapInv /\ faults \in 0..MaxFaults /\ Asked(inflight, chan, peers, have, hdr, {})
  BY DEF Inv
<1>2. TypeOK
  <2>1. Connected \subseteq Peers /\ Len(peers) = Cardinality(Connected)
    BY <1>1, RangeFacts, NoRepeatCount DEF PeersInv, Connected
  <2>2. DOMAIN chan = Peers
    BY AskedFacts DEF Streams
  <2>3. DOMAIN inflight \subseteq 1..hdr /\ Range(inflight) \subseteq Peers
    BY AskedFacts DEF Range
  <2>4. snap.peer \in Peers \union {NoPeer, Gone} /\ snapBad \subseteq Peers
    BY <1>1 DEF SnapInv, Download
  <2> QED BY <1>1, <2>1, <2>2, <2>3, <2>4 DEF TypeOK, PeersInv, ChainInv
<1>3. NoRequestForHeldBlock
  BY AskedFacts DEF NoRequestForHeldBlock
<1>4. RequestsAwaited
  <2>1. ASSUME NEW h \in DOMAIN inflight
        PROVE  LET p == inflight[h] IN
               /\ p \in Connected
               /\ \E i \in DOMAIN chan[p] :
                     \/ chan[p][i].type = "block" /\ chan[p][i].h = h
                     \/ chan[p][i].type = "notfound" /\ h \in chan[p][i].hs
    <3>1. inflight[h] \in Connected /\ Answers(chan[inflight[h]], h)
      BY <1>1, AskedFacts DEF Asked
    <3> QED BY <3>1 DEF Answers, Range
  <2>2. \A p \in Peers : Load(inflight, p) <= MaxInflight
    BY <1>1 DEF Asked
  <2> QED BY <2>1, <2>2 DEF RequestsAwaited
<1>5. SnapshotIntact
  BY <1>1 DEF SnapInv, Download, SnapshotIntact
<1> QED BY <1>2, <1>3, <1>4, <1>5 DEF DownloadsSound

\* It always holds.
LEMMA InvAlways ==
    Spec => []Inv
<1> QED BY InvInit, InvNext, PTL DEF Spec

\* For any peers and any bounds: every request in flight is for a known block
\* that is not stored, with a connected peer whose answer is under way, no peer
\* has more than MAX_INFLIGHT_PER_PEER of them, and the snapshot buffer holds
\* the first chunks of the one snapshot asked for, through time-outs, late
\* answers, bans and lost connections (request_blocks, maintain, the handlers
\* of block, notfound and snapshot).
THEOREM DownloadsAlwaysSound ==
    Spec => []DownloadsSound
<1> QED BY InvAlways, InvSound, PTL
====
