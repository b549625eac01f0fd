----------------------------- MODULE BlockSync -----------------------------
(***************************************************************************)
(* Header-first synchronisation of one node with its peers (net/p2p): the  *)
(* block requests in flight, their time-outs and late answers, the peers   *)
(* known to lack a block or its signatures, and the download of a state    *)
(* snapshot by a fresh node.                                               *)
(*                                                                         *)
(* All of it runs on the network thread, one handler after the other.  The *)
(* chain is a single line of heights 1..Top, every peer being honest and   *)
(* holding a prefix of it: forks and invalid blocks are Chainstate's       *)
(* business.  A connection is an ordered stream; the time a request        *)
(* travels is folded into the time its answer does.                        *)
(***************************************************************************)
EXTENDS SeqFilter, FiniteSets, Functions

CONSTANTS
    Peers,
    NoPeer,         \* snap_peer_ = 0
    Gone,           \* snap_peer_ is the id of a connection that was closed
    Top,            \* bound: greatest height any peer reaches
    StartHeight,    \* [Peers -> 0..Top]: heights of the peers at the start
    PeerBase,       \* [Peers -> 0..Top]: the snapshot each peer itself began from
    Archive,        \* the peers that keep every signature (-noprune)
    FastSync,       \* P2POptions::fast_sync
    PruneDepth, BatchSize, MaxInflight, Window, FarBehind, MaxStalls,
    SnapInterval, SnapDelay, SnapChunks,
    MaxFaults       \* bound: time-outs and lost connections

ASSUME SyncAssumption ==
    /\ \A c \in {PruneDepth, BatchSize, MaxInflight, Window, SnapInterval, SnapChunks} :
           c \in Nat \ {0}
    /\ \A c \in {Top, FarBehind, MaxStalls, SnapDelay, MaxFaults} : c \in Nat
    /\ StartHeight \in [Peers -> 0..Top] /\ PeerBase \in [Peers -> 0..Top]
    /\ Archive \subseteq Peers /\ FastSync \in BOOLEAN
    /\ NoPeer \notin Peers /\ Gone \notin Peers /\ NoPeer # Gone

VARIABLES
    theirs,         \* the heights of the peers' active chains
    peers,          \* peers_: the connected ones, oldest connection first
    banned,         \* banned_
    best,           \* Peer::best_height
    servesSnap,     \* SERVICE_SNAPSHOT in the version message of each peer
    stalls,         \* Peer::stalls
    chan,           \* what each connected peer has sent and we have not read
    hdr,            \* height of the best header
    have,           \* heights of the stored blocks
    tip,            \* height of the active chain
    inflight,       \* inflight_: requested height -> peer
    noWitness,      \* no_witness_: {<<height, peer>>}
    snap,           \* snap_peer_, snap_block_, snap_buf_ (chunks received)
    snapBad,        \* snap_bad_peers_
    faults

peerVars == <<theirs, peers, banned, best, servesSnap, stalls>>
chainVars == <<hdr, have, tip>>
vars == <<peerVars, chan, chainVars, inflight, noWitness, snap, snapBad, faults>>

Min2(a, b) == IF a < b THEN a ELSE b
Max2(a, b) == IF a > b THEN a ELSE b
Connected == Range(peers)
NoSnap == [peer |-> NoPeer, block |-> 0, buf |-> <<>>]

(***************************************************************************)
(* The answers of a peer                                                   *)
(***************************************************************************)

\* GetHeaders with our locator: the headers above the last one both know.
HeadersReply(p, h) ==
    LET fork == Min2(h, theirs[p])
    IN [type |-> "headers", from |-> fork + 1, to |-> Min2(fork + BatchSize, theirs[p])]

HasData(p, h) == PeerBase[p] < h /\ h <= theirs[p]
HasWitness(p, h) == HasData(p, h) /\ (p \in Archive \/ h + PruneDepth > theirs[p])

\* GetData for the heights in the sequence hs: the blocks in order, each with
\* its signatures if the peer still has them, then one message for the rest.
BlocksReply(p, hs) ==
    LET found == Filter(hs, {h \in Range(hs) : HasData(p, h)})
        lost == {h \in Range(hs) : ~ HasData(p, h)}
    IN [i \in DOMAIN found |-> [type |-> "block", h |-> found[i], wit |-> HasWitness(p, found[i])]]
       \o IF lost = {} THEN <<>> ELSE <<[type |-> "notfound", hs |-> lost]>>

\* A peer keeps the snapshots of the last three commit heights, and its own base.
SnapBlocks(p) == {s \in 1..theirs[p] : s % SnapInterval = 0
                     /\ (s = PeerBase[p] \/ s + 3 * SnapInterval > theirs[p])}

\* GetSnapshot: the chunk at the offset, or an empty answer.
SnapReply(p, s, off) ==
    [type |-> "snapshot", block |-> s, off |-> off,
     total |-> IF s \in SnapBlocks(p) THEN SnapChunks ELSE 0]

Committed(p) == \E s \in SnapBlocks(p) : s + SnapDelay <= theirs[p]

(***************************************************************************)
(* Requests                                                                *)
(***************************************************************************)
Load(inf, p) == Cardinality({h \in DOMAIN inf : inf[h] = p})

\* The peers, as positions in peers', that may be asked for the block at h.
Askable(inf, h, dropped) ==
    {i \in DOMAIN peers' : LET p == peers'[i] IN
        /\ p \notin dropped
        /\ best'[p] >= h
        /\ Load(inf, p) < MaxInflight
        /\ <<h, p>> \notin noWitness'}

\* One turn of the loop of request_blocks: the least loaded peer is asked.
Assign(inf, h, dropped) ==
    LET cands == Askable(inf, h, dropped)
        Better(i, j) == \/ Load(inf, peers'[i]) < Load(inf, peers'[j])
                        \/ Load(inf, peers'[i]) = Load(inf, peers'[j]) /\ i <= j
    IN IF h \in have' \union DOMAIN inf \/ cands = {} THEN inf
       ELSE LET i == CHOOSE x \in cands : \A y \in cands : Better(x, y)
            IN [k \in DOMAIN inf \union {h} |-> IF k = h THEN peers'[i] ELSE inf[k]]

\* The last height request_blocks looks at.
WindowEnd == Min2(hdr', tip' + Window)

\* The loop of request_blocks, from the tip upwards.
Assigned(inf, dropped) ==
    LET f[i \in 0..WindowEnd - tip'] == IF i = 0 THEN inf ELSE Assign(f[i - 1], tip' + i, dropped)
    IN f[WindowEnd - tip']

\* The streams with the answers to the new requests; those of dropped peers end.
WithBlockReplies(ch, inf, new, dropped) ==
    LET wanted == [i \in 1..Window |-> tip' + i]
        asked(p) == Filter(wanted, {h \in DOMAIN new \ DOMAIN inf : new[h] = p})
    IN [p \in Peers |-> IF p \in dropped THEN <<>> ELSE ch[p] \o BlocksReply(p, asked(p))]

\* try_fast_sync: the height of the snapshot a fresh node wants, 0 if none.
SnapTarget == IF hdr' < SnapDelay THEN 0 ELSE ((hdr' - SnapDelay) \div SnapInterval) * SnapInterval
FetchingHeaders(dropped) == \E p \in Range(peers') \ dropped : hdr' + FarBehind < best'[p]
SnapServers(bad, dropped) ==
    {i \in DOMAIN peers' : servesSnap'[peers'[i]] /\ peers'[i] \notin bad \union dropped}

(***************************************************************************)
(* request_blocks, the end of most handlers: the snapshot first, if there  *)
(* is one to wait for, else the next blocks.  inf and ch are inflight_ and *)
(* the streams as the handler leaves them, late says that the snapshot     *)
(* peer was silent for a minute, dropped are the peers being disconnected. *)
(***************************************************************************)
AskForBlocks(inf, ch, dropped) ==
    \E new \in {Assigned(inf, dropped)} :
       /\ inflight' = [h \in {k \in DOMAIN new : new[k] \notin dropped} |-> new[h]]
       /\ chan' = WithBlockReplies(ch, inf, new, dropped)

\* Only what the handler did stays; dropped peers are reaped.
Settle(inf, ch, dropped) ==
    /\ inflight' = [h \in {k \in DOMAIN inf : inf[k] \notin dropped} |-> inf[h]]
    /\ chan' = [p \in Peers |-> IF p \in dropped THEN <<>> ELSE ch[p]]

\* Closing a connection does not end a snapshot download from it.
SnapAfter(dropped) == IF snap.peer \in dropped THEN [snap EXCEPT !.peer = Gone] ELSE snap

\* A download that stalled or ended.
StalledSnap == [snap EXCEPT !.peer = NoPeer, !.buf = <<>>]

\* The stalled snapshot peer, if any, is given up; the next server is asked.
StartSnapshot(inf, ch, dropped) ==
    LET old == IF snap.peer = NoPeer THEN snap ELSE StalledSnap
        servers == SnapServers(snapBad', dropped)
        p == peers'[CHOOSE i \in servers : \A j \in servers : i <= j]
    IN /\ snapBad' = snapBad \union ({snap.peer} \intersect Peers)
       /\ IF servers = {}
          THEN snap' = old /\ AskForBlocks(inf, ch, dropped)
          ELSE /\ snap' = [old EXCEPT !.peer = p, !.block = SnapTarget]
               /\ Settle(inf, [ch EXCEPT ![p] = Append(@, SnapReply(p, SnapTarget, 0))], dropped)

RequestBlocks(late, inf, ch, dropped) ==
    LET fresh == FastSync /\ tip' = 0
        fetching == FetchingHeaders(dropped)
        waiting == fresh /\ snap.peer # NoPeer /\ (fetching \/ (SnapTarget > 0 /\ ~ late))
        starting == fresh /\ ~ fetching /\ SnapTarget > 0 /\ (snap.peer = NoPeer \/ late)
    IN \/ /\ waiting
          /\ Settle(inf, ch, dropped)
          /\ snap' = SnapAfter(dropped) /\ UNCHANGED snapBad
       \/ starting /\ StartSnapshot(inf, ch, dropped)
       \/ /\ ~ waiting /\ ~ starting
          /\ AskForBlocks(inf, ch, dropped)
          /\ snap' = SnapAfter(dropped) /\ UNCHANGED snapBad

(***************************************************************************)
(* Connections                                                             *)
(***************************************************************************)
Init ==
    /\ theirs = StartHeight
    /\ peers = <<>> /\ banned = {}
    /\ best = [p \in Peers |-> 0]
    /\ servesSnap = [p \in Peers |-> FALSE]
    /\ stalls = [p \in Peers |-> 0]
    /\ chan = [p \in Peers |-> <<>>]
    /\ hdr = 0 /\ have = {} /\ tip = 0
    /\ inflight = <<>>
    /\ noWitness = {}
    /\ snap = NoSnap /\ snapBad = {}
    /\ faults = 0

\* A completed handshake (Connections models it): the peer is known by a new
\* id, its version message gives its height, and it is asked for headers.
Connect(p) ==
    /\ p \notin Connected \union banned
    /\ peers' = Append(peers, p)
    /\ best' = [best EXCEPT ![p] = theirs[p]]
    /\ servesSnap' = [servesSnap EXCEPT ![p] = Committed(p)]
    /\ stalls' = [stalls EXCEPT ![p] = 0]
    /\ noWitness' = {x \in noWitness : x[2] # p}
    /\ snapBad' = snapBad \ {p}
    /\ chan' = [chan EXCEPT ![p] = <<HeadersReply(p, hdr)>>]
    /\ UNCHANGED <<theirs, banned, chainVars, inflight, snap, faults>>

\* The reaping of a connection in P2P::loop: what was asked of it is forgotten.
Reap(dropped) ==
    /\ peers' = Filter(peers, Connected \ dropped)
    /\ Settle(inflight, chan, dropped)

\* The connection is lost.
Disconnect(p) ==
    /\ p \in Connected /\ faults < MaxFaults
    /\ Reap({p})
    /\ snap' = SnapAfter({p})
    /\ faults' = faults + 1
    /\ UNCHANGED <<theirs, banned, best, servesSnap, stalls, chainVars, noWitness, snapBad>>

BanExpires(p) ==
    /\ p \in banned
    /\ banned' = banned \ {p}
    /\ UNCHANGED <<theirs, peers, best, servesSnap, stalls, chan, chainVars, inflight,
                   noWitness, snap, snapBad, faults>>

\* The peer's chain grows and the peer announces its new header.
PeerGrows(p) ==
    /\ theirs[p] < Top
    /\ theirs' = [theirs EXCEPT ![p] = @ + 1]
    /\ chan' = IF p \notin Connected THEN chan
               ELSE [chan EXCEPT ![p] = Append(@, [type |-> "headers", from |-> theirs'[p], to |-> theirs'[p]])]
    /\ UNCHANGED <<peers, banned, best, servesSnap, stalls, chainVars, inflight, noWitness,
                   snap, snapBad, faults>>

(***************************************************************************)
(* Messages                                                                *)
(***************************************************************************)
Receives(p, type) == p \in Connected /\ chan[p] # <<>> /\ Head(chan[p]).type = type
Rest(p) == [chan EXCEPT ![p] = Tail(@)]

\* Cmd::Headers: an announcement whose parent is unknown, or a full message,
\* makes us ask for more.
OnHeaders(p) ==
    /\ Receives(p, "headers")
    /\ LET m == Head(chan[p])
           some == m.from <= m.to
           orphan == some /\ m.from > hdr + 1
           more == orphan \/ m.to - m.from + 1 = BatchSize
       IN /\ hdr' = IF some /\ ~ orphan THEN Max2(hdr, m.to) ELSE hdr
          /\ best' = IF some /\ ~ orphan THEN [best EXCEPT ![p] = Max2(@, m.to)] ELSE best
          /\ UNCHANGED <<theirs, peers, banned, servesSnap, stalls, have, tip, noWitness, faults>>
          /\ RequestBlocks(FALSE, inflight,
                 IF more THEN [Rest(p) EXCEPT ![p] = Append(@, HeadersReply(p, hdr'))] ELSE Rest(p), {})

\* activate_best_chain: the stored blocks that follow the tip are connected.
NewTip(hv, t) == CHOOSE k \in t..Top : t + 1 .. k \subseteq hv /\ k + 1 \notin hv

\* Only the peer that was asked ends a request.
SettledByAsked(inf, h, p) ==
    IF h \in DOMAIN inf /\ inf[h] # p THEN inf ELSE [k \in DOMAIN inf \ {h} |-> inf[k]]

\* Whoever sends a block, the request for it is over.
Settled(inf, h, p) == [k \in DOMAIN inf \ {h} |-> inf[k]]

\* accept_block: signatures may be missing only deep under the best header.
WitnessRequired(m) == m.h \notin have /\ ~ m.wit /\ m.h + PruneDepth > hdr

\* Cmd::BlockMsg.
OnBlock(p) ==
    /\ Receives(p, "block")
    /\ LET m == Head(chan[p])
           left == Settled(inflight, m.h, p)
       IN IF WitnessRequired(m)
          THEN /\ noWitness' = noWitness \union {<<m.h, p>>}
               /\ inflight' = left
               /\ chan' = Rest(p)
               /\ UNCHANGED <<peerVars, chainVars, snap, snapBad, faults>>
          ELSE /\ have' = have \union {m.h}
               /\ tip' = NewTip(have', tip)
               /\ UNCHANGED <<peerVars, hdr, noWitness, faults>>
               /\ RequestBlocks(FALSE, left, Rest(p), {})

\* The request is not forgotten.
OnNotFoundKeepsRequest(p) ==
    /\ Receives(p, "notfound")
    /\ noWitness' = noWitness \union {<<h, p>> : h \in Head(chan[p]).hs}
    /\ chan' = Rest(p)
    /\ UNCHANGED <<peerVars, chainVars, inflight, snap, snapBad, faults>>

\* Cmd::NotFound: counts only for what is in flight to this very peer.
OnNotFound(p) ==
    /\ Receives(p, "notfound")
    /\ LET hs == {h \in Head(chan[p]).hs \intersect DOMAIN inflight : inflight[h] = p}
       IN /\ inflight' = [h \in DOMAIN inflight \ hs |-> inflight[h]]
          /\ noWitness' = noWitness \union {<<h, p>> : h \in hs}
    /\ chan' = Rest(p)
    /\ UNCHANGED <<peerVars, chainVars, snap, snapBad, faults>>

\* Cmd::Snapshot: the next chunk of the snapshot being downloaded, or not.
SnapshotIgnored(p, m) == p # snap.peer \/ m.block # snap.block

OnSnapshotIgnored(p) ==
    /\ Receives(p, "snapshot") /\ SnapshotIgnored(p, Head(chan[p]))
    /\ chan' = Rest(p)
    /\ UNCHANGED <<peerVars, chainVars, inflight, noWitness, snap, snapBad, faults>>

OnSnapshotRefused(p) ==
    /\ Receives(p, "snapshot") /\ ~ SnapshotIgnored(p, Head(chan[p]))
    /\ Head(chan[p]).total = 0 \/ Head(chan[p]).off # Len(snap.buf)
    /\ snap' = StalledSnap
    /\ snapBad' = snapBad \union {p}
    /\ chan' = Rest(p)
    /\ UNCHANGED <<peerVars, chainVars, inflight, noWitness, faults>>

\* With the last chunk the snapshot is loaded, which needs a fresh node: else
\* the peer is taken to misbehave.
OnSnapshotChunk(p) ==
    /\ Receives(p, "snapshot") /\ ~ SnapshotIgnored(p, Head(chan[p]))
    /\ LET m == Head(chan[p])
           buf == Append(snap.buf, <<m.block, m.off>>)
           done == Len(buf) = m.total
       IN /\ m.total # 0 /\ m.off = Len(snap.buf)
          /\ snap' = IF done THEN StalledSnap ELSE [snap EXCEPT !.buf = buf]
          /\ tip' = IF done /\ tip = 0 THEN NewTip(have, snap.block) ELSE tip
          /\ IF done /\ tip > 0
             THEN banned' = banned \union {p} /\ Reap({p})
             ELSE /\ chan' = IF done THEN Rest(p)
                             ELSE [Rest(p) EXCEPT ![p] = Append(@, SnapReply(p, snap.block, Len(buf)))]
                  /\ UNCHANGED <<banned, peers, inflight>>
    /\ UNCHANGED <<theirs, best, servesSnap, stalls, hdr, have, noWitness, snapBad, faults>>

\* P2P::maintain: headers are asked again of peers that are ahead, requests
\* older than a minute are given up (too many cost the peer its connection),
\* then blocks are requested.
Maintain(expired, late, again) ==
    LET hits(p) == Cardinality({h \in expired : inflight[h] = p})
        left == [h \in DOMAIN inflight \ expired |-> inflight[h]]
        dropped == {p \in Connected : stalls[p] + hits(p) > MaxStalls}
    IN /\ stalls' = [p \in Peers |-> stalls[p] + hits(p)]
       /\ faults' = faults + Cardinality(expired) + (IF late /\ snap.peer # Gone THEN 1 ELSE 0)
       /\ faults' <= MaxFaults
       /\ peers' = Filter(peers, Connected \ dropped)
       /\ UNCHANGED <<theirs, banned, best, servesSnap, chainVars, noWitness>>
       /\ RequestBlocks(late, left,
              [p \in Peers |-> IF p \in again THEN Append(chan[p], HeadersReply(p, hdr)) ELSE chan[p]], dropped)

\* A peer that is ahead of our headers and has no headers message under way
\* (the code waits thirty seconds between two requests).
MayAskAgain == {p \in Connected : best[p] > hdr /\ \A i \in DOMAIN chan[p] : chan[p][i].type # "headers"}

Tick ==
    \E expired \in SUBSET DOMAIN inflight, late \in BOOLEAN, again \in SUBSET MayAskAgain :
        (late => snap.peer # NoPeer) /\ Maintain(expired, late, again)

\* The periodic work with every interval elapsed and no request given up.
QuietTick == Maintain({}, snap.peer = Gone, MayAskAgain)

Receive(p) ==
    \/ OnHeaders(p)
    \/ OnBlock(p)
    \/ OnNotFound(p)
    \/ OnSnapshotIgnored(p)
    \/ OnSnapshotRefused(p)
    \/ OnSnapshotChunk(p)

Next ==
    \/ \E p \in Peers : Connect(p) \/ Disconnect(p) \/ BanExpires(p) \/ PeerGrows(p)
    \/ \E p \in Peers : Receive(p)
    \/ Tick

Spec == Init /\ [][Next]_vars

\* The network thread runs for ever, as long as there is something to do: it
\* reads what arrives, dials lost peers again, lets bans expire after an hour
\* and does its periodic work.
FairSpec ==
    /\ Spec
    /\ WF_vars((\E p \in Peers : Receive(p) \/ Connect(p) \/ BanExpires(p)) \/ QuietTick)

----------------------------------------------------------------------------
\* The shape of the state; requests are only for blocks whose header is known.
TypeOK ==
    /\ theirs \in [Peers -> 0..Top] /\ best \in [Peers -> 0..Top]
    /\ Connected \subseteq Peers /\ Len(peers) = Cardinality(Connected)
    /\ banned \subseteq Peers \ Connected
    /\ servesSnap \in [Peers -> BOOLEAN] /\ stalls \in [Peers -> 0..MaxStalls + MaxFaults]
    /\ DOMAIN chan = Peers
    /\ hdr \in 0..Top /\ tip \in 0..hdr /\ have \subseteq 1..hdr
    /\ DOMAIN inflight \subseteq 1..hdr /\ Range(inflight) \subseteq Peers
    /\ noWitness \subseteq (1..hdr) \X Peers
    /\ snap.peer \in Peers \union {NoPeer, Gone} /\ snapBad \subseteq Peers
    /\ faults \in 0..MaxFaults

\* A block that is stored is never being waited for, however often the request
\* for it was given up and repeated and whoever answered (p2p.cpp:511, :824).
NoRequestForHeldBlock == DOMAIN inflight \intersect have = {}

\* Every request in flight is with a connected peer whose answer is still under
\* way, and no peer has more than MAX_INFLIGHT_PER_PEER: otherwise a slot would
\* be lost until the time-out (p2p.cpp:665, :960).
RequestsAwaited ==
    /\ \A h \in DOMAIN inflight : LET p == inflight[h] IN
          /\ p \in Connected
          /\ \E i \in DOMAIN chan[p] :
                \/ chan[p][i].type = "block" /\ chan[p][i].h = h
                \/ chan[p][i].type = "notfound" /\ h \in chan[p][i].hs
    /\ \A p \in Peers : Load(inflight, p) <= MaxInflight

\* The snapshot buffer holds the first chunks of one snapshot, the one asked
\* for, whatever was downloaded before from peers that stalled or left, and
\* is empty when no download is under way (p2p.cpp:564-579, :989-999).
SnapshotIntact ==
    snap.buf = [i \in 1..Len(snap.buf) |-> <<snap.block, i - 1>>] /\ (snap.peer = NoPeer => snap.buf = <<>>)

\* The bookkeeping of the download, all of the above, survives time-outs, late
\* and repeated answers and peers that leave.
DownloadsSound == TypeOK /\ NoRequestForHeldBlock /\ RequestsAwaited /\ SnapshotIntact

\* As long as one peer has everything, the node ends up with the whole chain,
\* through time-outs, late answers, lost connections and failed snapshots.
Synced == <>[](tip = Top)
====
