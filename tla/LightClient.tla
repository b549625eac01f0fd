---------------------------- MODULE LightClient ----------------------------
(***************************************************************************)
(* The light wallet's client (light/light_client): a chain of headers that *)
(* it checks itself, the coins full nodes prove to it, and the blocking    *)
(* request and answer with one peer at a time over a stream that may also  *)
(* carry announcements and answers that were given up.                     *)
(*                                                                         *)
(* Headers are the nodes of a fixed tree.  Valid says that append_header   *)
(* accepts the header on top of its parent (proof of work, difficulty,     *)
(* time).  Txs are the transactions that pay or spend the wallet's coins,  *)
(* the wallet's own among them; the block of a header includes some.       *)
(* Peers follow a branch of the tree each, and have a mempool each.        *)
(***************************************************************************)
EXTENDS Integers, Sequences, FiniteSets, SequencesExt

CONSTANTS
    Headers, Genesis, NoHeader,
    Parent,         \* [Headers -> Headers \union {NoHeader}], NoHeader for the genesis block only
    Work,           \* [Headers -> Nat]
    Valid,          \* the headers append_header accepts
    Coins,          \* outputs that pay the wallet
    Txs,
    Ins, Outs,      \* [Txs -> SUBSET Coins]: the wallet's coins spent and created
    Includes,       \* [Headers -> SUBSET Txs]
    Peers,
    Views,          \* [Peers -> SUBSET Headers]: the tips each peer may have, heavier and heavier
    Batch,          \* MAX_HEADERS_PER_MSG
    MaxReorg,       \* MAX_REORG_DEPTH
    MaxTimeouts     \* bound: exchanges given up

BranchTo[h \in Headers] == IF h = Genesis THEN <<h>> ELSE Append(BranchTo[Parent[h]], h)
Ancestry == [h \in Headers |-> BranchTo[h]]

SumWork(s) == LET sum[i \in 0..Len(s)] == IF i = 0 THEN 0 ELSE sum[i - 1] + Work[s[i]]
              IN sum[Len(s)]

SpentBy(ts) == UNION {Ins[t] : t \in ts}
MadeBy(ts) == UNION {Outs[t] : t \in ts}
Pays(h) == MadeBy(Includes[h])
Spends(h) == SpentBy(Includes[h])

ASSUME LightAssumption ==
    /\ Genesis \in Valid /\ Valid \subseteq Headers
    /\ NoHeader \notin Headers /\ Parent[Genesis] = NoHeader
    /\ Parent \in [Headers -> Headers \union {NoHeader}] /\ Work \in [Headers -> Nat \ {0}]
    /\ Ins \in [Txs -> SUBSET Coins] /\ Outs \in [Txs -> SUBSET Coins]
    /\ Includes \in [Headers -> SUBSET Txs]
    /\ Views \in [Peers -> SUBSET Headers] /\ \A p \in Peers : Views[p] # {}
    /\ Batch \in Nat \ {0} /\ MaxReorg \in Nat /\ MaxTimeouts \in Nat

\* Every header descends from the genesis block: a hash covers the parent's.
ASSUME AncestryAssumption ==
    /\ Ancestry \in [Headers -> Seq(Headers)] /\ Ancestry[Genesis] = <<Genesis>>
    /\ \A h \in Headers \ {Genesis} :
          Parent[h] \in Headers /\ Ancestry[h] = Append(Ancestry[Parent[h]], h)

\* On one branch a coin is created once: its transaction spends inputs that can be
\* spent once, or is a coinbase and holds the height.
ASSUME CoinAssumption ==
    \A h \in Headers : \A i, j \in DOMAIN Ancestry[h] :
        Pays(Ancestry[h][i]) \intersect Pays(Ancestry[h][j]) # {} => i = j

VARIABLES
    theirTip,       \* [Peers -> Headers]
    pool,           \* [Peers -> SUBSET Txs]: each peer's mempool
    peers,          \* peers_, in the order of connecting
    claimed,        \* Peer::ver.height
    stream,         \* what each peer has sent and we have not read
    chain,          \* headers_, the genesis block first
    file,           \* headers.dat
    wallet,         \* the wallet's coins: [coin, at (a header, or none yet), locked]
    call,           \* the exchange that is under way
    late,           \* history: peers given up in an exchange since they were connected
    held,           \* history: coins whose spending each peer has had pending since the refresh began
    timeouts

peerVars == <<theirTip, peers, claimed>>
history == <<late, held>>
vars == <<peerVars, pool, stream, chain, file, wallet, call, history, timeouts>>

Idle == [op |-> "none"]
NoneHeld == [p \in Peers |-> {}]
Best(h) == SumWork(Ancestry[h])

Init ==
    /\ theirTip \in {t \in [Peers -> Headers] : \A p \in Peers : t[p] \in Views[p]}
    /\ pool = [p \in Peers |-> {}]
    /\ peers = <<>>
    /\ claimed = [p \in Peers |-> 0]
    /\ stream = [p \in Peers |-> <<>>]
    /\ chain = <<Genesis>> /\ file = <<Genesis>>
    /\ wallet = {}
    /\ call = Idle
    /\ late = {} /\ held = NoneHeld
    /\ timeouts = 0

(***************************************************************************)
(* Full nodes                                                              *)
(***************************************************************************)

\* The coins of the wallet that are unspent on a chain of headers.
Utxos(s) == {c \in Coins : \E i \in DOMAIN s : c \in Pays(s[i])}
            \ {c \in Coins : \E i \in DOMAIN s : c \in Spends(s[i])}
CreatedBy(s, c) == s[CHOOSE i \in DOMAIN s : c \in Pays(s[i])]
Confirmed(s) == UNION {Includes[s[i]] : i \in DOMAIN s}

\* A mempool on top of a chain: no transaction of the chain, every input there,
\* none spent twice.
Fitting(ts, s) ==
    /\ ts \intersect Confirmed(s) = {}
    /\ SpentBy(ts) \subseteq Utxos(s) \union MadeBy(ts)
    /\ \A t, u \in ts : t # u => Ins[t] \intersect Ins[u] = {}

Accepts(p, t) == t \notin pool[p] /\ Fitting(pool[p] \union {t}, Ancestry[theirTip[p]])

\* The confirmed coins of peer p that its mempool spends.
Pending(p) == Utxos(Ancestry[theirTip[p]]) \intersect SpentBy(pool[p])

\* GetHeaders: what follows the last header of the locator that the peer is on.
HeadersReply(p, ours) ==
    LET theirs == Ancestry[theirTip[p]]
        fork == CHOOSE k \in 1..Len(theirs) :
                    /\ theirs[k] \in Range(ours)
                    /\ \A j \in k + 1 .. Len(theirs) : theirs[j] \notin Range(ours)
        last == IF fork + Batch < Len(theirs) THEN fork + Batch ELSE Len(theirs)
    IN [type |-> "headers", announced |-> FALSE, hs |-> SubSeq(theirs, fork + 1, last)]

\* GetUtxos (P2P::build_utxo_reply): a proof for each confirmed coin, those of them
\* that the peer's own mempool spends, and the coins this mempool creates.
UtxosReply(p) ==
    LET theirs == Ancestry[theirTip[p]]
    IN [type |-> "utxos", proofs |-> {[coin |-> c, at |-> CreatedBy(theirs, c)] : c \in Utxos(theirs)},
        pending |-> Pending(p), unconfirmed |-> MadeBy(pool[p]) \ SpentBy(pool[p])]

\* A peer's chain advances or reorganises; connected clients get the new header.
\* Its mempool keeps what still fits and takes back what was displaced, in so far
\* as its own limits allow.
PeerMoves(p) ==
    /\ \E h \in Views[p] :
          /\ Best(h) > Best(theirTip[p])
          /\ theirTip' = [theirTip EXCEPT ![p] = h]
          /\ \E ts \in SUBSET (pool[p] \union Confirmed(Ancestry[theirTip[p]])) :
                Fitting(ts, Ancestry[h]) /\ pool' = [pool EXCEPT ![p] = ts]
          /\ stream' = IF p \notin Range(peers) THEN stream
                       ELSE [stream EXCEPT ![p] = Append(@, [type |-> "headers", announced |-> TRUE, hs |-> <<h>>])]
    /\ held' = [held EXCEPT ![p] = @ \intersect Pending(p)']
    /\ UNCHANGED <<peers, claimed, chain, file, wallet, call, late, timeouts>>

\* A transaction reaches a peer from elsewhere: a payment to the wallet, or a
\* relayed spend, of this device or of another with the same keys.
TxArrives(p) ==
    /\ \E t \in Txs : Accepts(p, t) /\ pool' = [pool EXCEPT ![p] = @ \union {t}]
    /\ UNCHANGED <<peerVars, stream, chain, file, wallet, call, history, timeouts>>

(***************************************************************************)
(* Connections: connect, handshake                                         *)
(***************************************************************************)

Connect(p) ==
    /\ call = Idle /\ p \notin Range(peers)
    /\ peers' = Append(peers, p)
    /\ claimed' = [claimed EXCEPT ![p] = Len(Ancestry[theirTip[p]]) - 1]
    /\ UNCHANGED <<theirTip, pool, stream, chain, file, wallet, call, history, timeouts>>

\* disconnect_all; the wallet program does so when it ends, or dies, and a new
\* client reads headers.dat as far as its headers are linked.
LoadHeaders == file

Restart ==
    /\ peers # <<>>
    /\ peers' = <<>>
    /\ stream' = [p \in Peers |-> <<>>]
    /\ chain' = LoadHeaders
    /\ call' = Idle
    /\ late' = {} /\ held' = NoneHeld
    /\ UNCHANGED <<theirTip, pool, claimed, file, wallet, timeouts>>

(***************************************************************************)
(* exchange: send, then read until a message of the wanted type; all other *)
(* messages are dropped.                                                   *)
(***************************************************************************)
Position(p, type) ==
    LET at == {i \in DOMAIN stream[p] : stream[p][i].type = type}
    IN IF at = {} THEN 0 ELSE CHOOSE i \in at : \A j \in at : i <= j

Answer(p, type) == stream[p][Position(p, type)]
Unread(p, type) == SubSeq(stream[p], Position(p, type) + 1, Len(stream[p]))

(***************************************************************************)
(* sync_headers                                                            *)
(***************************************************************************)

\* The first of the peers that claimed the most blocks when we connected.
BestPeer == LET top == {i \in DOMAIN peers : \A j \in DOMAIN peers : claimed[peers[j]] <= claimed[peers[i]]}
            IN peers[CHOOSE i \in top : \A j \in top : i <= j]

SyncHeaders ==
    /\ call = Idle /\ peers # <<>>
    /\ call' = [op |-> "headers", peer |-> BestPeer]
    /\ stream' = [stream EXCEPT ![BestPeer] = Append(@, HeadersReply(BestPeer, chain))]
    /\ UNCHANGED <<peerVars, pool, chain, file, wallet, history, timeouts>>

\* Appends without looking at the headers.
AppendUnchecked(base, hs) == base \o hs

\* append_header for each of hs, up to the first that does not fit or is invalid.
AppendHeaders(base, hs) ==
    LET ok(k) == \A i \in 1..k : /\ hs[i] \in Valid
                                 /\ Parent[hs[i]] = IF i = 1 THEN base[Len(base)] ELSE hs[i - 1]
    IN base \o SubSeq(hs, 1, CHOOSE k \in 0..Len(hs) : ok(k) /\ (k = Len(hs) \/ ~ ok(k + 1)))

\* Any branch is taken, however little work it shows.
BaseAlways(hs) ==
    LET at == {k \in DOMAIN chain : hs # <<>> /\ chain[k] = Parent[hs[1]]}
    IN IF at = {} THEN <<>> ELSE SubSeq(chain, 1, CHOOSE k \in at : TRUE)

\* Where the batch hs attaches: our chain, cut at the fork.  No place (an empty
\* sequence) if the batch is empty, its parent unknown, its work no greater than
\* that of the headers it would replace, or these too many.
Base(hs) ==
    LET at == {k \in DOMAIN chain : hs # <<>> /\ chain[k] = Parent[hs[1]]}
        fork == CHOOSE k \in at : TRUE
        ours == SubSeq(chain, fork + 1, Len(chain))
    IN IF at = {} THEN <<>>
       ELSE IF ours = <<>> THEN chain
       ELSE IF SumWork(hs) <= SumWork(ours) \/ Len(ours) > MaxReorg THEN <<>>
       ELSE SubSeq(chain, 1, fork)

\* An empty batch does not end the loop.
HeadersUnusedGoesOn ==
    /\ call.op = "headers" /\ Position(call.peer, "headers") > 0
    /\ Base(Answer(call.peer, "headers").hs) = <<>>
    /\ stream' = [stream EXCEPT ![call.peer] = Append(Unread(call.peer, "headers"), HeadersReply(call.peer, chain))]
    /\ file' = chain
    /\ UNCHANGED <<peerVars, pool, chain, wallet, call, history, timeouts>>

\* The batch leaves our chain as it is, because of an error (no file is
\* written) or because it is empty or no better (the chain is saved).
HeadersUnused ==
    /\ call.op = "headers" /\ Position(call.peer, "headers") > 0
    /\ LET hs == Answer(call.peer, "headers").hs
           fine == hs = <<>> \/ (Parent[hs[1]] \in Range(chain)
                                 /\ SumWork(hs) <= SumWork(chain) - SumWork(Ancestry[Parent[hs[1]]]))
       IN /\ Base(hs) = <<>>
          /\ file' = IF fine THEN chain ELSE file
    /\ stream' = [stream EXCEPT ![call.peer] = Unread(call.peer, "headers")]
    /\ call' = Idle
    /\ UNCHANGED <<peerVars, pool, chain, wallet, history, timeouts>>

\* The batch is appended; after a full batch the next one is asked for.
HeadersTaken ==
    /\ call.op = "headers" /\ Position(call.peer, "headers") > 0
    /\ LET p == call.peer
           hs == Answer(p, "headers").hs
           again == Len(hs) = Batch /\ chain' = Base(hs) \o hs
       IN /\ Base(hs) # <<>>
          /\ chain' = AppendHeaders(Base(hs), hs)
          /\ IF again
             THEN /\ stream' = [stream EXCEPT ![p] = Append(Unread(p, "headers"), HeadersReply(p, chain'))]
                  /\ UNCHANGED <<call, file>>
             ELSE /\ stream' = [stream EXCEPT ![p] = Unread(p, "headers")]
                  /\ call' = Idle /\ file' = chain'
    /\ UNCHANGED <<peerVars, pool, wallet, history, timeouts>>

(***************************************************************************)
(* refresh_wallet: every peer in turn is asked for the wallet's coins      *)
(***************************************************************************)
RefreshWallet ==
    /\ call = Idle /\ peers # <<>>
    /\ call' = [op |-> "utxos", i |-> 1, coins |-> {}, pending |-> {}, answered |-> FALSE]
    /\ stream' = [stream EXCEPT ![peers[1]] = Append(@, UtxosReply(peers[1]))]
    /\ held' = [p \in Peers |-> Pending(p)]
    /\ UNCHANGED <<peerVars, pool, chain, file, wallet, late, timeouts>>

\* The block of the proof is on our chain, and the transaction is in it.
Verified(proofs) == {x \in proofs : x.at \in Range(chain)}

\* The first that speaks of a coin counts; one that is in no block has no header.
Named(xs) == {x.coin : x \in xs}
Collected(coins, m) ==
    LET proved == coins \union {x \in Verified(m.proofs) : x.coin \notin Named(coins)}
    IN proved \union {[coin |-> c, at |-> NoHeader] : c \in m.unconfirmed \ Named(proved)}

\* Only the last answer counts.
LastPending(acc, new) == new

\* What one peer reports as pending is locked, whatever the others report.
AllPending(acc, new) == acc \union new

Locked(coins, pending) ==
    {[coin |-> x.coin, at |-> x.at, locked |-> x.coin \in pending] : x \in coins}

\* On to the next peer; after the last one the wallet's coins are replaced, unless
\* no peer has answered.
MoveOn(streams, coins, pending, answered) ==
    IF call.i < Len(peers)
    THEN LET next == peers[call.i + 1] IN
         /\ call' = [op |-> "utxos", i |-> call.i + 1, coins |-> coins, pending |-> pending,
                     answered |-> answered]
         /\ stream' = [streams EXCEPT ![next] = Append(@, UtxosReply(next))]
         /\ UNCHANGED <<wallet, held>>
    ELSE /\ call' = Idle
         /\ stream' = streams
         /\ wallet' = IF answered THEN Locked(coins, pending) ELSE wallet
         /\ held' = NoneHeld

CoinsArrive ==
    /\ call.op = "utxos" /\ Position(peers[call.i], "utxos") > 0
    /\ LET p == peers[call.i]
           m == Answer(p, "utxos")
       IN MoveOn([stream EXCEPT ![p] = Unread(p, "utxos")], Collected(call.coins, m),
                 AllPending(call.pending, m.pending), TRUE)
    /\ UNCHANGED <<peerVars, pool, chain, file, late, timeouts>>

\* exchange: the deadline passes, and the answer may still come.  A refresh goes on
\* with what the other peers answer.
GiveUp ==
    /\ timeouts < MaxTimeouts /\ timeouts' = timeouts + 1
    /\ \/ /\ call.op = "headers" /\ call' = Idle
          /\ late' = late \union {call.peer}
          /\ UNCHANGED <<stream, wallet, held>>
       \/ /\ call.op = "utxos" /\ MoveOn(stream, call.coins, call.pending, call.answered)
          /\ late' = late \union {peers[call.i]}
    /\ UNCHANGED <<peerVars, pool, chain, file>>

(***************************************************************************)
(* broadcast: a transaction that spends confirmed, unlocked coins is sent  *)
(* to the peers, each of which takes it into its mempool or not.  Then the *)
(* client reads for a while, waiting for a rejection, and drops what comes.*)
(***************************************************************************)
Sendable == {t \in Txs : Ins[t] # {} /\ Ins[t] \subseteq
                            {x.coin : x \in {y \in wallet : ~ y.locked /\ y.at # NoHeader}}}

\* Wallet::tx_broadcast, after a broadcast that reported no rejection.
Noted(t) == {[x EXCEPT !.locked = @ \/ x.coin \in Ins[t]] : x \in {y \in wallet : y.coin \notin Outs[t]}}
            \union {[coin |-> c, at |-> NoHeader, locked |-> FALSE] : c \in Outs[t]}

\* A rejection that is read in time ends it, although other peers have taken the
\* transaction; a peer that has it already does not reject it.
Broadcast ==
    /\ call = Idle /\ peers # <<>>
    /\ \E t \in Sendable : \E takers \in SUBSET {p \in Range(peers) : Accepts(p, t)} :
          /\ pool' = [p \in Peers |-> IF p \in takers THEN pool[p] \union {t} ELSE pool[p]]
          /\ \/ wallet' = Noted(t)
             \/ /\ \E p \in Range(peers) \ takers : t \notin pool[p] \union Confirmed(Ancestry[theirTip[p]])
                /\ wallet' = wallet
    /\ \E rest \in [Peers -> UNION {Suffixes(stream[p]) : p \in Peers}] :
          /\ \A p \in Peers : rest[p] \in Suffixes(stream[p])
          /\ stream' = rest
    /\ UNCHANGED <<peerVars, chain, file, call, history, timeouts>>

Progress == HeadersUnused \/ HeadersTaken \/ CoinsArrive

Next ==
    \/ \E p \in Peers : PeerMoves(p) \/ TxArrives(p) \/ Connect(p)
    \/ Restart \/ GiveUp
    \/ SyncHeaders \/ RefreshWallet \/ Broadcast
    \/ Progress

Spec == Init /\ [][Next]_vars

\* A peer that is not given up answers, and the answer is read.
FairSpec == Spec /\ WF_vars(Progress)

----------------------------------------------------------------------------
\* The shape of the state; no peer is connected twice.
TypeOK ==
    /\ theirTip \in [Peers -> Headers] /\ claimed \in [Peers -> Nat]
    /\ Range(peers) \subseteq Peers /\ Len(peers) = Cardinality(Range(peers))
    /\ pool \in [Peers -> SUBSET Txs] /\ held \in [Peers -> SUBSET Coins] /\ late \subseteq Peers
    /\ DOMAIN stream = Peers
    /\ Range(chain) \union Range(file) \subseteq Headers
    /\ wallet \subseteq [coin : Coins, at : Headers \union {NoHeader}, locked : BOOLEAN]
    /\ call.op \in {"none", "headers", "utxos"}
    /\ timeouts \in 0..MaxTimeouts

\* Whatever peers send, in whatever order it is read, the headers in memory and
\* in headers.dat are one linked chain of checked headers from the genesis block
\* (light_client.cpp:77-93, :137-147).
ChainValid ==
    /\ TypeOK
    /\ \A s \in {chain, file} : s = Ancestry[s[Len(s)]] /\ Range(s) \subseteq Valid

\* The client gives up work it had only when a branch that promised more turned
\* out to hold an invalid header, or when it is restarted before it had saved
\* (light_client.cpp:128-142).
WorkKept ==
    [][SumWork(chain') < SumWork(chain)
          => \/ peers' = <<>>
             \/ \E i \in DOMAIN Answer(call.peer, "headers").hs :
                    Answer(call.peer, "headers").hs[i] \notin Valid]_vars

\* A refresh never offers a coin whose spending one of the connected peers has had
\* pending all the while, whatever the others answer: peers that never saw the
\* transaction, refused it or are on another branch, and late answers of peers that
\* were given up (light_client.cpp:343-388).  Excepted are the given-up peers
\* themselves, whose answers may be older than the question (:195).
RefreshEnds == call.op = "utxos" /\ call'.op = "none" /\ peers' = peers
SentStaysLocked ==
    [][RefreshEnds => \A x \in wallet', p \in Range(peers) \ late' : x.coin \in held[p] => x.locked]_vars

\* Every exchange comes to an end: header synchronisation does not go round.
CallsEnd == (call # Idle) ~> (call = Idle)
====
