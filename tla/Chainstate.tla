------------------------------ MODULE Chainstate ------------------------------
(***************************************************************************)
(* The block tree, active chain, ledger state and on-disk files of one     *)
(* node: src/src/chain/chainstate.{h,cpp}.                                 *)
(*                                                                         *)
(* Every public operation of Chainstate takes the recursive mutex `mu` for *)
(* its whole duration, so operations never overlap.  What does happen      *)
(* between two steps of one operation is a crash: activate_best_chain      *)
(* (which ends every operation that can change the tip) is therefore       *)
(* modelled step by step, `pc` saying where it stands.                     *)
(*                                                                         *)
(* A transaction is abstracted to its identity; its outputs to one coin    *)
(* that carries the same name.  A block is a node of a fixed tree, and the *)
(* constants below say what the code computes from its bytes.              *)
(***************************************************************************)
EXTENDS Integers, Sequences, FiniteSets

CONSTANTS
    Block, Genesis,    \* the block tree, and params.genesis
    Prev,              \* [Block -> Block]: header.prev
    Path,              \* [Block -> Seq(Block)]: genesis .. block
    ChainWork,         \* [Block -> Nat]: BlockIndex::chainwork
    Tx, Txs,           \* transactions; [Block -> SUBSET Tx], coinbase included
    Spends,            \* [Block -> SUBSET Tx]: the coins its inputs consume
    Token, NewTokens,  \* tokens; [Block -> SUBSET Token]: tokens it creates
    PoolVal, NoPool,   \* the states of a liquidity pool; "no such pool"
    PoolWrites,        \* [Block -> partial function Token -> PoolVal]
    HeaderRules,       \* version, proof of work, bits and time of the header
    BodyRules,         \* coinbase shape, merkle roots, sizes, check_tx_basic
    LedgerRules,       \* amounts, maturity, ops and coinbase reward
    SigsOk,            \* every signature of the block verifies
    Commit,            \* [Block -> State or NoFile]: header.state_commit
    StateAt,           \* [Block -> State]: reference: replay of the block's chain
    PRUNE_DEPTH, MAX_REORG_DEPTH,
    SNAPSHOT_INTERVAL, SNAPSHOT_DELAY, KEEP_SNAPSHOTS,
    FLUSH_NORMAL, FLUSH_SYNC,
    Faults,            \* the failures of the environment that may happen
    NoFile, NoBlock

State == [coins : SUBSET Tx, tokens : SUBSET Token, pools : [Token -> PoolVal]]
Undo == [spent : SUBSET Tx, tokens : SUBSET Token,
         pools : UNION {[D -> PoolVal] : D \in SUBSET Token}]
UtxoFile == [tip : Block, state : State]

AllFaults == {"crash", "crash-store", "crash-load", "witness-write",
              "undo-write", "snapshot-write", "load-write", "flush-write"}

EmptyState == [coins |-> {}, tokens |-> {}, pools |-> [t \in Token |-> NoPool]]

---------------------------------------------------------------------------
(* The ledger effect of one block.  connect_block applies the block into a
   LedgerView and commits spent_base, created, new_tokens and pools;
   disconnect_tip removes every output of the block and puts back the undo
   record. *)

SpentBase(b) == Spends[b] \ Txs[b]
Created(b) == Txs[b] \ Spends[b]

Applied(s, b) ==
    [coins  |-> (s.coins \ SpentBase(b)) \cup Created(b),
     tokens |-> s.tokens \cup NewTokens[b],
     pools  |-> [t \in Token |-> IF t \in DOMAIN PoolWrites[b]
                                 THEN PoolWrites[b][t] ELSE s.pools[t]]]

UndoWithoutPools(s, b) ==
    [spent |-> SpentBase(b), tokens |-> NewTokens[b]]
UndoPoolsAfter(s, b) ==
    [spent  |-> SpentBase(b),
     tokens |-> NewTokens[b],
     pools  |-> PoolWrites[b]]
UndoOf(s, b) ==
    [spent  |-> SpentBase(b),
     tokens |-> NewTokens[b],
     pools  |-> [t \in DOMAIN PoolWrites[b] |-> s.pools[t]]]

RevertedNoPools(s, u, b) ==
    [coins  |-> (s.coins \ Txs[b]) \cup u.spent,
     tokens |-> s.tokens \ u.tokens,
     pools  |-> s.pools]
Reverted(s, u, b) ==
    [coins  |-> (s.coins \ Txs[b]) \cup u.spent,
     tokens |-> s.tokens \ u.tokens,
     pools  |-> [t \in Token |-> IF t \in DOMAIN u.pools
                                 THEN u.pools[t] ELSE s.pools[t]]]

\* LedgerView::apply succeeds on every transaction of b from state s.
TxsApply(s, b) == LedgerRules[b] /\ SpentBase(b) \subseteq s.coins

---------------------------------------------------------------------------
(* The tree. *)

Height(b) == Len(Path[b]) - 1
Ancestors(b) == {Path[b][i] : i \in 1..Len(Path[b])}
AncestorAt(b, h) == Path[b][h + 1]
IsCommitHeight(h) == /\ h >= SNAPSHOT_INTERVAL + SNAPSHOT_DELAY
                     /\ h % SNAPSHOT_INTERVAL = SNAPSHOT_DELAY

ASSUME TreeAssumption ==
    /\ Genesis \in Block
    /\ Prev \in [Block -> Block]
    /\ Path \in [Block -> Seq(Block)]
    /\ Path[Genesis] = <<Genesis>>
    /\ \A b \in Block \ {Genesis} : Path[b] = Append(Path[Prev[b]], b)
    /\ \A b \in Block : \A i \in 1..Len(Path[b]) : Path[Path[b][i]] = SubSeq(Path[b], 1, i)
    /\ ChainWork \in [Block -> Nat]
    /\ \A b \in Block \ {Genesis} : ChainWork[Prev[b]] < ChainWork[b]

ASSUME ContentAssumption ==
    /\ Txs \in [Block -> SUBSET Tx]
    /\ Spends \in [Block -> SUBSET Tx]
    /\ NewTokens \in [Block -> SUBSET Token]
    /\ NoPool \in PoolVal
    /\ PoolWrites \in [Block -> UNION {[D -> PoolVal] : D \in SUBSET Token}]
    /\ HeaderRules \in [Block -> BOOLEAN]
    /\ BodyRules \in [Block -> BOOLEAN]
    /\ LedgerRules \in [Block -> BOOLEAN]
    /\ SigsOk \in [Block -> BOOLEAN]
    /\ NoFile \notin State /\ NoFile \notin Undo /\ NoFile \notin UtxoFile
    /\ NoBlock \notin Block
    /\ Commit \in [Block -> State \cup {NoFile}]

\* StateAt is the state a replay of the chain from genesis reaches.  The
\* genesis block is never applied: load_tip_state starts from empty state.
ASSUME StateAtAssumption ==
    /\ StateAt \in [Block -> State]
    /\ StateAt[Genesis] = EmptyState
    /\ \A b \in Block \ {Genesis} : StateAt[b] = Applied(StateAt[Prev[b]], b)

\* A transaction id is never created twice on one valid chain: a transaction
\* with inputs would spend them twice, and a coinbase carries its height.  A
\* token id is derived from an outpoint, so it is fresh as well.
ASSUME FreshnessAssumption ==
    \A b \in Block \ {Genesis} :
        TxsApply(StateAt[Prev[b]], b) =>
            /\ Txs[b] \cap StateAt[Prev[b]].coins = {}
            /\ NewTokens[b] \cap StateAt[Prev[b]].tokens = {}
            /\ \A a \in Ancestors(Prev[b]) : Txs[a] \cap Txs[b] = {}

ASSUME ParameterAssumption ==
    /\ PRUNE_DEPTH \in Nat \ {0} /\ MAX_REORG_DEPTH \in Nat
    /\ SNAPSHOT_INTERVAL \in Nat \ {0} /\ SNAPSHOT_DELAY \in Nat
    /\ SNAPSHOT_DELAY < SNAPSHOT_INTERVAL
    /\ KEEP_SNAPSHOTS \in Nat \ {0}
    /\ FLUSH_NORMAL \in Nat \ {0} /\ FLUSH_SYNC \in Nat
    /\ FLUSH_NORMAL <= FLUSH_SYNC
    /\ Faults \subseteq AllFaults

---------------------------------------------------------------------------
VARIABLES
    \* ---- on disk: survive a crash
    headersDat,    \* headers.dat: every accepted header, in acceptance order
    blocksDat,     \* blocks with core data (blocks.dat and blockpos.dat)
    witnessFiles,  \* witness/: blocks whose signatures are on disk
    undoFiles,     \* undo/: [Block -> Undo or NoFile]
    utxoDat,       \* utxo.dat: a tip and its state, or NoFile
    snapFiles,     \* snapshots/: [Block -> State or NoFile]
    baseDat,       \* base.dat: the bootstrap block, or NoBlock
    \* ---- in memory
    pc,            \* "down", "idle", or where activate_best_chain stands
    failed, chainData, candidates, fromSnapshot,
    chain,         \* chain_: the active chain, genesis first
    state,         \* utxo_, tokens_ and pools_
    txindex,       \* [Tx -> Block or NoBlock]
    bestHeader,
    sinceFlush,    \* blocks_since_flush_
    cand,          \* the candidate being activated
    outcome,       \* how the last activation ended
    \* ---- history, for the properties only
    peak,          \* greatest height the tip ever had
    lied           \* a snapshot that is not the replayed state was written or adopted

disk == <<headersDat, blocksDat, witnessFiles, undoFiles, utxoDat, snapFiles, baseDat>>
flags == <<failed, chainData, candidates, fromSnapshot>>
ledger == <<chain, state, txindex>>
history == <<peak, lied>>
vars == <<disk, pc, flags, ledger, bestHeader, sinceFlush, cand, outcome, history>>

Known == {headersDat[i] : i \in 1..Len(headersDat)}
Tip == chain[Len(chain)]
InActiveChain(b) == Height(b) < Len(chain) /\ chain[Height(b) + 1] = b
ActiveBlocks == {chain[i] : i \in 1..Len(chain)}
ArrivedBefore(a, b) == \E i, j \in 1..Len(headersDat) :
                           i < j /\ headersDat[i] = a /\ headersDat[j] = b
Deep(b, best) == Height(b) + PRUNE_DEPTH <= Height(best)

\* The last block of b's chain that is on the active chain.
ForkPoint(b) == CHOOSE a \in Ancestors(b) :
                    /\ InActiveChain(a)
                    /\ \A x \in Ancestors(b) : InActiveChain(x) => Height(x) <= Height(a)

---------------------------------------------------------------------------
(* Headers: accept_header and add_index. *)

\* "Refuse forks deeper than our undo data reaches".
ForkDepthOk(b) == Height(Tip) - Height(ForkPoint(Prev[b])) <= MAX_REORG_DEPTH

HeaderIsNew(b) ==
    /\ b \notin Known
    /\ Prev[b] \in Known \ failed
    /\ HeaderRules[b]
    /\ IsCommitHeight(Height(b)) <=> Commit[b] # NoFile
    /\ ForkDepthOk(b)
HeaderAccepted(b) == HeaderIsNew(b) \/ b \in Known \ failed

HeadersAfter(b) == IF b \in Known THEN headersDat ELSE Append(headersDat, b)
BestHeaderAfter(b) == IF b \notin Known /\ ChainWork[b] > ChainWork[bestHeader]
                      THEN b ELSE bestHeader

AcceptHeader(b) ==
    /\ pc = "idle"
    /\ HeaderIsNew(b)
    /\ headersDat' = HeadersAfter(b)
    /\ bestHeader' = BestHeaderAfter(b)
    /\ UNCHANGED <<blocksDat, witnessFiles, undoFiles, utxoDat, snapFiles, baseDat,
                   pc, flags, ledger, sinceFlush, cand, outcome, history>>

---------------------------------------------------------------------------
(* Blocks: accept_block, store_block and update_chain_data. *)

\* The blocks that gain chain_data when b's data is present: b and every
\* descendant reached through blocks that have data and lacked the flag.
NewChainData(b, data) ==
    IF b \in data /\ Prev[b] \in chainData
    THEN {x \in data : /\ b \in Ancestors(x)
                       /\ \A y \in Ancestors(x) :
                              b \in Ancestors(y) => y \in data \ chainData}
    ELSE {}

\* The result of writing a witness file is ignored.
WriteWitness(b) == {witnessFiles \cup {b}} \cup
                   (IF "witness-write" \in Faults THEN {witnessFiles} ELSE {})

\* store_block keeps the signatures of a block only while it is not yet deep.
WitnessStored(b, hasWitness) ==
    IF hasWitness /\ ~Deep(b, BestHeaderAfter(b)) THEN WriteWitness(b) ELSE {witnessFiles}

WitnessOptional(b) == Deep(b, BestHeaderAfter(b))

\* accept_block, for a block whose data is not stored yet.
AcceptNewBlock(b, hasWitness) ==
    /\ pc = "idle"
    /\ HeaderAccepted(b)
    /\ b \notin blocksDat
    /\ BodyRules[b]
    /\ hasWitness \/ WitnessOptional(b)
    /\ headersDat' = HeadersAfter(b)
    /\ bestHeader' = BestHeaderAfter(b)
    /\ blocksDat' = blocksDat \cup {b}
    /\ witnessFiles' \in WitnessStored(b, hasWitness)
    /\ LET new == NewChainData(b, blocksDat \cup {b}) IN
           /\ chainData' = chainData \cup new
           /\ candidates' = candidates \cup (new \ failed)
    /\ pc' = "select"
    /\ UNCHANGED <<undoFiles, utxoDat, snapFiles, baseDat, failed, fromSnapshot,
                   ledger, sinceFlush, cand, outcome, history>>

\* accept_block, for a stored block: fill in a missing witness.
AcceptWitness(b) ==
    /\ pc = "idle"
    /\ HeaderAccepted(b)
    /\ b \in blocksDat \ witnessFiles
    /\ ~InActiveChain(b)
    /\ witnessFiles' \in WriteWitness(b)
    /\ pc' = "select"
    /\ UNCHANGED <<headersDat, blocksDat, undoFiles, utxoDat, snapFiles, baseDat,
                   flags, ledger, bestHeader, sinceFlush, cand, outcome, history>>

---------------------------------------------------------------------------
(* activate_best_chain *)

\* WorkCmp: more work first, then earlier arrival.
Outranks(a, b) == \/ ChainWork[a] > ChainWork[b]
                  \/ ChainWork[a] = ChainWork[b] /\ ArrivedBefore(a, b)

BestCandidates == {c \in candidates \ failed :
                       /\ ChainWork[c] > ChainWork[Tip]
                       /\ \A x \in candidates \ failed : x # c => Outranks(c, x)}

StrictlyHeavierCandidates == {c \in candidates : ChainWork[c] > ChainWork[Tip]}
\* "Drop candidates that can no longer win".
CandidatesKept == {c \in candidates : ChainWork[c] >= ChainWork[Tip]}

Finish(how) ==
    /\ candidates' = CandidatesKept
    /\ outcome' = how
    /\ pc' = "idle"

SelectCandidate ==
    /\ pc = "select"
    /\ \E c \in BestCandidates : cand' = c
    /\ pc' = "switch"
    /\ UNCHANGED <<disk, flags, ledger, bestHeader, sinceFlush, outcome, history>>

SelectNone ==
    /\ pc = "select"
    /\ BestCandidates = {}
    /\ Finish("done")
    /\ UNCHANGED <<disk, failed, chainData, fromSnapshot, ledger, bestHeader,
                   sinceFlush, cand, history>>

TxIndexNotErased(b) == txindex
\* index_block_txs(b, idx, false) erases by txid.
TxIndexWithout(b) == [t \in Tx |-> IF t \in Txs[b] THEN NoBlock ELSE txindex[t]]

\* disconnect_tip
CanDisconnect == /\ Height(Tip) > 0
                 /\ Tip \notin fromSnapshot
                 /\ Tip \in blocksDat
                 /\ undoFiles[Tip] # NoFile

DisconnectTip ==
    /\ pc = "switch"
    /\ Tip \notin Ancestors(cand)
    /\ CanDisconnect
    /\ state' = Reverted(state, undoFiles[Tip], Tip)
    /\ txindex' = TxIndexWithout(Tip)
    /\ chain' = SubSeq(chain, 1, Len(chain) - 1)
    /\ UNCHANGED <<disk, pc, flags, bestHeader, sinceFlush, cand, outcome, history>>

AbortReorg ==
    /\ pc = "switch"
    /\ Tip \notin Ancestors(cand)
    /\ ~CanDisconnect
    /\ Finish("aborted")
    /\ UNCHANGED <<disk, failed, chainData, fromSnapshot, ledger, bestHeader,
                   sinceFlush, cand, history>>

PathDone ==
    /\ pc = "switch"
    /\ Tip = cand
    /\ pc' = "select"
    /\ UNCHANGED <<disk, flags, ledger, bestHeader, sinceFlush, cand, outcome, history>>

\* The next block of the path from the fork to the candidate.
Connecting == pc = "switch" /\ Tip \in Ancestors(cand) /\ Tip # cand
NextBlock == AncestorAt(cand, Height(Tip) + 1)

\* connect_block returns "read-failed" or "missing-witness".
Unready(b) == \/ b \notin blocksDat
              \/ b \notin witnessFiles /\ ~Deep(b, bestHeader)

CommitOkOffByOne(b) ==
    IsCommitHeight(Height(b)) =>
        LET s == snapFiles[AncestorAt(b, Height(b) - SNAPSHOT_DELAY + 1)]
        IN  s = NoFile \/ s = Commit[b]
\* The commitment is compared with the local snapshot, when there is one.
CommitOk(b) ==
    IsCommitHeight(Height(b)) =>
        LET s == snapFiles[AncestorAt(b, Height(b) - SNAPSHOT_DELAY)]
        IN  s = NoFile \/ s = Commit[b]

SigsUnchecked(b) == TRUE
\* Signatures are verified whenever the block has them.
SigsChecked(b) == b \in witnessFiles => SigsOk[b]

BlockValid(b) == CommitOk(b) /\ TxsApply(state, b) /\ SigsChecked(b)

StallOnBlock ==
    /\ Connecting
    /\ Unready(NextBlock)
    /\ Finish("stalled")
    /\ UNCHANGED <<disk, failed, chainData, fromSnapshot, ledger, bestHeader,
                   sinceFlush, cand, history>>

NothingFailed(b) == {}
FailedSiblingsToo(b) == {x \in Known : Prev[b] \in Ancestors(x)}
\* mark_failed: the block and every known descendant.  The best header is
\* searched again in hash-map order, so a tie is broken arbitrarily.
FailedSubtree(b) == {x \in Known : b \in Ancestors(x)}
BestAmong(S) == {b \in S : \A x \in S : ChainWork[x] <= ChainWork[b]}

MarkFailed(b) ==
    /\ failed' = failed \cup FailedSubtree(b)
    /\ candidates' = candidates \ FailedSubtree(b)
    /\ bestHeader' \in BestAmong(Known \ failed')
    /\ pc' = "select"
    /\ UNCHANGED <<disk, chainData, fromSnapshot, ledger, sinceFlush, cand, outcome, history>>

\* Any failure of connect_block other than a stall fails the block; a failure
\* to write its undo file is one of them.
RejectBlock ==
    /\ Connecting
    /\ ~Unready(NextBlock)
    /\ ~BlockValid(NextBlock) \/ "undo-write" \in Faults
    /\ MarkFailed(NextBlock)

\* write_commit_snapshot keeps the KEEP_SNAPSHOTS highest snapshots of the
\* active chain (others rank below all of them, in hash order), and the ones
\* the node was bootstrapped from.
SnapshotRank(x, newChain) ==
    IF Height(x) < Len(newChain) /\ newChain[Height(x) + 1] = x THEN Height(x) ELSE -1

SnapshotsKept(files, newChain) ==
    LET held == {x \in Block : files[x] # NoFile}
        newest(K) == /\ Cardinality(K) = IF Cardinality(held) < KEEP_SNAPSHOTS
                                         THEN Cardinality(held) ELSE KEEP_SNAPSHOTS
                     /\ \A x \in K, y \in held \ K :
                            SnapshotRank(x, newChain) >= SnapshotRank(y, newChain)
    IN  {[x \in Block |-> IF x \in K \cup fromSnapshot THEN files[x] ELSE NoFile] :
             K \in {K \in SUBSET held : newest(K)}}

SnapshotsAfter(b, newState, newChain) ==
    IF Height(b) % SNAPSHOT_INTERVAL # 0 THEN {snapFiles}
    ELSE SnapshotsKept([snapFiles EXCEPT ![b] = newState], newChain) \cup
         (IF "snapshot-write" \in Faults THEN {snapFiles} ELSE {})

PrunedTooSoon(newChain) ==
    LET h == Len(newChain) - PRUNE_DEPTH IN IF h > 0 THEN {newChain[h + 1]} ELSE {}
PrunedTooLate(newChain) ==
    LET h == Len(newChain) - 2 - PRUNE_DEPTH IN IF h > 0 THEN {newChain[h + 1]} ELSE {}
\* prune_at(height - PRUNE_DEPTH): the active block at that height, if above 0.
PrunedBlocks(newChain) ==
    LET h == Len(newChain) - 1 - PRUNE_DEPTH
    IN  IF h > 0 THEN {newChain[h + 1]} ELSE {}

\* connect_block: the undo file, the state, the index, the snapshot and the
\* pruning are one call under the lock.
ConnectBlock ==
    LET b == NextBlock
        newState == Applied(state, b)
        newChain == Append(chain, b)
        pruned == PrunedBlocks(newChain)
    IN  /\ Connecting
        /\ ~Unready(b)
        /\ BlockValid(b)
        /\ state' = newState
        /\ chain' = newChain
        /\ txindex' = [t \in Tx |-> IF t \in Txs[b] THEN b ELSE txindex[t]]
        /\ undoFiles' = [x \in Block |-> IF x \in pruned THEN NoFile
                                         ELSE IF x = b THEN UndoOf(state, b)
                                         ELSE undoFiles[x]]
        /\ witnessFiles' = witnessFiles \ pruned
        /\ snapFiles' \in SnapshotsAfter(b, newState, newChain)
        /\ sinceFlush' = sinceFlush + 1
        /\ pc' = "flush"
        /\ peak' = IF Height(b) > peak THEN Height(b) ELSE peak
        /\ UNCHANGED <<headersDat, blocksDat, utxoDat, baseDat, flags,
                       bestHeader, cand, outcome, lied>>

\* flush: utxo.dat is replaced atomically; a failure is only logged.
Flushed(tip, s) == {[tip |-> tip, state |-> s]} \cup
                   (IF "flush-write" \in Faults THEN {utxoDat} ELSE {})

\* The loop then flushes every FLUSH_SYNC blocks during initial sync and every
\* FLUSH_NORMAL otherwise; initial sync depends on the clock.
FlushAfterConnect ==
    /\ pc = "flush"
    /\ sinceFlush >= FLUSH_NORMAL
    /\ utxoDat' \in Flushed(Tip, state)
    /\ sinceFlush' = 0
    /\ pc' = "switch"
    /\ UNCHANGED <<headersDat, blocksDat, witnessFiles, undoFiles, snapFiles, baseDat,
                   flags, ledger, bestHeader, cand, outcome, history>>

NoFlushYet ==
    /\ pc = "flush"
    /\ sinceFlush < FLUSH_SYNC
    /\ pc' = "switch"
    /\ UNCHANGED <<disk, flags, ledger, bestHeader, sinceFlush, cand, outcome, history>>

Activate == \/ SelectCandidate \/ SelectNone \/ DisconnectTip \/ AbortReorg
            \/ PathDone \/ StallOnBlock \/ RejectBlock \/ ConnectBlock
            \/ FlushAfterConnect \/ NoFlushYet

---------------------------------------------------------------------------
(* Fast sync: load_snapshot_bytes. *)

\* committed_hash_for: the header of the best header chain SNAPSHOT_DELAY
\* above b commits to the state at b.
CommitHeader(b) == AncestorAt(bestHeader, Height(b) + SNAPSHOT_DELAY)
Committed(b) ==
    /\ b \in Known
    /\ IsCommitHeight(Height(b) + SNAPSHOT_DELAY)
    /\ Height(bestHeader) >= Height(b) + SNAPSHOT_DELAY
    /\ b \in Ancestors(CommitHeader(b))
    /\ Commit[CommitHeader(b)] # NoFile

FreshNode == pc = "idle" /\ Len(chain) = 1
ChildrenOf(b) == {x \in Known \ {Genesis} : Prev[x] = b}

LoadSnapshot(b) ==
    LET snap == Commit[CommitHeader(b)]
        new == {x \in blocksDat : \E c \in ChildrenOf(b) :
                   /\ c \in Ancestors(x)
                   /\ \A y \in Ancestors(x) :
                          c \in Ancestors(y) => y \in blocksDat \ chainData}
    IN  /\ FreshNode
        /\ Committed(b)
        /\ state' = snap
        /\ chain' = Path[b]
        /\ txindex' = [t \in Tx |-> NoBlock]
        /\ snapFiles' = [snapFiles EXCEPT ![b] = snap]
        /\ baseDat' = b
        /\ fromSnapshot' = fromSnapshot \cup {b}
        /\ chainData' = chainData \cup {b} \cup new
        /\ candidates' = candidates \cup {b} \cup (new \ failed)
        /\ utxoDat' \in Flushed(b, snap)
        /\ sinceFlush' = 0
        /\ pc' = "select"
        /\ peak' = IF Height(b) > peak THEN Height(b) ELSE peak
        /\ lied' = (lied \/ snap # StateAt[b])
        /\ UNCHANGED <<headersDat, blocksDat, witnessFiles, undoFiles, failed,
                       bestHeader, cand, outcome>>

\* The snapshot file or base.dat cannot be written: the call returns after
\* parse_state has replaced the state.
LoadSnapshotFails(b) ==
    LET snap == Commit[CommitHeader(b)] IN
    /\ "load-write" \in Faults
    /\ FreshNode
    /\ Committed(b)
    /\ state' = snap
    /\ snapFiles' \in {snapFiles, [snapFiles EXCEPT ![b] = snap]}
    /\ UNCHANGED <<headersDat, blocksDat, witnessFiles, undoFiles, utxoDat, baseDat, pc,
                   flags, chain, txindex, bestHeader, sinceFlush, cand, outcome, history>>

---------------------------------------------------------------------------
(* Process life cycle: shutdown, crash, load. *)

MemoryLost ==
    /\ pc' = "down"
    /\ failed' = {} /\ chainData' = {} /\ candidates' = {} /\ fromSnapshot' = {}
    /\ chain' = <<Genesis>> /\ state' = EmptyState
    /\ txindex' = [t \in Tx |-> NoBlock]
    /\ bestHeader' = Genesis /\ sinceFlush' = 0 /\ cand' = Genesis /\ outcome' = "done"

\* Node shutdown flushes the state.
Shutdown ==
    /\ pc = "idle"
    /\ utxoDat' \in Flushed(Tip, state)
    /\ MemoryLost
    /\ UNCHANGED <<headersDat, blocksDat, witnessFiles, undoFiles, snapFiles, baseDat, history>>

Crash ==
    /\ "crash" \in Faults
    /\ pc # "down"
    /\ MemoryLost
    /\ UNCHANGED <<disk, history>>

\* store_block appends blocks.dat and blockpos.dat before the witness file.
CrashStoring(b) ==
    /\ "crash-store" \in Faults
    /\ pc = "idle"
    /\ HeaderAccepted(b) /\ b \notin blocksDat /\ BodyRules[b]
    /\ headersDat' = HeadersAfter(b)
    /\ blocksDat' = blocksDat \cup {b}
    /\ MemoryLost
    /\ UNCHANGED <<witnessFiles, undoFiles, utxoDat, snapFiles, baseDat, history>>

\* load_snapshot_bytes writes the snapshot, then base.dat, then utxo.dat.
CrashLoading(b) ==
    /\ "crash-load" \in Faults
    /\ FreshNode /\ Committed(b)
    /\ snapFiles' = [snapFiles EXCEPT ![b] = Commit[CommitHeader(b)]]
    /\ baseDat' \in {baseDat, b}
    /\ lied' = (lied \/ Commit[CommitHeader(b)] # StateAt[b])
    /\ MemoryLost
    /\ UNCHANGED <<headersDat, blocksDat, witnessFiles, undoFiles, utxoDat, peak>>

ChainDataFromGenesisOnly == {b \in Known : Ancestors(b) \subseteq blocksDat}
\* load: flags in height order; a block from a snapshot needs no data below.
LoadedChainData ==
    {b \in Known : \E a \in Ancestors(b) :
        /\ a = Genesis \/ a = baseDat
        /\ \A y \in Ancestors(b) : Height(y) > Height(a) => y \in blocksDat}

\* headers.dat is replayed in order, so the first header of most work wins.
LoadedBestHeaders == {b \in Known : \A x \in Known : x # b => Outranks(b, x)}

\* load_tip_state
UtxoUsable == utxoDat # NoFile /\ utxoDat.tip \in LoadedChainData
LoadedTip == IF UtxoUsable THEN utxoDat.tip ELSE Genesis
LoadedState == IF UtxoUsable THEN utxoDat.state ELSE EmptyState

\* The tx index is rebuilt from the stored blocks of the active chain.
IndexedBlocks(newChain, t) ==
    {b \in {newChain[i] : i \in 1..Len(newChain)} : b \in blocksDat /\ t \in Txs[b]}
LoadedTxIndex ==
    [t \in Tx |-> IF IndexedBlocks(Path[LoadedTip], t) = {} THEN NoBlock
                  ELSE CHOOSE b \in IndexedBlocks(Path[LoadedTip], t) : TRUE]

\* load refuses to start only when a bootstrapped node has no usable utxo.dat.
LoadRefused == baseDat # NoBlock /\ ~UtxoUsable

Load ==
    /\ pc = "down"
    /\ ~LoadRefused
    /\ failed' = {}
    /\ chainData' = LoadedChainData
    /\ candidates' = LoadedChainData
    /\ fromSnapshot' = {baseDat} \ {NoBlock}
    /\ chain' = Path[LoadedTip]
    /\ state' = LoadedState
    /\ txindex' = LoadedTxIndex
    /\ bestHeader' \in LoadedBestHeaders
    /\ sinceFlush' = 0
    /\ pc' = "select"
    /\ UNCHANGED <<disk, cand, outcome, history>>

\* A fresh data directory, after the first load.
Init ==
    /\ headersDat = <<Genesis>>
    /\ blocksDat = {Genesis}
    /\ witnessFiles = {Genesis}
    /\ undoFiles = [b \in Block |-> NoFile]
    /\ utxoDat = NoFile
    /\ snapFiles = [b \in Block |-> NoFile]
    /\ baseDat = NoBlock
    /\ pc = "idle"
    /\ failed = {} /\ chainData = {Genesis} /\ candidates = {Genesis} /\ fromSnapshot = {}
    /\ chain = <<Genesis>> /\ state = EmptyState
    /\ txindex = [t \in Tx |-> IF t \in Txs[Genesis] THEN Genesis ELSE NoBlock]
    /\ bestHeader = Genesis /\ sinceFlush = 0 /\ cand = Genesis /\ outcome = "done"
    /\ peak = 0 /\ lied = FALSE

Next ==
    \/ \E b \in Block : AcceptHeader(b)
    \/ \E b \in Block, w \in BOOLEAN : AcceptNewBlock(b, w)
    \/ \E b \in Block : AcceptWitness(b)
    \/ Activate
    \/ \E b \in Block : LoadSnapshot(b)
    \/ \E b \in Block : LoadSnapshotFails(b)
    \/ Shutdown
    \/ Crash
    \/ \E b \in Block : CrashStoring(b)
    \/ \E b \in Block : CrashLoading(b)
    \/ Load

Spec == Init /\ [][Next]_vars

\* The thread that runs an operation is scheduled; a stopped node is started
\* again; and a node that is up again and again is offered every block by its
\* peers (request_blocks runs on every tick), signatures included.
FairSpec == /\ Spec
            /\ WF_vars(Activate)
            /\ WF_vars(Load)
            /\ \A b \in Block : SF_vars(AcceptNewBlock(b, TRUE))

---------------------------------------------------------------------------
(* Properties *)

\* Every variable stays within the values the code can hold.
TypeOK ==
    /\ headersDat \in Seq(Block)
    /\ blocksDat \subseteq Block /\ witnessFiles \subseteq Block
    /\ undoFiles \in [Block -> Undo \cup {NoFile}]
    /\ utxoDat \in UtxoFile \cup {NoFile}
    /\ snapFiles \in [Block -> State \cup {NoFile}]
    /\ baseDat \in Block \cup {NoBlock}
    /\ pc \in {"down", "idle", "select", "switch", "flush"}
    /\ failed \subseteq Block /\ chainData \subseteq Block
    /\ candidates \subseteq Block /\ fromSnapshot \subseteq Block
    /\ chain \in Seq(Block) /\ Len(chain) > 0
    /\ state \in State
    /\ txindex \in [Tx -> Block \cup {NoBlock}]
    /\ bestHeader \in Block
    /\ sinceFlush \in Nat
    /\ cand \in Block
    /\ outcome \in {"done", "aborted", "stalled"}
    /\ peak \in Nat /\ lied \in BOOLEAN

\* The active chain is a path of the tree, and the coins, tokens and pools in
\* memory are those a replay of that path from genesis gives, whatever
\* sequence of reorganisations, failed candidates and restarts led there.
StateMatchesTip == /\ chain = Path[Tip]
                   /\ ~lied => state = StateAt[Tip]

\* utxo.dat holds the replayed state of the block it names, so a restart
\* resumes from a state the chain really had.
UtxoFileMatchesItsTip ==
    utxoDat # NoFile /\ ~lied => utxoDat.state = StateAt[utxoDat.tip]

\* Every undo file on disk, of blocks connected, disconnected or abandoned by
\* a crash alike, leads from the state of its block back to its parent's.
UndoFilesRestore ==
    ~lied => \A b \in Block : undoFiles[b] # NoFile =>
        b # Genesis /\ Reverted(StateAt[b], undoFiles[b], b) = StateAt[Prev[b]]

\* find_tx_block: an indexed transaction is in the active block the index
\* names, and every transaction of an active block above the bootstrap block
\* is indexed; a transaction contained in both branches of a fork included.
TxIndexMatchesChain ==
    /\ \A t \in Tx : txindex[t] # NoBlock =>
           InActiveChain(txindex[t]) /\ t \in Txs[txindex[t]]
    /\ pc # "down" /\ ~lied => \A b \in ActiveBlocks :
           \/ \A t \in Txs[b] : txindex[t] = b
           \/ \E s \in ActiveBlocks : Height(s) >= Height(b) /\ s \in fromSnapshot

\* Only a block with an invalid ancestor-or-self is ever marked failed.
TrulyInvalid(b) == \E a \in Ancestors(b) \ {Genesis} :
    \/ ~TxsApply(StateAt[Prev[a]], a)
    \/ ~SigsOk[a]
    \/ /\ IsCommitHeight(Height(a))
       /\ Commit[a] # StateAt[AncestorAt(a, Height(a) - SNAPSHOT_DELAY)]
OnlyInvalidFailed == ~lied => \A b \in failed : TrulyInvalid(b)

\* When an activation ended normally, a valid chain whose blocks are all stored
\* outweighs the tip in one case only: it was dropped as a candidate
\* (chainstate.cpp:854) below a tip that was found invalid since.  Whatever else
\* was dropped or failed on the way, in whatever order blocks, headers and
\* signatures arrived, the node is on the chain with the most work.
StoredChains == {b \in Known : \E a \in Ancestors(b) \cap ({Genesis} \cup fromSnapshot) :
                    \A y \in Ancestors(b) : Height(y) > Height(a) => y \in blocksDat}
LostToInvalid(b) ==
    /\ b \notin candidates
    /\ \E x \in failed : undoFiles[x] # NoFile /\ ChainWork[x] > ChainWork[b]
FollowsMostWork ==
    pc = "idle" /\ outcome = "done" /\ ~lied =>
        \A b \in StoredChains :
            ChainWork[b] > ChainWork[Tip] => TrulyInvalid(b) \/ LostToInvalid(b)

\* Undo files reach PRUNE_DEPTH below the highest tip so far, down to the
\* bootstrap block: any reorganisation the depth rule admits can be undone.
BelowBootstrap(b) == \E s \in ActiveBlocks \cap fromSnapshot : Height(s) >= Height(b)
UndoKept ==
    \A b \in ActiveBlocks :
        Height(b) > 0 /\ Height(b) > peak - PRUNE_DEPTH /\ ~BelowBootstrap(b) =>
            undoFiles[b] # NoFile

\* "Refuse to reorganize more than one week of blocks": a running node's tip is
\* never more than PRUNE_DEPTH below the highest tip it had, restarts included.
NoDeepReorg == pc # "down" => Height(Tip) >= peak - PRUNE_DEPTH

\* After a crash at any point the node can come back to its tip: the blocks
\* to disconnect from utxo.dat's chain have undo files, and the blocks to
\* connect again have data, and signatures but for those a header PRUNE_DEPTH
\* above them made unnecessary.  (If a shorter chain of headers has the most
\* work by then, the node has to ask for those signatures.)  A bootstrapped
\* node never has a utxo.dat it refuses to start from.
Recoverable ==
    LET saved == Ancestors(LoadedTip)
        active == Ancestors(Tip)
    IN  /\ ~LoadRefused
        /\ pc # "down" =>
            /\ \A b \in saved \ active : undoFiles[b] # NoFile
            /\ \A b \in active \ saved :
                   /\ b \in blocksDat
                   /\ \/ b \in witnessFiles
                      \/ \E x \in Known : Deep(b, x)

\* A block whose signatures do not verify is on the active chain only when a
\* header PRUNE_DEPTH above it was accepted: the "deep, assumed valid" rule.
UncheckedOnlyWhenDeep ==
    \A b \in ActiveBlocks \ {Genesis} :
        \/ SigsOk[b]
        \/ \E x \in Known : Deep(b, x)
        \/ BelowBootstrap(b)

\* No block with a false state commitment is connected, whichever snapshots were
\* evicted: pruning ends reorganisations before they reach under the snapshot the
\* next commitment speaks of.  One way is left: a snapshot written on another
\* branch evicts that of the abandoned one, to which a crash then leads back
\* (chainstate.cpp:336, :761).
SnapshotHeight(b) == Height(b) > 0 /\ Height(b) % SNAPSHOT_INTERVAL = 0
CommitmentTrue(b) ==
    IsCommitHeight(Height(b)) => Commit[b] = StateAt[AncestorAt(b, Height(b) - SNAPSHOT_DELAY)]
RivalSnapshotWritten(b) ==
    \E r \in Block \ Ancestors(b) : SnapshotHeight(r) /\ undoFiles[r] # NoFile
CommitmentsChecked ==
    ~lied => \A b \in ActiveBlocks :
        ~BelowBootstrap(b) => CommitmentTrue(b) \/ RivalSnapshotWritten(b)

\* Every activation ends, no candidate being retried for ever, and a node
\* offered every block settles on a valid chain of most work, but for those
\* lost as FollowsMostWork says.
Converges ==
    /\ pc \in {"select", "switch", "flush"} ~> pc \in {"idle", "down"}
    /\ <>[](pc = "idle" =>
            \A b \in Block : ChainWork[b] > ChainWork[Tip] =>
                TrulyInvalid(b) \/ LostToInvalid(b))

=============================================================================
