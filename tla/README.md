# Quant core in TLA+

This directory holds a formal model of the Quant node (`src/src/`): TLA+
modules translated from the source, TLC configurations that check them on small
instances, and TLAPS proofs that hold for every instance. Paths are relative to
the repository; `chainstate.cpp:599` stands for `src/src/chain/chainstate.cpp`,
line 599.

## 1. The system

`quantd` is a proof-of-work full node: UTXO ledger with user-created tokens and
constant-product liquidity pools, post-quantum signatures kept in separate
"witness" files and pruned, and signed-off state snapshots from which a new node
can start.

| Part | State | Operations | Interacts with |
|---|---|---|---|
| Chainstate (`chain/chainstate`) | block tree with flags `have_data`, `chain_data`, `failed`, `from_snapshot`; candidates; active chain; coins, tokens, pools; transaction index; files `headers.dat`, `blocks.dat`, `witness/`, `undo/`, `utxo.dat`, `snapshots/`, `base.dat` | `accept_header`, `accept_block`, `activate_best_chain` (connect, disconnect, prune, snapshot, flush), `load_snapshot_bytes`, `flush`, `load` | callbacks `on_connect`, `on_disconnect`, `on_tip`; one recursive mutex `mu` for everything |
| Ledger (`consensus/ledger`) | overlay of created and spent coins, new tokens, pool values | `apply`, pool arithmetic, `check_tx_basic` | reads Chainstate, used by connect and by the mempool |
| Parameters, proof of work (`consensus/params`, `limits.h`, `pow`) | none | emission, difficulty, header and depth limits | everyone |
| Mempool (`chain/mempool`) | entries in arrival order, view, `readd_`, `dirty_` | `accept`, rebuild, selection for a block | Chainstate callbacks, under `mu` |
| Miner (`miner`) | template, version, `dirty_`, `running_`; one coordinator and N workers | `start`, `stop`, template building, grinding | `on_tip`, `on_found`, `Chainstate::mu` |
| P2P (`net/p2p`), protocol, sockets, DHT, UPnP | peers, in-flight requests, bans, snapshot download | header and block download, relay, fast sync, time-outs | Chainstate and Mempool from the network thread |
| Light client (`light`) | header chain, peers | header synchronisation, balance and proof queries | peers |
| Wallet, mnemonic (`wallet`) | keys, coins, pending transactions, history | scan, create, sign, save | Node callbacks |
| Node, RPC, HTTP (`node`), `quantd`, `quant-cli` | owns the parts; pool history, trades, messages | start, stop, commands | everyone; every RPC holds `mu` |
| Primitives, crypto, util | none | encoding, hashing, 256-bit arithmetic | everyone |

What is hard in it: reorganisations that fail half-way; files written one after
the other with crashes between; decisions taken against the best header of the
moment (fork depth, "deep enough to skip signatures") and used later; pruning and
flushing running at different depths; threads that share a lock and wait for each
other; listeners (mempool, wallet, indexes) that follow the chain through callbacks
in a fixed order; requests given up whose answers still arrive; integer amounts
that round and wrap. `PROJECT.json` lists these hazards at their lines, with the properties
that cover them.

What makes each part correct, in a sentence:

* **Chainstate**: the state in memory and in every file is the one a replay of
  the chain gives; no valid stored chain outweighs the node's, except a rival dropped
  below a tip that proved invalid; it can come back to it after a crash; only invalid
  blocks are condemned.
* **Miner**: no new tip is missed, workers grind the template in use, stopping ends.
* **Mempool**: the pool applies in order to the tip, and nothing valid is lost in
  a reorganisation.
* **Ledger and pools**: value is conserved, pools never lose to rounding, sums do
  not wrap.
* **P2P, light client**: a needed block is eventually asked of somebody who has
  it; a bad peer cannot cost the client its chain.
* **Wallet**: its coins are those of the active chain and the pool, less what is
  pending; what it builds the ledger accepts.
* **Node**: watchers are shown a valid chain that no candidate outweighs and nothing in
  between, unless a file failed on the way; the indexes follow it.

## 2. Modules

| Module | Content | Source |
|---|---|---|
| `Chainstate` | block tree, chain, ledger state and files of one pruning node, its environment's faults | `chain/chainstate` |
| `ChainView` | abstract: what a node promises those who watch its chain, also when files fail it or it drops a candidate | - |
| `BlockTree` | blocks, transactions and coins as the listeners see them | - |
| `SeqFilter` | the entries of a sequence that lie in a set | - |
| `Mempool` | pending transactions, `accept`, `rebuild`, callbacks | `chain/mempool` |
| `Wallet` | coins and history, catching up, refreshing | `wallet/wallet`, `node/node` |
| `ChainIndexes` | pool history, trades, messages, and their files | `node/node` |
| `Node` | composes the three with one chain; stop, crash, start; implements `ChainView` | `node/node` |
| `Amm` | pool arithmetic | `consensus/ledger` |
| `LedgerView` | `check_tx_basic`, `apply`, the overlay | `consensus/ledger` |
| `Emission` | reward schedule with its checkpoint cache | `consensus/params` |
| `TxBuilder` | coin selection, change, fee; the wallet's transactions | `wallet/wallet` |
| `Ledger` | composes the four: pending transactions, blocks mined and disconnected | `chain/chainstate`, `miner` |
| `Miner` | coordinator, workers, callers of start and stop | `miner` |
| `BlockSync` | header-first download and fast sync of one node from its peers | `net/p2p` |
| `Connections` | dialling, handshake, address book and bans of several nodes | `net/p2p` |
| `LightClient` | header chain, coins and exchanges of the light wallet | `light/light_client` |
| `MC*` | instances for TLC | - |
| `ChainstateProofs` | proofs: types, state, undo files, `utxo.dat`; pruning, signatures, depth of reorganisations, recovery, failed blocks, commitments, transaction index | - |
| `NodeProofs` | proofs: `Node` implements `ChainView`; mempool, wallet and indexes follow its chain | - |
| `LedgerProofs` | proofs: disconnecting undoes exactly, the cached emission is the curve's, pools keep their worth, nothing is created or lost | - |
| `Induction` | lemmas: numbers, sequences, folds over sequences, sums over finite sets | - |
| `MinerProofs`, `BlockSyncProofs`, `ConnectionsProofs`, `LightClientProofs` | proofs about these modules | - |

### Chainstate

All public operations hold `mu` from beginning to end, so they are atomic with
respect to each other. They are not atomic with respect to a crash, and
`activate_best_chain` is long: it is modelled step by step, with `pc` naming
where it stands (`select`, `switch`, `flush`), and `Crash` may strike between any
two steps. The other operations are one action each, followed by the activation
they end in.

| Code | Actions |
|---|---|
| `accept_header`, `add_index` | `AcceptHeader` |
| `accept_block`, `store_block`, `update_chain_data` | `AcceptNewBlock`, `AcceptWitness` |
| `activate_best_chain`, `best_candidate` | `SelectCandidate`, `SelectNone`, `AbortReorg`, `PathDone`, `StallOnBlock` |
| `disconnect_tip` | `DisconnectTip` |
| `connect_block`, `write_commit_snapshot`, `prune_at` | `ConnectBlock` |
| `mark_failed` | `RejectBlock` |
| `flush` | `FlushAfterConnect`, `NoFlushYet`, `Shutdown` |
| `load_snapshot_bytes` | `LoadSnapshot`, `LoadSnapshotFails`, `CrashLoading` |
| `load`, `load_tip_state` | `Load` |
| a killed process | `Crash`, `CrashStoring`, `CrashLoading` |

Data is abstracted to what the properties distinguish. A transaction is its
identity and its outputs one coin of that name; a block is a node of a fixed tree
whose constants say what the code computes from its bytes: transactions, spent
coins, created tokens, pool writes, and whether its header, body, ledger and
signature checks succeed. Ledger effects are not abstracted away: `Applied`,
`UndoOf` and `Reverted` are the commit, the undo record and the revert of the
code, including outputs spent in the block that creates them. A state commitment
is the state itself in place of its hash. Clocks appear as choice: whether
initial sync is over decides the flush interval, so the model may flush whenever
either interval allows it.

`Faults` is the set of failures the environment may cause: `crash` anywhere,
`crash-store` between `blocks.dat` and the witness file, `crash-load` between the
files of a bootstrap, and a failing write of a witness, an undo file, a snapshot,
the files of a bootstrap, or `utxo.dat`. A run names the faults it admits. Two history
variables serve the properties: `peak`, the greatest height the tip had, and
`lied`, set when a snapshot that is committed by the header chain but is not the
replayed state was adopted (nothing can be promised about the state after that).

### Miner

One action per stretch between two points where another thread can intervene: an
access to an atomic, or a section under `tmpl_mu_` or `Chainstate::mu`. Nobody
but the RPC thread holds `Chainstate::mu` across actions, so it is the predicate
`ChainFree`. The chain is the number of tips so far; a template its parent, payout
and build number. `CoordBuild` is `create_block_template`; `WorkerSubmits` is
`on_found`, with `accept_block` refusing a nonce that does not fit the header;
`Call`, `Start` and `Stopped` are `Miner::start` and `stop` as called by
`Node::start` and `quantd` (before the RPC server runs, no lock), by `setmining`
(holding `Chainstate::mu`, `rpc.cpp:305`) and by `Node::stop` (no lock).

### Node, Mempool, Wallet, ChainIndexes

The chainstate is reduced to what its listeners see: the steps of
`activate_best_chain` with `on_connect` and `on_disconnect` after each, and
`on_tip` at the end if the tip has changed. Callbacks run in the order in which
they were registered: mempool, wallet, indexes. A reorganisation ends half way, with
`on_tip` on a lower tip, when undo data (`AbortReorg`) or a block or witness
(`StallOnBlock`) is missing; an undo file that cannot be written condemns a valid block
(`UndoNotWritten`); an entry that the set of candidates has lost comes back
only at the next start (`MarkFailed`, `CandidatesKept`). `MaxFaults` bounds these failures, whatever
their cause. `NewTip` is one action because
nothing can come between: the mempool rebuilds, takes disconnected transactions
back one by one (each calls `on_added`, which writes the wallet), and the wallet's
coins are then rebuilt from the chain and the pool. The wallet file is written
then or not (once a minute), always by `tx_broadcast`, at a stop and after a start.
A crash may come between any two steps; `Start` reads the indexes and activates
from `utxo.dat` with wallet and index files closed; `Started` compacts the indexes
and catches the wallet up.

| Code | Definitions |
|---|---|
| `Mempool::accept`, `rebuild`, `select_for_block` | `Accepts`, `PoolAccept`, `Kept`, `select_for_block` |
| its callbacks | `PoolConnect`, `PoolDisconnect`, `PoolTip` |
| `Wallet::process_tx`, `block_connected`, `block_disconnected` | `ProcessTx`, `BlockConnected`, `BlockDisconnected` |
| `wallet_refresh_coins`, `wallet_catch_up`, `on_added` | `Refreshed`, `CaughtUp`, `Recorded` |
| `pool_hist_*`, `trades_*`, `msgs_*` | `IndexConnect`, `IndexDisconnect`, `IndexLoad`, `IndexCompact` |
| `accept_block`, `activate_best_chain` | `ReceiveBlock`, `ReceiveWitness`, `SelectCandidate`, `DisconnectTip`, `ConnectBlock`, `RejectBlock`, `AbortReorg`, `StallOnBlock`, `UndoNotWritten`, `NewTip`, `SameTip` |
| `send`, `broadcast`; a peer's transaction | `SendTx`, `SubmitTx` |
| `Node::start`, `stop` | `Start`, `Started`, `Stop`, `Crash` |

`ChainView` is the abstract specification: the blocks known, the tip shown, the
candidates still held and whether the last attempt at a heavier chain was given up. The
tip is replaced as a whole, by a valid one that no candidate outweighs, or by a valid
one after a failure; a candidate is given up for three reasons only: it is lighter than
the tip settled on, it is invalid, or its undo file could not be written. `Node`
implements it (`KeepsPromise`) with the mapping `Shown`: nothing while down or loading,
the old tip while an activation is under way. `BlockTree` has the paths of the tree as a
recursive function; `PathAssumption` says what it computes when `Parent` is a tree.

### Ledger, LedgerView, TxBuilder, Amm, Emission

Amounts are integers of `WIDTH` bits; sums that the code forms in 64 bits wrap
(`Wrap`), those it forms in 128 or 256 bits do not. An operation on a pool names
what it takes and gives, as in the code, and `apply` checks it against the pool
arithmetic. `build` is the wallet's coin selection for all its plans: payments (with
the fee on top or subtracted), sweeps, messages, token creation, swaps with and
without slippage, deposits and withdrawals. Transactions of the wallet, spends
of unconfirmed coins by others (`PassOn`) and whatever others send (`ForeignTx`: the
members of `Foreign`, any transaction that can be read from a message, `TxRead`) enter the
view of the mempool, blocks take them all, and the tip can be disconnected with the undo
record. `Emission` is stepped from
checkpoints that are extended on demand; `IssuedBy` is its definition without a
cache. A transaction's fee is a rate for each input, `IN_FEE`.

### BlockSync

One node and honest peers on a single line of blocks, each with its own height,
history and signatures; a connection is an ordered stream. `Tick` is `maintain`
with time-outs, `request_blocks` and `try_fast_sync`; `Receive` has one case for each
message. Faults (`MaxFaults`): a request or a snapshot chunk times out while its
answer is still on its way, or the connection is lost.

### Connections

Several nodes that all run the code. A connection has two ends, each with its state,
a queue of messages and a mark for disconnection; the turn of `P2P::loop` ends with
`Reap`. Covered are crossing and repeated dials, a node's own
address in its book, an address where nobody answers, bans by the operator and by
misbehaviour, stop, crash and restart with `peers.txt` and `bans.txt`. A restarted node
does not know its own address yet and takes over every entry of `peers.txt`, its own
among them. The history
variable `ordered` holds the IPs whose ban by the operator is in force; `banned`,
`reasons` and `bansFile` are `bans_` and `ban_reason_` in memory and the entries of
`bans.txt` that have not run out.

### LightClient

A tree of headers, of which each peer follows a branch; one exchange at a time over a
stream that may also hold announcements and answers given up earlier. Each peer has a
mempool of its own: it takes a transaction only if it fits on its branch, may never have
seen one that others hold, keeps or takes back what it likes of the rest when it
reorganises, and answers from what it has. A refresh in which every peer is given up
leaves the wallet as it is; otherwise the coins are those of the peers that answered.
`HeadersTaken` is `sync_headers` with the cut at the fork and the appending that may
stop at an invalid header; `CoinsArrive` is the query of the coins with its proofs.
`Broadcast` sends to every peer, of which some take the transaction and others may
reject it, and reads for a second and a half at most (`light_client.cpp:428`), so it
drops some of what is on each stream and leaves the rest to the next exchange.
`NoHeader` is the parent of the genesis header.

## 3. Runs

| Run | Instance | Checks | Shows |
|---|---|---|---|
| `Reorg` | 6 blocks, two branches that share transactions, a token and a pool, a third that spends a coin it does not have; crashes | TypeOK, StateMatchesTip, UtxoFileMatchesItsTip, UndoFilesRestore, TxIndexMatchesChain, Converges | reorganisations in both directions keep memory, undo files, `utxo.dat` and index right; every activation ends, and a node offered every block settles on a chain that no valid one outweighs (but for the rival of section 4) |
| `Invalid` | a branch with a bad spend (`x3`, work 5), one with a bad signature that may be assumed valid (`y2`, 3, and `y3`, 4), pruning depth 1; crashes, half-stored blocks, lost witness files | OnlyInvalidFailed, FollowsMostWork, UncheckedOnlyWhenDeep, NoDeepReorg, Recoverable | a candidate rejected half-way harms no valid block; a rival is lost in one way only, dropped below a tip that proves invalid, which the tree reaches; signatures are skipped only when deep; every crash can be recovered from |
| `Snapshot` | snapshots on two branches of which one is kept, a false commitment, bootstrap; crashes | Recoverable, CommitmentsChecked | commitments are checked unless a crash leads back to the branch whose snapshot was evicted, which the tree reaches; a bootstrapped node can restart |
| `DiskFaults` | failing writes and crashes inside a bootstrap | UndoKept | undo data reaches the pruning depth all the same; the node may refuse to start |
| `Miner` | 2 workers, 1 foreign block, 1 solution, 2 builds; start and stop with the node and by RPC | TypeOK, FreshWhenClean, WorkersUpToDate, NodeStops, KeepsMining | no tip is missed, every tip is worked on, waits end, the node stops |
| `Node` | 6 blocks in two branches, one ending in an invalid block; a payment and a swap with message on both, a child, a conflict; a pool of two; one restart or crash, one failing file | PoolApplies, CoinsMatch, PaymentsDated, IndexesFollow, NothingDropped, KeepsPromise | mempool, wallet and indexes stay in step with the chain through aborted and stalled reorganisations too; the node implements `ChainView` |
| `Ledger` | 4 blocks, 4 transactions, 5-bit amounts, one token and pool, every plan of the wallet, transactions of others with two and three operations | Conserved, BuildsValid, EmissionKept, PoolsKeepWorth, UndoExact | value is conserved, pools keep their worth, undo is exact, the wallet builds valid transactions |
| `BlockSync` | an archive peer that is ahead and a bootstrapped pruning peer, 4 blocks, 2 faults | DownloadsSound, Synced | requests and the snapshot buffer stay consistent; the chain is fetched |
| `Connections` | two nodes that know each other, one of itself; a banned silent address; a restart | OneLink, GoodMeansReached, BannedStayOut, HandshakesEnd | one connection to a node, bans hold, no slot is lost |
| `LightClient` | a chain and a branch that seems heavier and ends in an invalid header; two peers with a mempool each; one time-out | ChainValid, SentStaysLocked, WorkKept, CallsEnd | the header chain stays valid, work is lost only to a branch that proved invalid, a coin stays locked while a connected peer holds its spend, every exchange ends |
| `AutoBanKept` | two nodes and a silent address, banned at the start | OnlyOrderedKept (violated) | an automatic ban is written to `bans.txt` |
| `CoinbaseSum` | any two coinbase outputs, 5-bit amounts | SupplyWithinEmission (violated) | the sum of coinbase outputs wraps |

The type invariants of `Node`, `Ledger`, `BlockSync`, `Connections` and `LightClient`
are conjuncts of `PoolApplies`, `Conserved`, `DownloadsSound`, `OneLink` and
`ChainValid`. `DownloadsSound` also says that no stored block is waited for, that every
request is with a peer whose answer is under way, and that the snapshot buffer never
mixes two downloads.

**Bounds.** Chain lengths: with pruning depth 1 or 2 and chains of three or four blocks
every rule (deep, pruned, too deep, commit height, flush due) applies to some block and
not to others. A snapshot is evicted in `Snapshot`, which keeps one (the code three) and
has two blocks at a snapshot height, on different branches; an eviction by age on one
chain does not occur there. Real constants are larger but enter only through
comparisons. `MaxTip`, `MaxSolves`, `MaxBuilds` (Miner), `MaxRestarts` (Node,
Connections), `MaxFaults` (BlockSync, Node), `MaxTimeouts` (LightClient), `MaxEvents`,
`MaxDials`, `Slots` (Connections) and `MaxHeight`, `MaxPending`, `MaxTxs`, `MaxTokens`,
`MAX_TX_OPS` (Ledger; 16 in the code) limit events from outside and never stop a step
the code must take. `MaxPool = 2` lets the pool be full when transactions come back. In
`Ledger`, `WIDTH = 5` with `MAX_MONEY = 17` keeps the relation of the code (`MAX_MONEY`
is more than half of the range), the pool fee is a tenth, and the subsidy reaches its
tail within the run; `EmissionKept` looks a checkpoint beyond the greatest height.

**Deadlock** is checked where the system cannot stop: not in `DiskFaults` (a node
without a usable `utxo.dat` refuses to start), `Miner` (`setmining` can hang),
`Node`, `Ledger` and `Connections` (bounded events are used up).

**Fairness.** `Chainstate!FairSpec`: weak fairness of `Activate` and `Load` (the
thread is scheduled; a stopped node is started again), and strong fairness of
accepting each block with its signatures: `request_blocks` runs on every tick of the
network thread and asks for what is missing. `Miner!FairSpec`: weak fairness of each
thread; nobody is obliged to find a block or to call. The rebuild every 20 seconds
is bounded, so `KeepsMining` does not lean on it. `BlockSync!FairSpec`:
as long as the network thread can read a message, dial a lost peer, lift an expired
ban or do its periodic work, it does one of them (one weak fairness condition for all,
so none of them is favoured). `Connections!Fairness`: the loop turns,
sockets that are ready are served and time-outs come (`loop`, `maintain`).
`LightClient!FairSpec`: an answer that is not given up arrives and is read. Nothing
obliges anyone to crash, time out, or dial.

## 4. Known limits of the code

`CoinbaseSum` is kept as a run: `check_tx_basic` and `total_qnt_out` sum a coinbase's
outputs in 64 bits, and `MAX_MONEY` is more than half of that range, so two admissible
outputs can have a sum that wraps and passes (`ledger.cpp:104`, `chainstate.cpp:774`).
`AutoBanKept` is the other: `save_bans` keeps every ban in force whose IP has a reason,
under the comment "short automatic bans aren't kept" (`p2p.cpp:1050`); the reason of a
ban that ran out is never removed, so a later automatic ban of the same IP is kept. The
rest were met as counterexamples to stronger forms of the properties above, which are
stated so that they hold:

*Chainstate*
* The fork-depth rule looks at the tip when a header arrives (`chainstate.cpp:599`);
  a fork accepted earlier is still activated after its undo data is pruned, and the
  reorganisation stops half-way.
* `load_snapshot_bytes` replaces the state before it writes its files (`:390`); when a
  write fails the snapshot's state stays on the genesis chain, and is flushed so.
* Signatures discarded under a header chain that later proves invalid (`:624`) are
  missing when the remaining chain is to be connected. The same holds for a restart when
  a shorter chain of headers has come to have more work: `best_header_` is lower then, and
  blocks that were connected as deep need their signatures again. `Recoverable` therefore
  excepts blocks `PRUNE_DEPTH` below any known header.
* "Nodes follow the chain with the most total work"
  (`src/docs/whitepaper/quant-whitepaper.html:125`) but for one case: a rival lighter than
  the tip is dropped as a candidate (`:854`); when the tip is found invalid afterwards,
  the rival is not looked at again before the next start. In the run `Invalid`, `y2` is
  connected with its signatures unchecked because the header of `x3` makes it deep, and `b2`
  is dropped; `x3` is tried and proves invalid, which leaves `y2` no longer deep, its
  signatures are asked for and are wrong; the node stays on `a1`, below `b2`.
  `FollowsMostWork` states this case (`LostToInvalid`).
* A block whose undo file cannot be written is marked failed (`:780`); a commitment
  without a local snapshot is only warned about (`:761`). This lets a false commitment
  in after a crash: a node rejects a block for its commitment, reorganises to another
  branch and writes a snapshot there, which evicts that of the abandoned branch
  (`:336`, the newest three of the active chain stay; one in the instance where TLC
  found this), and is killed before it flushes. It resumes on the first branch with
  neither the snapshot nor the `failed` mark, and connects the block. The tree of
  `Snapshot` has this case (`e3` evicts the snapshot of `a3` that `l4` is checked against),
  so `CommitmentsChecked` excepts chains with a rival at a snapshot height that was
  connected (`RivalSnapshotWritten`); the theorem shows that without crashes and failed
  writes nothing has to be excepted.
* "tie-break: first seen wins" (`chainstate.h:36`): when an invalid block builds on a
  rival of equal work, the node has gone over to the rival before it fails, and stays
  there.
* A reorganisation aborted for want of undo data, or stalled on a missing block or
  witness, ends on the fork or between (`:834`, `:844`), and `on_tip` shows that lighter
  tip (`:859`). `Node` has both, and `ChainView` promises a valid tip then, no more.

*Miner*
* `setmining` joins, holding `Chainstate::mu` (`rpc.cpp:305`), threads that may wait
  for it.
* A solution found between the replacement of a template and the increment of its
  version (`miner.cpp:108`) is put into the new template and lost.

*Mempool, wallet, indexes*
* A child and its parent disconnected in different blocks are offered again child
  first, and the child is lost (`mempool.cpp:22`).
* A failed reorganisation that returns to its old tip tells nobody: `dirty_`, `readd_`
  and the wallet's coins stay as they are until the next tip or transaction.
* A payment mined on both branches is booked the second time without its inputs, so
  `delta` is not the "net effect on the QNT balance" (`wallet.h:36`); one without
  change stays unconfirmed in the history.
* After a crash, rewards of an abandoned branch can stay in the history, and after a
  restart points of an abandoned branch can come back into the indexes.
* Points of the chain can be lost from the indexes by a crash. (a) `utxo.dat` is on a
  block that was abandoned for a branch with points at its height or below: the load
  reads them after the block's and drops the block's (`node.cpp:241`, `:299`), but
  starts on it, and if it ends there (a rival of equal work) nothing writes them again.
  (b) Blocks connected by a load are not written to the index files, which are closed
  until it has ended (`node.cpp:81-96`); if `utxo.dat` is saved above them and the
  process dies before the files are compacted, the next load does not connect them
  again. `torn` marks both cases; (a) occurs in the run, and `IndexesFollow` fails there
  without the mark.
* Transactions dropped from the pool stay "pending" in the wallet
  (`abandon_unconfirmed` has no caller). A plan can leave a transaction without
  outputs, which is refused.

*P2P*
* With pruning peers only and no snapshot, blocks asked for while few headers are
  known are noted as lacking signatures (`p2p.cpp:516`) and never asked for again.
* While more headers are expected `try_fast_sync` declines, the first blocks are
  requested, and one connected block turns fast sync off for good (`:982`).
* A node that dials itself drops the connection at its inbound end before the version
  is sent, so the outbound end never learns the address is its own (`:320`). When two
  dials cross, both ends can drop the connection the other keeps (`:328`).
* The address book can exceed its limit when the worst entry was added by hand; an
  operator's ban does not stop redialling of such nodes.

*Light client*
* An announcement is a Headers message, and is taken for the answer to a request for
  headers (`light_client.cpp:195`); the real answer is then read by the next one.
* An answer about coins that was given up, if the read after a broadcast leaves it on
  the stream (`:428`), is taken for the answer to the next question: given before the
  transaction, it unlocks the coin just spent. `SentStaysLocked` therefore says nothing of
  what a peer has pending once an exchange with it was given up.
* A coin is locked because a peer reports its spend as pending. Connected only to
  peers that never saw the transaction, refused it, or have the coin's own transaction
  unconfirmed (`light_client.cpp:374`), the wallet is offered the coin again. If a peer
  asked earlier names the coin as unconfirmed, a later peer's proof for it is not looked
  at; a peer that lags behind proves coins that are spent since.

## 5. Proofs

The theorems hold for every value of the constants that satisfies the assumptions
below: any tree of blocks or headers, any number of nodes, peers and workers, any
depths and intervals. TLC evaluates the assumptions on every run.

| Assumption | Says |
|---|---|
| `TreeAssumption`, `PathAssumption`, `AncestryAssumption` | blocks and headers form a tree rooted in genesis (a hash covers the parent's hash); work increases along a branch |
| `ContentAssumption` of `Chainstate`, `BlockTreeAssumption`, `ParameterAssumption` and those named after the other modules | types of the constants; depths and intervals are positive |
| `StateAtAssumption` | `StateAt` is the replay of a block's chain |
| `FreshnessAssumption`, `CoinAssumption` | on one chain no transaction, token or coin is created twice: a coinbase carries its height, a transaction with inputs would spend them twice, a token id derives from an outpoint |
| `ContentAssumption` of `BlockTree` | of a chain that connects: only the first transaction of a block is a coinbase (`chainstate.cpp:660-661`), it carries its height (`:671`), no transaction is there twice, inputs spend what was paid before and mature coinbases (`ledger.cpp:184-215`) |
| `PoolAssumption`, `IndexAssumption`, `NodeAssumption` | types; the genesis block has no swap and no message (`params.cpp:55`) |
| `NoConnAssumption` | "no connection" is not a connection |
| `EmissionAssumption`, `HeightsAssumption` | the curve, the tail and the distance of checkpoints are numbers, `2 ^ EMISSION_SPEED` too (the provers know no powers); heights asked for are numbers |
| `ForeignAssumption`, `CoinbaseAssumption` | transactions of others have operations with the fields of their kinds, as they are read from a message (`transaction.cpp`, `read_core`); their amounts, inputs and outputs are any |
| `LimitsAssumption` | `MAX_MONEY <= MAX_TOKEN_SUPPLY` (`limits.h`) |
| `AmmAssumption`, `NoPoolAssumption` | fee and locked shares are positive; the powers of two up to `2 * WIDTH` are positive, and the last is the square of `2 ^ WIDTH`; "no pool" is not a pool |

| Theorem | States | If |
|---|---|---|
| `TypeCorrect` | `TypeOK` of Chainstate | any faults |
| `StateIsReplay`, `UndoFilesCorrect`, `UtxoFileCorrect` | `StateMatchesTip`, `UndoFilesRestore`, `UtxoFileMatchesItsTip` | the files of a bootstrap can be written |
| `UndoReachesPruneDepth` | `UndoKept` | any faults |
| `SignaturesCheckedUnlessDeep` | `UncheckedOnlyWhenDeep` | any faults |
| `ReorgDepthBounded` | `NoDeepReorg` | `utxo.dat` can be written; `FLUSH_SYNC <= PRUNE_DEPTH` (5000 and 5040 in the code) |
| `CrashRecoverable` | `Recoverable` | the same, and no crash inside a bootstrap |
| `FailedAreInvalid` | `OnlyInvalidFailed` | undo files and the files of a bootstrap can be written |
| `MostWorkFollowed` | `FollowsMostWork` | undo files and the files of a bootstrap can be written |
| `CommitmentsAlwaysChecked` | every active block above the bootstrap block has a true commitment (`CommitmentsChecked` without its exception) | no crash, only signature and undo files may fail; `FLUSH_SYNC <= PRUNE_DEPTH`, `0 < SNAPSHOT_DELAY`, `PRUNE_DEPTH + SNAPSHOT_DELAY <= SNAPSHOT_INTERVAL` (5040 + 100 and 10080) |
| `IndexFollowsChain` | `TxIndexMatchesChain` | the files of a bootstrap can be written |
| `MinerTypeCorrect`, `NoTipMissed`, `NoStaleWork` | `TypeOK`, `FreshWhenClean`, `WorkersUpToDate` of Miner | - |
| `WorkOnTheTip` | a worker that has seen the version in force, while the coordinator sleeps with `dirty_` clear, hashes on the tip and pays the current address | - |
| `ChainStaysSound`, `NodeKeepsPromise` | tip and `utxo.dat` are on valid stored chains, with neither tip nor candidate above a failed block; `KeepsPromise`, that Node implements `ChainView` | any number of failing files |
| `PoolAlwaysApplies`, `NothingEverDropped` | `PoolApplies` and, of every step, `NothingDropped` | - |
| `CoinsAlwaysMatch`, `PaymentsAlwaysDated` | `CoinsMatch`, `PaymentsDated` | - |
| `IndexesAlwaysFollow` | `IndexesFollow` | - |
| `UndoAlwaysExact` | `UndoExact` of Ledger | any transactions and operations that can be read from a message |
| `EmissionAlwaysKept` | `EmissionKept` of Ledger | - |
| `PoolsAlwaysKeepWorth` | `PoolsKeepWorth` of Ledger | the same; the id of a token's shares is neither the token's nor QNT's (`SharesApart`) |
| `AlwaysConserved` | `Conserved` of Ledger, with its `TypeOK` | the same; `SharesApart`, and no token's id is QNT's (`TokensApart`) |
| `DownloadsAlwaysSound` | `DownloadsSound` of BlockSync | - |
| `ConnectionsTyped`, `OneLinkAlways`, `GoodAreReached`, `BansHold` | `TypeOK` with the limit on inbound connections, `OneLink`, `GoodMeansReached`, `BannedStayOut` | - |
| `HeadersStayValid`, `WorkIsKept`, `SpentStayLocked` | `ChainValid`, `WorkKept`, `SentStaysLocked` of LightClient | - |

Most of the faults excluded have to be: TLC refutes the three statements about state
and files when the files of a bootstrap fail, `NoDeepReorg` when `utxo.dat` does,
`Recoverable` with a crash inside a bootstrap, `OnlyInvalidFailed` when undo files fail
and the statement about commitments with a crash (section 4). In the other cases
(`OnlyInvalidFailed`, `FollowsMostWork` and `TxIndexMatchesChain` with a failed bootstrap,
`Recoverable` with a failed flush) the proofs lean on a statement that is refuted, and
TLC found no counterexample on the trees of the runs.

*Chainstate, state and files.* Types alone are not inductive: `DisconnectTip` must
not empty the chain, and the next block of a path must exist. `TInv` adds that the
chain is a path of the tree (`ChainIsPath`), which gives both. That the state is the
replay of the chain is not inductive either: a disconnect applies an undo file that
may have been written long ago, before a crash, on another visit to the block.
`SInv` therefore joins three claims: the state in memory, every undo file on disk,
and `utxo.dat`. Connecting uses `FreshnessAssumption` to show that the record it
writes restores the parent's state (`Reverted` after `Applied` is the identity);
disconnecting uses the undo claim; loading uses the `utxo.dat` claim.

*Chainstate, history.* A restart makes the chain of `utxo.dat` the active one, and a
flush the active one that of `utxo.dat`, so what is claimed of one must be claimed of
both. `HInv` says that every block of either chain that was connected here is
"backed": stored, its signatures right or skipped while deep, its undo file there
unless below the pruning depth. The bound on reorganisations needs the distance
between the two chains: `DInv` says that a flush comes in time (`FlushInTime`), that
both ends are within `PRUNE_DEPTH` of the greatest height (`NearPeak`), that what was
connected before the last flush is saved (`FlushedBelow`) and that the chains are one
below the pruning depth (`SharedBelow`). The steps are first reduced to six moves of
the ends (`NextMoves`), so that each claim is shown per move and not per action.

*Chainstate, snapshots and index.* `CInv` says that the snapshot of every snapshot
height within an interval of the greatest height is held (`SnapshotHeld`): pruning
ends reorganisations before they reach under the snapshot that the next commitment
speaks of. `VInv` says that both chains apply; the index is complete and sound by it,
since on one chain a transaction occurs once.

*Chainstate, most work.* A chain that is stored is a candidate, has failed, or was dropped.
`WInv` says which were dropped: `Covered`, that whenever a stored chain is neither a
candidate nor failed, some block of more work that is was connected once, and is still
a candidate or has failed. A drop below the tip leaves the tip as such a block; when the
covering block is dropped in its turn, the tip covers both, and when it fails, the
chain is lost as `LostToInvalid` says. `FlagsInv` and `FailedInv` tie `chain_data`,
the candidates and `failed` to the blocks stored and to each other, and `Exhausted` says
that an activation that ends normally leaves no heavier candidate. A failed block that
is not invalid would do as a cover without being one, so `OnlyInvalidFailed` is needed, and
with it the hypotheses on files.

*Miner.* `MInv` says where a promise of freshness lives while the coordinator moves it
from its local variable to the template, unless `dirty_` was set again. `WInv` says
that a worker that has read the current version has the current template, but for the
moment between the replacement of the template and the increment.

*Node.* `ChainInv` says that tip, flushed block and the tip before an activation end
stored chains without invalid blocks, and that the candidate under way is above the tip;
`CandInv` that neither the tip nor a candidate is above a failed block and that a load
starts from all stored blocks; `LoadInv` that a load that no file failed ends on a tip
that no candidate outweighs. Each step is then a step of `ChainView` or leaves its
variables alone.

*Mempool, wallet, indexes.* Each listener is a fold over transactions or blocks (a pool
rebuilt, a block scanned, a file read back), so its proofs are inductions on sequences:
`Induction` shows once that such a fold exists and takes one step for each element
(`RunExists`, `RunStep`, `EndsAsRun`), and every operator then has a lemma that says
what one more element does (`KeptStep`, `RecordedStep`, `LoadedStep`, ...). Above
`ChainInv`, `NodeInv` has a part for each listener:

* `ListenInv`: unless `dirty_` is set, rebuilding the pool on the tip changes nothing
  (`Settled`). Rebuilding settles (what was kept once is kept again) and an accepted
  transaction leaves it so.
* `CoinsInv`: once told, and unless an activation is changing the chain, the wallet's
  coins are what a refresh would make them; where `dirty_` is still set then (a load that
  came back to its tip), the pool is empty. `on_added` in `SubmitTx` and `SendTx` changes
  coins without a refresh; it makes the same of them because no pending transaction
  spends an output of a later one.
* `HistInv`: the file is dated on the chain of the block it was saved at, also when that
  is no longer the active one, and the wallet on that of the tip. A payment of both
  branches is dated anew by the block connected last; that no other block of the chain
  has it comes from `ContentAssumption`.
* `DropInv`: during an activation whatever was displaced so far is in `readd_`. At its
  end each entry is offered, and a reason not to take it stays one as the pool grows
  (`SettlesOn`).
* `IndexInv`: points are in order of height (so cutting from the back removes exactly
  those above), memory covers the tip's chain, and what the files would give if read
  now covers the chain the next load starts from, unless torn.

*Ledger.* `LedgerInv` has three parts. `ChainOk`: each block of the chain, with the
state it left, reverts to the state before it; that state's coins are older than the
block, so its outputs are none of them, and its pools are there, so a pool saved as
missing is one to erase (`CommitReverts`). This rests on what a view of the mempool or
of a block always is (`ViewOk`): coins it spent are those of the base, its tokens are
new, and for each pool it changed it saved what the base has, whichever transaction
changed it first; one transaction more keeps that (`AppliedKeeps`), and within it one
operation more (`RunOpKeeps`, `RunOpsFacts`), any number of them. `PendingOk` ties the
mempool's view to that of the block: the coinbase is applied first in a block and is not
there in the mempool, which makes no difference, since a pending transaction spends none
of its outputs (`AppliedBesideCoinbase`). `CacheOk`: each checkpoint is what the curve
gives there, and the tail, if it was found, begins at the first block that pays no more
than the tail. The subsidy never rises, so it is the tail from there on (`TailLasts`)
and the linear formula is right, and a call extends the checkpoints far enough for its
height or finds the tail (`ReachedFacts`).

*Pools.* `SharesApart` speaks of every token there could be, so it is a hypothesis of the
theorem and not an assumption that TLC could evaluate; in the code a share id is a hash
of the token's id under a tag of its own (`transaction.cpp:133-139`), and in the runs ids
are tuples that differ. The arithmetic comes first, for all numbers: rounding down gives
a share that is no more than the exact one (`RoundedDown`), so the product of the reserves
does not fall in a swap (`SwapKeepsProduct`), nor that product per share squared in a
deposit or a withdrawal (`DepositKeepsWorth`, `WithdrawalKeepsWorth`); Newton's iteration
stops, and what is left after the descent has a square of no more than the product
(`NewtonStops`, `DownStops`, `InitialShares`). A withdrawal leaves some of both reserves
because `MIN_LIQUIDITY` shares stay (`RemoveKeeps`), so no pool is ever divided by zero.
Worth is passed on from one change to the next (`FromToPasses`), hence by any number of
operations of a transaction and of transactions of a block. `PoolInv` says that every
pool of the state, and of the state before each block, has reserves and its locked shares
(`PoolOk`), and that the mempool's view has kept the worth of the state's pools: what a
block commits is what the view held, by `CoinbaseAhead`. It was checked by TLC on the
instance of the run `Ledger` before it was proved.

*Money.* `SumFunction` folds a finite set in the order in which `CHOOSE` takes its
elements. `Induction` shows that the fold exists and comes to the same in any order, so
an element may be taken out of a sum (`SumTaken`), sums of disjoint sets add up
(`SumUnion`) and a sum may be renamed (`SumRenamed`, for the inputs of a transaction and
the outpoints of its outputs). A view is then seen as the state it would be committed as
(`ViewNow`), which a transaction changes by its inputs, its outputs and its operations
(`AppliedNow`). A state is `Balanced` when its coins are of assets there are, what coins
and pool hold of a token is what was created, and what is outstanding of a pool's shares
is what the pool counts. Within a transaction this need not hold between two operations:
the first may give what only the next takes. `Books` therefore says after each operation
what the coins would hold of each asset if they were settled there (`Owned`: the coins
before, plus what the operations so far have given, less what they have taken), which
may be negative: with the tokens and pools of that moment the books of tokens
(`TokenBooks`), of shares (`PoolBooks`) and of QNT (`QntBooks`) are right. Each kind of
operation keeps them (`BooksCreate`, `BooksPool`, `BooksAsIs`), hence any number does
(`RunBooks`). At the end the balance rule makes what the coins hold of each asset other
than QNT what the books say (`CoinsMoved`, `BooksEnd`), and what is lost of QNT is the
fee (`AppliedBalances`). That the balance rule covers every asset matters here: an asset
the rule does not see is neither spent nor paid. The limits `Conserved` states for pools
and coins follow at that end and not before: a pool may hold more of a token between two
operations than there is of it, as in a transaction of the run.

`MoneyInv` has a part for the chain and one for the mempool. `ChainSums`: the state and
the states before each block are balanced, block `i` added what its coinbase pays less
its fees, which while its sum does not wrap is no more than the emission allows
(`BlockSums`), and `supply_` is the sum modulo the width. `PendingSums`: the mempool's
view is balanced too, and the fees a block would collect, its coinbase applied first,
are what the pending transactions have lost. `Conserved` follows by induction on the
height (`BlocksAdded`). The limit on the coinbase is that of the cache, so `CacheOk` is
needed (`ConnectBalances`); a block taken back restores a state known to be balanced, by
`ChainOk`. That a transaction makes no coin there is already comes from its id, which in
the model is its height and position. The invariant was checked by TLC on the instance
of the run `Ledger` before it was proved. `TokensApart` is a hypothesis for the same
reason as `SharesApart`. The wallet's transactions are among those the lemmas are about:
they have one operation at most, of the shape that is read from a message (`PlanShape`,
`PlanOps`).

*BlockSync.* `Inv` adds to `DownloadsSound` what can be on a stream: no block above the
best header, since only blocks of known headers are asked for. `Asked` relates requests,
streams and peers with no mention of variables, so that it can be said of what a handler
has in hand before it ends in `request_blocks`; `RequestKeeps` shows once that this end
keeps it, whichever of its three ways it goes. The loop that asks for blocks is a fold
over the heights of the window, whose turns stay in the set `Grown`: a height is asked
once, of a connected peer with a free slot, and its answer is put on that peer's stream
(`RepliesAnswer`). No connected peer has timed out more than `MaxStalls` times, which
bounds the counter.

*Connections.* `Inv` speaks of a connection from both ends: which messages can be under
way given the state of each end (`Handshake`, `Distinct`), that a live end belongs to
the present run of its node (`Alive`), that no two ends of a node that have heard a
version belong to one peer (`Links`), that a banned peer has only connections the
operator dialled (`Barred`) and that inbound ends are counted (`Admitted`). The steps
that only lose, mark or advance connections are shown once, as `LosesKeeps`,
`QuietKeeps` and `SpeaksKeeps`.

*LightClient.* `LInv` says what can be on a stream: linked headers and proofs that
fit, in whatever order they are read. `WorkIsKept` needs that the work of a chain is
the work of its parts (`SumConcat`). For the coins, `SInv` says of every peer that
was not given up since it was connected: the only answer about coins on its stream is
the one waited for, and it names all that the peer has had pending since the refresh began
(`AnswersInv`); once it has been asked, that is among the coins collected as pending
(`CollectedInv`). A late answer breaks the first, hence the exception.

Induction: the library's induction theorems take an operator as parameter, which the
installed provers cannot instantiate. Where the proofs need induction on numbers they
use the least counterexample (`LeastNumber`, from the well-foundedness of the order
on the naturals), which is enough to show that a recursive function over a range is
defined and what it computes (`SumExists`, `SumConcat`, `FoldExists`,
`PrefixIsAncestry`, and for all folds over sequences `Induction`). The operators of the
modules proved about are therefore folds written as recursive functions whose step has
a name (`KeptNext`, `PointRead`, `FilterNext`).

Only model-checked:

* Liveness (`Converges`, `NodeStops`, `KeepsMining`, `Synced`, `HandshakesEnd`,
  `CallsEnd`): out of the prover's reach.
* `CommitmentsChecked` with crashes (section 4).
* `BuildsValid` of `Ledger`: what a wallet selects is the end of a search over its coins
  in order of size, and what it is to be worth depends on every rule of the ledger.

## 6. Not modelled

* Chainstate: archive mode (`-noprune`); failed or torn appends to `headers.dat` and
  `blocks.dat` (`load` truncates torn records); a crash inside `connect_block`,
  between the undo file and the end of the call (the undo file is written again when
  the block is connected again); the limit of 1,000,000 rounds in
  `activate_best_chain`; the address index and statistics; the skip list behind
  `ancestor` (taken as its result).
* Header rules (time, difficulty, version): one constant per block. Difficulty is
  arithmetic over 256-bit targets, which TLC's integers cannot hold.
* Ledger: signatures and witness sizes, `lock_height`, names of tokens,
  `amm_quote_in`.
* P2P: relay of transactions, announcements other than headers, LAN beacons, queries of
  light clients, rate limits. DHT, UPnP and sockets appear as the events they cause.
* Wallet: keys and look-ahead, the sealed file, contacts. Node: opening or creating a
  wallet while it runs.
* Miner: counters and hash rate.
* Encodings, hashing, signatures, mnemonics, the HTTP server and the command-line
  programs: no state that the properties tell apart.

## 7. Plan

1. Proofs: `BuildsValid`, from what the coin selection returns.
2. `WalletKeys`: issued keys, look-ahead and restoring from the seed.
3. Relay of transactions between nodes, composed with `Connections` and `Mempool`.

## 8. Running

    tlc -workers 2 -config Reorg.cfg MCChainstate
    tlc -workers 2 -config Node.cfg MCNode
    tlapm ChainstateProofs.tla        # and MinerProofs, BlockSyncProofs, ConnectionsProofs, LightClientProofs
    tlapm LedgerProofs.tla            # and NodeProofs, Induction
