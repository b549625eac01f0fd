-------------------------------- MODULE Node ---------------------------------
(***************************************************************************)
(* The node (node/node.cpp): the mempool, the wallet and the indexes hang  *)
(* on the callbacks of one chainstate, in the order in which they were     *)
(* registered.  The chainstate is reduced to what its listeners see: the   *)
(* steps of activate_best_chain, each with its callback, on_tip at the end *)
(* if the tip has changed (module Chainstate has the whole of it).  Every  *)
(* step happens under cs.mu, and an activation is never interrupted by     *)
(* another thread, only by a crash.                                        *)
(***************************************************************************)
EXTENDS Mempool, Wallet, ChainIndexes

CONSTANTS None, MaxRestarts, MaxFaults   \* bounds: restarts, failures of files

ASSUME NodeAssumption == None \notin Block /\ MaxRestarts \in Nat /\ MaxFaults \in Nat

VARIABLES
    mode,         \* "up", "loading" (Chainstate::load inside Node::start) or "down"
    tip, known, failed, candidates,
    flushed,      \* the tip of utxo.dat
    from, cand,   \* activation: tip at its start, candidate; None
    cut,          \* the activation was given up: a block or its undo data is missing
    told,         \* history: the last activation ended with on_tip, if it moved
    restarts, faults,
    torn          \* history: a crash came during a load, or with utxo.dat on a block
                  \* no longer in the chain

chainVars == <<mode, tip, known, failed, candidates, flushed, from, cand, cut, told,
               restarts, faults, torn>>
vars == <<poolVars, walletVars, indexVars, chainVars>>

Idle == mode = "up" /\ from = None
Running == mode = "up"

Best == {b \in candidates : \A x \in candidates : Height(x) <= Height(b)}

Init ==
    /\ PoolInit /\ WalletInit /\ IndexInit
    /\ mode = "up" /\ tip = Genesis /\ known = {Genesis} /\ failed = {}
    /\ candidates = {Genesis} /\ flushed = Genesis /\ from = None /\ cand = None
    /\ cut = FALSE /\ told = TRUE /\ restarts = 0 /\ faults = 0 /\ torn = FALSE

\* accept_block: a peer's block, or the miner's own.
ReceiveBlock(b) ==
    /\ Idle /\ b \notin known \union failed /\ Parent[b] \in known
    /\ known' = known \union {b} /\ candidates' = candidates \union {b}
    /\ from' = tip /\ cut' = FALSE
    /\ UNCHANGED <<poolVars, walletVars, indexVars, mode, tip, failed, flushed, cand, told,
                   restarts, faults, torn>>

\* accept_block: the missing witness of a stored block.
ReceiveWitness ==
    /\ Idle /\ \E b \in candidates : Height(b) > Height(tip)
    /\ from' = tip /\ cut' = FALSE
    /\ UNCHANGED <<poolVars, walletVars, indexVars, mode, tip, known, failed, candidates, flushed,
                   cand, told, restarts, faults, torn>>

SelectCandidate(b) ==
    /\ from # None /\ cand = None /\ ~ cut
    /\ b \in Best /\ Height(b) > Height(tip)
    /\ cand' = b
    /\ UNCHANGED <<poolVars, walletVars, indexVars, mode, tip, known, failed, candidates, flushed,
                   from, cut, told, restarts, faults, torn>>

DisconnectTip ==
    /\ cand # None /\ ~ IsAncestor(tip, cand)
    /\ tip' = Parent[tip]
    /\ PoolDisconnect(tip)
    /\ wallet' = IF Running THEN BlockDisconnected(wallet, tip) ELSE wallet
    /\ IndexDisconnect(tip)
    /\ UNCHANGED <<walletFile, mode, known, failed, candidates, flushed, from, cand, cut, told,
                   restarts, faults, torn>>

NextBlock == Chain(cand)[Height(tip) + 2]

\* utxo.dat is written every so many blocks.
ConnectBlock ==
    /\ cand # None /\ IsAncestor(tip, cand) /\ NextBlock \notin Bad
    /\ tip' = NextBlock
    /\ PoolConnect(NextBlock)
    /\ wallet' = IF Running THEN BlockConnected(wallet, NextBlock) ELSE wallet
    /\ IndexConnect(NextBlock, Running)
    /\ flushed' \in {flushed, NextBlock}
    /\ cand' = IF NextBlock = cand THEN None ELSE cand
    /\ UNCHANGED <<walletFile, mode, known, failed, candidates, from, cut, told, restarts, faults, torn>>

FileFails == faults < MaxFaults /\ faults' = faults + 1

\* disconnect_tip or connect_block cannot go on for want of data: the activation
\* ends where it is.
GiveUp ==
    /\ FileFails /\ cut' = TRUE /\ cand' = None
    /\ UNCHANGED <<poolVars, walletVars, indexVars, mode, tip, known, failed, candidates, flushed,
                   from, told, restarts, torn>>

AbortReorg == cand # None /\ ~ IsAncestor(tip, cand) /\ GiveUp
StallOnBlock == cand # None /\ IsAncestor(tip, cand) /\ GiveUp

MarkFailed(n) ==
    /\ failed' = failed \union {b \in Block : IsAncestor(n, b)}
    /\ candidates' = {b \in candidates : ~ IsAncestor(n, b)}
    /\ cand' = None
    /\ UNCHANGED <<poolVars, walletVars, indexVars, mode, tip, known, flushed, from, cut, told,
                   restarts, torn>>

RejectBlock ==
    /\ cand # None /\ IsAncestor(tip, cand) /\ NextBlock \in Bad
    /\ MarkFailed(NextBlock) /\ UNCHANGED faults

\* A valid block counts as failed if its undo file cannot be written.
UndoNotWritten ==
    /\ cand # None /\ IsAncestor(tip, cand) /\ NextBlock \notin Bad
    /\ MarkFailed(NextBlock) /\ FileFails

\* Does not look for another candidate when one has failed.
ActivatedOnce ==
    /\ from # None /\ cand = None
    /\ cut \/ failed # {} \/ \A b \in candidates : Height(b) <= Height(tip)

Activated ==
    /\ from # None /\ cand = None
    /\ cut \/ \A b \in candidates : Height(b) <= Height(tip)

\* Those that can no longer win are dropped, for as long as the process runs.
CandidatesKept == {b \in candidates : Height(b) >= Height(tip)}

\* Transactions that entered the pool in this step.
NewInPool == Filter(order', Tx \ Range(order))

\* on_tip: the mempool, with on_added for every transaction it takes back, then
\* the wallet's coins, and its file at most once a minute (tx_broadcast always).
NewTip ==
    /\ Activated /\ tip # from
    /\ PoolTip(tip)
    /\ IF Running
       THEN LET w == Recorded(wallet, NewInPool)
            IN /\ wallet' = Refreshed(w, tip, order', PoolSpends(order'))
               /\ walletFile' \in {wallet', IF w = wallet THEN walletFile ELSE w}
       ELSE UNCHANGED walletVars
    /\ from' = None /\ told' = TRUE /\ candidates' = CandidatesKept
    /\ UNCHANGED <<indexVars, mode, tip, known, failed, flushed, cand, cut, restarts, faults, torn>>

\* The old tip is still there, or there again: nobody is told.
SameTip ==
    /\ Activated /\ tip = from
    /\ from' = None
    /\ told' = (told /\ ~ dirty) /\ candidates' = CandidatesKept
    /\ UNCHANGED <<poolVars, walletVars, indexVars, mode, tip, known, failed, flushed, cand, cut,
                   restarts, faults, torn>>

\* A transaction from a peer or another program.
SubmitTx(t) ==
    /\ Idle /\ ~ InPool(t) /\ ~ Coinbase(t)
    /\ PoolAccept(tip, t)
    /\ LET w == Recorded(wallet, NewInPool)
       IN wallet' = w /\ walletFile' = IF w = wallet THEN walletFile ELSE w
    /\ UNCHANGED <<indexVars, chainVars>>

\* send and broadcast: built from spendable coins; on_added and then broadcast
\* itself record it, and the wallet is saved.
SendTx(t) ==
    /\ Idle /\ ~ InPool(t) /\ Ins[t] # {} /\ Ins[t] \subseteq Spendable(wallet, tip)
    /\ PoolAccept(tip, t)
    /\ LET w == IF NewInPool = <<>> THEN wallet ELSE ProcessTx(Recorded(wallet, NewInPool), t, -1)
       IN wallet' = w /\ walletFile' = IF w = wallet THEN walletFile ELSE w
    /\ UNCHANGED <<indexVars, chainVars>>

(***************************************************************************)
(* Stop, crash, start                                                      *)
(***************************************************************************)
MemoryLost ==
    /\ mode' = "down" /\ from' = None /\ cand' = None /\ restarts' = restarts + 1
    /\ candidates' = {} /\ cut' = FALSE
    /\ order' = <<>> /\ readd' = <<>> /\ dirty' = FALSE
    /\ UNCHANGED <<indexVars, tip, known, failed, told, faults>>

Stop ==
    /\ Idle /\ restarts < MaxRestarts
    /\ MemoryLost
    /\ flushed' = tip /\ walletFile' = wallet /\ UNCHANGED <<wallet, torn>>

Crash ==
    /\ mode # "down" /\ restarts < MaxRestarts
    /\ MemoryLost
    /\ torn' = (torn \/ mode = "loading" \/ ~ IsAncestor(flushed, tip))
    /\ UNCHANGED <<flushed, walletVars>>

\* The indexes are read, and the chain is activated from utxo.dat with the
\* index files and the wallet closed.
Start ==
    /\ mode = "down"
    /\ mode' = "loading" /\ tip' = flushed /\ from' = flushed
    /\ failed' = {} /\ candidates' = known
    /\ IndexLoad
    /\ UNCHANGED <<poolVars, walletVars, known, flushed, cand, cut, told, restarts, faults, torn>>

Started ==
    /\ mode = "loading" /\ from = None
    /\ mode' = "up"
    /\ IndexCompact(tip)
    /\ wallet' = Refreshed(CaughtUp(walletFile, tip), tip, order, PoolSpends(order))
    /\ walletFile' = wallet' /\ told' = TRUE
    /\ UNCHANGED <<poolVars, tip, known, failed, candidates, flushed, from, cand, cut, restarts,
                   faults, torn>>

Next ==
    \/ \E b \in Block : ReceiveBlock(b) \/ SelectCandidate(b)
    \/ ReceiveWitness \/ DisconnectTip \/ AbortReorg
    \/ ConnectBlock \/ StallOnBlock \/ RejectBlock \/ UndoNotWritten
    \/ NewTip \/ SameTip
    \/ \E t \in Tx : SubmitTx(t) \/ SendTx(t)
    \/ Stop \/ Crash \/ Start \/ Started

Spec == Init /\ [][Next]_vars

(***************************************************************************)
(* Properties                                                              *)
(***************************************************************************)
\* The shape of the state; the pool holds no transaction twice and no more
\* than it may.
TypeOK ==
    /\ order \in Seq(Tx) /\ Len(order) <= MaxPool /\ Cardinality(Range(order)) = Len(order)
    /\ readd \in Seq(Tx) /\ dirty \in BOOLEAN
    /\ mode \in {"up", "loading", "down"} /\ told \in BOOLEAN
    /\ {tip, flushed} \subseteq known /\ known \subseteq Block /\ failed \subseteq Block
    /\ candidates \subseteq known /\ {from, cand} \subseteq Block \union {None}
    /\ restarts \in 0..MaxRestarts /\ faults \in 0..MaxFaults /\ {cut, torn} \subseteq BOOLEAN
    /\ wallet.synced \in known

\* Between activations the pending transactions can all be applied, in order of
\* arrival, on the tip: after any reorganisation, conflict or load; a template
\* takes them all.  (mempool.h: "all valid when applied in this order")
PoolApplies == TypeOK /\ (Idle /\ ~ dirty => select_for_block(tip) = order)

\* A transaction that a reorganisation takes out of the chain is pending
\* afterwards, unless the new chain has it or a conflict, it depends on another
\* one that is not confirmed, the pool does not take its like, or is full, or a
\* reorganisation given up half way has left the tip too low for the coinbase it
\* spends (mempool.cpp:16-28).
Displaced == UNION {Range(Tail(TxsOf[b])) : b \in Ancestors(from) \ Ancestors(tip)}
Retaken(t) ==
    \/ t \in Range(order') \/ TxHeight(t, tip) >= 0
    \/ t \notin Standard \/ Len(order') = MaxPool
    \/ \E c \in Ins[t] : c \notin Coins[tip] \/ c \in PoolSpends(order')
    \/ Height(tip) < Height(from) /\ \E c \in Ins[t] : ~ MatureAt(c, TxHeight(c[1], tip), tip)
NothingDropped == [][NewTip => \A t \in Displaced : Retaken(t)]_vars

\* Whenever the listeners have been told of the tip, the wallet's coins are
\* exactly the unspent ones of the chain and the pool, locked if the pool spends
\* them: through reorganisations, restarts and conflicts, with coins touched by
\* blocks, by on_added and by the refresh in between (node.cpp:61, :177).
CoinsMatch ==
    Idle /\ told => wallet.coins = TrueCoins(tip, order, PoolSpends(order))

\* Every transaction of the active chain that pays the wallet is in its history
\* at its height, also when the wallet was saved on a branch abandoned before
\* the restart (wallet.cpp:427, node.cpp:162).
PaymentsDated ==
    Idle => \A b \in Ancestors(tip) : \A t \in TxSet(b) :
        OwnOuts(t) # {} => t \in DOMAIN wallet.hist /\ wallet.hist[t].height = Height(b)

\* The indexes hold every point of the active chain, through reorganisations,
\* stops and crashes, unless a crash came during a load or after a
\* reorganisation that utxo.dat had not followed; until the first restart they
\* hold nothing else (node.cpp:81, :279, :355, :398).
IndexesFollow ==
    Idle => /\ ~ torn => \A k \in DOMAIN index : Range(TrueIndex[tip][k]) \subseteq Range(index[k])
            /\ restarts = 0 => index = TrueIndex[tip]

\* What the listeners are shown of the chain: nothing while the node is down or
\* loading, the old tip while an activation is under way.
Shown == IF mode # "up" THEN None ELSE IF from # None THEN from ELSE tip
Promise == INSTANCE ChainView WITH shown <- Shown, live <- candidates

\* The node keeps the promise of ChainView: step by step undone and connected
\* blocks, candidates that prove invalid half way, reorganisations aborted or
\* stalled for want of data, undo files that cannot be written, crashes in
\* between and a load from an older utxo.dat show only valid tips, and a tip
\* lighter than a candidate only after such a failure of a file.  The old tip can
\* be lost to a lighter one in no other way than having been dropped itself
\* (chainstate.cpp:821-861).
KeepsPromise == Promise!Spec
====
