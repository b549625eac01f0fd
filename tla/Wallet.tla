------------------------------- MODULE Wallet --------------------------------
(***************************************************************************)
(* wallet/wallet.cpp: coins and history of the wallet of a full node, with *)
(* the callbacks the node passes on (node/node.cpp).  A wallet is a record *)
(* [coins, hist, synced], so that the file is one too: coins maps a coin   *)
(* to [height, locked] and hist a transaction to [height, delta].  Keys    *)
(* are left out: a coin is ours or not.                                    *)
(***************************************************************************)
EXTENDS BlockTree, Functions, FiniteSetsExt

VARIABLES wallet, walletFile
walletVars == <<wallet, walletFile>>

Over(f, g) == [x \in DOMAIN f \union DOMAIN g |-> IF x \in DOMAIN g THEN g[x] ELSE f[x]]
Worth(S) == MapThenSumSet(Value, S)
OwnOuts(t) == {c \in OutCoins(t) : Mine(c)}

ProcessTx(w, t, h) ==
    LET spent == Ins[t] \intersect DOMAIN w.coins
        rest == IF h < 0 THEN [c \in DOMAIN w.coins |-> [w.coins[c] EXCEPT !.locked = @ \/ c \in spent]]
                ELSE Restrict(w.coins, DOMAIN w.coins \ spent)
        entry == [height |-> h, delta |-> Worth(OwnOuts(t)) - Worth(spent)]
    IN [w EXCEPT !.coins = Over(rest, [c \in OwnOuts(t) |-> [height |-> h, locked |-> FALSE]]),
                 !.hist = IF spent \union OwnOuts(t) = {} THEN @
                          ELSE Over(@, [x \in {t} |-> entry])]

\* A sequence of transactions, all at height h.
ProcessAll(w, ts, h) ==
    LET f[i \in 0..Len(ts)] == IF i = 0 THEN w ELSE ProcessTx(f[i - 1], ts[i], h)
    IN f[Len(ts)]

BlockConnected(w, b) == [ProcessAll(w, TxsOf[b], Height(b)) EXCEPT !.synced = b]

\* Only the history goes back; the coins are put right on the next tip.
BlockDisconnected(w, b) ==
    [w EXCEPT !.synced = Parent[b],
              !.hist = [t \in {x \in DOMAIN @ : ~ (x \in TxSet(b) /\ Coinbase(x))} |->
                           IF t \in TxSet(b) THEN [@[t] EXCEPT !.height = -1] ELSE @[t]]]

\* on_added of the mempool: transactions that touch the wallet are recorded as
\* unconfirmed, each on the wallet the one before has left.
Touches(w, t) == OwnOuts(t) # {} \/ Ins[t] \intersect DOMAIN w.coins # {}
RecordedNext(w, t) == IF Touches(w, t) THEN ProcessTx(w, t, -1) ELSE w
Recorded(w, ts) ==
    LET f[i \in 0..Len(ts)] == IF i = 0 THEN w ELSE RecordedNext(f[i - 1], ts[i])
    IN f[Len(ts)]

\* The coins of the wallet according to the chain and the pool.
TrueCoins(tip, pool, spent) ==
    LET chained == {c \in Coins[tip] : Mine(c)}
        pending == UNION {OwnOuts(pool[i]) : i \in DOMAIN pool}
    IN [c \in chained \union pending |->
           [height |-> IF c \in chained THEN TxHeight(c[1], tip) ELSE -1, locked |-> c \in spent]]

\* Keeps the coins of pending transactions as they were.
RefreshedChained(w, tip, pool, spent) ==
    [w EXCEPT !.coins = Over(@, TrueCoins(tip, <<>>, spent))]

\* wallet_refresh_coins.
Refreshed(w, tip, pool, spent) == [w EXCEPT !.coins = TrueCoins(tip, pool, spent)]

Spendable(w, tip) ==
    {c \in DOMAIN w.coins : ~ w.coins[c].locked /\ MatureAt(c, w.coins[c].height, tip)}

\* The blocks of a path, connected in turn.
AllConnected(w, path) ==
    LET f[i \in 0..Len(path)] == IF i = 0 THEN w ELSE BlockConnected(f[i - 1], path[i])
    IN f[Len(path)]
ConnectedFrom(first, w, tip) == AllConnected(w, SubSeq(Chain(tip), first, Len(Chain(tip))))

\* Trusts the height the wallet was saved at.
CaughtUpBlind(w, tip) == ConnectedFrom(Height(w.synced) + 2, w, tip)

\* wallet_catch_up: the blocks above the one the wallet was saved at, or all
\* of them if that block is no longer in the active chain.
CaughtUp(w, tip) ==
    ConnectedFrom(IF IsAncestor(w.synced, tip) THEN Height(w.synced) + 2 ELSE 1, w, tip)

\* create_wallet at the genesis block.
NewWallet == BlockConnected([coins |-> <<>>, hist |-> <<>>, synced |-> Genesis], Genesis)
WalletInit == wallet = NewWallet /\ walletFile = NewWallet
====
