------------------------------- MODULE Ledger --------------------------------
(***************************************************************************)
(* The ledger of the active chain: wallets make transactions (TxBuilder),  *)
(* the mempool and connect_block apply them (LedgerView), connect_block    *)
(* and disconnect_tip of chain/chainstate.cpp commit them and take them    *)
(* back, and the coinbase is limited by the emission (Emission).           *)
(*                                                                         *)
(* A transaction's id is <<height, position>>: pending transactions are    *)
(* mined in the next block, and a disconnected block leaves no coin of its *)
(* own.  (Which transactions return to the pool is in module Mempool.)     *)
(***************************************************************************)
EXTENDS TxBuilder, Emission

CONSTANTS
    Me, You,          \* the owner of the wallet; everybody else
    Foreign,          \* transactions others make, with several operations: a set
    CoinbaseValues,   \* outputs of blocks that others mine: a set of sequences
    Sums, Supplies,   \* amounts asked for; token supplies
    Heights,          \* heights asked for by getemission
    MaxHeight, MaxPending, MaxTxs, MaxTokens   \* bounds

ASSUME HeightsAssumption == Heights \subseteq Nat /\ MaxHeight \in Nat /\ MaxPending \in Nat
ASSUME ForeignAssumption == \A tx \in Foreign : TxRead(tx)
ASSUME CoinbaseAssumption == CoinbaseValues \subseteq Seq(Nat)

VARIABLES
    state,     \* utxo_, tokens_, pools_ of Chainstate
    supply,    \* supply_
    chain,     \* active blocks: [txs, fees, undo], and before: the state before
    pending,   \* the mempool
    view       \* its view of the state after them

vars == <<state, supply, chain, pending, view, emission>>

Height == Len(chain)
Txid(i) == <<Height + 1, i>>
Coinbase(values, owner) ==
    [id |-> Txid(0), ins |-> <<>>, ops |-> <<>>, outs |-> [i \in DOMAIN values |-> Pay(owner, QNT, values[i])]]

\* Several transactions applied in turn, with the sum of their fees.
AppliedNext(p, tx, height) == [view |-> Applied(p.view, tx, height), fees |-> p.fees + Fee(p.view, tx)]
AppliedAll(v, txs, height) ==
    LET f[i \in 0..Len(txs)] ==
          IF i = 0 THEN [view |-> v, fees |-> 0] ELSE AppliedNext(f[i - 1], txs[i], height)
    IN f[Len(txs)]

Init ==
    /\ state = [coins |-> <<>>, tokens |-> <<>>, pools |-> <<>>]
    /\ supply = 0 /\ chain = <<>> /\ pending = <<>>
    /\ view = NewView(state) /\ EmissionInit

(***************************************************************************)
(* Transactions                                                            *)
(***************************************************************************)
Mature(c) == c.coinbase => Height + 1 >= c.height + COINBASE_MATURITY
Locked(o) == \E i \in DOMAIN pending : o \in Range(pending[i].ins)
Spendable == [o \in {x \in DOMAIN state.coins : /\ state.coins[x].out.owner = Me
                                                /\ ~ Locked(x) /\ Mature(state.coins[x])} |-> state.coins[o]]

WithId(tx) == [id |-> Txid(Len(pending) + 1), ins |-> tx.ins, ops |-> tx.ops, outs |-> tx.outs]
Accepted(tx) == check_tx_basic(tx) /\ Applies(view, tx, Height + 1)

\* Mempool::accept of one more.
Accept(tx) ==
    /\ Accepted(tx)
    /\ pending' = Append(pending, tx) /\ view' = Applied(view, tx, Height + 1)
    /\ UNCHANGED <<state, supply, chain, emission>>

Tokens == DOMAIN state.tokens \union DOMAIN view.tokens
Held == {state.coins[o].out.asset : o \in DOMAIN state.coins}

\* Every plan the wallet can be asked for.
Payments == UNION {create_tx(You, a, n, less) : a \in Held, n \in Sums, less \in BOOLEAN}
NewTokens == IF Cardinality(Tokens) < MaxTokens THEN UNION {create_token(n) : n \in Supplies} ELSE {}
Swaps(t) == UNION {swap(PoolOf(view, t), t, sell, n, slip) : sell \in BOOLEAN, n \in Sums, slip \in {0, 1}}
Deposits(t) == UNION {add_liquidity(PoolOf(view, t), t, q, k) : q \in Sums, k \in Sums}
Withdrawals(t) == UNION {remove_liquidity(PoolOf(view, t), t, n) : n \in Sums}
Plans ==
    Payments \union create_sweep(You) \union send_message(Me, You) \union NewTokens
      \union UNION {Swaps(t) \union Deposits(t) \union Withdrawals(t) : t \in Tokens}

Room == /\ Height < MaxHeight /\ Len(pending) < MaxPending
        /\ Sum(chain, LAMBDA b : Len(b.txs) - 1) + Len(pending) < MaxTxs

SendPlan(plan) ==
    LET b == build(Me, Spendable, plan) IN Room /\ b.ok /\ Accept(WithId(b.tx))

\* Somebody passes on a coin that is still pending, less or more than it is.
PassOn(o, d) ==
    LET c == CoinOf(view, o).out IN
    /\ Room /\ HasCoin(view, o) /\ c.owner = You
    /\ Accept(WithId([ins |-> <<o>>, ops |-> <<>>, outs |-> <<Pay(You, c.asset, c.value + d)>>]))

\* A transaction of somebody else's, from a peer or a block.
ForeignTx(tx) == Room /\ Accept(WithId(tx))

(***************************************************************************)
(* Blocks                                                                  *)
(***************************************************************************)
UndoOf(v) == [spent |-> v.spentBase, poolsBefore |-> v.poolsBefore, tokens |-> DOMAIN v.tokens]

\* set_pool for each: a pool that did not exist is erased.
PoolsSet(pools, new) ==
    LET gone == {t \in DOMAIN new : new[t] = NoPool} IN Without(Over(pools, new), gone)

Committed(st, v) ==
    [coins |-> Over(Without(st.coins, DOMAIN v.spentBase), v.created),
     tokens |-> Over(st.tokens, v.tokens), pools |-> PoolsSet(st.pools, v.pools)]

\* Outputs spent in the block itself are not there; spend_coin ignores them.
Made(txs) == UNION {{<<txs[i].id, n>> : n \in DOMAIN txs[i].outs} : i \in DOMAIN txs}
Reverted(st, txs, u) ==
    [coins |-> Over(Without(st.coins, Made(txs)), u.spent),
     tokens |-> Without(st.tokens, u.tokens), pools |-> PoolsSet(st.pools, u.poolsBefore)]

CoinsIn(st, a) == Sum(st.coins, LAMBDA c : IF c.out.asset = a THEN c.out.value ELSE 0)
QntIn(st) == CoinsIn(st, QNT) + Sum(st.pools, LAMBDA p : p.qnt)

\* supply_ is adjusted with every coin and pool that comes or goes.
SupplyAfter(new) == Wrap(supply + QntIn(new) - QntIn(state))

PaysTooMuch(cb, fees) == total_qnt_out(cb) > block_subsidy(emission, Height + 1) + fees

\* connect_block, with the coinbase of create_block_template or of another miner.
ConnectBlock(values, owner) ==
    LET cb == Coinbase(values, owner)
        run == AppliedAll(apply_coinbase(NewView(state), cb, Height + 1), pending, Height + 1)
    IN /\ Height < MaxHeight
       /\ check_tx_basic(cb) /\ ~ PaysTooMuch(cb, run.fees)
       /\ state' = Committed(state, run.view)
       /\ supply' = SupplyAfter(state')
       /\ chain' = Append(chain, [txs |-> <<cb>> \o pending, fees |-> run.fees,
                                  undo |-> UndoOf(run.view), before |-> state])
       /\ pending' = <<>> /\ view' = NewView(state')
       /\ emission' = Reached(emission, Height)

MineBlock ==
    LET fees == AppliedAll(NewView(state), pending, Height + 1).fees
    IN ConnectBlock(<<block_subsidy(emission, Height + 1) + fees>>, Me)

OthersBlock == \E values \in CoinbaseValues : ConnectBlock(values, You)

DisconnectTip ==
    LET b == Last(chain) IN
    /\ Height > 0
    /\ state' = Reverted(state, b.txs, b.undo)
    /\ supply' = SupplyAfter(state')
    /\ chain' = Front(chain)
    /\ pending' = <<>> /\ view' = NewView(state')
    /\ UNCHANGED emission

\* rpc getemission, for any height (bound: before the first block).
GetEmission(h) ==
    /\ Height = 0
    /\ emission' = Reached(emission, h)
    /\ UNCHANGED <<state, supply, chain, pending, view>>

Next ==
    \/ \E plan \in Plans : SendPlan(plan)
    \/ \E o \in DOMAIN view.created, d \in {-1, 0, 1} : PassOn(o, d)
    \/ \E tx \in Foreign : ForeignTx(tx)
    \/ MineBlock \/ OthersBlock \/ DisconnectTip
    \/ \E h \in Heights : GetEmission(h)

Spec == Init /\ [][Next]_vars

(***************************************************************************)
(* Properties                                                              *)
(***************************************************************************)
MintedBy(b) == ValueIn(b.txs[1].outs, QNT)
Minted == Sum(chain, MintedBy)

\* The shape of the state: amounts are in range, pools are never empty and
\* keep their locked shares, so no subtraction of the ledger goes below zero.
TypeOK ==
    /\ \A o \in DOMAIN state.coins : state.coins[o].out.value \in 1..AmountLimit - 1
    /\ \A t \in DOMAIN state.pools : LET p == state.pools[t] IN
          p.qnt \in 1..MAX_MONEY /\ p.tok \in 1..MAX_TOKEN_SUPPLY /\ p.shares \in MIN_LIQUIDITY..MAX_TOKEN_SUPPLY
    /\ supply \in 0..AmountLimit - 1 /\ Height \in 0..MaxHeight
    /\ Len(pending) <= MaxPending /\ DOMAIN state.pools \subseteq DOMAIN state.tokens

\* Nothing is created or lost between coins, pools and fees: the QNT of coins
\* and pools is what coinbases paid less the fees they could collect, and the
\* tokens and the shares outstanding are what was created (ledger.cpp:266).
\* Fees are collected at most once: while no coinbase sum wraps, the chain holds
\* no more than has been issued (chainstate.cpp:774).
SumsExact == \A i \in DOMAIN chain : MintedBy(chain[i]) < AmountLimit
Conserved ==
    /\ TypeOK
    /\ SumsExact => QntIn(state) <= IssuedBy[Height]
    /\ QntIn(state) = Minted - Sum(chain, LAMBDA b : b.fees)
    /\ Wrap(QntIn(state)) = supply
    /\ \A t \in DOMAIN state.tokens :
          CoinsIn(state, t) + (IF t \in DOMAIN state.pools THEN state.pools[t].tok ELSE 0) = state.tokens[t]
    /\ \A t \in DOMAIN state.pools : CoinsIn(state, ShareId(t)) + MIN_LIQUIDITY = state.pools[t].shares

\* No sequence of swaps, deposits and withdrawals takes value out of a pool:
\* the product of the reserves per share squared never falls, whatever is
\* rounded away, and the first deposit gets no more shares than it is worth
\* (ledger.cpp:23-70).
Worth(p) == p.qnt * p.tok
Squared(n) == n * n
KeepsWorth(old, new) == Worth(old) * Squared(new.shares) <= Worth(new) * Squared(old.shares)
PoolsKeepWorth ==
    [][Height' >= Height => \A t \in DOMAIN state'.pools :
         LET new == state'.pools[t] IN
         IF t \in DOMAIN state.pools
         THEN KeepsWorth(state.pools[t], new)
         ELSE Squared(new.shares) <= Worth(new)]_vars

\* Disconnecting a block gives the state before it back exactly: coins created
\* and spent in it, pools touched by several of its transactions, tokens
\* (chainstate.cpp:776, :800).
UndoExact == [][DisconnectTip => state' = Last(chain).before]_vars

\* Whatever the wallet builds for the coins and pools of the moment, the ledger
\* accepts, but for a transaction that is left without outputs or a pool that
\* would grow too large (wallet.cpp:487 and ledger.cpp:84, :184).
TooLarge(tx) == \E i \in DOMAIN tx.ops : OnPool(tx.ops[i]) /\ Of(tx.ops[i].in, QNT) + QntIn(state) > MAX_MONEY
BuildsValid ==
    \A plan \in Plans : LET b == build(Me, Spendable, plan) IN
        b.ok => b.tx.outs = <<>> \/ Accepted(WithId(b.tx)) \/ TooLarge(b.tx)

\* What has been issued by a height does not depend on which heights were asked
\* for before, in whatever order: the cached checkpoints, the tail found on the
\* way and the linear formula agree with the curve (params.cpp:28).
EmissionKept == \A h \in 0..MaxHeight + STEP : issued_through(emission, h) = IssuedBy[h]

\* "reward = max(TAIL_SUBSIDY, (EMISSION_CURVE - issued) >> EMISSION_SPEED)"
\* (limits.h:17): the chain holds no more than has been issued.
SupplyWithinEmission == QntIn(state) <= IssuedBy[Height]
====
