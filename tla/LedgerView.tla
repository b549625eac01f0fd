----------------------------- MODULE LedgerView ------------------------------
(***************************************************************************)
(* consensus/ledger.cpp: the rules for one transaction, and the overlay in *)
(* which the transactions of a block (or of the mempool) are applied.      *)
(*                                                                         *)
(* A state is [coins, tokens, pools]: functions from outpoints, token ids  *)
(* and token ids.  A token is named by the outpoint its creator spent      *)
(* first (token_id) and its pool's shares after it (pool_share_id).        *)
(* Signatures are left out: a transaction is signed by the owners.         *)
(***************************************************************************)
EXTENDS Amm, Sequences, SequencesExt

CONSTANTS
    QNT,                          \* the asset with the zero id
    NoPool,
    MAX_MONEY, MAX_TOKEN_SUPPLY,
    DUST_LIMIT, COINBASE_MATURITY, MAX_TX_OPS

ASSUME NoPoolAssumption == NoPool \notin [qnt : Nat, tok : Nat, shares : Nat]
ASSUME LimitsAssumption == MAX_MONEY \in Nat /\ MAX_TOKEN_SUPPLY \in Nat /\ MAX_MONEY <= MAX_TOKEN_SUPPLY

TokenId(o, i) == <<"token", o, i>>
ShareId(t) == <<"shares", t>>
Sum(s, F(_)) == SumFunction([i \in DOMAIN s |-> F(s[i])])
Over(f, g) == [x \in DOMAIN f \union DOMAIN g |-> IF x \in DOMAIN g THEN g[x] ELSE f[x]]
Only(f, S) == [x \in DOMAIN f \intersect S |-> f[x]]
Without(f, S) == [x \in DOMAIN f \ S |-> f[x]]

(***************************************************************************)
(* Operations.  Each names the amounts it moves; an operation on a pool    *)
(* is [type, token, in, out], in and out functions from assets.            *)
(***************************************************************************)
Flow(a, n, b, m) == [x \in {a, b} |-> IF x = a THEN n ELSE m]
One(a, n) == [x \in {a} |-> n]
OpCreateToken(supply) == [type |-> "create", supply |-> supply]
OpPoolCreate(t, q, k, s) == [type |-> "open", token |-> t, in |-> Flow(QNT, q, t, k), out |-> One(ShareId(t), s)]
OpAddLiquidity(t, q, k, s) == [type |-> "add", token |-> t, in |-> Flow(QNT, q, t, k), out |-> One(ShareId(t), s)]
OpRemoveLiquidity(t, s, q, k) == [type |-> "remove", token |-> t, in |-> One(ShareId(t), s), out |-> Flow(QNT, q, t, k)]
OpSwap(t, sell, n, m) ==
    [type |-> "swap", token |-> t, sell |-> sell,
     in |-> One(IF sell THEN t ELSE QNT, n), out |-> One(IF sell THEN QNT ELSE t, m)]
OpMessage(from, to) == [type |-> "message", from |-> from, to |-> to]

OnPool(op) == op.type \in {"open", "add", "remove", "swap"}
Amounts(f) == {f[x] : x \in DOMAIN f}
Positive == 1..AmountLimit - 1
Of(f, a) == IF a \in DOMAIN f THEN f[a] ELSE 0

\* A transaction as it is read from a message: its operations have the fields of
\* their kinds, with whatever amounts.
OpRead(op) ==
    CASE op.type = "create" -> op = OpCreateToken(op.supply)
      [] op.type = "message" -> op = OpMessage(op.from, op.to)
      [] op.type = "open" -> op = OpPoolCreate(op.token, op.in[QNT], op.in[op.token], op.out[ShareId(op.token)])
      [] op.type = "add" -> op = OpAddLiquidity(op.token, op.in[QNT], op.in[op.token], op.out[ShareId(op.token)])
      [] op.type = "remove" -> op = OpRemoveLiquidity(op.token, op.in[ShareId(op.token)], op.out[QNT], op.out[op.token])
      [] op.type = "swap" -> \/ op = OpSwap(op.token, TRUE, Of(op.in, op.token), Of(op.out, QNT))
                             \/ op = OpSwap(op.token, FALSE, Of(op.in, QNT), Of(op.out, op.token))
      [] OTHER -> FALSE
TxRead(tx) ==
    /\ tx.ins \in Seq(Range(tx.ins)) /\ tx.ops \in Seq(Range(tx.ops)) /\ tx.outs \in Seq(Range(tx.outs))
    /\ \A i \in DOMAIN tx.ops : OpRead(tx.ops[i])

\* What an operation of tx takes from, and gives to, its transaction.
Absorbs(op, a) == IF OnPool(op) THEN Of(op.in, a) ELSE 0
Releases(tx, i, a) ==
    LET op == tx.ops[i] IN
    CASE OnPool(op) -> Of(op.out, a)
      [] op.type = "create" /\ a = TokenId(tx.ins[1], i) -> op.supply
      [] OTHER -> 0

(***************************************************************************)
(* check_tx_basic                                                          *)
(***************************************************************************)
ValueIn(outs, a) == Sum(outs, LAMBDA o : IF o.asset = a THEN o.value ELSE 0)
is_coinbase(tx) == tx.ins = <<>>

\* The sum has the width of an Amount: it wraps (total_qnt_out as well).
total_qnt_out(tx) == Wrap(ValueIn(tx.outs, QNT))
SumsInRange(tx) == \A n \in DOMAIN tx.outs : Wrap(ValueIn(SubSeq(tx.outs, 1, n), QNT)) <= MAX_MONEY

OutputOk(tx, o) ==
    /\ o.value \in Positive
    /\ IF o.asset = QNT THEN (is_coinbase(tx) \/ o.value >= DUST_LIMIT) /\ o.value <= MAX_MONEY
       ELSE ~ is_coinbase(tx) /\ o.value <= MAX_TOKEN_SUPPLY

OpOk(tx, op) ==
    CASE op.type = "create" -> op.supply \in 1..MAX_TOKEN_SUPPLY
      [] op.type = "message" ->
            Wrap(ValueIn(SelectSeq(tx.outs, LAMBDA o : o.owner = op.to), QNT)) >= DUST_LIMIT
      [] op.type = "remove" ->
            /\ op.token # QNT /\ Amounts(op.in) \subseteq Positive
            /\ Amounts(op.out) \subseteq Positive \union {0} /\ Amounts(op.out) # {0}
      [] OTHER -> op.token # QNT /\ Amounts(op.in) \union Amounts(op.out) \subseteq Positive

check_tx_basic(tx) ==
    /\ Len(tx.ops) <= MAX_TX_OPS
    /\ is_coinbase(tx) => tx.ops = <<>>
    /\ ~ is_coinbase(tx) => tx.outs # <<>> /\ IsInjective(tx.ins)
    /\ \A i \in DOMAIN tx.outs : OutputOk(tx, tx.outs[i])
    /\ SumsInRange(tx)
    /\ \A i \in DOMAIN tx.ops : OpOk(tx, tx.ops[i])
    /\ Len(SelectSeq(tx.ops, LAMBDA op : op.type = "message")) <= 1

(***************************************************************************)
(* The overlay                                                             *)
(***************************************************************************)
NewView(st) ==
    [base |-> st, created |-> <<>>, spentCreated |-> {}, spentBase |-> <<>>,
     tokens |-> <<>>, pools |-> <<>>, poolsBefore |-> <<>>]

HasCoin(v, o) ==
    /\ o \notin DOMAIN v.spentBase
    /\ o \in DOMAIN v.created \/ (o \notin v.spentCreated /\ o \in DOMAIN v.base.coins)
CoinOf(v, o) == IF o \in DOMAIN v.created THEN v.created[o] ELSE v.base.coins[o]
HasToken(v, t) == t \in DOMAIN v.tokens \union DOMAIN v.base.tokens
PoolOf(v, t) ==
    IF t \in DOMAIN v.pools THEN v.pools[t]
    ELSE IF t \in DOMAIN v.base.pools THEN v.base.pools[t] ELSE NoPool

Outputs(tx, height) ==
    [o \in {<<tx.id, n>> : n \in DOMAIN tx.outs} |->
        [out |-> tx.outs[o[2]], height |-> height, coinbase |-> is_coinbase(tx)]]

apply_coinbase(v, tx, height) == [v EXCEPT !.created = Over(@, Outputs(tx, height))]

\* The amounts a pool allows, and the pool afterwards.
Allowed(pl, op) ==
    CASE op.type = "open" ->
            /\ pl = NoPool /\ op.in[QNT] <= MAX_MONEY
            /\ amm_initial_shares(op.in[QNT], op.in[op.token]) - MIN_LIQUIDITY >= op.out[ShareId(op.token)]
      [] op.type = "add" ->
            /\ pl # NoPool /\ op.out[ShareId(op.token)] <= amm_add_shares(pl, op.in[QNT], op.in[op.token])
            /\ pl.qnt + op.in[QNT] <= MAX_MONEY /\ pl.tok + op.in[op.token] <= MAX_TOKEN_SUPPLY
            /\ pl.shares + op.out[ShareId(op.token)] <= MAX_TOKEN_SUPPLY
      [] op.type = "remove" ->
            /\ pl # NoPool /\ op.in[ShareId(op.token)] <= pl.shares - MIN_LIQUIDITY
            /\ LET most == amm_remove_amounts(pl, op.in[ShareId(op.token)])
               IN op.out[QNT] <= most.qnt /\ op.out[op.token] <= most.tok
      [] op.type = "swap" /\ op.sell ->
            /\ pl # NoPool /\ op.out[QNT] < pl.qnt
            /\ op.out[QNT] <= amm_quote(op.in[op.token], pl.tok, pl.qnt)
            /\ pl.tok + op.in[op.token] <= MAX_TOKEN_SUPPLY
      [] OTHER ->
            /\ pl # NoPool /\ op.out[op.token] < pl.tok
            /\ op.out[op.token] <= amm_quote(op.in[QNT], pl.qnt, pl.tok)
            /\ pl.qnt + op.in[QNT] <= MAX_MONEY

PoolAfter(pl, op) ==
    LET was == IF pl = NoPool THEN [qnt |-> 0, tok |-> 0, shares |-> MIN_LIQUIDITY] ELSE pl
    IN [qnt |-> was.qnt + Of(op.in, QNT) - Of(op.out, QNT),
        tok |-> was.tok + Of(op.in, op.token) - Of(op.out, op.token),
        shares |-> was.shares + Of(op.out, ShareId(op.token)) - Of(op.in, ShareId(op.token))]

\* One operation on scratch copies of what the transaction has changed.
PoolUnscratched(v, s, t) == PoolOf(v, t)   \* as it was before the transaction
PoolNow(v, s, t) == IF t \in DOMAIN s.pools THEN s.pools[t] ELSE PoolOf(v, t)
Knows(v, s, t) == t \in DOMAIN s.minted \/ HasToken(v, t)
RunOp(v, tx, s, i) ==
    LET op == tx.ops[i]
        token == TokenId(tx.ins[1], i)
    IN CASE op.type = "create" ->
              [s EXCEPT !.ok = ~ Knows(v, s, token), !.minted = Over(@, One(token, op.supply))]
         [] op.type = "message" ->
              [s EXCEPT !.ok = \E k \in DOMAIN tx.ins : CoinOf(v, tx.ins[k]).out.owner = op.from]
         [] OTHER ->
              [s EXCEPT !.ok = /\ op.type = "open" => Knows(v, s, op.token)
                               /\ Allowed(PoolNow(v, s, op.token), op),
                        !.pools = Over(@, One(op.token, PoolAfter(PoolNow(v, s, op.token), op)))]

\* The operations in order; ok is FALSE at the first that is refused.
RunOps(v, tx) ==
    LET f[i \in 0..Len(tx.ops)] ==
          IF i = 0 THEN [ok |-> TRUE, pools |-> <<>>, minted |-> <<>>]
          ELSE IF f[i - 1].ok THEN RunOp(v, tx, f[i - 1], i) ELSE f[i - 1]
    IN f[Len(tx.ops)]

\* Inputs and what operations release; outputs and what they take in.
Plus(v, tx, a) ==
    LET ofIn(o) == IF CoinOf(v, o).out.asset = a THEN CoinOf(v, o).out.value ELSE 0
    IN Sum(tx.ins, ofIn) + SumFunction([i \in DOMAIN tx.ops |-> Releases(tx, i, a)])
Minus(tx, a) == ValueIn(tx.outs, a) + Sum(tx.ops, LAMBDA op : Absorbs(op, a))

AssetsOf(v, tx) ==
    {CoinOf(v, tx.ins[i]).out.asset : i \in DOMAIN tx.ins} \union {tx.outs[i].asset : i \in DOMAIN tx.outs}
      \union {TokenId(tx.ins[1], i) : i \in {k \in DOMAIN tx.ops : tx.ops[k].type = "create"}}
      \union UNION {DOMAIN tx.ops[i].in \union DOMAIN tx.ops[i].out : i \in {k \in DOMAIN tx.ops : OnPool(tx.ops[k])}}

Balances(v, tx) ==
    \A a \in AssetsOf(v, tx) :
        IF a = QNT THEN Minus(tx, a) <= Plus(v, tx, a) /\ Plus(v, tx, a) - Minus(tx, a) <= MAX_MONEY
        ELSE Minus(tx, a) = Plus(v, tx, a)

InputOk(v, o, height) ==
    /\ HasCoin(v, o)
    /\ CoinOf(v, o).coinbase => height >= CoinOf(v, o).height + COINBASE_MATURITY

\* The transaction is valid on v, and the overlay with it.
Applies(v, tx, height) ==
    /\ ~ is_coinbase(tx)
    /\ \A i \in DOMAIN tx.ins : InputOk(v, tx.ins[i], height)
    /\ RunOps(v, tx).ok
    /\ Balances(v, tx)

\* Keeps the pool as it was before the last transaction.
PoolsBeforeLast(v, touched) == Over(v.poolsBefore, [t \in touched |-> PoolOf(v, t)])

\* Only the first transaction that touches a pool saves it, as it is in the base.
PoolsBefore(v, touched) ==
    LET new == touched \ (DOMAIN v.poolsBefore \union DOMAIN v.pools)
    IN Over(v.poolsBefore, [t \in new |-> IF t \in DOMAIN v.base.pools THEN v.base.pools[t] ELSE NoPool])

Applied(v, tx, height) ==
    LET ins == Range(tx.ins)
        own == ins \intersect DOMAIN v.created
        ran == RunOps(v, tx)
    IN [v EXCEPT !.created = Over(Without(@, own), Outputs(tx, height)),
                 !.spentCreated = @ \union own,
                 !.spentBase = Over(@, Only(v.base.coins, ins \ own)),
                 !.tokens = Over(@, ran.minted),
                 !.pools = Over(@, ran.pools),
                 !.poolsBefore = PoolsBefore(v, DOMAIN ran.pools)]

Fee(v, tx) == Plus(v, tx, QNT) - Minus(tx, QNT)
====
