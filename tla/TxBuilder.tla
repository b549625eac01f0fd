------------------------------ MODULE TxBuilder ------------------------------
(***************************************************************************)
(* wallet/wallet.cpp, the transactions a wallet makes: what is to be paid  *)
(* and done is a plan, and build chooses the coins and the change.         *)
(*                                                                         *)
(* coins is the part of the chain's coins the wallet may spend (Spendable).*)
(* The fee is estimate_size times the rate: IN_FEE for every input.        *)
(***************************************************************************)
EXTENDS LedgerView

CONSTANTS IN_FEE

Failed == [ok |-> FALSE]

\* A plan: outputs, operations with what they take and give, and the flags.
Plan(outs, ops) == [outs |-> outs, ops |-> ops, subtract |-> FALSE, sweep |-> FALSE]
Pay(owner, asset, n) == [asset |-> asset, value |-> n, owner |-> owner]

PlanAssets(plan) ==
    {plan.outs[i].asset : i \in DOMAIN plan.outs}
      \union UNION {DOMAIN plan.ops[i].in \union DOMAIN plan.ops[i].out : i \in {k \in DOMAIN plan.ops : OnPool(plan.ops[k])}}

\* What the coins must bring of an asset: outputs + absorbed - released.
Need(plan, a) ==
    ValueIn(plan.outs, a)
      + Sum(plan.ops, LAMBDA op : Absorbs(op, a) - (IF OnPool(op) THEN Of(op.out, a) ELSE 0))

\* The coins of an asset, the largest first.
Sorted(coins, a) ==
    LET own == {o \in DOMAIN coins : coins[o].out.asset = a}
        best(S) == CHOOSE o \in S : \A x \in S : coins[x].out.value <= coins[o].out.value
        f[n \in 0..Cardinality(own)] ==
          IF n = 0 THEN <<>> ELSE LET s == f[n - 1] IN Append(s, best(own \ Range(s)))
    IN f[Cardinality(own)]
Have(coins, s, n) == Sum(SubSeq(s, 1, n), LAMBDA o : coins[o].out.value)

\* How many of them are taken: as few as will do.
Enough(coins, s, want) == {n \in DOMAIN want : Have(coins, s, n) >= want[n]}

TokenCoins(coins, plan, a) ==
    LET s == Sorted(coins, a)
        ns == Enough(coins, s, [n \in 0..Len(s) |-> Need(plan, a)])
    IN IF ns = {} THEN Failed
       ELSE [ok |-> TRUE, ins |-> SubSeq(s, 1, Min(ns)), change |-> Have(coins, s, Min(ns)) - Need(plan, a)]

ChangeOut(owner, a, n) == IF n > 0 THEN <<Pay(owner, a, n)>> ELSE <<>>

\* Dust is handed out as change too.
QntChangeDusty(owner, n) == ChangeOut(owner, QNT, n)

\* Dust is left to the miner.
QntChange(owner, n) == IF n >= DUST_LIMIT THEN <<Pay(owner, QNT, n)>> ELSE <<>>

\* build for the tokens a plan involves, with their coins chosen: QNT for the
\* rest and the fee, at least one input; then the change.
BuildWith(owner, coins, plan, tokIns, tokChange) ==
    LET s == Sorted(coins, QNT)
        fee(n) == IN_FEE * (Len(tokIns) + n)
        want(n) == IF plan.sweep THEN 0
                   ELSE IF plan.subtract THEN Need(plan, QNT) ELSE Need(plan, QNT) + fee(n)
        ns == IF plan.sweep THEN {Len(s)} \ {0} ELSE Enough(coins, s, [k \in 1..Len(s) |-> want(k)])
        n == Min(ns)
        first == IF plan.sweep THEN Have(coins, s, n) - fee(n) ELSE plan.outs[1].value - fee(n)
        less == plan.sweep \/ plan.subtract
        outs == IF less THEN [plan.outs EXCEPT ![1].value = first] ELSE plan.outs
        left == IF plan.sweep THEN 0 ELSE Have(coins, s, n) - want(n)
        ins == tokIns \o SubSeq(s, 1, n)
        minted(i) == IF plan.ops[i].type = "create"
                     THEN <<Pay(owner, TokenId(ins[1], i), plan.ops[i].supply)>> ELSE <<>>
    IN IF ns = {} \/ (less /\ first <= DUST_LIMIT) THEN Failed
       ELSE [ok |-> TRUE,
             tx |-> [ins |-> ins, ops |-> plan.ops,
                     outs |-> outs \o tokChange \o QntChange(owner, left)
                                \o (IF plan.ops = <<>> THEN <<>> ELSE minted(1))]]

\* No plan involves two tokens with coins of both: a swap needs one of them, a
\* deposit the token and a withdrawal the shares.
build(owner, coins, plan) ==
    LET toks == SetToSeq(PlanAssets(plan) \ {QNT})
        parts == [i \in DOMAIN toks |-> TokenCoins(coins, plan, toks[i])]
    IN IF \E i \in DOMAIN parts : ~ parts[i].ok THEN Failed
       ELSE BuildWith(owner, coins, plan,
                      FlattenSeq([i \in DOMAIN toks |-> parts[i].ins]),
                      FlattenSeq([i \in DOMAIN toks |-> ChangeOut(owner, toks[i], parts[i].change)]))

(***************************************************************************)
(* The plans of the wallet's commands; a set is empty when the command is  *)
(* refused.                                                                *)
(***************************************************************************)
create_tx(to, asset, n, subtract) ==
    {p \in {[Plan(<<Pay(to, asset, n)>>, <<>>) EXCEPT !.subtract = subtract]} :
        (IF asset = QNT THEN n >= DUST_LIMIT ELSE ~ subtract) /\ n > 0}
create_sweep(to) == {[Plan(<<Pay(to, QNT, 0)>>, <<>>) EXCEPT !.sweep = TRUE]}
create_token(supply) == {Plan(<<>>, <<OpCreateToken(supply)>>)}
send_message(from, to) == {Plan(<<Pay(to, QNT, DUST_LIMIT)>>, <<OpMessage(from, to)>>)}

\* rpc swap: the quote of the pool as pending transactions leave it, less the
\* slippage the user allows.
swap(pl, t, sell, n, slip) ==
    LET quote == IF pl = NoPool THEN 0
                 ELSE IF sell THEN amm_quote(n, pl.tok, pl.qnt) ELSE amm_quote(n, pl.qnt, pl.tok)
        out == Max({quote - slip, 1})
    IN {p \in {Plan(<<>>, <<OpSwap(t, sell, n, out)>>)} : quote > 0 /\ (sell => out >= DUST_LIMIT)}

add_liquidity(pl, t, q, k) ==
    LET total == amm_initial_shares(q, k)
        shares == IF pl = NoPool THEN total - MIN_LIQUIDITY ELSE amm_add_shares(pl, q, k)
        op == IF pl = NoPool THEN OpPoolCreate(t, q, k, shares) ELSE OpAddLiquidity(t, q, k, shares)
    IN {p \in {Plan(<<>>, <<op>>)} : shares > 0}

remove_liquidity(pl, t, shares) ==
    IF pl = NoPool \/ shares > pl.shares - MIN_LIQUIDITY THEN {}
    ELSE LET most == amm_remove_amounts(pl, shares)
         IN {p \in {Plan(<<>>, <<OpRemoveLiquidity(t, shares, most.qnt, most.tok)>>)} : most.qnt + most.tok > 0}
====
