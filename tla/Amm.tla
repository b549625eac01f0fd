--------------------------------- MODULE Amm ---------------------------------
(***************************************************************************)
(* consensus/ledger.cpp, the pool arithmetic: amounts have WIDTH bits, the *)
(* intermediate products are exact (128 and 256 bits in the code).         *)
(***************************************************************************)
EXTENDS Integers, FiniteSetsExt

CONSTANTS
    WIDTH,             \* bits of an Amount
    FEE_NUM, FEE_DEN,  \* what a swap keeps of its input: 10000 - POOL_FEE_BPS of 10000
    MIN_LIQUIDITY      \* shares locked for ever

ASSUME AmmAssumption ==
    /\ WIDTH \in Nat \ {0} /\ MIN_LIQUIDITY \in Nat \ {0}
    /\ FEE_DEN \in Nat \ {0} /\ FEE_NUM \in 1..FEE_DEN
    /\ \A b \in 0..2 * WIDTH : 2 ^ b \in Nat \ {0}
    /\ 2 ^ (2 * WIDTH) = 2 ^ WIDTH * 2 ^ WIDTH

AmountLimit == 2 ^ WIDTH
Wrap(x) == x % AmountLimit
IfFits(q) == IF q < AmountLimit THEN q ELSE 0

mul_div(a, b, c) == IF c = 0 THEN 0 ELSE IfFits((a * b) \div c)

\* Rounds in the trader's favour.
amm_quote_rounded_up(in, rin, rout) ==
    IF 0 \in {in, rin, rout} THEN 0
    ELSE IfFits((in * FEE_NUM * rout) \div (rin * FEE_DEN + in * FEE_NUM) + 1)

amm_quote(in, rin, rout) ==
    IF 0 \in {in, rin, rout} THEN 0
    ELSE IfFits((in * FEE_NUM * rout) \div (rin * FEE_DEN + in * FEE_NUM))

\* Newton's method from a power of two above the root.
amm_initial_shares(qnt, tok) ==
    LET n == qnt * tok
        bits == CHOOSE b \in 0..2 * WIDTH : n < 2 ^ b /\ (b = 0 \/ n >= 2 ^ (b - 1))
        top == 2 ^ ((bits + 1) \div 2)
        newton[x \in 1..top] == LET y == (x + n \div x) \div 2 IN IF y >= x THEN x ELSE newton[y]
        down[x \in 0..top] == IF x * x > n THEN down[x - 1] ELSE x
    IN IF n = 0 THEN 0 ELSE down[newton[top]]

amm_add_shares(p, qnt, tok) ==
    IF 0 \in {p.qnt, p.tok, p.shares} THEN 0
    ELSE Min({mul_div(qnt, p.shares, p.qnt), mul_div(tok, p.shares, p.tok)})

amm_remove_amounts(p, shares) ==
    [qnt |-> mul_div(shares, p.qnt, p.shares), tok |-> mul_div(shares, p.tok, p.shares)]
====
