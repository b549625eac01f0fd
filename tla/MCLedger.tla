------------------------------ MODULE MCLedger -------------------------------
(* Instances of Ledger for TLC.                                              *)
EXTENDS Ledger
SplitReward == {<<1, 5>>}
Pairs == {<<a, b>> : a, b \in 1..MAX_MONEY}

\* Transactions with several operations: a token and its pool in one; a pool
\* opened with more than there is of the token, which a swap gives back; the same
\* pool there and back; and a withdrawal in two parts.
Reward == <<<<1, 0>>, 2>>
Token == TokenId(Reward, 1)
First(n) == <<<<2, 1>>, n>>
Tx(o, ops, outs) == [ins |-> <<o>>, ops |-> ops, outs |-> outs]
SeveralOps == {
    Tx(Reward, <<OpCreateToken(9), OpPoolCreate(Token, 3, 4, 2)>>,
       <<Pay(You, Token, 5), Pay(You, ShareId(Token), 2)>>),
    Tx(Reward, <<OpCreateToken(9), OpPoolCreate(Token, 3, 12, 5), OpSwap(Token, FALSE, 2, 4)>>,
       <<Pay(You, Token, 1), Pay(You, ShareId(Token), 5)>>),
    Tx(First(1), <<OpSwap(Token, TRUE, 5, 1), OpSwap(Token, FALSE, 1, 2)>>, <<Pay(You, Token, 2)>>),
    Tx(First(2), <<OpRemoveLiquidity(Token, 1, 1, 1), OpRemoveLiquidity(Token, 1, 1, 1)>>,
       <<Pay(You, QNT, 2), Pay(You, Token, 2)>>)}
====
