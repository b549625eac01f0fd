------------------------------ MODULE BlockTree ------------------------------
(***************************************************************************)
(* The blocks and transactions that the chain's listeners (mempool, wallet *)
(* and the node's indexes) are told about.  A coin is <<t, i>>, the i-th   *)
(* output of transaction t.  Work is height.                               *)
(***************************************************************************)
EXTENDS SeqFilter, FiniteSets, SequencesExt

CONSTANTS
    Block, Genesis, Parent,   \* the tree; Parent[Genesis] = Genesis
    Tx, TxsOf,                \* transactions of a block, coinbase first
    Ins, Outs,                \* coins spent; outputs [mine, value]
    Bad,                      \* blocks that connect_block finds invalid
    Maturity                  \* coinbase_maturity

ASSUME BlockTreeAssumption ==
    /\ Genesis \in Block /\ Parent \in [Block -> Block] /\ Parent[Genesis] = Genesis
    /\ TxsOf \in [Block -> Seq(Tx) \ {<<>>}]
    /\ Ins \in [Tx -> SUBSET (Tx \X Nat)]
    /\ Outs \in [Tx -> Seq([mine : BOOLEAN, value : Nat])]
    /\ Bad \subseteq Block \ {Genesis} /\ Maturity \in Nat

PathTo[b \in Block] == IF b = Genesis THEN <<Genesis>> ELSE Append(PathTo[Parent[b]], b)
ChainTo == [b \in Block |-> PathTo[b]]

\* Parent is a tree with its root in Genesis: the paths end there, and the
\* chain to a block on a path is the path up to it.
ASSUME PathAssumption ==
    /\ ChainTo \in [Block -> Seq(Block)] /\ ChainTo[Genesis] = <<Genesis>>
    /\ \A b \in Block \ {Genesis} : ChainTo[b] = Append(ChainTo[Parent[b]], b)
    /\ \A b \in Block : \A i \in DOMAIN ChainTo[b] :
          ChainTo[ChainTo[b][i]] = SubSeq(ChainTo[b], 1, i)

Chain(b) == ChainTo[b]
Height(b) == Len(Chain(b)) - 1
AncestorSets == [b \in Block |-> Range(Chain(b))]
Ancestors(b) == AncestorSets[b]
IsAncestor(a, b) == a \in Ancestors(b)
TxSet(b) == Range(TxsOf[b])
CoinbaseTxs == {TxsOf[b][1] : b \in Block}
Coinbase(t) == t \in CoinbaseTxs
OutCoins(t) == {<<t, i>> : i \in DOMAIN Outs[t]}
Mine(c) == Outs[c[1]][c[2]].mine
Value(c) == Outs[c[1]][c[2]].value

\* The height at which the chain to b holds t, -1 if it does not.
TxHeight(t, b) ==
    IF \E a \in Ancestors(b) : t \in TxSet(a)
    THEN Height(CHOOSE a \in Ancestors(b) : t \in TxSet(a)) ELSE -1

\* The coins left when a transaction has been applied to a view.
Apply(view, t) == (view \ Ins[t]) \union OutCoins(t)

ApplyAll(view, ts) ==
    LET f[i \in 0..Len(ts)] == IF i = 0 THEN view ELSE Apply(f[i - 1], ts[i])
    IN f[Len(ts)]

\* The coins of the chain to each block.
CoinsAfter(path) ==
    LET f[i \in 0..Len(path)] == IF i = 0 THEN {} ELSE ApplyAll(f[i - 1], TxsOf[path[i]])
    IN f[Len(path)]
Coins == [b \in Block |-> CoinsAfter(Chain(b))]

MatureAt(c, h, tip) == h >= 0 /\ (Coinbase(c[1]) => Height(tip) + 1 >= h + Maturity)

\* LedgerView::apply succeeds on the view over the chain to tip.
Applies(view, tip, t) ==
    /\ Ins[t] \subseteq view
    /\ \A c \in Ins[t] : Coinbase(c[1]) => MatureAt(c, TxHeight(c[1], tip), tip)

\* What accept_block and connect_block have checked on a chain that was
\* connected: a coinbase is the first transaction of its block and carries the
\* height, no transaction is there twice (it would spend its inputs twice), what
\* was spent had been paid before, and coinbases were mature by then.
Connectable(b) == Ancestors(b) \intersect Bad = {}
ASSUME ContentAssumption ==
    \A b \in Block : Connectable(b) =>
        /\ \A i \in 2..Len(TxsOf[b]) : ~ Coinbase(TxsOf[b][i])
        /\ \A a \in Ancestors(b) \ {b} : TxSet(a) \intersect TxSet(b) = {}
        /\ \A t \in TxSet(b) : \A c \in Ins[t] :
              /\ TxHeight(c[1], b) >= 0
              /\ Coinbase(c[1]) => Height(b) >= TxHeight(c[1], b) + Maturity
        /\ \A a \in Block : Connectable(a) =>
              (\A t \in TxSet(a) \intersect TxSet(b) : Coinbase(t) => Height(a) = Height(b))
====
