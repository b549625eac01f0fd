---------------------------- MODULE MCChainstate ----------------------------
(***************************************************************************)
(* Instances of Chainstate for TLC.  One table describes a block tree, with*)
(* the work of each chain in brackets; a configuration selects the blocks  *)
(* of its run.                                                             *)
(*                                                                         *)
(*   g - a1 - a2[2] - a3[3] - a4[4]    the first branch                    *)
(*        |     |       `---- l4[5]    l4: its state commitment is false   *)
(*        |     |- l3[3]               l3: the same, at another height     *)
(*        |     `- e3[4]               e3: a rival of a3, as heavy as a4   *)
(*        |- b2[2] - b3[3]             the second branch, shares t1        *)
(*        |     `- x3[5]               x3: spends a coin that is not there *)
(*        `- y2[3] - y3[4]             y2: a signature is wrong            *)
(***************************************************************************)
EXTENDS Chainstate, TLC

Row(prev, work, txs, spends) ==
    [prev |-> prev, work |-> work, txs |-> txs, spends |-> spends]

Table ==
    "g"  :> Row("g",  0, {"cg"}, {}) @@
    "a1" :> Row("g",  1, {"ca1"}, {}) @@
    "a2" :> Row("a1", 2, {"ca2", "t1"}, {"ca1"}) @@
    "a3" :> Row("a2", 3, {"ca3", "t2"}, {"t1"}) @@
    "a4" :> Row("a3", 4, {"ca4"}, {}) @@
    "b2" :> Row("a1", 2, {"cb2"}, {}) @@
    "b3" :> Row("b2", 3, {"cb3", "t1"}, {"ca1"}) @@
    "x3" :> Row("b2", 5, {"cx3", "t2"}, {"t1"}) @@
    "y2" :> Row("a1", 3, {"cy2"}, {}) @@
    "y3" :> Row("y2", 4, {"cy3"}, {}) @@
    "l3" :> Row("a2", 3, {"cl3"}, {}) @@
    "l4" :> Row("a3", 5, {"cl4"}, {}) @@
    "e3" :> Row("a2", 4, {"ce3", "t2"}, {"t1"})

\* Token k is created in a2, b2 and y2; its pool changes in the blocks below.
MCToken == {"k"}
MCPoolVal == 0..3
PoolTable == "a2" :> 1 @@ "y2" :> 2 @@ "b3" :> 1

BlocksReorg == {"g", "a1", "a2", "b2", "b3", "x3"}
BlocksInvalid == {"g", "a1", "b2", "x3", "y2", "y3"}
BlocksSnapshot == {"g", "a1", "a2", "a3", "a4", "l4", "e3"}
BlocksFaults == {"g", "a1", "a2", "a3", "l3", "a4"}

MCPrev == [b \in Block |-> Table[b].prev]
MCPath[b \in Block] == IF b = "g" THEN <<"g">> ELSE Append(MCPath[Table[b].prev], b)
MCWork == [b \in Block |-> Table[b].work]
MCTx == UNION {Table[b].txs \cup Table[b].spends : b \in Block}
MCTxs == [b \in Block |-> Table[b].txs]
MCSpends == [b \in Block |-> Table[b].spends]
MCNewTokens == [b \in Block |-> IF b \in {"a2", "b2", "y2"} THEN {"k"} ELSE {}]
MCPoolWrites == [b \in Block |-> IF b \in DOMAIN PoolTable
                                 THEN "k" :> PoolTable[b] ELSE << >>]
AllTrue == [b \in Block |-> TRUE]
MCSigsOk == [b \in Block |-> b # "y2"]

MCStateAt[b \in Block] == IF b = "g" THEN EmptyState ELSE Applied(MCStateAt[Table[b].prev], b)

\* A header at a commit height commits to the state SNAPSHOT_DELAY below it;
\* l3 and l4 commit to the empty state instead.
MCCommit == [b \in Block |->
    IF ~IsCommitHeight(Height(b)) THEN NoFile
    ELSE IF b \in {"l3", "l4"} THEN EmptyState
    ELSE StateAt[AncestorAt(b, Height(b) - SNAPSHOT_DELAY)]]
=============================================================================
