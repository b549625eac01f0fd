---------------------------- MODULE ChainIndexes -----------------------------
(***************************************************************************)
(* The node's indexes of the chain (node/node.cpp): pool reserves after    *)
(* every block that touched the pool, swaps, and messages.  Memory follows *)
(* the chain; the files are only appended to, and rewritten at a start.    *)
(* A point of an index is <<height, block or transaction>>, and heights    *)
(* never decrease along an index.                                          *)
(***************************************************************************)
EXTENDS BlockTree

CONSTANTS Swaps, Texts   \* transactions with a swap, with a message

\* The genesis block has no operations (make_genesis).
ASSUME IndexAssumption ==
    /\ Swaps \subseteq Tx /\ Texts \subseteq Tx
    /\ TxSet(Genesis) \intersect (Swaps \union Texts) = {}

VARIABLES index, indexFile   \* [pool, trades, msgs], each a sequence of points
indexVars == <<index, indexFile>>

Below(s, h) == Filter(s, {p \in Range(s) : p[1] < h})
UpTo(s, h) == Filter(s, {p \in Range(s) : p[1] <= h})
Marks(b, S) == Filter(TxsOf[b], S)
At(h, ts) == [i \in DOMAIN ts |-> <<h, ts[i]>>]

\* The points of a block.
Points(b) ==
    LET swaps == Marks(b, Swaps) IN
    [pool |-> IF swaps = <<>> THEN <<>> ELSE <<<<Height(b), b>>>>,
     trades |-> At(Height(b), swaps), msgs |-> At(Height(b), Marks(b, Texts))]

Extended(ix, pts) == [k \in DOMAIN ix |-> ix[k] \o pts[k]]

\* pool and trades are cut at the height only by a block with points of its own.
Trimmed(ix, b) ==
    [k \in DOMAIN ix |-> IF k = "msgs" \/ Points(b)[k] # <<>> THEN Below(ix[k], Height(b)) ELSE ix[k]]

IndexConnect(b, fileOpen) ==
    /\ index' = Extended(Trimmed(index, b), Points(b))
    /\ indexFile' = IF fileOpen THEN Extended(indexFile, Points(b)) ELSE indexFile

\* Forgets that points of the block may be there.
IndexDisconnectKeeps(b) == UNCHANGED indexVars

IndexDisconnect(b) ==
    /\ index' = [k \in DOMAIN index |-> Below(index[k], Height(b))]
    /\ UNCHANGED indexFile

\* A file read back, point by point.
PointRead(k, kept, p) ==
    LET upTo == UpTo(kept, p[1])
    IN  IF k = "pool" THEN Append(Below(kept, p[1]), p)
        ELSE IF p \in Range(upTo) THEN upTo ELSE Append(upTo, p)
LoadedPoints(k, s) ==
    LET f[i \in 0..Len(s)] == IF i = 0 THEN <<>> ELSE PointRead(k, f[i - 1], s[i])
    IN f[Len(s)]

\* pool_hist_load, trades_load, msgs_load.
IndexLoad == /\ index' = [k \in DOMAIN indexFile |-> LoadedPoints(k, indexFile[k])]
             /\ UNCHANGED indexFile

\* After the chain is loaded: points above the tip are dropped, files rewritten.
IndexCompact(tip) ==
    /\ index' = [k \in DOMAIN index |-> UpTo(index[k], Height(tip))]
    /\ indexFile' = index'

NoPoints == [k \in {"pool", "trades", "msgs"} |-> <<>>]
IndexInit == index = NoPoints /\ indexFile = NoPoints

\* The index the chain to a block should have.
IndexAfter(path) ==
    LET f[i \in 0..Len(path)] == IF i = 0 THEN NoPoints ELSE Extended(f[i - 1], Points(path[i]))
    IN f[Len(path)]
TrueIndex == [b \in Block |-> IndexAfter(Chain(b))]
====
