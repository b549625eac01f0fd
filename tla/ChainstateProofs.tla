-------------------------- MODULE ChainstateProofs --------------------------
(***************************************************************************)
(* Proofs about Chainstate: type correctness; that the state in memory and *)
(* in utxo.dat is the replay of the chain it is attributed to; what is     *)
(* left on disk for later (undo files, signatures and the saved state,     *)
(* along the active chain and along the chain of utxo.dat, through         *)
(* reorganisations, crashes and restarts); and what is concluded from it:  *)
(* the blocks rejected, the state commitments checked against snapshots,   *)
(* the transaction index that is rebuilt, and the chain of most work.      *)
(***************************************************************************)
EXTENDS Chainstate, Induction

---------------------------------------------------------------------------
(* The tree. *)

\* The chain of a block is not empty and ends in the block.
LEMMA PathLast ==
    ASSUME NEW b \in Block
    PROVE  /\ Path[b] \in Seq(Block)
           /\ Len(Path[b]) \in Nat \ {0}
           /\ Path[b][Len(Path[b])] = b
  <1>1. CASE b = Genesis
    BY <1>1, TreeAssumption
  <1>2. CASE b # Genesis
    <2>1. Path[b] = Append(Path[Prev[b]], b) /\ Path[Prev[b]] \in Seq(Block)
      BY <1>2, TreeAssumption
    <2> QED BY <2>1, TreeAssumption
  <1> QED BY <1>1, <1>2

\* Dropping the last block of a chain gives the chain of its parent.
LEMMA PathPop ==
    ASSUME NEW b \in Block, b # Genesis
    PROVE  /\ Prev[b] \in Block
           /\ SubSeq(Path[b], 1, Len(Path[b]) - 1) = Path[Prev[b]]
           /\ Len(Path[b]) = Len(Path[Prev[b]]) + 1
  <1>1. /\ Path[b] = Append(Path[Prev[b]], b) /\ Path[Prev[b]] \in Seq(Block)
        /\ Prev[b] \in Block
    BY TreeAssumption
  <1>2. Len(Path[b]) = Len(Path[Prev[b]]) + 1
    BY <1>1
  <1>3. SubSeq(Append(Path[Prev[b]], b), 1, Len(Path[Prev[b]])) = Path[Prev[b]]
    BY <1>1
  <1> QED BY <1>1, <1>2, <1>3

\* The successor of a proper ancestor t on the chain of c is a child of t.
LEMMA NextOnPath ==
    ASSUME NEW c \in Block, NEW t \in Ancestors(c), t # c
    PROVE  LET n == AncestorAt(c, Height(t) + 1) IN
           /\ n \in Block \ {Genesis}
           /\ Prev[n] = t
           /\ Path[n] = Append(Path[t], n)
  <1> DEFINE n == AncestorAt(c, Height(t) + 1)
  <1>1. PICK i \in 1..Len(Path[c]) : t = Path[c][i]
    BY DEF Ancestors
  <1>2. /\ Path[c] \in Seq(Block) /\ Len(Path[c]) \in Nat /\ Path[c][Len(Path[c])] = c
    BY PathLast
  <1>3. t \in Block /\ i \in 1..(Len(Path[c]) - 1)
    BY <1>1, <1>2
  <1>4. Path[t] = SubSeq(Path[c], 1, i)
    BY <1>1, TreeAssumption
  <1>5. Len(Path[t]) = i
    BY <1>2, <1>3, <1>4
  <1>6. n = Path[c][i + 1] /\ n \in Block
    BY <1>2, <1>3, <1>5 DEF AncestorAt, Height
  <1>7. Path[n] = SubSeq(Path[c], 1, i + 1)
    <2>1. \A j \in 1..Len(Path[c]) : Path[Path[c][j]] = SubSeq(Path[c], 1, j)
      BY TreeAssumption
    <2>2. i + 1 \in 1..Len(Path[c])
      BY <1>2, <1>3
    <2>3. Path[Path[c][i + 1]] = SubSeq(Path[c], 1, i + 1)
      BY <2>1, <2>2
    <2> HIDE DEF n
    <2> QED BY <2>3, <1>6
  <1>8. Len(Path[n]) = i + 1
    BY <1>2, <1>3, <1>7
  <1>9. n # Genesis
    <2>1. Len(Path[Genesis]) = 1
      BY TreeAssumption
    <2> HIDE DEF n
    <2>2. CASE n = Genesis
      <3>1. Len(Path[n]) = 1
        BY <2>1, <2>2
      <3>2. i + 1 # 1
        BY <1>2, <1>3
      <3> QED BY <3>1, <3>2, <1>8
    <2> QED BY <2>2
  <1>10. Path[n] = Append(Path[Prev[n]], n) /\ Prev[n] \in Block
    BY <1>6, <1>9, TreeAssumption
  <1>11. SubSeq(Path[n], 1, i) = Path[t]
    <2>1. SubSeq(SubSeq(Path[c], 1, i + 1), 1, i) = SubSeq(Path[c], 1, i)
      BY <1>2, <1>3
    <2> HIDE DEF n
    <2> QED BY <2>1, <1>4, <1>7
  <1>12. Path[Prev[n]] = Path[t]
    <2> HIDE DEF n
    <2>1. SubSeq(Path[n], 1, Len(Path[n]) - 1) = Path[Prev[n]]
      BY <1>6, <1>9, PathPop
    <2>2. Len(Path[n]) - 1 = i
      BY <1>2, <1>3, <1>8
    <2> QED BY <2>1, <2>2, <1>11
  <1>13. Prev[n] = t
    BY <1>12, <1>10, <1>3, PathLast
  <1> QED BY <1>6, <1>9, <1>10, <1>12, <1>13

\* Genesis heads its own chain only.
LEMMA HeightZero ==
    ASSUME NEW b \in Block, Height(b) > 0
    PROVE  b # Genesis
  <1>1. Len(Path[Genesis]) = 1
    BY TreeAssumption
  <1>2. Len(Path[b]) > 1
    BY PathLast DEF Height
  <1>3. CASE b = Genesis
    <2>1. Len(Path[b]) = 1
      BY <1>1, <1>3
    <2> QED BY <1>2, <2>1
  <1> QED BY <1>3

---------------------------------------------------------------------------
(* The ledger effect of a block. *)

\* A pool write or a saved pool names some tokens and gives each a pool state.
LEMMA PoolMapType ==
    ASSUME NEW f \in UNION {[D -> PoolVal] : D \in SUBSET Token}
    PROVE  DOMAIN f \subseteq Token /\ \A t \in DOMAIN f : f[t] \in PoolVal
  <1>1. PICK D \in SUBSET Token : f \in [D -> PoolVal]
    OBVIOUS
  <1> QED BY <1>1

\* Applying a block to a state gives a state.
LEMMA AppliedType ==
    ASSUME NEW s \in State, NEW b \in Block
    PROVE  Applied(s, b) \in State
  <1>1. /\ Txs[b] \subseteq Tx /\ NewTokens[b] \subseteq Token
        /\ DOMAIN PoolWrites[b] \subseteq Token
        /\ \A t \in DOMAIN PoolWrites[b] : PoolWrites[b][t] \in PoolVal
    BY ContentAssumption, PoolMapType
  <1>2. s.coins \subseteq Tx /\ s.tokens \subseteq Token /\ s.pools \in [Token -> PoolVal]
    BY DEF State
  <1> QED BY <1>1, <1>2 DEF Applied, State, SpentBase, Created

\* The undo record of a block is an undo record.
LEMMA UndoType ==
    ASSUME NEW s \in State, NEW b \in Block
    PROVE  UndoOf(s, b) \in Undo
  <1>1. /\ Spends[b] \subseteq Tx /\ NewTokens[b] \subseteq Token
        /\ DOMAIN PoolWrites[b] \in SUBSET Token
    BY ContentAssumption, PoolMapType
  <1>2. [t \in DOMAIN PoolWrites[b] |-> s.pools[t]] \in [DOMAIN PoolWrites[b] -> PoolVal]
    BY <1>1 DEF State
  <1> QED BY <1>1, <1>2 DEF UndoOf, Undo, SpentBase

\* Undoing a block in a state gives a state.
LEMMA RevertedType ==
    ASSUME NEW s \in State, NEW b \in Block, NEW u \in Undo
    PROVE  Reverted(s, u, b) \in State
  <1>1. /\ u.spent \subseteq Tx /\ u.tokens \subseteq Token
        /\ u.pools \in UNION {[D -> PoolVal] : D \in SUBSET Token}
    BY DEF Undo
  <1>2. DOMAIN u.pools \subseteq Token /\ \A t \in DOMAIN u.pools : u.pools[t] \in PoolVal
    BY <1>1, PoolMapType
  <1>3. s.coins \subseteq Tx /\ s.tokens \subseteq Token /\ s.pools \in [Token -> PoolVal]
    BY DEF State
  <1> QED BY <1>1, <1>2, <1>3 DEF Reverted, State

\* disconnect_tip is the inverse of connect_block: the undo record of a block
\* that applied leads back to the state before it, although disconnect_tip
\* removes the block's outputs without looking at which of them were spent.
LEMMA UndoRestores ==
    ASSUME NEW b \in Block, b # Genesis, TxsApply(StateAt[Prev[b]], b)
    PROVE  Reverted(StateAt[b], UndoOf(StateAt[Prev[b]], b), b) = StateAt[Prev[b]]
  <1> DEFINE s == StateAt[Prev[b]]
             u == UndoOf(s, b)
  <1>1. s \in State /\ StateAt[b] = Applied(s, b)
    BY TreeAssumption, StateAtAssumption
  <1>2. /\ Txs[b] \cap s.coins = {} /\ NewTokens[b] \cap s.tokens = {}
        /\ SpentBase(b) \subseteq s.coins
    BY FreshnessAssumption DEF TxsApply
  <1>3. (((s.coins \ SpentBase(b)) \cup Created(b)) \ Txs[b]) \cup SpentBase(b) = s.coins
    BY <1>2 DEF Created
  <1>4. (s.tokens \cup NewTokens[b]) \ NewTokens[b] = s.tokens
    BY <1>2
  <1>5. /\ DOMAIN u.pools = DOMAIN PoolWrites[b]
        /\ \A t \in DOMAIN PoolWrites[b] : u.pools[t] = s.pools[t]
    BY DEF UndoOf
  <1>6. s.pools \in [Token -> PoolVal]
    BY <1>1 DEF State
  <1> DEFINE back == [t \in Token |-> IF t \in DOMAIN u.pools THEN u.pools[t]
                                      ELSE Applied(s, b).pools[t]]
  <1>7. \A t \in Token : back[t] = s.pools[t]
    BY <1>5 DEF Applied
  <1>8. back = s.pools
    <2> HIDE DEF s
    <2>1. back = [t \in Token |-> s.pools[t]]
      BY <1>7
    <2> QED BY <2>1, <1>6
  <1>9. Reverted(Applied(s, b), u, b) =
            [coins |-> s.coins, tokens |-> s.tokens, pools |-> s.pools]
    <2> HIDE DEF s, back
    <2>1. u.spent = SpentBase(b) /\ u.tokens = NewTokens[b]
      BY DEF UndoOf
    <2>2. /\ Applied(s, b).coins = (s.coins \ SpentBase(b)) \cup Created(b)
          /\ Applied(s, b).tokens = s.tokens \cup NewTokens[b]
      BY DEF Applied
    <2>3. Reverted(Applied(s, b), u, b).pools = s.pools
      BY <1>8 DEF Reverted, back
    <2> QED BY <2>1, <2>2, <2>3, <1>3, <1>4 DEF Reverted
  <1>10. s = [coins |-> s.coins, tokens |-> s.tokens, pools |-> s.pools]
    <2> HIDE DEF s
    <2> QED BY <1>1 DEF State
  <1> QED BY <1>1, <1>9, <1>10
---------------------------------------------------------------------------
(* Type correctness.  TypeOK alone is not inductive: that a disconnect      *)
(* leaves a chain and that the next block of a path exists need the chain   *)
(* to be a path of the tree.                                                *)

ChainIsPath == chain = Path[Tip]
TInv == TypeOK /\ ChainIsPath

\* A path of the tree, taken as the active chain, has its block as the tip.
LEMMA NewTip ==
    ASSUME NEW b \in Block, chain' = Path[b]
    PROVE  Tip' = b /\ ChainIsPath' /\ chain' \in Seq(Block) /\ Len(chain') > 0
  <1>1. Path[b] \in Seq(Block) /\ Len(Path[b]) \in Nat \ {0} /\ Path[b][Len(Path[b])] = b
    BY PathLast
  <1>2. chain'[Len(chain')] = b
    BY <1>1
  <1>3. Tip' = b
    BY <1>2 DEF Tip
  <1> QED BY <1>1, <1>3 DEF ChainIsPath

\* The tip is a block, and every known header is one.
LEMMA TipInBlock ==
    ASSUME TypeOK
    PROVE  Tip \in Block /\ Known \subseteq Block
  BY DEF TypeOK, Tip, Known

\* The fresh node is well typed.
LEMMA InitTInv == Init => TInv
  <1> SUFFICES ASSUME Init PROVE TInv
    OBVIOUS
  <1>1. EmptyState \in State
    BY ContentAssumption DEF EmptyState, State
  <1>g. Genesis \in Block
    BY TreeAssumption
  <1>2. TypeOK
    <2>1. /\ undoFiles \in [Block -> Undo \cup {NoFile}]
          /\ snapFiles \in [Block -> State \cup {NoFile}]
          /\ utxoDat \in UtxoFile \cup {NoFile}
          /\ baseDat \in Block \cup {NoBlock}
      BY DEF Init
    <2>2. txindex \in [Tx -> Block \cup {NoBlock}]
      BY <1>g DEF Init
    <2>3. headersDat \in Seq(Block) /\ chain \in Seq(Block) /\ Len(chain) > 0
      BY <1>g DEF Init
    <2> QED BY <1>1, <1>g, <2>1, <2>2, <2>3 DEF Init, TypeOK
  <1>3. ChainIsPath
    BY TreeAssumption DEF Init, ChainIsPath, Tip
  <1> QED BY <1>2, <1>3 DEF TInv

\* The steps that replace nothing but flags, headers and stored blocks.
LEMMA HeaderTInv ==
    ASSUME TInv, NEW b \in Block, AcceptHeader(b)
    PROVE  TInv'
  <1>1. HeadersAfter(b) \in Seq(Block) /\ BestHeaderAfter(b) \in Block
    BY DEF TInv, TypeOK, HeadersAfter, BestHeaderAfter
  <1>2. TypeOK'
    BY <1>1 DEF TInv, TypeOK, AcceptHeader, flags, ledger, history
  <1>3. ChainIsPath'
    BY DEF TInv, ChainIsPath, Tip, AcceptHeader, ledger
  <1> QED BY <1>2, <1>3 DEF TInv

\* Storing a block keeps the types.
LEMMA BlockTInv ==
    ASSUME TInv, NEW b \in Block, NEW w \in BOOLEAN, AcceptNewBlock(b, w)
    PROVE  TInv'
  <1>1. HeadersAfter(b) \in Seq(Block) /\ BestHeaderAfter(b) \in Block
    BY DEF TInv, TypeOK, HeadersAfter, BestHeaderAfter
  <1>2. NewChainData(b, blocksDat \cup {b}) \subseteq Block
    BY DEF TInv, TypeOK, NewChainData
  <1>3. WitnessStored(b, w) \subseteq SUBSET Block
    BY DEF TInv, TypeOK, WitnessStored, WriteWitness
  <1>4. TypeOK'
    BY <1>1, <1>2, <1>3 DEF TInv, TypeOK, AcceptNewBlock, ledger, history
  <1>5. ChainIsPath'
    BY DEF TInv, ChainIsPath, Tip, AcceptNewBlock, ledger
  <1> QED BY <1>4, <1>5 DEF TInv

\* Filling in a witness keeps the types.
LEMMA WitnessTInv ==
    ASSUME TInv, NEW b \in Block, AcceptWitness(b)
    PROVE  TInv'
  <1>1. TypeOK'
    BY DEF TInv, TypeOK, AcceptWitness, WriteWitness, flags, ledger, history
  <1>2. ChainIsPath'
    BY DEF TInv, ChainIsPath, Tip, AcceptWitness, ledger
  <1> QED BY <1>1, <1>2 DEF TInv

\* The steps of activate_best_chain that leave the ledger alone.
LEMMA QuietTInv ==
    ASSUME TInv,
           \/ SelectCandidate \/ SelectNone \/ AbortReorg \/ PathDone
           \/ StallOnBlock \/ FlushAfterConnect \/ NoFlushYet
    PROVE  TInv'
  <1>1. chain' = chain
    BY DEF SelectCandidate, SelectNone, AbortReorg, PathDone, StallOnBlock,
           FlushAfterConnect, NoFlushYet, ledger
  <1>2. ChainIsPath'
    BY <1>1 DEF TInv, ChainIsPath, Tip
  <1>3. BestCandidates \subseteq Block /\ CandidatesKept \subseteq Block
    BY DEF TInv, TypeOK, BestCandidates, CandidatesKept
  <1>4. CASE SelectCandidate
    BY <1>2, <1>3, <1>4 DEF TInv, TypeOK, SelectCandidate, disk, flags, ledger, history
  <1>5. CASE SelectNone
    BY <1>2, <1>3, <1>5 DEF TInv, TypeOK, SelectNone, Finish, disk, ledger, history
  <1>6. CASE AbortReorg
    BY <1>2, <1>3, <1>6 DEF TInv, TypeOK, AbortReorg, Finish, disk, ledger, history
  <1>7. CASE PathDone
    BY <1>2, <1>7 DEF TInv, TypeOK, PathDone, disk, flags, ledger, history
  <1>8. CASE StallOnBlock
    BY <1>2, <1>3, <1>8 DEF TInv, TypeOK, StallOnBlock, Finish, disk, ledger, history
  <1>9. CASE FlushAfterConnect
    <2>1. utxoDat' \in UtxoFile \cup {NoFile}
      BY <1>9, TipInBlock DEF TInv, TypeOK, FlushAfterConnect, Flushed, UtxoFile
    <2> QED BY <1>2, <1>9, <2>1
          DEF TInv, TypeOK, FlushAfterConnect, flags, ledger, history
  <1>10. CASE NoFlushYet
    BY <1>2, <1>10 DEF TInv, TypeOK, NoFlushYet, disk, flags, ledger, history
  <1> QED BY <1>4, <1>5, <1>6, <1>7, <1>8, <1>9, <1>10

\* After a disconnect the chain is the parent's chain.
LEMMA DisconnectChain ==
    ASSUME TInv, DisconnectTip
    PROVE  /\ Tip \in Block \ {Genesis} /\ Prev[Tip] \in Block
           /\ Tip' = Prev[Tip] /\ ChainIsPath'
           /\ chain' \in Seq(Block) /\ Len(chain') > 0
  <1>1. Tip \in Block /\ Height(Tip) > 0
    BY TipInBlock DEF TInv, DisconnectTip, CanDisconnect
  <1>2. Tip # Genesis
    BY <1>1, HeightZero
  <1>3. chain' = Path[Prev[Tip]] /\ Prev[Tip] \in Block
    BY <1>1, <1>2, PathPop DEF TInv, ChainIsPath, DisconnectTip
  <1> QED BY <1>1, <1>2, <1>3, NewTip

\* A disconnect keeps the types.
LEMMA DisconnectTInv ==
    ASSUME TInv, DisconnectTip
    PROVE  TInv'
  <1>1. Tip \in Block /\ undoFiles[Tip] \in Undo
    BY TipInBlock DEF TInv, TypeOK, DisconnectTip, CanDisconnect
  <1>2. state' \in State
    BY <1>1, RevertedType DEF TInv, TypeOK, DisconnectTip
  <1>3. txindex' \in [Tx -> Block \cup {NoBlock}]
    BY DEF TInv, TypeOK, DisconnectTip, TxIndexWithout
  <1>4. ChainIsPath' /\ chain' \in Seq(Block) /\ Len(chain') > 0
    BY DisconnectChain
  <1> QED BY <1>2, <1>3, <1>4 DEF TInv, TypeOK, DisconnectTip, disk, flags, history

\* Rejecting a block keeps the types.
LEMMA RejectTInv ==
    ASSUME TInv, RejectBlock
    PROVE  TInv'
  <1>1. Known \subseteq Block
    BY TipInBlock DEF TInv
  <1>2. FailedSubtree(NextBlock) \subseteq Block
    BY <1>1 DEF FailedSubtree
  <1>3. BestAmong(Known \ failed') \subseteq Block
    BY <1>1 DEF BestAmong
  <1>4. TypeOK'
    BY <1>2, <1>3 DEF TInv, TypeOK, RejectBlock, MarkFailed, disk, ledger, history
  <1>5. ChainIsPath'
    BY DEF TInv, ChainIsPath, Tip, RejectBlock, MarkFailed, ledger
  <1> QED BY <1>4, <1>5 DEF TInv

\* The block a path is continued with is a child of the tip.
LEMMA NextBlockIsChild ==
    ASSUME TInv, Connecting
    PROVE  /\ NextBlock \in Block \ {Genesis} /\ Prev[NextBlock] = Tip
           /\ Append(chain, NextBlock) = Path[NextBlock]
  <1>1. cand \in Block /\ Tip \in Ancestors(cand) /\ Tip # cand
    BY DEF TInv, TypeOK, Connecting
  <1>2. /\ NextBlock \in Block \ {Genesis} /\ Prev[NextBlock] = Tip
        /\ Path[NextBlock] = Append(Path[Tip], NextBlock)
    BY <1>1, NextOnPath DEF NextBlock
  <1> QED BY <1>2 DEF TInv, ChainIsPath

\* Writing a snapshot and dropping old ones leaves a map of snapshot files.
LEMMA SnapshotsType ==
    ASSUME TypeOK, NEW b \in Block, NEW s \in State, NEW c
    PROVE  SnapshotsAfter(b, s, c) \subseteq [Block -> State \cup {NoFile}]
  <1> DEFINE files == [snapFiles EXCEPT ![b] = s]
  <1>1. files \in [Block -> State \cup {NoFile}] /\ snapFiles \in [Block -> State \cup {NoFile}]
    BY DEF TypeOK
  <1>2. SnapshotsKept(files, c) \subseteq [Block -> State \cup {NoFile}]
    <2> HIDE DEF files
    <2> QED BY <1>1 DEF SnapshotsKept
  <1> QED BY <1>1, <1>2 DEF SnapshotsAfter

\* A connect keeps the types.
LEMMA ConnectTInv ==
    ASSUME TInv, ConnectBlock
    PROVE  TInv'
  <1> DEFINE b == NextBlock
  <1>1. /\ b \in Block \ {Genesis} /\ chain' = Path[b]
    BY NextBlockIsChild DEF ConnectBlock
  <1>2. state \in State /\ Applied(state, b) \in State /\ UndoOf(state, b) \in Undo
    BY <1>1, AppliedType, UndoType DEF TInv, TypeOK
  <1>3. ChainIsPath' /\ chain' \in Seq(Block) /\ Len(chain') > 0
    BY <1>1, NewTip
  <1>4. undoFiles' \in [Block -> Undo \cup {NoFile}]
    BY <1>2 DEF TInv, TypeOK, ConnectBlock
  <1>5. txindex' \in [Tx -> Block \cup {NoBlock}]
    BY <1>1 DEF TInv, TypeOK, ConnectBlock
  <1>6. snapFiles' \in [Block -> State \cup {NoFile}]
    BY <1>1, <1>2, SnapshotsType DEF TInv, ConnectBlock
  <1>7. Height(b) \in Nat
    BY <1>1, PathLast DEF Height
  <1>8. peak' \in Nat
    BY <1>7 DEF TInv, TypeOK, ConnectBlock
  <1>9. state' \in State /\ witnessFiles' \subseteq Block /\ sinceFlush' \in Nat
    BY <1>2 DEF TInv, TypeOK, ConnectBlock
  <1> QED BY <1>3, <1>4, <1>5, <1>6, <1>8, <1>9
        DEF TInv, TypeOK, ConnectBlock, flags

\* The state a block commits to for b, when b is committed to, is a state.
LEMMA CommittedState ==
    ASSUME TypeOK, NEW b \in Block, Committed(b)
    PROVE  Commit[CommitHeader(b)] \in State
  <1> DEFINE h == Height(b) + SNAPSHOT_DELAY
  <1>1. /\ Path[bestHeader] \in Seq(Block) /\ Len(Path[bestHeader]) \in Nat
        /\ Len(Path[b]) \in Nat \ {0}
    BY PathLast DEF TypeOK
  <1>2. h \in Nat
    BY <1>1, ParameterAssumption DEF Height
  <1>3. h <= Len(Path[bestHeader]) - 1
    BY DEF Committed, Height
  <1>4. h + 1 \in 1..Len(Path[bestHeader])
    BY <1>1, <1>2, <1>3
  <1>5. CommitHeader(b) \in Block
    <2> HIDE DEF h
    <2> QED BY <1>1, <1>4 DEF CommitHeader, AncestorAt, h
  <1> QED BY <1>5, ContentAssumption DEF Committed

\* Adopting a snapshot keeps the types.
LEMMA LoadSnapshotTInv ==
    ASSUME TInv, NEW b \in Block, LoadSnapshot(b)
    PROVE  TInv'
  <1>1. Commit[CommitHeader(b)] \in State
    BY CommittedState DEF TInv, LoadSnapshot
  <1>2. ChainIsPath' /\ chain' \in Seq(Block) /\ Len(chain') > 0
    BY NewTip DEF LoadSnapshot
  <1>3. Height(b) \in Nat
    BY PathLast DEF Height
  <1>4. peak' \in Nat
    BY <1>3 DEF TInv, TypeOK, LoadSnapshot
  <1>5. utxoDat' \in UtxoFile \cup {NoFile} /\ state' \in State
    BY <1>1 DEF TInv, TypeOK, LoadSnapshot, Flushed, UtxoFile
  <1>6. snapFiles' \in [Block -> State \cup {NoFile}]
    BY <1>1 DEF TInv, TypeOK, LoadSnapshot
  <1>7. txindex' \in [Tx -> Block \cup {NoBlock}]
    BY DEF LoadSnapshot
  <1>8. /\ chainData' \subseteq Block /\ candidates' \subseteq Block
        /\ fromSnapshot' \subseteq Block
    BY DEF TInv, TypeOK, LoadSnapshot
  <1>9. lied' \in BOOLEAN
    BY DEF LoadSnapshot
  <1> QED BY <1>2, <1>4, <1>5, <1>6, <1>7, <1>8, <1>9 DEF TInv, TypeOK, LoadSnapshot

\* So does giving up in the middle of it.
LEMMA LoadSnapshotFailsTInv ==
    ASSUME TInv, NEW b \in Block, LoadSnapshotFails(b)
    PROVE  TInv'
  <1>1. Commit[CommitHeader(b)] \in State
    BY CommittedState DEF TInv, LoadSnapshotFails
  <1>2. snapFiles' \in [Block -> State \cup {NoFile}] /\ state' \in State
    BY <1>1 DEF TInv, TypeOK, LoadSnapshotFails
  <1>3. ChainIsPath'
    BY DEF TInv, ChainIsPath, Tip, LoadSnapshotFails
  <1> QED BY <1>2, <1>3 DEF TInv, TypeOK, LoadSnapshotFails, flags, history

\* What the process keeps in memory is reset to that of an empty chain.
LEMMA MemoryLostType ==
    ASSUME MemoryLost
    PROVE  /\ Tip' = Genesis /\ ChainIsPath' /\ chain' \in Seq(Block) /\ Len(chain') > 0
           /\ state' \in State /\ txindex' \in [Tx -> Block \cup {NoBlock}]
           /\ Genesis \in Block
  <1>1. Genesis \in Block /\ chain' = Path[Genesis]
    BY TreeAssumption DEF MemoryLost
  <1>2. state' \in State
    BY ContentAssumption DEF MemoryLost, EmptyState, State
  <1>3. txindex' \in [Tx -> Block \cup {NoBlock}]
    BY DEF MemoryLost
  <1> QED BY <1>1, <1>2, <1>3, NewTip

\* A shutdown keeps the types.
LEMMA ShutdownTInv ==
    ASSUME TInv, Shutdown
    PROVE  TInv'
  <1>1. utxoDat' \in UtxoFile \cup {NoFile}
    BY TipInBlock DEF TInv, TypeOK, Shutdown, Flushed, UtxoFile
  <1>2. MemoryLost
    BY DEF Shutdown
  <1> QED BY <1>1, <1>2, MemoryLostType DEF TInv, TypeOK, Shutdown, MemoryLost, history

\* So does a crash between two steps,
LEMMA CrashTInv ==
    ASSUME TInv, Crash
    PROVE  TInv'
  <1>1. MemoryLost
    BY DEF Crash
  <1> QED BY <1>1, MemoryLostType DEF TInv, TypeOK, Crash, MemoryLost, disk, history

\* a crash inside store_block,
LEMMA CrashStoringTInv ==
    ASSUME TInv, NEW b \in Block, CrashStoring(b)
    PROVE  TInv'
  <1>1. MemoryLost
    BY DEF CrashStoring
  <1>2. HeadersAfter(b) \in Seq(Block)
    BY DEF TInv, TypeOK, HeadersAfter
  <1> QED BY <1>1, <1>2, MemoryLostType
        DEF TInv, TypeOK, CrashStoring, MemoryLost, history

\* and a crash inside load_snapshot_bytes.
LEMMA CrashLoadingTInv ==
    ASSUME TInv, NEW b \in Block, CrashLoading(b)
    PROVE  TInv'
  <1>1. MemoryLost
    BY DEF CrashLoading
  <1>2. Commit[CommitHeader(b)] \in State
    BY CommittedState DEF TInv, CrashLoading
  <1>3. snapFiles' \in [Block -> State \cup {NoFile}]
    BY <1>2 DEF TInv, TypeOK, CrashLoading
  <1>4. lied' \in BOOLEAN
    BY DEF CrashLoading
  <1> QED BY <1>1, <1>3, <1>4, MemoryLostType
        DEF TInv, TypeOK, CrashLoading, MemoryLost

\* A restart takes its tip and state from utxo.dat, or starts over.
LEMMA LoadedType ==
    ASSUME TInv
    PROVE  /\ LoadedTip \in Block /\ LoadedState \in State
           /\ LoadedChainData \subseteq Block /\ LoadedBestHeaders \subseteq Block
           /\ LoadedTxIndex \in [Tx -> Block \cup {NoBlock}]
  <1>1. Known \subseteq Block
    BY TipInBlock DEF TInv
  <1>2. Genesis \in Block /\ EmptyState \in State
    BY TreeAssumption, ContentAssumption DEF EmptyState, State
  <1>3. utxoDat \in UtxoFile \cup {NoFile}
    BY DEF TInv, TypeOK
  <1>4. LoadedTip \in Block /\ LoadedState \in State
    BY <1>2, <1>3 DEF LoadedTip, LoadedState, UtxoUsable, UtxoFile
  <1>5. LoadedChainData \subseteq Block /\ LoadedBestHeaders \subseteq Block
    BY <1>1 DEF LoadedChainData, LoadedBestHeaders
  <1>6. \A t \in Tx : IndexedBlocks(Path[LoadedTip], t) \subseteq Block
    BY DEF IndexedBlocks, TInv, TypeOK
  <1>7. LoadedTxIndex \in [Tx -> Block \cup {NoBlock}]
    BY <1>6 DEF LoadedTxIndex
  <1> QED BY <1>4, <1>5, <1>7

\* A restart keeps the types.
LEMMA LoadTInv ==
    ASSUME TInv, Load
    PROVE  TInv'
  <1>1. ChainIsPath' /\ chain' \in Seq(Block) /\ Len(chain') > 0
    BY LoadedType, NewTip DEF Load
  <1>2. fromSnapshot' \subseteq Block
    BY DEF TInv, TypeOK, Load
  <1> QED BY <1>1, <1>2, LoadedType DEF TInv, TypeOK, Load, disk, history

\* Every step keeps TInv.
LEMMA NextTInv == TInv /\ [Next]_vars => TInv'
  <1> SUFFICES ASSUME TInv, [Next]_vars PROVE TInv'
    OBVIOUS
  <1>1. CASE UNCHANGED vars
    BY <1>1 DEF vars, disk, flags, ledger, history, TInv, TypeOK, ChainIsPath, Tip
  <1>2. CASE Activate
    BY <1>2, QuietTInv, DisconnectTInv, RejectTInv, ConnectTInv DEF Activate
  <1>3. CASE \E b \in Block : AcceptHeader(b) \/ AcceptWitness(b)
    BY <1>3, HeaderTInv, WitnessTInv
  <1>4. CASE \E b \in Block, w \in BOOLEAN : AcceptNewBlock(b, w)
    BY <1>4, BlockTInv
  <1>5. CASE \E b \in Block : LoadSnapshot(b) \/ LoadSnapshotFails(b)
    BY <1>5, LoadSnapshotTInv, LoadSnapshotFailsTInv
  <1>6. CASE \E b \in Block : CrashStoring(b) \/ CrashLoading(b)
    BY <1>6, CrashStoringTInv, CrashLoadingTInv
  <1>7. CASE Shutdown \/ Crash \/ Load
    BY <1>7, ShutdownTInv, CrashTInv, LoadTInv
  <1> QED BY <1>1, <1>2, <1>3, <1>4, <1>5, <1>6, <1>7 DEF Next

\* The typed invariant holds in every reachable state.
LEMMA TInvAlways == Spec => []TInv
  BY InitTInv, NextTInv, PTL DEF Spec

\* Type correctness of every behaviour, whatever faults happen.
THEOREM TypeCorrect == Spec => []TypeOK
  <1>1. TInv => TypeOK
    BY DEF TInv
  <1> QED BY <1>1, TInvAlways, PTL

---------------------------------------------------------------------------
(* The state is the replay of the chain.  The state in memory, the undo     *)
(* files and utxo.dat keep each other right: a disconnect is right because  *)
(* the undo file is, the undo file because the state it was taken from was, *)
(* and a restart because utxo.dat is; so the three are proved together.     *)

SInv == StateMatchesTip /\ UndoFilesRestore /\ UtxoFileMatchesItsTip

\* A step that changes none of the state, the undo files and utxo.dat.
LEMMA QuietSInv ==
    ASSUME SInv, chain' = chain, state' = state, undoFiles' = undoFiles,
           utxoDat' = utxoDat, lied' = lied
    PROVE  SInv'
  <1>1. StateMatchesTip'
    BY DEF SInv, StateMatchesTip, Tip
  <1>2. UndoFilesRestore'
    BY DEF SInv, UndoFilesRestore
  <1>3. UtxoFileMatchesItsTip'
    BY DEF SInv, UtxoFileMatchesItsTip
  <1> QED BY <1>1, <1>2, <1>3 DEF SInv

\* The fresh node satisfies the invariant.
LEMMA InitSInv == Init => SInv
  <1> SUFFICES ASSUME Init PROVE SInv
    OBVIOUS
  <1>1. StateMatchesTip
    BY TreeAssumption, StateAtAssumption DEF Init, StateMatchesTip, Tip
  <1>2. UndoFilesRestore
    BY DEF Init, UndoFilesRestore
  <1>3. UtxoFileMatchesItsTip
    BY DEF Init, UtxoFileMatchesItsTip
  <1> QED BY <1>1, <1>2, <1>3 DEF SInv

\* The undo file of the tip leads back to the state of its parent.
LEMMA DisconnectSInv ==
    ASSUME TInv, SInv, DisconnectTip
    PROVE  SInv'
  <1>1. /\ Tip \in Block \ {Genesis} /\ Prev[Tip] \in Block
        /\ Tip' = Prev[Tip] /\ ChainIsPath'
    BY DisconnectChain
  <1>2. undoFiles[Tip] # NoFile /\ lied' = lied
    BY DEF DisconnectTip, CanDisconnect, history
  <1>3. ~lied => Reverted(StateAt[Tip], undoFiles[Tip], Tip) = StateAt[Prev[Tip]]
    BY <1>1, <1>2 DEF SInv, UndoFilesRestore
  <1>4. ~lied => state' = StateAt[Prev[Tip]]
    BY <1>3 DEF SInv, StateMatchesTip, DisconnectTip
  <1>5. StateMatchesTip'
    BY <1>1, <1>2, <1>4 DEF StateMatchesTip, ChainIsPath
  <1>6. UndoFilesRestore' /\ UtxoFileMatchesItsTip'
    BY DEF SInv, UndoFilesRestore, UtxoFileMatchesItsTip, DisconnectTip, disk, history
  <1> QED BY <1>5, <1>6 DEF SInv

\* A connected block applied to the replayed state of its parent.
LEMMA ConnectSInv ==
    ASSUME TInv, SInv, ConnectBlock
    PROVE  SInv'
  <1> DEFINE b == NextBlock
  <1>1. b \in Block \ {Genesis} /\ Prev[b] = Tip /\ chain' = Path[b]
    BY NextBlockIsChild DEF ConnectBlock
  <1>2. Tip' = b /\ ChainIsPath'
    BY <1>1, NewTip
  <1>3. lied' = lied /\ state' = Applied(state, b) /\ TxsApply(state, b)
    BY DEF ConnectBlock, BlockValid
  <1>4. ~lied => state = StateAt[Prev[b]]
    BY <1>1 DEF SInv, StateMatchesTip
  <1>5. StateAt[b] = Applied(StateAt[Prev[b]], b)
    BY <1>1, StateAtAssumption
  <1>6. StateMatchesTip'
    <2> HIDE DEF b
    <2> QED BY <1>2, <1>3, <1>4, <1>5 DEF StateMatchesTip, ChainIsPath
  <1>7. ~lied => Reverted(StateAt[b], UndoOf(state, b), b) = StateAt[Prev[b]]
    <2> HIDE DEF b
    <2> QED BY <1>1, <1>3, <1>4, UndoRestores
  <1>8. \A x \in Block : undoFiles'[x] # NoFile =>
            undoFiles'[x] = undoFiles[x] \/ (x = b /\ undoFiles'[x] = UndoOf(state, b))
    BY DEF ConnectBlock
  <1>9. UndoFilesRestore'
    <2> HIDE DEF b
    <2> QED BY <1>1, <1>3, <1>7, <1>8 DEF SInv, UndoFilesRestore
  <1>10. UtxoFileMatchesItsTip'
    BY DEF SInv, UtxoFileMatchesItsTip, ConnectBlock
  <1> QED BY <1>6, <1>9, <1>10 DEF SInv

\* A flush writes the tip and its state.
LEMMA FlushSInv ==
    ASSUME TInv, SInv, FlushAfterConnect
    PROVE  SInv'
  <1>1. StateMatchesTip'
    BY DEF SInv, StateMatchesTip, Tip, FlushAfterConnect, ledger, history
  <1>2. UndoFilesRestore'
    BY DEF SInv, UndoFilesRestore, FlushAfterConnect, history
  <1>3. UtxoFileMatchesItsTip'
    BY DEF SInv, StateMatchesTip, UtxoFileMatchesItsTip, FlushAfterConnect, Flushed, history
  <1> QED BY <1>1, <1>2, <1>3 DEF SInv

\* A snapshot is adopted together with its block; if it is not the replayed
\* state, the history variable records it.
LEMMA LoadSnapshotSInv ==
    ASSUME TInv, SInv, NEW b \in Block, LoadSnapshot(b)
    PROVE  SInv'
  <1> DEFINE snap == Commit[CommitHeader(b)]
  <1>1. Tip' = b /\ ChainIsPath'
    BY NewTip DEF LoadSnapshot
  <1>2. /\ state' = snap /\ utxoDat' \in {utxoDat, [tip |-> b, state |-> snap]}
        /\ undoFiles' = undoFiles /\ lied' = (lied \/ snap # StateAt[b])
    BY DEF LoadSnapshot, Flushed
  <1> HIDE DEF snap
  <1>3. StateMatchesTip'
    BY <1>1, <1>2 DEF StateMatchesTip, ChainIsPath
  <1>4. UndoFilesRestore'
    BY <1>2 DEF SInv, UndoFilesRestore
  <1>5. ~lied' => ~lied /\ snap = StateAt[b]
    BY <1>2
  <1>6. UtxoFileMatchesItsTip'
    <2>1. CASE utxoDat' = utxoDat
      BY <1>5, <2>1 DEF SInv, UtxoFileMatchesItsTip
    <2>2. CASE utxoDat' = [tip |-> b, state |-> snap]
      BY <1>5, <2>2 DEF UtxoFileMatchesItsTip
    <2> QED BY <1>2, <2>1, <2>2
  <1> QED BY <1>3, <1>4, <1>6 DEF SInv

\* A stop of the process, whatever it leaves on disk, except that utxo.dat is
\* the old one or the flushed one.
LEMMA StopSInv ==
    ASSUME TInv, SInv, MemoryLost, undoFiles' = undoFiles, ~lied' => ~lied,
           utxoDat' \in {utxoDat, [tip |-> Tip, state |-> state]}
    PROVE  SInv'
  <1>1. Tip' = Genesis /\ ChainIsPath' /\ state' = EmptyState
    BY MemoryLostType DEF MemoryLost
  <1>2. StateMatchesTip'
    BY <1>1, StateAtAssumption DEF StateMatchesTip, ChainIsPath
  <1>3. UndoFilesRestore'
    BY DEF SInv, UndoFilesRestore
  <1>4. UtxoFileMatchesItsTip'
    BY DEF SInv, StateMatchesTip, UtxoFileMatchesItsTip
  <1> QED BY <1>2, <1>3, <1>4 DEF SInv

\* A restart resumes from utxo.dat, or from genesis with empty state.
LEMMA LoadSInv ==
    ASSUME TInv, SInv, Load
    PROVE  SInv'
  <1>1. LoadedTip \in Block
    BY LoadedType
  <1>2. Tip' = LoadedTip /\ ChainIsPath' /\ state' = LoadedState
    BY <1>1, NewTip DEF Load
  <1>3. ~lied => LoadedState = StateAt[LoadedTip]
    BY StateAtAssumption
       DEF SInv, UtxoFileMatchesItsTip, LoadedState, LoadedTip, UtxoUsable
  <1>4. StateMatchesTip'
    BY <1>2, <1>3 DEF StateMatchesTip, ChainIsPath, Load, history
  <1>5. UndoFilesRestore' /\ UtxoFileMatchesItsTip'
    BY DEF SInv, UndoFilesRestore, UtxoFileMatchesItsTip, Load, disk, history
  <1> QED BY <1>4, <1>5 DEF SInv

\* activate_best_chain keeps the invariant step by step.
LEMMA ActivateSInv ==
    ASSUME TInv, SInv, Activate
    PROVE  SInv'
  <1>1. CASE SelectCandidate \/ PathDone \/ NoFlushYet
    BY <1>1, QuietSInv DEF SelectCandidate, PathDone, NoFlushYet, disk, ledger, history
  <1>2. CASE SelectNone \/ AbortReorg \/ StallOnBlock
    BY <1>2, QuietSInv DEF SelectNone, AbortReorg, StallOnBlock, disk, ledger, history
  <1>3. CASE RejectBlock
    BY <1>3, QuietSInv DEF RejectBlock, MarkFailed, disk, ledger, history
  <1> QED BY <1>1, <1>2, <1>3, DisconnectSInv, ConnectSInv, FlushSInv DEF Activate

\* Every step keeps the invariant, unless load_snapshot_bytes gives up between
\* replacing the state and replacing the chain.
LEMMA NextSInv ==
    ASSUME "load-write" \notin Faults
    PROVE  TInv /\ SInv /\ [Next]_vars => SInv'
  <1> SUFFICES ASSUME TInv, SInv, [Next]_vars PROVE SInv'
    OBVIOUS
  <1>1. CASE UNCHANGED vars
    BY <1>1, QuietSInv DEF vars, disk, ledger, history
  <1>2. CASE Activate
    BY <1>2, ActivateSInv
  <1>3. CASE \E b \in Block : AcceptHeader(b) \/ AcceptWitness(b)
    BY <1>3, QuietSInv DEF AcceptHeader, AcceptWitness, ledger, history
  <1>4. CASE \E b \in Block, w \in BOOLEAN : AcceptNewBlock(b, w)
    BY <1>4, QuietSInv DEF AcceptNewBlock, ledger, history
  <1>5. CASE \E b \in Block : LoadSnapshot(b)
    BY <1>5, LoadSnapshotSInv
  <1>6. CASE \E b \in Block : CrashStoring(b) \/ CrashLoading(b)
    <2>1. \A b \in Block : CrashLoading(b) => (~lied' => ~lied)
      BY Zenon DEF CrashLoading
    <2> QED BY <1>6, <2>1, StopSInv DEF CrashStoring, CrashLoading, history
  <1>7. CASE Shutdown \/ Crash
    BY <1>7, StopSInv DEF Shutdown, Flushed, Crash, disk, history
  <1>8. CASE Load
    BY <1>8, LoadSInv
  <1>9. ~ \E b \in Block : LoadSnapshotFails(b)
    BY DEF LoadSnapshotFails
  <1> QED BY <1>1, <1>2, <1>3, <1>4, <1>5, <1>6, <1>7, <1>8, <1>9 DEF Next

\* The replay invariant holds in every reachable state.
LEMMA SInvAlways ==
    ASSUME "load-write" \notin Faults
    PROVE  Spec => []SInv
  <1>1. Init => SInv
    BY InitSInv
  <1>2. TInv /\ SInv /\ [Next]_vars => SInv'
    BY NextSInv
  <1> QED BY <1>1, <1>2, TInvAlways, PTL DEF Spec

\* Whatever sequence of headers, blocks, reorganisations, rejected candidates,
\* crashes and restarts: the coins, tokens and pools in memory are those a
\* replay of the active chain from genesis gives (connect_block,
\* disconnect_tip and load_tip_state, for every tree and every pruning depth).
THEOREM StateIsReplay ==
    ASSUME "load-write" \notin Faults
    PROVE  Spec => []StateMatchesTip
  <1>1. SInv => StateMatchesTip
    BY DEF SInv
  <1> QED BY <1>1, SInvAlways, PTL

\* Every undo file on disk inverts its block.
THEOREM UndoFilesCorrect ==
    ASSUME "load-write" \notin Faults
    PROVE  Spec => []UndoFilesRestore
  <1>1. SInv => UndoFilesRestore
    BY DEF SInv
  <1> QED BY <1>1, SInvAlways, PTL

\* utxo.dat always holds the state of the block it names.
THEOREM UtxoFileCorrect ==
    ASSUME "load-write" \notin Faults
    PROVE  Spec => []UtxoFileMatchesItsTip
  <1>1. SInv => UtxoFileMatchesItsTip
    BY DEF SInv
  <1> QED BY <1>1, SInvAlways, PTL

---------------------------------------------------------------------------
(* Places on a chain. *)

\* An ancestor is found on the chain at its own height, and its chain is the
\* part of the chain up to there.
LEMMA AncestorPlace ==
    ASSUME NEW b \in Block, NEW a \in Ancestors(b)
    PROVE  /\ a \in Block
           /\ Height(a) \in Nat /\ Height(b) \in Nat /\ Height(a) <= Height(b)
           /\ Height(a) + 1 \in 1..Len(Path[b])
           /\ a = Path[b][Height(a) + 1]
           /\ Path[a] = SubSeq(Path[b], 1, Height(a) + 1)
  <1>1. PICK i \in 1..Len(Path[b]) : a = Path[b][i]
    BY DEF Ancestors
  <1>2. Path[b] \in Seq(Block) /\ Len(Path[b]) \in Nat \ {0}
    BY PathLast
  <1>3. a \in Block /\ Path[a] = SubSeq(Path[b], 1, i)
    <2>1. Path[Path[b][i]] = SubSeq(Path[b], 1, i)
      BY TreeAssumption
    <2> QED BY <2>1, <1>1, <1>2
  <1>4. Len(Path[a]) = i
    BY <1>1, <1>2, <1>3
  <1> QED BY <1>1, <1>2, <1>3, <1>4 DEF Height

\* A block is the last of its chain.
LEMMA OwnAncestor ==
    ASSUME NEW b \in Block
    PROVE  b \in Ancestors(b) /\ Height(b) \in Nat
  BY PathLast DEF Ancestors, Height

\* Ancestors of an ancestor are ancestors.
LEMMA AncestorTrans ==
    ASSUME NEW b \in Block, NEW a \in Ancestors(b), NEW x \in Ancestors(a)
    PROVE  x \in Ancestors(b)
  <1>1. /\ a \in Block /\ Height(a) + 1 \in 1..Len(Path[b])
        /\ Path[a] = SubSeq(Path[b], 1, Height(a) + 1)
    BY AncestorPlace
  <1>2. Height(x) + 1 \in 1..Len(Path[a]) /\ x = Path[a][Height(x) + 1]
    BY <1>1, AncestorPlace
  <1>3. Path[b] \in Seq(Block) /\ Len(Path[b]) \in Nat
    BY PathLast
  <1>4. Len(Path[a]) = Height(a) + 1
    BY <1>1, <1>3
  <1>5. Height(x) + 1 \in 1..Len(Path[b]) /\ x = Path[b][Height(x) + 1]
    BY <1>1, <1>2, <1>3, <1>4
  <1> QED BY <1>5 DEF Ancestors

\* Of two ancestors of one block, the lower is an ancestor of the higher.
LEMMA AncestorOrder ==
    ASSUME NEW b \in Block, NEW a \in Ancestors(b), NEW x \in Ancestors(b),
           Height(x) <= Height(a)
    PROVE  x \in Ancestors(a)
  <1>1. /\ Height(a) \in Nat /\ Height(a) + 1 \in 1..Len(Path[b])
        /\ Path[a] = SubSeq(Path[b], 1, Height(a) + 1)
    BY AncestorPlace
  <1>2. Height(x) \in Nat /\ x = Path[b][Height(x) + 1]
    BY AncestorPlace
  <1>3. Path[b] \in Seq(Block) /\ Len(Path[b]) \in Nat
    BY PathLast
  <1>4. /\ Len(Path[a]) = Height(a) + 1
        /\ Height(x) + 1 \in 1..(Height(a) + 1)
    BY <1>1, <1>2, <1>3
  <1>5. x = Path[a][Height(x) + 1]
    BY <1>1, <1>2, <1>3, <1>4
  <1> QED BY <1>4, <1>5 DEF Ancestors

\* A chain has one block at each height.
LEMMA AncestorUnique ==
    ASSUME NEW b \in Block, NEW a \in Ancestors(b), NEW x \in Ancestors(b),
           Height(x) = Height(a)
    PROVE  x = a
  BY AncestorPlace

\* The chain of a block is the chain of its parent and the block.
LEMMA AncestorStep ==
    ASSUME NEW b \in Block, b # Genesis
    PROVE  /\ Prev[b] \in Block
           /\ Ancestors(b) = Ancestors(Prev[b]) \cup {b}
           /\ Height(b) = Height(Prev[b]) + 1
           /\ b \notin Ancestors(Prev[b])
  <1>1. /\ Prev[b] \in Block /\ Path[Prev[b]] \in Seq(Block)
        /\ Path[b] = Append(Path[Prev[b]], b)
    BY TreeAssumption
  <1>2. Len(Path[b]) = Len(Path[Prev[b]]) + 1 /\ Len(Path[Prev[b]]) \in Nat
    BY <1>1
  <1>3. Ancestors(b) = Ancestors(Prev[b]) \cup {b}
    BY <1>1, <1>2 DEF Ancestors
  <1>4. Height(b) = Height(Prev[b]) + 1
    BY <1>2 DEF Height
  <1>5. b \notin Ancestors(Prev[b])
    BY <1>1, <1>4, AncestorPlace
  <1> QED BY <1>1, <1>3, <1>4, <1>5

\* Every chain starts at genesis, the only block of height 0.
LEMMA GenesisFirst ==
    ASSUME NEW b \in Block
    PROVE  /\ Genesis \in Ancestors(b) /\ Height(Genesis) = 0
           /\ Height(b) = 0 => b = Genesis
  <1>1. Path[b] \in Seq(Block) /\ Len(Path[b]) \in Nat \ {0}
    BY PathLast
  <1> DEFINE g == Path[b][1]
  <1>2. g \in Block /\ g \in Ancestors(b) /\ Path[g] = SubSeq(Path[b], 1, 1)
    <2>1. 1 \in 1..Len(Path[b])
      BY <1>1
    <2>2. g \in Block /\ g \in Ancestors(b)
      BY <2>1, <1>1 DEF Ancestors
    <2>3. Path[Path[b][1]] = SubSeq(Path[b], 1, 1)
      BY <2>1, TreeAssumption
    <2> QED BY <2>2, <2>3
  <1>3. Len(Path[g]) = 1
    BY <1>1, <1>2
  <1>4. Height(g) = 0
    BY <1>3 DEF Height
  <1>5. \A x \in Block : Height(x) = 0 => x = Genesis
    BY AncestorStep, OwnAncestor
  <1>6. g = Genesis
    BY <1>2, <1>4, <1>5
  <1> QED BY <1>2, <1>4, <1>5, <1>6

\* The chain of genesis is genesis.
LEMMA GenesisAlone == Ancestors(Genesis) = {Genesis} /\ Genesis \in Block
  <1>1. Path[Genesis] = <<Genesis>> /\ Genesis \in Block
    BY TreeAssumption
  <1>2. \A i \in 1..Len(Path[Genesis]) : Path[Genesis][i] = Genesis
    BY <1>1
  <1>3. 1 \in 1..Len(Path[Genesis])
    BY <1>1
  <1> QED BY <1>1, <1>2, <1>3 DEF Ancestors

\* A chain has a block at each height up to its own.
LEMMA AncestorExists ==
    ASSUME NEW b \in Block, NEW h \in Nat, h <= Height(b)
    PROVE  /\ AncestorAt(b, h) \in Ancestors(b)
           /\ AncestorAt(b, h) \in Block
           /\ Height(AncestorAt(b, h)) = h
  <1>1. Path[b] \in Seq(Block) /\ Len(Path[b]) \in Nat \ {0}
    BY PathLast
  <1>2. h + 1 \in 1..Len(Path[b])
    BY <1>1 DEF Height
  <1>3. Path[AncestorAt(b, h)] = SubSeq(Path[b], 1, h + 1)
    BY <1>2, TreeAssumption DEF AncestorAt
  <1>4. Len(Path[AncestorAt(b, h)]) = h + 1
    BY <1>1, <1>2, <1>3
  <1> QED BY <1>1, <1>2, <1>4 DEF AncestorAt, Ancestors, Height

\* The active blocks are the chain of the tip.
LEMMA ActiveIsChain ==
    ASSUME TInv
    PROVE  /\ Tip \in Block
           /\ ActiveBlocks = Ancestors(Tip)
           /\ Len(chain) = Height(Tip) + 1
           /\ \A b \in Block : InActiveChain(b) <=> b \in Ancestors(Tip)
  <1>1. Tip \in Block /\ chain = Path[Tip]
    BY TipInBlock DEF TInv, ChainIsPath
  <1>2. Path[Tip] \in Seq(Block) /\ Len(Path[Tip]) \in Nat \ {0}
    BY <1>1, PathLast
  <1>3. ActiveBlocks = Ancestors(Tip)
    BY <1>1 DEF ActiveBlocks, Ancestors
  <1>4. Len(chain) = Height(Tip) + 1
    BY <1>1, <1>2 DEF Height
  <1>5. ASSUME NEW b \in Block PROVE InActiveChain(b) <=> b \in Ancestors(Tip)
    <2>1. Height(b) \in Nat
      BY OwnAncestor
    <2>2. ASSUME InActiveChain(b) PROVE b \in Ancestors(Tip)
      <3>1. Height(b) + 1 \in 1..Len(Path[Tip]) /\ Path[Tip][Height(b) + 1] = b
        BY <2>1, <2>2, <1>1, <1>2 DEF InActiveChain
      <3> QED BY <3>1 DEF Ancestors
    <2>3. ASSUME b \in Ancestors(Tip) PROVE InActiveChain(b)
      <3>1. Height(b) + 1 \in 1..Len(Path[Tip]) /\ b = Path[Tip][Height(b) + 1]
        BY <2>3, <1>1, AncestorPlace
      <3> QED BY <3>1, <2>1, <1>1, <1>2 DEF InActiveChain
    <2> QED BY <2>2, <2>3
  <1> QED BY <1>1, <1>3, <1>4, <1>5

---------------------------------------------------------------------------
(* What is on disk for a block that was connected.  The claims are made of   *)
(* the active chain and of the chain of utxo.dat: a restart makes the second *)
(* the first, a flush the first the second.                                  *)

\* The block a restart resumes from, if utxo.dat is usable.
Saved == IF utxoDat = NoFile THEN Genesis ELSE utxoDat.tip

\* b was connected here, not adopted with a snapshot at or above it.
Above(b, blocks) ==
    Height(b) > 0 /\ ~(baseDat \in blocks /\ Height(baseDat) >= Height(b))

SeenDeep(b) == \E x \in Known : Deep(b, x)

Backed(b) ==
    /\ SigsOk[b] \/ SeenDeep(b)
    /\ b \in blocksDat
    /\ Height(b) > peak - PRUNE_DEPTH =>
           undoFiles[b] # NoFile /\ (b \in witnessFiles \/ SeenDeep(b))

AllBacked(top) == \A b \in Ancestors(top) : Above(b, Ancestors(top)) => Backed(b)

HeadersClosed ==
    /\ Genesis \in Known /\ bestHeader \in Known /\ Tip \in Known /\ Saved \in Known
    /\ blocksDat \subseteq Known
    /\ \A b \in Known : Ancestors(b) \subseteq Known

\* base.dat names a block above genesis, one a running node knows it was
\* bootstrapped from, and has not left if the saved chain holds it.
BaseRecorded ==
    /\ pc # "down" => baseDat \in fromSnapshot \cup {NoBlock}
    /\ baseDat # NoBlock => Height(baseDat) > 0
    /\ pc # "down" /\ baseDat \in Ancestors(Saved) => baseDat \in Ancestors(Tip)
    /\ pc = "down" => Tip = Genesis

HInv == HeadersClosed /\ BaseRecorded /\ AllBacked(Tip) /\ AllBacked(Saved)

\* A step adds headers and blocks, and removes undo files and signatures only
\* of blocks PRUNE_DEPTH below the highest tip.
Grows ==
    /\ Known \subseteq Known' /\ blocksDat \subseteq blocksDat'
    /\ peak \in Nat /\ peak' \in Nat /\ peak <= peak'
    /\ \A b \in Block : Height(b) > peak' - PRUNE_DEPTH =>
           /\ undoFiles[b] # NoFile => undoFiles'[b] # NoFile
           /\ b \in witnessFiles => b \in witnessFiles'

\* The saved block is a block.
LEMMA SavedInBlock ==
    ASSUME TInv
    PROVE  Saved \in Block /\ Tip \in Block /\ baseDat \in Block \cup {NoBlock}
  BY TipInBlock, GenesisAlone DEF TInv, TypeOK, Saved, UtxoFile

\* Acceptance appends at most one header.
LEMMA HeadersAfterGrow ==
    ASSUME TypeOK, NEW b \in Block, headersDat' = HeadersAfter(b)
    PROVE  Known' = Known \cup {b}
  <1>1. CASE b \in Known
    BY <1>1 DEF HeadersAfter, Known
  <1>2. CASE b \notin Known
    <2>1. headersDat \in Seq(Block) /\ headersDat' = Append(headersDat, b)
      BY <1>2 DEF TypeOK, HeadersAfter
    <2> QED BY <2>1 DEF Known
  <1> QED BY <1>1, <1>2

\* connect_block prunes the ancestor PRUNE_DEPTH below the new block.
LEMMA PrunedPlace ==
    ASSUME TInv, Connecting, NEW x \in PrunedBlocks(Append(chain, NextBlock))
    PROVE  /\ x \in Ancestors(NextBlock) /\ x \in Block
           /\ Height(x) = Height(NextBlock) - PRUNE_DEPTH /\ Height(x) > 0
  <1> DEFINE n == NextBlock
             h == Len(Path[n]) - 1 - PRUNE_DEPTH
  <1>1. n \in Block /\ Append(chain, n) = Path[n]
    BY NextBlockIsChild
  <1>2. Len(Path[n]) \in Nat \ {0} /\ PRUNE_DEPTH \in Nat \ {0}
    BY <1>1, PathLast, ParameterAssumption
  <1>3. h > 0 /\ x = Path[n][h + 1]
    BY <1>1 DEF PrunedBlocks
  <1>4. h \in Nat /\ h <= Height(n)
    BY <1>2, <1>3 DEF Height
  <1>5. x = AncestorAt(n, h)
    BY <1>3 DEF AncestorAt
  <1> HIDE DEF n
  <1>6. h = Height(n) - PRUNE_DEPTH
    BY <1>2 DEF Height
  <1> HIDE DEF h
  <1>7. x \in Ancestors(n) /\ x \in Block /\ Height(x) = h
    BY <1>1, <1>4, <1>5, AncestorExists
  <1> QED BY <1>3, <1>6, <1>7 DEF n

\* Every step grows in that sense.
LEMMA NextGrows == TInv /\ [Next]_vars => Grows
  <1> SUFFICES ASSUME TInv, [Next]_vars PROVE Grows
    OBVIOUS
  <1>0. peak \in Nat /\ TypeOK
    BY DEF TInv, TypeOK
  <1>a. ASSUME headersDat' = headersDat, UNCHANGED <<blocksDat, undoFiles, witnessFiles, peak>>
        PROVE  Grows
    BY <1>0, <1>a DEF Grows, Known
  <1>1. CASE UNCHANGED vars
    BY <1>1, <1>a DEF vars, disk, history
  <1>2. CASE Activate
    <2>1. CASE SelectCandidate \/ SelectNone \/ DisconnectTip \/ AbortReorg \/ PathDone
      BY <2>1, <1>a DEF SelectCandidate, SelectNone, DisconnectTip, AbortReorg, PathDone,
         disk, history
    <2>2. CASE StallOnBlock \/ RejectBlock \/ NoFlushYet \/ FlushAfterConnect
      BY <2>2, <1>a DEF StallOnBlock, RejectBlock, MarkFailed, NoFlushYet,
         FlushAfterConnect, disk, history
    <2>3. CASE ConnectBlock
      <3> DEFINE n == NextBlock
                 pruned == PrunedBlocks(Append(chain, n))
      <3>1. /\ headersDat' = headersDat /\ blocksDat' = blocksDat
            /\ witnessFiles' = witnessFiles \ pruned
            /\ peak' = IF Height(n) > peak THEN Height(n) ELSE peak
            /\ \A x \in Block : x \notin pruned => undoFiles'[x] = undoFiles[x]
                                                   \/ undoFiles'[x] = UndoOf(state, n)
        BY <2>3 DEF ConnectBlock
      <3>2. Connecting
        BY <2>3 DEF ConnectBlock
      <3>3. n \in Block /\ Height(n) \in Nat /\ UndoOf(state, n) # NoFile
        BY <3>2, <1>0, NextBlockIsChild, OwnAncestor, UndoType, ContentAssumption
           DEF TInv, TypeOK
      <3>4. \A x \in pruned : Height(x) = Height(n) - PRUNE_DEPTH
        BY <3>2, PrunedPlace
      <3> HIDE DEF n, pruned
      <3>5. peak' \in Nat /\ peak <= peak' /\ Height(n) <= peak'
        BY <3>1, <3>3, <1>0
      <3>6. PRUNE_DEPTH \in Nat
        BY ParameterAssumption
      <3>7. \A x \in Block : Height(x) > peak' - PRUNE_DEPTH => x \notin pruned
        BY <3>3, <3>4, <3>5, <3>6
      <3> QED BY <3>1, <3>3, <3>5, <3>7, <1>0 DEF Grows, Known
    <2> QED BY <1>2, <2>1, <2>2, <2>3 DEF Activate
  <1>3. CASE \E b \in Block : AcceptHeader(b)
    <2>1. PICK b \in Block : AcceptHeader(b)
      BY <1>3
    <2> QED BY <2>1, <1>0, HeadersAfterGrow DEF AcceptHeader, history, Grows
  <1>4. CASE \E b \in Block : AcceptWitness(b)
    BY <1>4, <1>0 DEF AcceptWitness, WriteWitness, history, Grows, Known
  <1>5. CASE \E b \in Block, w \in BOOLEAN : AcceptNewBlock(b, w)
    <2>1. PICK b \in Block, w \in BOOLEAN : AcceptNewBlock(b, w)
      BY <1>5
    <2>2. witnessFiles \subseteq witnessFiles'
      BY <2>1 DEF AcceptNewBlock, WitnessStored, WriteWitness
    <2> QED BY <2>1, <2>2, <1>0, HeadersAfterGrow DEF AcceptNewBlock, history, Grows
  <1>6. CASE \E b \in Block : LoadSnapshot(b)
    <2>1. PICK b \in Block : LoadSnapshot(b)
      BY <1>6
    <2>2. Height(b) \in Nat
      BY OwnAncestor
    <2> QED BY <2>1, <2>2, <1>0 DEF LoadSnapshot, Grows, Known
  <1>7. CASE \E b \in Block : LoadSnapshotFails(b) \/ CrashLoading(b)
    BY <1>7, <1>a DEF LoadSnapshotFails, CrashLoading, history
  <1>8. CASE \E b \in Block : CrashStoring(b)
    <2>1. PICK b \in Block : CrashStoring(b)
      BY <1>8
    <2> QED BY <2>1, <1>0, HeadersAfterGrow DEF CrashStoring, history, Grows
  <1>9. CASE Shutdown \/ Crash \/ Load
    BY <1>9, <1>a DEF Shutdown, Crash, Load, disk, history
  <1> QED BY <1>1, <1>2, <1>3, <1>4, <1>5, <1>6, <1>7, <1>8, <1>9 DEF Next

\* What backs a block is kept as long as it is claimed.
LEMMA BackedStays ==
    ASSUME Grows, NEW b \in Block, Backed(b)
    PROVE  Backed(b)'
  <1>1. SeenDeep(b) => SeenDeep(b)'
    BY DEF Grows, SeenDeep, Deep
  <1>2. Height(b) \in Nat /\ PRUNE_DEPTH \in Nat
    BY OwnAncestor, ParameterAssumption
  <1>3. Height(b) > peak' - PRUNE_DEPTH => Height(b) > peak - PRUNE_DEPTH
    BY <1>2 DEF Grows
  <1> QED BY <1>1, <1>3 DEF Backed, Grows

\* So is what backs a whole chain, while base.dat stays.
LEMMA AllBackedStays ==
    ASSUME Grows, NEW top \in Block, AllBacked(top),
           baseDat' = baseDat \/ baseDat \notin Ancestors(top)
    PROVE  AllBacked(top)'
  <1> SUFFICES ASSUME NEW b \in Ancestors(top), Above(b, Ancestors(top))'
               PROVE  Backed(b)'
    BY DEF AllBacked
  <1>1. Above(b, Ancestors(top)) /\ b \in Block
    BY AncestorPlace DEF Above
  <1>2. Backed(b)
    BY <1>1 DEF AllBacked
  <1> QED BY <1>1, <1>2, BackedStays

---------------------------------------------------------------------------
(* The ways a step can move the tip, the saved block and the bootstrap block. *)

Quiet == UNCHANGED <<baseDat, undoFiles, peak>>

\* The tip stays; a flush saves it, unless it cannot write.
Stay ==
    /\ Quiet /\ Tip' = Tip /\ fromSnapshot' = fromSnapshot
    /\ pc = "down" <=> pc' = "down"
    /\ \/ utxoDat' = utxoDat /\ sinceFlush' = sinceFlush
       \/ utxoDat' # NoFile /\ Saved' = Tip /\ pc # "down"
       \/ utxoDat' = utxoDat /\ "flush-write" \in Faults

\* disconnect_tip
Back ==
    /\ Quiet /\ UNCHANGED <<utxoDat, fromSnapshot, sinceFlush, pc>> /\ pc # "down"
    /\ Tip \in Block \ {Genesis} /\ Tip' = Prev[Tip]
    /\ Tip \notin fromSnapshot /\ undoFiles[Tip] # NoFile

\* connect_block of n
Forward(n) ==
    /\ n \in Block \ {Genesis} /\ Prev[n] = Tip /\ Tip' = n
    /\ n \in blocksDat' /\ undoFiles'[n] # NoFile
    /\ (n \in witnessFiles' /\ SigsOk[n]) \/ Deep(n, bestHeader)
    /\ UNCHANGED <<utxoDat, baseDat, fromSnapshot>>
    /\ pc = "switch" /\ pc' = "flush"
    /\ sinceFlush' = sinceFlush + 1
    /\ peak' = IF Height(n) > peak THEN Height(n) ELSE peak
    /\ \A x \in Block \ {n} : undoFiles'[x] \in {undoFiles[x], NoFile}
    /\ \A x \in Ancestors(n) :
           Height(x) > 0 /\ Height(x) = Height(n) - PRUNE_DEPTH => undoFiles'[x] = NoFile

\* load_snapshot_bytes at b
Adopt(b) ==
    /\ pc # "down" /\ pc' # "down" /\ Tip = Genesis
    /\ b \in Known /\ b \in Block /\ Height(b) > 0
    /\ Tip' = b /\ baseDat' = b /\ b \in fromSnapshot'
    /\ sinceFlush' = 0 /\ undoFiles' = undoFiles
    /\ peak' = IF Height(b) > peak THEN Height(b) ELSE peak
    /\ \/ utxoDat' # NoFile /\ Saved' = b
       \/ utxoDat' = utxoDat /\ "flush-write" \in Faults

\* A shutdown, or a crash between two steps.
Stop ==
    /\ Quiet /\ pc # "down" /\ pc' = "down" /\ Tip' = Genesis
    /\ utxoDat' = utxoDat \/ (utxoDat' # NoFile /\ Saved' = Tip)

\* A crash inside load_snapshot_bytes.
StopAdopting(b) ==
    /\ "crash-load" \in Faults
    /\ pc # "down" /\ pc' = "down" /\ Tip = Genesis /\ Tip' = Genesis
    /\ b \in Known /\ b \in Block /\ Height(b) > 0
    /\ baseDat' \in {baseDat, b}
    /\ UNCHANGED <<utxoDat, undoFiles, peak>>

\* load
Resume ==
    /\ Quiet /\ utxoDat' = utxoDat /\ sinceFlush' = 0
    /\ pc = "down" /\ pc' # "down"
    /\ fromSnapshot' = {baseDat} \ {NoBlock}
    /\ ~LoadRefused /\ Tip' = LoadedTip

Moves == \/ Stay \/ Back \/ Stop \/ Resume
         \/ \E b \in Block : Forward(b) \/ Adopt(b) \/ StopAdopting(b)

\* The tip follows the chain, the saved block utxo.dat.
LEMMA TipStays ==
    ASSUME chain' = chain
    PROVE  Tip' = Tip
  BY DEF Tip

LEMMA SavedStays ==
    ASSUME utxoDat' = utxoDat
    PROVE  Saved' = Saved
  BY DEF Saved

\* A flush of the tip.
LEMMA FlushedTip ==
    ASSUME NEW t \in Block, NEW s \in State, utxoDat' \in Flushed(t, s)
    PROVE  \/ utxoDat' # NoFile /\ Saved' = t
           \/ utxoDat' = utxoDat /\ "flush-write" \in Faults
  <1>1. [tip |-> t, state |-> s] \in UtxoFile /\ NoFile \notin UtxoFile
    BY ContentAssumption DEF UtxoFile
  <1> QED BY <1>1 DEF Flushed, Saved

\* No snapshot of genesis is ever committed to.
LEMMA CommittedHigh ==
    ASSUME NEW b \in Block, Committed(b)
    PROVE  b \in Known /\ Height(b) > 0
  <1>1. Height(b) \in Nat /\ SNAPSHOT_INTERVAL \in Nat \ {0} /\ SNAPSHOT_DELAY \in Nat
    BY OwnAncestor, ParameterAssumption
  <1>2. Height(b) + SNAPSHOT_DELAY >= SNAPSHOT_INTERVAL + SNAPSHOT_DELAY
    BY DEF Committed, IsCommitHeight
  <1> QED BY <1>1, <1>2 DEF Committed

\* A fresh node is at genesis.
LEMMA FreshAtGenesis ==
    ASSUME TInv, FreshNode
    PROVE  Tip = Genesis /\ pc # "down"
  <1>1. Tip \in Block /\ Len(chain) = Height(Tip) + 1 /\ Height(Tip) \in Nat
    BY ActiveIsChain, OwnAncestor
  <1> QED BY <1>1, GenesisFirst DEF FreshNode

\* Steps that leave chain, utxo.dat, base.dat, undo files and flush count.
LEMMA StayMoves ==
    ASSUME chain' = chain, utxoDat' = utxoDat, baseDat' = baseDat,
           undoFiles' = undoFiles, peak' = peak, fromSnapshot' = fromSnapshot,
           sinceFlush' = sinceFlush, pc = "down" <=> pc' = "down"
    PROVE  Moves
  BY TipStays DEF Moves, Stay, Quiet

\* A connected block has data, an undo file and checked signatures, unless deep.
LEMMA ConnectMoves ==
    ASSUME TInv, ConnectBlock
    PROVE  \E n \in Block : Forward(n)
  <1> DEFINE n == NextBlock
             pruned == PrunedBlocks(Append(chain, n))
  <1>1. Connecting /\ n \in Block \ {Genesis} /\ Prev[n] = Tip /\ chain' = Path[n]
    BY NextBlockIsChild DEF ConnectBlock
  <1>2. Tip' = n
    BY <1>1, NewTip
  <1>3. UndoOf(state, n) # NoFile /\ undoFiles \in [Block -> Undo \cup {NoFile}]
    BY <1>1, UndoType, ContentAssumption DEF TInv, TypeOK
  <1>4. /\ \A x \in pruned : Height(x) = Height(n) - PRUNE_DEPTH
        /\ Height(n) \in Nat /\ PRUNE_DEPTH \in Nat \ {0}
    BY <1>1, PrunedPlace, OwnAncestor, ParameterAssumption
  <1>5. n \notin pruned
    BY <1>4
  <1>6. /\ undoFiles' = [x \in Block |-> IF x \in pruned THEN NoFile
                                         ELSE IF x = n THEN UndoOf(state, n)
                                         ELSE undoFiles[x]]
        /\ witnessFiles' = witnessFiles \ pruned
        /\ n \in blocksDat /\ (n \in witnessFiles \/ Deep(n, bestHeader))
        /\ n \in witnessFiles => SigsOk[n]
        /\ UNCHANGED <<blocksDat, utxoDat, baseDat, fromSnapshot>>
        /\ pc = "switch" /\ pc' = "flush"
        /\ sinceFlush' = sinceFlush + 1
        /\ peak' = IF Height(n) > peak THEN Height(n) ELSE peak
    BY DEF ConnectBlock, Connecting, Unready, BlockValid, SigsChecked, flags
  <1>7. ASSUME NEW x \in Ancestors(n), Height(x) > 0, Height(x) = Height(n) - PRUNE_DEPTH
        PROVE  x \in pruned
    <2>1. Append(chain, n) = Path[n]
      BY <1>1, NextBlockIsChild
    <2> HIDE DEF n
    <2>2. x = Path[n][Height(x) + 1] /\ Len(Path[n]) = Height(n) + 1
      BY <1>1, <1>4, AncestorPlace, PathLast DEF Height
    <2>3. Len(Append(chain, n)) - 1 - PRUNE_DEPTH = Height(x)
      BY <2>1, <2>2, <1>4, <1>7
    <2> QED BY <2>1, <2>2, <2>3, <1>7 DEF PrunedBlocks
  <1> HIDE DEF n, pruned
  <1>8. \A x \in Ancestors(n) : x \in Block
    BY <1>1, AncestorPlace
  <1>9. undoFiles'[n] # NoFile
    BY <1>1, <1>3, <1>5, <1>6
  <1>10. \A x \in Block \ {n} : undoFiles'[x] \in {undoFiles[x], NoFile}
    BY <1>6
  <1>11. \A x \in Ancestors(n) :
           Height(x) > 0 /\ Height(x) = Height(n) - PRUNE_DEPTH => undoFiles'[x] = NoFile
    BY <1>6, <1>7, <1>8
  <1>12. Forward(n)
    BY <1>1, <1>2, <1>5, <1>6, <1>9, <1>10, <1>11 DEF Forward
  <1> QED BY <1>1, <1>12

\* Every step is one of the moves.
LEMMA NextMoves == TInv /\ [Next]_vars => Moves
  <1> SUFFICES ASSUME TInv, [Next]_vars PROVE Moves
    OBVIOUS
  <1>0. Tip \in Block /\ state \in State
    BY TipInBlock DEF TInv, TypeOK
  <1>1. CASE UNCHANGED vars
    BY <1>1, StayMoves DEF vars, disk, flags, ledger, history
  <1>2. CASE SelectCandidate \/ PathDone \/ NoFlushYet
    BY <1>2, StayMoves
       DEF SelectCandidate, PathDone, NoFlushYet, disk, flags, ledger, history
  <1>3. CASE SelectNone \/ AbortReorg \/ StallOnBlock
    BY <1>3, StayMoves
       DEF SelectNone, AbortReorg, StallOnBlock, Connecting, Finish, disk, ledger, history
  <1>4. CASE RejectBlock
    BY <1>4, StayMoves DEF RejectBlock, Connecting, MarkFailed, disk, ledger, history
  <1>5. CASE DisconnectTip
    <2>1. Tip \in Block \ {Genesis} /\ Tip' = Prev[Tip]
      BY <1>5, DisconnectChain
    <2>2. Back
      BY <2>1, <1>5 DEF Back, Quiet, DisconnectTip, CanDisconnect, disk, flags, history
    <2> QED BY <2>2 DEF Moves
  <1>6. CASE ConnectBlock
    BY <1>6, ConnectMoves DEF Moves
  <1>7. CASE FlushAfterConnect
    <2>1. Stay
      BY <1>7, <1>0, FlushedTip, TipStays
         DEF Stay, Quiet, FlushAfterConnect, flags, ledger, history
    <2> QED BY <2>1 DEF Moves
  <1>8. CASE \E b \in Block : AcceptHeader(b) \/ AcceptWitness(b)
    BY <1>8, StayMoves DEF AcceptHeader, AcceptWitness, flags, ledger, history
  <1>9. CASE \E b \in Block, w \in BOOLEAN : AcceptNewBlock(b, w)
    BY <1>9, StayMoves DEF AcceptNewBlock, ledger, history
  <1>10. CASE \E b \in Block : LoadSnapshot(b)
    <2>1. PICK b \in Block : LoadSnapshot(b)
      BY <1>10
    <2>2. FreshNode /\ Committed(b)
      BY <2>1 DEF LoadSnapshot
    <2>3. Tip' = b
      BY <2>1, NewTip DEF LoadSnapshot
    <2>4. \/ utxoDat' # NoFile /\ Saved' = b
          \/ utxoDat' = utxoDat /\ "flush-write" \in Faults
      BY <2>1, <2>2, CommittedState, FlushedTip DEF LoadSnapshot, TInv
    <2>5. Adopt(b)
      BY <2>1, <2>2, <2>3, <2>4, CommittedHigh, FreshAtGenesis DEF Adopt, LoadSnapshot
    <2> QED BY <2>5 DEF Moves
  <1>11. CASE \E b \in Block : LoadSnapshotFails(b)
    BY <1>11, StayMoves DEF LoadSnapshotFails, flags, history
  <1>12. CASE Shutdown
    <2>1. Tip' = Genesis
      BY <1>12, MemoryLostType DEF Shutdown
    <2>2. Stop
      BY <2>1, <1>12, <1>0, FlushedTip DEF Stop, Quiet, Shutdown, MemoryLost, history
    <2> QED BY <2>2 DEF Moves
  <1>13. CASE Crash \/ \E b \in Block : CrashStoring(b)
    <2>1. Tip' = Genesis
      BY <1>13, MemoryLostType DEF Crash, CrashStoring
    <2>2. Stop
      BY <2>1, <1>13 DEF Stop, Quiet, Crash, CrashStoring, MemoryLost, disk, history
    <2> QED BY <2>2 DEF Moves
  <1>14. CASE \E b \in Block : CrashLoading(b)
    <2>1. PICK b \in Block : CrashLoading(b)
      BY <1>14
    <2>2. Tip' = Genesis
      BY <2>1, MemoryLostType DEF CrashLoading
    <2>3. StopAdopting(b)
      BY <2>1, <2>2, CommittedHigh, FreshAtGenesis
         DEF StopAdopting, CrashLoading, MemoryLost, history
    <2> QED BY <2>3 DEF Moves
  <1>15. CASE Load
    <2>1. Tip' = LoadedTip
      BY <1>15, LoadedType, NewTip DEF Load
    <2>2. Resume
      BY <2>1, <1>15 DEF Resume, Quiet, Load, disk, history
    <2> QED BY <2>2 DEF Moves
  <1> QED BY <1>1, <1>2, <1>3, <1>4, <1>5, <1>6, <1>7, <1>8, <1>9, <1>10, <1>11,
             <1>12, <1>13, <1>14, <1>15 DEF Next, Activate

---------------------------------------------------------------------------
(* Preservation of HInv, conjunct by conjunct. *)

\* An accepted header brings its whole chain with it.
LEMMA AcceptedClosed ==
    ASSUME TInv, HeadersClosed, NEW b \in Block, HeaderAccepted(b),
           headersDat' = HeadersAfter(b)
    PROVE  /\ Known' = Known \cup {b}
           /\ \A x \in Known' : Ancestors(x) \subseteq Known'
           /\ BestHeaderAfter(b) \in Known'
  <1>1. Known' = Known \cup {b}
    BY HeadersAfterGrow DEF TInv
  <1>2. b \in Known \/ (b # Genesis /\ Prev[b] \in Known)
    BY DEF HeaderAccepted, HeaderIsNew, HeadersClosed
  <1>3. Ancestors(b) \subseteq Known'
    BY <1>1, <1>2, AncestorStep DEF HeadersClosed
  <1> QED BY <1>1, <1>3 DEF HeadersClosed, BestHeaderAfter

\* The headers stay closed, and name the best header and every stored block.
LEMMA NextHeaders ==
    ASSUME TInv, HInv, [Next]_vars
    PROVE  /\ Genesis \in Known' /\ bestHeader' \in Known' /\ blocksDat' \subseteq Known'
           /\ \A b \in Known' : Ancestors(b) \subseteq Known'
  <1>h. HeadersClosed
    BY DEF HInv
  <1>a. ASSUME headersDat' = headersDat, blocksDat' = blocksDat, bestHeader' \in Known
        PROVE  /\ Genesis \in Known' /\ bestHeader' \in Known' /\ blocksDat' \subseteq Known'
               /\ \A b \in Known' : Ancestors(b) \subseteq Known'
    BY <1>a, <1>h DEF Known, HeadersClosed
  <1>b. bestHeader \in Known /\ Genesis \in Known /\ blocksDat \subseteq Known
    BY <1>h DEF HeadersClosed
  <1>1. CASE UNCHANGED vars
    BY <1>1, <1>a, <1>b DEF vars, disk
  <1>2. CASE Activate
    <2>1. CASE SelectCandidate \/ SelectNone \/ DisconnectTip \/ AbortReorg \/ PathDone
      BY <2>1, <1>a, <1>b DEF SelectCandidate, SelectNone, DisconnectTip, AbortReorg,
         PathDone, disk
    <2>2. CASE StallOnBlock \/ NoFlushYet \/ FlushAfterConnect \/ ConnectBlock
      BY <2>2, <1>a, <1>b DEF StallOnBlock, NoFlushYet, FlushAfterConnect, ConnectBlock, disk
    <2>3. CASE RejectBlock
      BY <2>3, <1>a DEF RejectBlock, MarkFailed, BestAmong, disk
    <2> QED BY <1>2, <2>1, <2>2, <2>3 DEF Activate
  <1>3. CASE \E b \in Block : AcceptHeader(b)
    <2>1. PICK b \in Block : AcceptHeader(b)
      BY <1>3
    <2>2. HeaderAccepted(b) /\ headersDat' = HeadersAfter(b)
      BY <2>1 DEF AcceptHeader, HeaderAccepted
    <2>3. /\ Known' = Known \cup {b} /\ BestHeaderAfter(b) \in Known'
          /\ \A x \in Known' : Ancestors(x) \subseteq Known'
      BY <2>2, <1>h, AcceptedClosed
    <2> QED BY <2>1, <2>3, <1>b DEF AcceptHeader
  <1>4. CASE \E b \in Block : AcceptWitness(b)
    BY <1>4, <1>a, <1>b DEF AcceptWitness
  <1>5. CASE \E b \in Block, w \in BOOLEAN : AcceptNewBlock(b, w)
    <2>1. PICK b \in Block, w \in BOOLEAN : AcceptNewBlock(b, w)
      BY <1>5
    <2>2. HeaderAccepted(b) /\ headersDat' = HeadersAfter(b)
      BY <2>1 DEF AcceptNewBlock
    <2>3. /\ Known' = Known \cup {b} /\ BestHeaderAfter(b) \in Known'
          /\ \A x \in Known' : Ancestors(x) \subseteq Known'
      BY <2>2, <1>h, AcceptedClosed
    <2> QED BY <2>1, <2>3, <1>b DEF AcceptNewBlock
  <1>6. CASE \E b \in Block : LoadSnapshot(b) \/ LoadSnapshotFails(b)
    BY <1>6, <1>a, <1>b DEF LoadSnapshot, LoadSnapshotFails
  <1>7. CASE Shutdown \/ Crash \/ \E b \in Block : CrashLoading(b)
    BY <1>7, <1>a, <1>b DEF Shutdown, Crash, CrashLoading, MemoryLost, disk
  <1>8. CASE \E b \in Block : CrashStoring(b)
    <2>1. PICK b \in Block : CrashStoring(b)
      BY <1>8
    <2>2. HeaderAccepted(b) /\ headersDat' = HeadersAfter(b)
      BY <2>1 DEF CrashStoring
    <2>3. /\ Known' = Known \cup {b}
          /\ \A x \in Known' : Ancestors(x) \subseteq Known'
      BY <2>2, <1>h, AcceptedClosed
    <2> QED BY <2>1, <2>3, <1>b DEF CrashStoring, MemoryLost
  <1>9. CASE Load
    BY <1>9, <1>a DEF Load, LoadedBestHeaders, disk
  <1> QED BY <1>1, <1>2, <1>3, <1>4, <1>5, <1>6, <1>7, <1>8, <1>9 DEF Next

\* A restart resumes from the saved block, or from genesis without a base.
LEMMA ResumeTip ==
    ASSUME Resume
    PROVE  Tip' = Saved \/ (Tip' = Genesis /\ baseDat = NoBlock)
  BY DEF Resume, LoadedTip, LoadRefused, UtxoUsable, Saved

\* The tip and the saved block are known headers.
LEMMA NextEnds ==
    ASSUME TInv, HInv, Moves, Grows, blocksDat' \subseteq Known'
    PROVE  Tip' \in Known' /\ Saved' \in Known'
  <1>1. /\ Tip \in Known' /\ Saved \in Known' /\ Genesis \in Known'
        /\ \A b \in Known : b \in Known' /\ Ancestors(b) \subseteq Known'
    BY DEF HInv, HeadersClosed, Grows
  <1>2. Saved' = Saved \/ Saved' = Tip \/ Saved' = Tip'
    BY SavedStays DEF Moves, Stay, Back, Stop, Resume, Forward, Adopt, StopAdopting
  <1>3. CASE Back
    <2>1. Prev[Tip] \in Ancestors(Tip)
      BY <1>3, AncestorStep, OwnAncestor DEF Back
    <2> QED BY <1>1, <1>2, <1>3, <2>1 DEF Back, HInv, HeadersClosed
  <1>4. CASE \E b \in Block : Forward(b)
    BY <1>1, <1>2, <1>4 DEF Forward
  <1>5. CASE Resume
    BY <1>1, <1>2, <1>5, ResumeTip
  <1>6. CASE Stay \/ Stop \/ \E b \in Block : Adopt(b) \/ StopAdopting(b)
    BY <1>1, <1>2, <1>6 DEF Stay, Stop, Adopt, StopAdopting
  <1> QED BY <1>3, <1>4, <1>5, <1>6 DEF Moves

\* base.dat and the running node agree about the bootstrap block.
LEMMA NextBase ==
    ASSUME TInv, HInv, Moves
    PROVE  BaseRecorded'
  <1>1. BaseRecorded /\ Tip \in Block /\ Saved \in Block /\ NoBlock \notin Block
    BY SavedInBlock, ContentAssumption DEF HInv
  <1>2. CASE Stay
    BY <1>1, <1>2, SavedStays DEF Stay, Quiet, BaseRecorded
  <1>3. CASE Back
    <2>1. Tip # baseDat \/ baseDat \notin Ancestors(Saved)
      BY <1>1, <1>3, AncestorPlace DEF Back, BaseRecorded
    <2>2. Ancestors(Tip) = Ancestors(Tip') \cup {Tip}
      BY <1>3, AncestorStep DEF Back
    <2> QED BY <1>1, <1>3, <2>1, <2>2, SavedStays DEF Back, Quiet, BaseRecorded
  <1>4. CASE \E b \in Block : Forward(b)
    <2>1. PICK n \in Block : Forward(n)
      BY <1>4
    <2>2. Ancestors(Tip) \subseteq Ancestors(Tip')
      BY <2>1, AncestorStep DEF Forward
    <2> QED BY <1>1, <2>1, <2>2, SavedStays DEF Forward, BaseRecorded
  <1>5. CASE \E b \in Block : Adopt(b)
    BY <1>1, <1>5, OwnAncestor DEF Adopt, BaseRecorded
  <1>6. CASE Stop
    BY <1>1, <1>6 DEF Stop, Quiet, BaseRecorded
  <1>7. CASE \E b \in Block : StopAdopting(b)
    BY <1>1, <1>7 DEF StopAdopting, BaseRecorded
  <1>8. CASE Resume
    <2>1. baseDat \in Ancestors(Saved) => baseDat \in Ancestors(Tip')
      BY <1>1, <1>8, ResumeTip, AncestorPlace
    <2> QED BY <1>1, <1>8, <2>1, SavedStays, SavedInBlock DEF Resume, Quiet, BaseRecorded
  <1> QED BY <1>2, <1>3, <1>4, <1>5, <1>6, <1>7, <1>8 DEF Moves

\* Nothing needs to back the chain of genesis, or one adopted at its tip.
LEMMA NothingAbove ==
    ASSUME NEW top \in Block, top = Genesis \/ baseDat' = top
    PROVE  AllBacked(top)'
  <1>1. \A b \in Ancestors(top) : Height(b) \in Nat /\ Height(b) <= Height(top)
    BY AncestorPlace
  <1>2. top \in Ancestors(top) /\ Height(Genesis) = 0
    BY OwnAncestor, GenesisFirst
  <1> QED BY <1>1, <1>2, GenesisAlone DEF AllBacked, Above

\* A node still at genesis has no base on its saved chain.
LEMMA FreshBase ==
    ASSUME TInv, HInv, pc # "down", Tip = Genesis
    PROVE  baseDat \notin Ancestors(Saved)
  <1>1. baseDat \in Ancestors(Saved) => baseDat = Genesis
    BY GenesisAlone DEF HInv, BaseRecorded
  <1>2. baseDat = Genesis => Height(Genesis) > 0
    BY GenesisAlone, ContentAssumption DEF HInv, BaseRecorded
  <1> QED BY <1>1, <1>2, GenesisFirst, GenesisAlone

\* The blocks of the active chain stay backed,
LEMMA NextTipBacked ==
    ASSUME TInv, HInv, Moves, Grows
    PROVE  AllBacked(Tip)'
  <1>0. /\ Tip \in Block /\ Saved \in Block /\ NoBlock \notin Block /\ Genesis \in Block
        /\ AllBacked(Tip) /\ AllBacked(Saved) /\ BaseRecorded
    BY SavedInBlock, ContentAssumption, GenesisAlone DEF HInv
  <1>a. ASSUME NEW top \in {Tip, Saved}, Tip' = top, baseDat' = baseDat
        PROVE  AllBacked(Tip)'
    <2>1. AllBacked(top)'
      BY <1>0, <1>a, AllBackedStays
    <2> QED BY <1>a, <2>1 DEF AllBacked
  <1>1. CASE Stay
    BY <1>1, <1>a DEF Stay, Quiet
  <1>2. CASE Back
    <2>1. PICK t \in Block : t = Prev[Tip]
      BY <1>2, AncestorStep DEF Back
    <2>2. /\ Ancestors(Tip) = Ancestors(t) \cup {Tip}
          /\ baseDat # Tip /\ baseDat' = baseDat /\ Tip' = t
      BY <1>0, <1>2, <2>1, AncestorStep DEF Back, Quiet, BaseRecorded
    <2>3. ASSUME NEW b \in Ancestors(t), Above(b, Ancestors(t))'
          PROVE  Backed(b)'
      <3>1. b \in Ancestors(Tip) /\ Above(b, Ancestors(Tip)) /\ b \in Block
        BY <2>2, <2>3, <1>0, AncestorPlace DEF Above
      <3>2. Backed(b)
        BY <3>1, <1>0 DEF AllBacked
      <3> QED BY <3>1, <3>2, BackedStays
    <2>4. AllBacked(t)'
      BY <2>3 DEF AllBacked
    <2> QED BY <2>2, <2>4 DEF AllBacked
  <1>3. CASE \E b \in Block : Forward(b)
    <2>1. PICK n \in Block : Forward(n)
      BY <1>3
    <2>2. Ancestors(n) = Ancestors(Tip) \cup {n} /\ baseDat' = baseDat /\ Tip' = n
      BY <2>1, AncestorStep DEF Forward
    <2>3. Backed(n)'
      <3>1. bestHeader \in Known'
        BY DEF HInv, HeadersClosed, Grows
      <3>2. (n \in witnessFiles' /\ SigsOk[n]) \/ SeenDeep(n)'
        BY <2>1, <3>1 DEF Forward, SeenDeep, Deep
      <3> QED BY <2>1, <3>2 DEF Forward, Backed
    <2>4. ASSUME NEW b \in Ancestors(n), Above(b, Ancestors(n))'
          PROVE  Backed(b)'
      <3>1. CASE b \in Ancestors(Tip)
        <4>1. Above(b, Ancestors(Tip)) /\ b \in Block
          BY <2>2, <2>4, <3>1, <1>0, AncestorPlace DEF Above
        <4>2. Backed(b)
          BY <3>1, <4>1, <1>0 DEF AllBacked
        <4> QED BY <4>1, <4>2, BackedStays
      <3> QED BY <2>2, <2>3, <3>1
    <2> QED BY <2>2, <2>4 DEF AllBacked
  <1>4. CASE \E b \in Block : Adopt(b)
    <2>1. PICK b \in Block : Adopt(b)
      BY <1>4
    <2>2. Tip' = b /\ baseDat' = b
      BY <2>1 DEF Adopt
    <2>3. AllBacked(b)'
      BY <2>2, NothingAbove
    <2> QED BY <2>2, <2>3 DEF AllBacked
  <1>5. CASE Stop \/ \E b \in Block : StopAdopting(b)
    <2>1. Tip' = Genesis
      BY <1>5 DEF Stop, StopAdopting
    <2>2. AllBacked(Genesis)'
      BY <1>0, NothingAbove
    <2> QED BY <2>1, <2>2 DEF AllBacked
  <1>6. CASE Resume
    <2>1. AllBacked(Genesis)'
      BY <1>0, NothingAbove
    <2>2. CASE Tip' = Saved
      BY <1>6, <1>a, <2>2 DEF Resume, Quiet
    <2>3. CASE Tip' = Genesis
      BY <2>1, <2>3 DEF AllBacked
    <2> QED BY <1>6, <2>2, <2>3, ResumeTip
  <1> QED BY <1>1, <1>2, <1>3, <1>4, <1>5, <1>6 DEF Moves

\* and so do those of the saved chain.
LEMMA NextSavedBacked ==
    ASSUME TInv, HInv, Moves, Grows
    PROVE  AllBacked(Saved)'
  <1>0. /\ Tip \in Block /\ Saved \in Block /\ AllBacked(Tip) /\ AllBacked(Saved)
    BY SavedInBlock DEF HInv
  <1>1. ASSUME NEW top \in {Tip, Saved}, Saved' = top,
               baseDat' = baseDat \/ baseDat \notin Ancestors(top)
        PROVE  AllBacked(Saved)'
    <2>1. AllBacked(top)'
      BY <1>0, <1>1, AllBackedStays
    <2> QED BY <1>1, <2>1 DEF AllBacked
  <1>2. CASE Stay \/ Back \/ Stop \/ Resume \/ \E b \in Block : Forward(b)
    <2>1. baseDat' = baseDat
      BY <1>2 DEF Stay, Back, Stop, Resume, Forward, Quiet
    <2>2. Saved' = Saved \/ Saved' = Tip
      BY <1>2, SavedStays DEF Stay, Back, Stop, Resume, Forward
    <2> QED BY <1>1, <2>1, <2>2
  <1>3. CASE \E b \in Block : Adopt(b)
    <2>1. PICK b \in Block : Adopt(b)
      BY <1>3
    <2>2. CASE Saved' = b
      <3>1. AllBacked(b)'
        BY <2>1, NothingAbove DEF Adopt
      <3> QED BY <2>2, <3>1 DEF AllBacked
    <2>3. CASE Saved' = Saved
      BY <1>1, <2>1, <2>3, FreshBase DEF Adopt
    <2> QED BY <2>1, <2>2, <2>3, SavedStays DEF Adopt
  <1>4. CASE \E b \in Block : StopAdopting(b)
    <2>1. Saved' = Saved /\ baseDat \notin Ancestors(Saved)
      BY <1>4, SavedStays, FreshBase DEF StopAdopting
    <2> QED BY <1>1, <2>1
  <1> QED BY <1>2, <1>3, <1>4 DEF Moves

\* The fresh node has nothing to back.
LEMMA InitHInv == Init => HInv
  <1> SUFFICES ASSUME Init PROVE HInv
    OBVIOUS
  <1>1. Known = {Genesis} /\ Tip = Genesis /\ Saved = Genesis
    BY DEF Init, Known, Tip, Saved
  <1>2. HeadersClosed
    BY <1>1, GenesisAlone DEF Init, HeadersClosed
  <1>3. BaseRecorded
    BY <1>1, GenesisAlone, ContentAssumption DEF Init, BaseRecorded
  <1>4. AllBacked(Genesis)
    BY GenesisFirst, GenesisAlone DEF AllBacked, Above
  <1> QED BY <1>1, <1>2, <1>3, <1>4 DEF HInv, AllBacked

\* Every step keeps HInv, whatever fails.
LEMMA NextHInv == TInv /\ HInv /\ [Next]_vars => HInv'
  <1> SUFFICES ASSUME TInv, HInv, [Next]_vars PROVE HInv'
    OBVIOUS
  <1>1. Moves /\ Grows
    BY NextMoves, NextGrows
  <1>2. HeadersClosed'
    BY <1>1, NextHeaders, NextEnds DEF HeadersClosed
  <1> QED BY <1>1, <1>2, NextBase, NextTipBacked, NextSavedBacked DEF HInv

\* HInv holds in every reachable state.
LEMMA HInvAlways == Spec => []HInv
  <1>1. Init => HInv
    BY InitHInv
  <1>2. TInv /\ HInv /\ [Next]_vars => HInv'
    BY NextHInv
  <1> QED BY <1>1, <1>2, TInvAlways, PTL DEF Spec

\* An active block that is not below the bootstrap block is backed.
LEMMA ActiveBacked ==
    ASSUME TInv, HInv, NEW b \in ActiveBlocks, Height(b) > 0, ~BelowBootstrap(b)
    PROVE  Backed(b)
  <1>1. ActiveBlocks = Ancestors(Tip) /\ Tip \in Block /\ AllBacked(Tip) /\ BaseRecorded
    BY ActiveIsChain DEF HInv
  <1>2. pc # "down"
    BY <1>1, GenesisFirst, GenesisAlone DEF BaseRecorded
  <1>3. ~(baseDat \in ActiveBlocks /\ Height(baseDat) >= Height(b))
    <2>1. baseDat \in ActiveBlocks => baseDat \in fromSnapshot
      BY <1>1, <1>2, AncestorPlace, ContentAssumption DEF BaseRecorded
    <2> QED BY <2>1 DEF BelowBootstrap
  <1> QED BY <1>1, <1>3 DEF AllBacked, Above

\* connect_block and prune_at: through reorganisations, failed writes, crashes
\* and restarts from an older utxo.dat, every active block less than
\* PRUNE_DEPTH below the highest tip has its undo file.
THEOREM UndoReachesPruneDepth == Spec => []UndoKept
  <1>1. TInv /\ HInv => UndoKept
    BY ActiveBacked DEF UndoKept, Backed
  <1> QED BY <1>1, TInvAlways, HInvAlways, PTL

\* connect_block: whatever the order of headers, blocks and witnesses, an
\* active block with a wrong signature is PRUNE_DEPTH below a known header or
\* under the snapshot the node was bootstrapped from.
THEOREM SignaturesCheckedUnlessDeep == Spec => []UncheckedOnlyWhenDeep
  <1>1. TInv /\ HInv => UncheckedOnlyWhenDeep
    <2> SUFFICES ASSUME TInv, HInv, NEW b \in ActiveBlocks \ {Genesis}, ~BelowBootstrap(b)
                 PROVE  SigsOk[b] \/ \E x \in Known : Deep(b, x)
      BY DEF UncheckedOnlyWhenDeep
    <2>1. b \in Block
      BY ActiveIsChain, AncestorPlace
    <2>2. Height(b) > 0
      BY <2>1, GenesisFirst, OwnAncestor
    <2> QED BY <2>2, ActiveBacked DEF Backed, SeenDeep
  <1> QED BY <1>1, TInvAlways, HInvAlways, PTL
---------------------------------------------------------------------------
(* The depth of a reorganisation.  disconnect_tip stops where undo files    *)
(* were pruned, so a running node cannot sink more than PRUNE_DEPTH below   *)
(* its highest tip; a restart could, if utxo.dat were older than that.  It  *)
(* is not: a flush happens every FLUSH_SYNC blocks (5000, PRUNE_DEPTH is    *)
(* 5040), which keeps the chains of the tip and of utxo.dat together below  *)
(* the pruning depth.                                                       *)

AllPruned(top) ==
    \A b \in Ancestors(top) :
        Above(b, Ancestors(top)) /\ Height(b) <= peak - PRUNE_DEPTH => undoFiles[b] = NoFile

FlushInTime == sinceFlush <= FLUSH_SYNC /\ (pc = "flush" \/ sinceFlush < FLUSH_SYNC)

\* The tip and the saved block are at most PRUNE_DEPTH below the peak.
NearPeak ==
    /\ Height(Tip) <= peak /\ Height(Saved) <= peak
    /\ pc # "down" => Height(Tip) >= peak - PRUNE_DEPTH
    /\ Height(Saved) >= peak - PRUNE_DEPTH

\* The chain below what was connected since the last flush is saved.
FlushedBelow ==
    pc # "down" => \A b \in Ancestors(Tip) :
        Height(b) <= Height(Tip) - sinceFlush => b \in Ancestors(Saved)

\* The active chain and the saved chain are one below the pruning depth.
SharedBelow ==
    pc # "down" => \A b \in Ancestors(Tip) \cup Ancestors(Saved) :
        Height(b) <= peak - PRUNE_DEPTH => b \in Ancestors(Tip) /\ b \in Ancestors(Saved)

DInv == /\ FlushInTime /\ NearPeak /\ FlushedBelow /\ SharedBelow
        /\ AllPruned(Tip) /\ AllPruned(Saved)

\* The counter of activate_best_chain reaches FLUSH_SYNC only at a flush.
LEMMA NextFlushInTime ==
    ASSUME TInv, FlushInTime, [Next]_vars
    PROVE  FlushInTime'
  <1>1. /\ sinceFlush \in Nat /\ FLUSH_SYNC \in Nat \ {0}
        /\ pc \in {"down", "idle", "select", "switch", "flush"}
    BY ParameterAssumption DEF TInv, TypeOK
  <1>a. ASSUME sinceFlush' = 0 PROVE FlushInTime'
    BY <1>a, <1>1 DEF FlushInTime
  <1>b. ASSUME sinceFlush' = sinceFlush, pc # "flush" \/ pc' = pc PROVE FlushInTime'
    BY <1>b, <1>1 DEF FlushInTime
  <1>2. CASE UNCHANGED vars
    BY <1>2, <1>b DEF vars
  <1>3. CASE Activate
    <2>1. CASE SelectCandidate \/ SelectNone \/ DisconnectTip \/ AbortReorg \/ PathDone
      BY <2>1, <1>b DEF SelectCandidate, SelectNone, DisconnectTip, AbortReorg, PathDone
    <2>2. CASE StallOnBlock \/ RejectBlock
      BY <2>2, <1>b DEF StallOnBlock, RejectBlock, MarkFailed, Connecting
    <2>3. CASE ConnectBlock
      <3>1. pc = "switch" /\ pc' = "flush" /\ sinceFlush' = sinceFlush + 1
        BY <2>3 DEF ConnectBlock, Connecting
      <3> QED BY <3>1, <1>1 DEF FlushInTime
    <2>4. CASE FlushAfterConnect
      BY <2>4, <1>a DEF FlushAfterConnect
    <2>5. CASE NoFlushYet
      BY <2>5, <1>1 DEF NoFlushYet, FlushInTime
    <2> QED BY <1>3, <2>1, <2>2, <2>3, <2>4, <2>5 DEF Activate
  <1>4. CASE \E b \in Block : AcceptHeader(b) \/ AcceptWitness(b) \/ LoadSnapshotFails(b)
    BY <1>4, <1>b DEF AcceptHeader, AcceptWitness, LoadSnapshotFails
  <1>5. CASE \E b \in Block, w \in BOOLEAN : AcceptNewBlock(b, w)
    BY <1>5, <1>b DEF AcceptNewBlock
  <1>6. CASE \E b \in Block : LoadSnapshot(b) \/ CrashStoring(b) \/ CrashLoading(b)
    BY <1>6, <1>a DEF LoadSnapshot, CrashStoring, CrashLoading, MemoryLost
  <1>7. CASE Shutdown \/ Crash \/ Load
    BY <1>7, <1>a DEF Shutdown, Crash, Load, MemoryLost
  <1> QED BY <1>2, <1>3, <1>4, <1>5, <1>6, <1>7 DEF Next

\* utxo.dat of a node that is not refused is usable.
LEMMA SavedUsable ==
    ASSUME TInv, HInv, utxoDat # NoFile, baseDat = NoBlock \/ baseDat \in Ancestors(Saved)
    PROVE  UtxoUsable
  <1>1. Saved = utxoDat.tip /\ Saved \in Known /\ Saved \in Block /\ AllBacked(Saved)
    BY SavedInBlock DEF HInv, HeadersClosed, Saved
  <1>2. PICK a \in Ancestors(Saved) :
            \/ a = Genesis /\ baseDat \notin Ancestors(Saved)
            \/ a = baseDat
    BY <1>1, GenesisFirst, AncestorPlace, ContentAssumption
  <1>3. ASSUME NEW y \in Ancestors(Saved), Height(y) > Height(a)
        PROVE  y \in blocksDat
    <2>1. Height(y) \in Nat /\ Height(a) \in Nat
      BY <1>1, AncestorPlace
    <2>2. Height(y) > 0 /\ Above(y, Ancestors(Saved))
      BY <1>2, <1>3, <2>1 DEF Above
    <2> QED BY <1>1, <2>2 DEF AllBacked, Backed
  <1> QED BY <1>1, <1>2, <1>3 DEF UtxoUsable, LoadedChainData

\* So a restart resumes exactly from the saved block.
LEMMA ResumeAtSaved ==
    ASSUME TInv, HInv, ~LoadRefused
    PROVE  LoadedTip = Saved
  BY SavedUsable DEF LoadedTip, Saved, LoadRefused, UtxoUsable

\* A move that leaves undo files and the peak leaves AllPruned.
LEMMA AllPrunedStays ==
    ASSUME NEW top, AllPruned(top), undoFiles' = undoFiles, peak' = peak,
           baseDat' = baseDat \/ baseDat \notin Ancestors(top)
    PROVE  AllPruned(top)'
  BY DEF AllPruned, Above

LEMMA NothingAbovePruned ==
    ASSUME NEW top \in Block, top = Genesis \/ baseDat' = top
    PROVE  AllPruned(top)'
  <1>1. \A b \in Ancestors(top) : Height(b) \in Nat /\ Height(b) <= Height(top)
    BY AncestorPlace
  <1>2. top \in Ancestors(top) /\ Height(Genesis) = 0
    BY OwnAncestor, GenesisFirst
  <1> QED BY <1>1, <1>2, GenesisAlone DEF AllPruned, Above

\* Heights and bounds are numbers.
LEMMA HeightNumbers ==
    ASSUME TInv
    PROVE  /\ Tip \in Block /\ Saved \in Block /\ Genesis \in Block
           /\ Height(Tip) \in Nat /\ Height(Saved) \in Nat /\ Height(Genesis) = 0
           /\ peak \in Nat /\ sinceFlush \in Nat
           /\ PRUNE_DEPTH \in Nat \ {0} /\ FLUSH_SYNC \in Nat \ {0}
  BY SavedInBlock, OwnAncestor, GenesisAlone, GenesisFirst, ParameterAssumption
     DEF TInv, TypeOK

\* The ends of the two chains, after a step.
LEMMA PrunedEnds ==
    ASSUME NEW t, NEW u, Tip' = t, Saved' = u, AllPruned(t)', AllPruned(u)'
    PROVE  AllPruned(Tip)' /\ AllPruned(Saved)'
  BY DEF AllPruned

\* A flush, or nothing.
LEMMA StayDInv ==
    ASSUME TInv, DInv, FlushInTime', Stay, "flush-write" \notin Faults
    PROVE  DInv'
  <1>0. /\ Quiet /\ Tip' = Tip /\ (pc = "down" <=> pc' = "down")
        /\ \/ Saved' = Tip /\ pc # "down"
           \/ Saved' = Saved /\ sinceFlush' = sinceFlush
    BY SavedStays DEF Stay
  <1>1. NearPeak /\ FlushedBelow /\ SharedBelow /\ AllPruned(Tip) /\ AllPruned(Saved)
    BY DEF DInv
  <1>2. NearPeak'
    BY <1>0, <1>1 DEF NearPeak, Quiet
  <1>3. FlushedBelow' /\ SharedBelow'
    BY <1>0, <1>1 DEF FlushedBelow, SharedBelow, Quiet
  <1>4. AllPruned(Tip)' /\ AllPruned(Saved)'
    <2>1. PICK t, u : t = Tip /\ t = Tip' /\ u = Saved' /\ u \in {Tip, Saved}
      BY <1>0
    <2>2. AllPruned(t)' /\ AllPruned(u)'
      BY <1>0, <1>1, <2>1, AllPrunedStays DEF Quiet
    <2> QED BY <2>1, <2>2, PrunedEnds
  <1> QED BY <1>2, <1>3, <1>4 DEF DInv

\* A block that can be disconnected is less than PRUNE_DEPTH below the peak.
LEMMA BackHigh ==
    ASSUME TInv, HInv, DInv, Back
    PROVE  Height(Tip) > peak - PRUNE_DEPTH /\ baseDat # Tip
  <1>1. Tip \in Block \ {Genesis} /\ Height(Tip) \in Nat /\ peak \in Nat /\ PRUNE_DEPTH \in Nat
    BY HeightNumbers DEF Back
  <1>2. Height(Tip) > 0 /\ Tip \in Ancestors(Tip)
    BY <1>1, GenesisFirst, OwnAncestor
  <1>3. baseDat # Tip
    BY <1>1, ContentAssumption DEF Back, HInv, BaseRecorded
  <1>4. ~(baseDat \in Ancestors(Tip) /\ Height(baseDat) >= Height(Tip))
    BY <1>1, <1>2, <1>3, AncestorPlace, AncestorUnique
  <1>5. ~(Height(Tip) <= peak - PRUNE_DEPTH)
    BY <1>2, <1>4 DEF Above, DInv, AllPruned, Back
  <1> QED BY <1>1, <1>3, <1>5

\* A disconnect.
LEMMA BackDInv ==
    ASSUME TInv, HInv, DInv, FlushInTime', Back
    PROVE  DInv'
  <1>0. PICK p \in Block : p = Prev[Tip]
    BY AncestorStep DEF Back
  <1>1. /\ Tip' = p /\ Saved' = Saved /\ pc # "down" /\ pc' # "down"
        /\ sinceFlush' = sinceFlush /\ Quiet
        /\ Ancestors(Tip) = Ancestors(p) \cup {Tip} /\ Height(Tip) = Height(p) + 1
    BY <1>0, SavedStays, AncestorStep DEF Back
  <1>2. /\ Height(Tip) \in Nat /\ Height(p) \in Nat /\ peak \in Nat /\ PRUNE_DEPTH \in Nat
        /\ Height(Saved) \in Nat /\ sinceFlush \in Nat
    BY HeightNumbers, OwnAncestor
  <1>3. Height(Tip) > peak - PRUNE_DEPTH /\ baseDat # Tip
    BY BackHigh
  <1>4. NearPeak'
    BY <1>1, <1>2, <1>3 DEF DInv, NearPeak, Quiet
  <1>5. FlushedBelow'
    <2>1. ASSUME NEW b \in Ancestors(p), Height(b) <= Height(p) - sinceFlush
          PROVE  b \in Ancestors(Saved)
      <3>1. Height(b) \in Nat /\ b \in Ancestors(Tip)
        BY <1>1, <2>1, AncestorPlace
      <3>2. Height(b) <= Height(Tip) - sinceFlush
        BY <1>1, <1>2, <2>1, <3>1
      <3> QED BY <1>1, <3>1, <3>2 DEF DInv, FlushedBelow
    <2> QED BY <1>1, <2>1 DEF FlushedBelow
  <1>6. SharedBelow'
    <2>1. ASSUME NEW b \in Ancestors(p) \cup Ancestors(Saved),
                 Height(b) <= peak - PRUNE_DEPTH
          PROVE  b \in Ancestors(p) /\ b \in Ancestors(Saved)
      <3>1. b \in Ancestors(Tip) /\ b \in Ancestors(Saved)
        BY <1>1, <2>1 DEF DInv, SharedBelow
      <3>2. Height(b) # Height(Tip)
        BY <1>2, <1>3, <2>1
      <3> QED BY <1>1, <3>1, <3>2
    <2> QED BY <1>1, <2>1 DEF SharedBelow, Quiet
  <1>7. AllPruned(p)'
    <2>1. ASSUME NEW b \in Ancestors(p), Above(b, Ancestors(p)) PROVE Above(b, Ancestors(Tip))
      BY <1>1, <1>3, <2>1 DEF Above
    <2>2. AllPruned(p)
      BY <1>1, <2>1 DEF DInv, AllPruned
    <2> QED BY <1>1, <2>2, AllPrunedStays DEF Quiet
  <1>8. PICK u : u = Saved
    OBVIOUS
  <1>9. AllPruned(u)'
    BY <1>1, <1>8, AllPrunedStays DEF DInv, Quiet
  <1> QED BY <1>1, <1>4, <1>5, <1>6, <1>7, <1>8, <1>9, PrunedEnds DEF DInv

\* A connect.  A new peak is at most FLUSH_SYNC above what is saved.
LEMMA ForwardDInv ==
    ASSUME TInv, HInv, DInv, FlushInTime', FLUSH_SYNC <= PRUNE_DEPTH,
           NEW n \in Block, Forward(n)
    PROVE  DInv'
  <1>1. /\ Tip' = n /\ Saved' = Saved /\ baseDat' = baseDat /\ pc # "down" /\ pc' # "down"
        /\ sinceFlush' = sinceFlush + 1
        /\ peak' = IF Height(n) > peak THEN Height(n) ELSE peak
        /\ Ancestors(n) = Ancestors(Tip) \cup {n} /\ Height(n) = Height(Tip) + 1
    BY SavedStays, AncestorStep DEF Forward
  <1>2. /\ Height(Tip) \in Nat /\ Height(n) \in Nat /\ peak \in Nat /\ PRUNE_DEPTH \in Nat \ {0}
        /\ Height(Saved) \in Nat /\ sinceFlush \in Nat /\ FLUSH_SYNC \in Nat
        /\ Tip \in Block /\ Saved \in Block
    BY HeightNumbers, OwnAncestor
  <1>3. sinceFlush + 1 <= PRUNE_DEPTH
    BY <1>1, <1>2 DEF FlushInTime
  <1>4. /\ Height(Tip) <= peak /\ Height(Saved) <= peak
        /\ Height(Tip) >= peak - PRUNE_DEPTH /\ Height(Saved) >= peak - PRUNE_DEPTH
    BY <1>1 DEF DInv, NearPeak
  <1>5. peak' \in Nat /\ Height(n) <= peak' /\ peak <= peak' /\ Height(n) > peak' - PRUNE_DEPTH
    BY <1>1, <1>2, <1>4
  <1>6. ASSUME NEW b \in Ancestors(Tip) \cup Ancestors(Saved) \cup {n},
               Height(b) <= peak' - PRUNE_DEPTH
        PROVE  b \in Ancestors(Tip) /\ b \in Ancestors(Saved)
    <2>1. b \in Ancestors(Tip) \cup Ancestors(Saved)
      BY <1>2, <1>5, <1>6
    <2>2. Height(b) \in Nat
      BY <2>1, <1>2, AncestorPlace
    <2>3. CASE peak' = peak
      BY <1>1, <1>6, <2>1, <2>3 DEF DInv, SharedBelow
    <2>4. CASE peak' = Height(n)
      <3>1. Height(b) <= Height(Tip) - sinceFlush /\ Height(b) <= Height(Tip)
        BY <1>1, <1>2, <1>3, <1>6, <2>2, <2>4
      <3>2. \A a \in Ancestors(Tip) : Height(a) = Height(b) => a \in Ancestors(Saved)
        BY <1>1, <3>1 DEF DInv, FlushedBelow
      <3>3. CASE b \in Ancestors(Tip)
        BY <3>2, <3>3
      <3>4. CASE b \in Ancestors(Saved)
        <4>1. PICK a \in Ancestors(Tip) : Height(a) = Height(b)
          BY <1>2, <2>2, <3>1, AncestorExists
        <4>2. a = b
          BY <3>2, <3>4, <4>1, <1>2, AncestorUnique
        <4> QED BY <3>4, <4>1, <4>2
      <3> QED BY <2>1, <3>3, <3>4
    <2> QED BY <1>1, <2>3, <2>4
  <1>7. SharedBelow'
    BY <1>1, <1>6 DEF SharedBelow
  <1>8. FlushedBelow'
    <2>1. ASSUME NEW b \in Ancestors(n), Height(b) <= Height(n) - (sinceFlush + 1)
          PROVE  b \in Ancestors(Saved)
      <3>1. Height(b) <= Height(Tip) - sinceFlush /\ Height(b) # Height(n)
        BY <1>1, <1>2, <2>1, AncestorPlace
      <3> QED BY <1>1, <3>1 DEF DInv, FlushedBelow
    <2> QED BY <1>1, <2>1 DEF FlushedBelow
  <1>9. NearPeak'
    <2>1. Height(Saved) >= peak' - PRUNE_DEPTH
      <3>0. Height(Saved) \in Nat /\ peak' \in Nat /\ PRUNE_DEPTH \in Nat
        BY <1>2, <1>5
      <3>1. CASE peak' <= PRUNE_DEPTH
        BY <3>0, <3>1
      <3>2. CASE peak' > PRUNE_DEPTH /\ peak' = Height(n)
        <4> DEFINE h == Height(n) - PRUNE_DEPTH
        <4>1. h \in Nat /\ h <= Height(Tip)
          BY <1>1, <1>2, <3>2
        <4>2. PICK a \in Ancestors(Tip) : Height(a) = h
          BY <4>1, <1>2, AncestorExists
        <4>3. a \in Ancestors(Saved)
          <5>1. Height(a) <= peak' - PRUNE_DEPTH
            BY <4>1, <4>2, <3>2
          <5> QED BY <4>2, <5>1, <1>6
        <4>4. h <= Height(Saved)
          BY <4>2, <4>3, <1>2, AncestorPlace
        <4> QED BY <4>4, <3>2
      <3> QED BY <1>1, <1>2, <1>4, <1>5, <3>1, <3>2
    <2> QED BY <1>1, <1>2, <1>4, <1>5, <2>1 DEF NearPeak
  <1>10. ASSUME NEW top \in Block, top = n \/ top = Saved PROVE AllPruned(top)'
    <2> SUFFICES ASSUME NEW b \in Ancestors(top), Above(b, Ancestors(top))',
                        Height(b) <= peak' - PRUNE_DEPTH
                 PROVE  undoFiles'[b] = NoFile
      BY DEF AllPruned
    <2>1. b \in Ancestors(Tip) /\ b \in Ancestors(Saved) /\ b \in Ancestors(n)
      BY <1>1, <1>6, <1>10
    <2>2. b \in Block /\ Height(b) \in Nat /\ Height(b) > 0 /\ b # n
      BY <1>2, <1>5, <2>1, AncestorPlace DEF Above
    <2>3. CASE Height(b) <= peak - PRUNE_DEPTH
      <3>1. Above(b, Ancestors(Tip)) \/ Above(b, Ancestors(Saved))
        BY <1>1, <1>10 DEF Above
      <3>2. undoFiles[b] = NoFile
        BY <2>1, <2>3, <3>1 DEF DInv, AllPruned
      <3> QED BY <2>2, <3>2 DEF Forward
    <2>4. CASE ~(Height(b) <= peak - PRUNE_DEPTH)
      <3>1. Height(b) = Height(n) - PRUNE_DEPTH
        BY <1>1, <1>2, <1>4, <2>2, <2>4
      <3> QED BY <2>1, <2>2, <3>1 DEF Forward
    <2> QED BY <2>3, <2>4
  <1>11. PICK u \in Block : u = Saved
    BY <1>2
  <1>12. AllPruned(n)' /\ AllPruned(u)'
    BY <1>10, <1>11
  <1> QED BY <1>1, <1>7, <1>8, <1>9, <1>11, <1>12, PrunedEnds DEF DInv

\* Both chains become one: a bootstrap, or a restart.
LEMMA JoinedDInv ==
    ASSUME TInv, FlushInTime', NEW t \in Block, Tip' = t, Saved' = t, AllPruned(t)',
           peak' \in Nat, Height(t) <= peak', Height(t) >= peak' - PRUNE_DEPTH
    PROVE  DInv'
  <1>1. NearPeak' /\ FlushedBelow' /\ SharedBelow'
    BY DEF NearPeak, FlushedBelow, SharedBelow
  <1> QED BY <1>1, PrunedEnds DEF DInv

\* A bootstrap: the node is at genesis, so its peak was at most PRUNE_DEPTH.
LEMMA AdoptDInv ==
    ASSUME TInv, DInv, FlushInTime', "flush-write" \notin Faults,
           NEW b \in Block, Adopt(b)
    PROVE  DInv'
  <1>1. /\ Tip' = b /\ Saved' = b /\ baseDat' = b
        /\ peak' = IF Height(b) > peak THEN Height(b) ELSE peak
    BY DEF Adopt
  <1>2. Height(b) \in Nat /\ peak \in Nat /\ PRUNE_DEPTH \in Nat \ {0} /\ Height(Genesis) = 0
    BY HeightNumbers, OwnAncestor
  <1>3. peak <= PRUNE_DEPTH
    BY <1>2 DEF DInv, NearPeak, Adopt
  <1>4. peak' \in Nat /\ Height(b) <= peak' /\ Height(b) >= peak' - PRUNE_DEPTH
    BY <1>1, <1>2, <1>3
  <1>5. AllPruned(b)'
    BY <1>1, NothingAbovePruned
  <1> QED BY <1>1, <1>4, <1>5, JoinedDInv

\* A stop: only what is saved counts.
LEMMA StopDInv ==
    ASSUME TInv, HInv, DInv, FlushInTime', Stop \/ \E b \in Block : StopAdopting(b)
    PROVE  DInv'
  <1>1. /\ Tip' = Genesis /\ pc # "down" /\ pc' = "down" /\ UNCHANGED <<undoFiles, peak>>
        /\ \/ baseDat' = baseDat /\ Saved' \in {Saved, Tip}
           \/ Saved' = Saved /\ baseDat \notin Ancestors(Saved)
    BY SavedStays, FreshBase DEF Stop, StopAdopting, Quiet
  <1>2. /\ Height(Genesis) = 0 /\ peak \in Nat /\ Genesis \in Block
        /\ Height(Tip) \in Nat /\ Height(Saved) \in Nat
    BY HeightNumbers
  <1>3. NearPeak'
    BY <1>1, <1>2 DEF DInv, NearPeak
  <1>4. FlushedBelow' /\ SharedBelow'
    BY <1>1 DEF FlushedBelow, SharedBelow
  <1>5. AllPruned(Genesis)'
    BY <1>2, NothingAbovePruned
  <1>6. PICK u : u = Saved' /\ u \in {Saved, Tip}
    BY <1>1
  <1>7. AllPruned(u)'
    BY <1>1, <1>6, AllPrunedStays DEF DInv
  <1>8. AllPruned(Tip)' /\ AllPruned(Saved)'
    BY <1>1, <1>5, <1>6, <1>7 DEF AllPruned
  <1> QED BY <1>3, <1>4, <1>8 DEF DInv

\* A restart from the saved block.
LEMMA ResumeDInv ==
    ASSUME TInv, HInv, DInv, FlushInTime', Resume
    PROVE  DInv'
  <1>1. Tip' = Saved /\ Saved' = Saved /\ Quiet
    BY ResumeAtSaved, SavedStays DEF Resume
  <1>2. PICK t \in Block : t = Saved
    BY SavedInBlock
  <1>3. AllPruned(t)'
    BY <1>1, <1>2, AllPrunedStays DEF DInv, Quiet
  <1>4. peak' \in Nat /\ Height(t) <= peak' /\ Height(t) >= peak' - PRUNE_DEPTH
    BY <1>1, <1>2, HeightNumbers DEF DInv, NearPeak, Quiet
  <1> QED BY <1>1, <1>2, <1>3, <1>4, JoinedDInv

\* The fresh node.
LEMMA InitDInv == Init => DInv
  <1> SUFFICES ASSUME Init PROVE DInv
    OBVIOUS
  <1>1. Tip = Genesis /\ Saved = Genesis /\ peak = 0 /\ sinceFlush = 0
    BY DEF Init, Tip, Saved
  <1>2. Height(Genesis) = 0 /\ PRUNE_DEPTH \in Nat /\ FLUSH_SYNC \in Nat \ {0}
    BY GenesisFirst, GenesisAlone, ParameterAssumption
  <1>3. FlushInTime /\ NearPeak /\ FlushedBelow /\ SharedBelow
    BY <1>1, <1>2 DEF FlushInTime, NearPeak, FlushedBelow, SharedBelow
  <1>4. AllPruned(Genesis)
    BY <1>2, GenesisAlone DEF AllPruned, Above
  <1> QED BY <1>1, <1>3, <1>4 DEF DInv, AllPruned

\* Every step keeps DInv when flushes succeed and are frequent enough.
LEMMA NextDInv ==
    ASSUME "flush-write" \notin Faults, FLUSH_SYNC <= PRUNE_DEPTH
    PROVE  TInv /\ HInv /\ DInv /\ [Next]_vars => DInv'
  <1> SUFFICES ASSUME TInv, HInv, DInv, [Next]_vars PROVE DInv'
    OBVIOUS
  <1>1. Moves /\ FlushInTime'
    BY NextMoves, NextFlushInTime DEF DInv
  <1>2. CASE Stay
    BY <1>1, <1>2, StayDInv
  <1>3. CASE Back
    BY <1>1, <1>3, BackDInv
  <1>4. CASE \E b \in Block : Forward(b)
    BY <1>1, <1>4, ForwardDInv
  <1>5. CASE \E b \in Block : Adopt(b)
    BY <1>1, <1>5, AdoptDInv
  <1>6. CASE Stop \/ \E b \in Block : StopAdopting(b)
    BY <1>1, <1>6, StopDInv
  <1>7. CASE Resume
    BY <1>1, <1>7, ResumeDInv
  <1> QED BY <1>1, <1>2, <1>3, <1>4, <1>5, <1>6, <1>7 DEF Moves

\* DInv holds in every reachable state.
LEMMA DInvAlways ==
    ASSUME "flush-write" \notin Faults, FLUSH_SYNC <= PRUNE_DEPTH
    PROVE  Spec => []DInv
  <1>1. Init => DInv
    BY InitDInv
  <1>2. TInv /\ HInv /\ DInv /\ [Next]_vars => DInv'
    BY NextDInv
  <1> QED BY <1>1, <1>2, TInvAlways, HInvAlways, PTL DEF Spec

\* "Refuse to reorganize more than one week of blocks": the pruned undo files
\* stop disconnect_tip, and a crash never falls back below them, because
\* utxo.dat is flushed at least every FLUSH_SYNC <= PRUNE_DEPTH blocks (5000
\* and 5040 in the code) and no flush fails.
THEOREM ReorgDepthBounded ==
    ASSUME "flush-write" \notin Faults, FLUSH_SYNC <= PRUNE_DEPTH
    PROVE  Spec => []NoDeepReorg
  <1>1. DInv => NoDeepReorg
    BY DEF DInv, NearPeak, NoDeepReorg
  <1> QED BY <1>1, DInvAlways, PTL

---------------------------------------------------------------------------
(* Recovery.  What separates utxo.dat from the tip is less than PRUNE_DEPTH *)
(* below the peak on both sides, so its undo files, blocks and signatures   *)
(* are still there.                                                         *)

\* The bootstrap block is on the saved chain, and on the active one.
BaseSaved ==
    baseDat # NoBlock =>
        /\ utxoDat # NoFile /\ baseDat \in Ancestors(Saved)
        /\ pc # "down" => baseDat \in Ancestors(Tip)

\* A node that adopts a snapshot saves it in the same call, and never leaves it.
LEMMA NextBaseSaved ==
    ASSUME "flush-write" \notin Faults, "crash-load" \notin Faults
    PROVE  TInv /\ HInv /\ BaseSaved /\ [Next]_vars => BaseSaved'
  <1> SUFFICES ASSUME TInv, HInv, BaseSaved, [Next]_vars PROVE BaseSaved'
    OBVIOUS
  <1>1. Moves
    BY NextMoves
  <1>2. CASE Stay
    BY <1>2, SavedStays DEF Stay, Quiet, BaseSaved
  <1>3. CASE Back
    <2>1. Tip # baseDat
      BY <1>3, ContentAssumption DEF Back, HInv, BaseRecorded
    <2>2. Ancestors(Tip) = Ancestors(Tip') \cup {Tip}
      BY <1>3, AncestorStep DEF Back
    <2> QED BY <1>3, <2>1, <2>2, SavedStays DEF Back, Quiet, BaseSaved
  <1>4. CASE \E b \in Block : Forward(b)
    <2>1. PICK n \in Block : Forward(n)
      BY <1>4
    <2>2. Ancestors(Tip) \subseteq Ancestors(Tip')
      BY <2>1, AncestorStep DEF Forward
    <2> QED BY <2>1, <2>2, SavedStays DEF Forward, BaseSaved
  <1>5. CASE \E b \in Block : Adopt(b)
    BY <1>5, OwnAncestor DEF Adopt, BaseSaved
  <1>6. CASE Stop
    BY <1>6, SavedStays DEF Stop, Quiet, BaseSaved
  <1>7. CASE Resume
    BY <1>7, ResumeAtSaved, SavedStays DEF Resume, Quiet, BaseSaved
  <1>8. ~ \E b \in Block : StopAdopting(b)
    BY DEF StopAdopting
  <1> QED BY <1>1, <1>2, <1>3, <1>4, <1>5, <1>6, <1>7, <1>8 DEF Moves

\* A block of one chain and not of the other is above the bootstrap block and
\* above the pruning depth, so it is backed.
LEMMA ApartIsBacked ==
    ASSUME TInv, HInv, DInv, BaseSaved, pc # "down",
           NEW s \in {Tip, Saved}, NEW t \in {Tip, Saved},
           NEW b \in Ancestors(s) \ Ancestors(t)
    PROVE  Backed(b) /\ Height(b) > peak - PRUNE_DEPTH
  <1>1. /\ s \in Block /\ t \in Block /\ b \in Block /\ Height(b) \in Nat
        /\ peak \in Nat /\ PRUNE_DEPTH \in Nat
    BY HeightNumbers, AncestorPlace
  <1>2. Height(b) > 0
    BY <1>1, GenesisFirst
  <1>3. ~(baseDat \in Ancestors(s) /\ Height(baseDat) >= Height(b))
    <2> SUFFICES ASSUME baseDat \in Ancestors(s), Height(baseDat) >= Height(b) PROVE FALSE
      OBVIOUS
    <2>1. baseDat \in Block /\ Height(baseDat) \in Nat
      BY <1>1, AncestorPlace
    <2>2. baseDat \in Ancestors(t)
      BY <2>1, ContentAssumption DEF BaseSaved
    <2>3. b \in Ancestors(baseDat)
      BY <1>1, <2>1, AncestorOrder
    <2> QED BY <1>1, <2>2, <2>3, AncestorTrans
  <1>4. AllBacked(s)
    BY DEF HInv
  <1>5. Backed(b)
    BY <1>2, <1>3, <1>4 DEF AllBacked, Above
  <1>6. ~(Height(b) <= peak - PRUNE_DEPTH)
    BY DEF DInv, SharedBelow
  <1> QED BY <1>1, <1>5, <1>6

\* load and activate_best_chain: after a crash at any point the node is not
\* refused its own files, can leave what utxo.dat holds and the tip does not,
\* and can connect again what the tip had: undo files, blocks and signatures
\* are there, but for signatures a header PRUNE_DEPTH above made unnecessary.
\* Excluded are failed flushes and a crash inside load_snapshot_bytes.
THEOREM CrashRecoverable ==
    ASSUME "flush-write" \notin Faults, "crash-load" \notin Faults,
           FLUSH_SYNC <= PRUNE_DEPTH
    PROVE  Spec => []Recoverable
  <1>1. Init => BaseSaved
    BY DEF Init, BaseSaved
  <1>2. TInv /\ HInv /\ BaseSaved /\ [Next]_vars => BaseSaved'
    BY NextBaseSaved
  <1>3. Spec => []DInv
    BY DInvAlways
  <1>4. TInv /\ HInv /\ DInv /\ BaseSaved => Recoverable
    <2> SUFFICES ASSUME TInv, HInv, DInv, BaseSaved PROVE Recoverable
      OBVIOUS
    <2>1. ~LoadRefused
      BY SavedUsable DEF LoadRefused, BaseSaved
    <2>2. LoadedTip = Saved
      BY <2>1, ResumeAtSaved
    <2>3. ASSUME pc # "down", NEW b \in Ancestors(Saved) \ Ancestors(Tip)
          PROVE  undoFiles[b] # NoFile
      BY <2>3, ApartIsBacked DEF Backed
    <2>4. ASSUME pc # "down", NEW b \in Ancestors(Tip) \ Ancestors(Saved)
          PROVE  /\ b \in blocksDat
                 /\ \/ b \in witnessFiles
                    \/ \E x \in Known : Deep(b, x)
      BY <2>4, ApartIsBacked, HeightNumbers, AncestorPlace DEF Backed, SeenDeep
    <2> QED BY <2>1, <2>2, <2>3, <2>4 DEF Recoverable
  <1> QED BY <1>1, <1>2, <1>3, <1>4, TInvAlways, HInvAlways, PTL DEF Spec

---------------------------------------------------------------------------
(* Snapshots hold the replayed state. *)

SnapFilesRight ==
    ~lied => \A x \in Block : snapFiles[x] # NoFile => snapFiles[x] = StateAt[x]

\* What write_commit_snapshot leaves was there before or is the new snapshot.
LEMMA SnapshotsOld ==
    ASSUME TypeOK, NEW n \in Block, NEW s \in State, NEW c,
           NEW files \in SnapshotsAfter(n, s, c), NEW x \in Block, files[x] # NoFile
    PROVE  files[x] = snapFiles[x] \/ (x = n /\ files[x] = s)
  <1> DEFINE new == [snapFiles EXCEPT ![n] = s]
  <1>1. new[x] = snapFiles[x] \/ (x = n /\ new[x] = s)
    BY DEF TypeOK
  <1>2. CASE files = snapFiles
    BY <1>2
  <1>3. CASE files \in SnapshotsKept(new, c)
    <2> HIDE DEF new
    <2>1. files[x] = new[x]
      BY <1>3 DEF SnapshotsKept
    <2> QED BY <1>1, <2>1
  <1> QED BY <1>2, <1>3 DEF SnapshotsAfter

\* Every step keeps the snapshots right.
LEMMA NextSnapFiles ==
    ASSUME "load-write" \notin Faults
    PROVE  TInv /\ SInv /\ SnapFilesRight /\ [Next]_vars => SnapFilesRight'
  <1> SUFFICES ASSUME TInv, SInv, SnapFilesRight, [Next]_vars, ~lied',
                      NEW x \in Block, snapFiles'[x] # NoFile
               PROVE  snapFiles'[x] = StateAt[x]
    BY DEF SnapFilesRight
  <1>a. ASSUME snapFiles' = snapFiles, ~lied PROVE snapFiles'[x] = StateAt[x]
    BY <1>a DEF SnapFilesRight
  <1>t. snapFiles \in [Block -> State \cup {NoFile}]
    BY DEF TInv, TypeOK
  <1>1. CASE UNCHANGED vars
    BY <1>1, <1>a DEF vars, disk, history
  <1>2. CASE Activate
    <2>1. CASE SelectCandidate \/ SelectNone \/ DisconnectTip \/ AbortReorg \/ PathDone
      BY <2>1, <1>a DEF SelectCandidate, SelectNone, DisconnectTip, AbortReorg, PathDone,
         disk, history
    <2>2. CASE StallOnBlock \/ RejectBlock \/ NoFlushYet \/ FlushAfterConnect
      BY <2>2, <1>a DEF StallOnBlock, RejectBlock, MarkFailed, NoFlushYet,
         FlushAfterConnect, disk, history
    <2>3. CASE ConnectBlock
      <3> DEFINE n == NextBlock
                 s == Applied(state, n)
      <3>1. n \in Block \ {Genesis} /\ Prev[n] = Tip /\ state \in State
        BY <2>3, NextBlockIsChild DEF ConnectBlock, TInv, TypeOK
      <3>2. snapFiles' \in SnapshotsAfter(n, s, Append(chain, n)) /\ ~lied
        BY <2>3 DEF ConnectBlock
      <3>3. s = StateAt[n] /\ s \in State
        BY <3>1, <3>2, StateAtAssumption, AppliedType DEF SInv, StateMatchesTip
      <3> HIDE DEF n, s
      <3>4. snapFiles'[x] = snapFiles[x] \/ (x = n /\ snapFiles'[x] = s)
        BY <3>1, <3>2, <3>3, SnapshotsOld DEF TInv
      <3> QED BY <3>2, <3>3, <3>4 DEF SnapFilesRight
    <2> QED BY <1>2, <2>1, <2>2, <2>3 DEF Activate
  <1>3. CASE \E b \in Block : AcceptHeader(b) \/ AcceptWitness(b) \/ CrashStoring(b)
    BY <1>3, <1>a DEF AcceptHeader, AcceptWitness, CrashStoring, history
  <1>4. CASE \E b \in Block, w \in BOOLEAN : AcceptNewBlock(b, w)
    BY <1>4, <1>a DEF AcceptNewBlock, history
  <1>5. CASE \E b \in Block : LoadSnapshot(b) \/ CrashLoading(b)
    <2>1. PICK b \in Block : /\ snapFiles' = [snapFiles EXCEPT ![b] = Commit[CommitHeader(b)]]
                             /\ lied' = (lied \/ Commit[CommitHeader(b)] # StateAt[b])
      BY <1>5 DEF LoadSnapshot, CrashLoading
    <2>2. ~lied /\ Commit[CommitHeader(b)] = StateAt[b]
      BY <2>1
    <2> QED BY <2>1, <2>2, <1>t DEF SnapFilesRight
  <1>6. CASE Shutdown \/ Crash \/ Load
    BY <1>6, <1>a DEF Shutdown, Crash, Load, disk, history
  <1>7. ~ \E b \in Block : LoadSnapshotFails(b)
    BY DEF LoadSnapshotFails
  <1> QED BY <1>1, <1>2, <1>3, <1>4, <1>5, <1>6, <1>7 DEF Next

\* The snapshots are right in every reachable state.
LEMMA SnapFilesAlways ==
    ASSUME "load-write" \notin Faults
    PROVE  Spec => []SnapFilesRight
  <1>1. Init => SnapFilesRight
    BY DEF Init, SnapFilesRight
  <1>2. TInv /\ SInv /\ SnapFilesRight /\ [Next]_vars => SnapFilesRight'
    BY NextSnapFiles
  <1>3. Spec => []SInv
    BY SInvAlways
  <1> QED BY <1>1, <1>2, <1>3, TInvAlways, PTL DEF Spec

---------------------------------------------------------------------------
(* Rejection. *)

\* A block that connect_block finds invalid is invalid on its chain.
LEMMA RejectedIsInvalid ==
    ASSUME TInv, SInv, SnapFilesRight, ~lied, Connecting, ~BlockValid(NextBlock)
    PROVE  \A x \in Block : NextBlock \in Ancestors(x) => TrulyInvalid(x)
  <1> DEFINE n == NextBlock
             h == Height(n) - SNAPSHOT_DELAY
  <1>1. n \in Block \ {Genesis} /\ state = StateAt[Prev[n]] /\ Height(n) \in Nat
    BY NextBlockIsChild, OwnAncestor DEF SInv, StateMatchesTip
  <1>2. CASE ~TxsApply(state, n)
    BY <1>1, <1>2 DEF TrulyInvalid
  <1>3. CASE ~SigsChecked(n)
    BY <1>1, <1>3 DEF SigsChecked, TrulyInvalid
  <1>4. CASE ~CommitOk(n)
    <2> HIDE DEF n
    <2>1. /\ IsCommitHeight(Height(n))
          /\ snapFiles[AncestorAt(n, h)] # NoFile /\ snapFiles[AncestorAt(n, h)] # Commit[n]
      BY <1>4 DEF CommitOk
    <2>2. h \in Nat /\ h <= Height(n)
      BY <1>1, <2>1, ParameterAssumption DEF IsCommitHeight
    <2>3. AncestorAt(n, h) \in Block
      BY <1>1, <2>2, AncestorExists
    <2>4. Commit[n] # StateAt[AncestorAt(n, h)]
      BY <2>1, <2>3 DEF SnapFilesRight
    <2> QED BY <1>1, <2>1, <2>4 DEF TrulyInvalid, n
  <1> QED BY <1>2, <1>3, <1>4 DEF BlockValid

\* Every step keeps the failed blocks invalid.
LEMMA NextOnlyInvalid ==
    ASSUME "load-write" \notin Faults, "undo-write" \notin Faults
    PROVE  TInv /\ SInv /\ SnapFilesRight /\ OnlyInvalidFailed /\ [Next]_vars
               => OnlyInvalidFailed'
  <1> SUFFICES ASSUME TInv, SInv, SnapFilesRight, OnlyInvalidFailed, [Next]_vars, ~lied',
                      NEW x \in failed'
               PROVE  TrulyInvalid(x)
    BY DEF OnlyInvalidFailed, TrulyInvalid
  <1>a. ASSUME failed' = failed \/ failed' = {}, ~lied PROVE TrulyInvalid(x)
    BY <1>a DEF OnlyInvalidFailed
  <1>1. CASE UNCHANGED vars
    BY <1>1, <1>a DEF vars, flags, history
  <1>2. CASE Activate
    <2>1. CASE SelectCandidate \/ SelectNone \/ DisconnectTip \/ AbortReorg \/ PathDone
      BY <2>1, <1>a DEF SelectCandidate, SelectNone, DisconnectTip, AbortReorg, PathDone,
         flags, history
    <2>2. CASE StallOnBlock \/ NoFlushYet \/ FlushAfterConnect \/ ConnectBlock
      BY <2>2, <1>a DEF StallOnBlock, NoFlushYet, FlushAfterConnect, ConnectBlock,
         flags, history
    <2>3. CASE RejectBlock
      <3>1. /\ Connecting /\ ~BlockValid(NextBlock) /\ ~lied
            /\ failed' = failed \cup FailedSubtree(NextBlock)
        BY <2>3 DEF RejectBlock, MarkFailed, history
      <3>2. CASE x \in failed
        BY <3>1, <3>2 DEF OnlyInvalidFailed
      <3>3. CASE x \in FailedSubtree(NextBlock)
        <4>1. x \in Block /\ NextBlock \in Ancestors(x)
          BY <3>3, TipInBlock DEF FailedSubtree, TInv
        <4> QED BY <3>1, <4>1, RejectedIsInvalid
      <3> QED BY <3>1, <3>2, <3>3
    <2> QED BY <1>2, <2>1, <2>2, <2>3 DEF Activate
  <1>3. CASE \E b \in Block : AcceptHeader(b) \/ AcceptWitness(b) \/ CrashStoring(b)
    BY <1>3, <1>a DEF AcceptHeader, AcceptWitness, CrashStoring, MemoryLost, flags, history
  <1>4. CASE \E b \in Block, w \in BOOLEAN : AcceptNewBlock(b, w)
    BY <1>4, <1>a DEF AcceptNewBlock, history
  <1>5. CASE \E b \in Block : LoadSnapshot(b) \/ CrashLoading(b)
    <2>1. /\ failed' = failed \/ failed' = {}
          /\ \E b \in Block : lied' = (lied \/ Commit[CommitHeader(b)] # StateAt[b])
      BY <1>5 DEF LoadSnapshot, CrashLoading, MemoryLost
    <2>2. ~lied
      BY <2>1
    <2> QED BY <1>a, <2>1, <2>2
  <1>6. CASE Shutdown \/ Crash \/ Load
    BY <1>6, <1>a DEF Shutdown, Crash, Load, MemoryLost, history
  <1>7. ~ \E b \in Block : LoadSnapshotFails(b)
    BY DEF LoadSnapshotFails
  <1> QED BY <1>1, <1>2, <1>3, <1>4, <1>5, <1>6, <1>7 DEF Next

\* connect_block and mark_failed: no block is ever marked failed unless it or
\* an ancestor breaks a rule, whatever the state, the snapshots and the
\* signatures on disk went through before.  A failed write of an undo file is
\* excluded: connect_block does fail the block for that.
THEOREM FailedAreInvalid ==
    ASSUME "load-write" \notin Faults, "undo-write" \notin Faults
    PROVE  Spec => []OnlyInvalidFailed
  <1>1. Init => OnlyInvalidFailed
    BY DEF Init, OnlyInvalidFailed
  <1>2. TInv /\ SInv /\ SnapFilesRight /\ OnlyInvalidFailed /\ [Next]_vars
            => OnlyInvalidFailed'
    BY NextOnlyInvalid
  <1>3. Spec => []SInv
    BY SInvAlways
  <1>4. Spec => []SnapFilesRight
    BY SnapFilesAlways
  <1> QED BY <1>1, <1>2, <1>3, <1>4, TInvAlways, PTL DEF Spec

---------------------------------------------------------------------------
(* State commitments.  A block at a commit height is compared with the      *)
(* snapshot taken SNAPSHOT_DELAY below it, if that is still there.  It is,  *)
(* as long as the node has not been an interval above it: PRUNE_DEPTH and   *)
(* SNAPSHOT_DELAY together are less than an interval (5040, 100 and 10080), *)
(* and a tip sinks at most PRUNE_DEPTH.                                     *)

\* Division with remainder.
LEMMA DivMod ==
    ASSUME NEW h \in Nat, NEW i \in Nat \ {0}
    PROVE  h = i * (h \div i) + (h % i) /\ (h \div i) \in Nat
  OBVIOUS

LEMMA MultipleMod ==
    ASSUME NEW q \in Nat, NEW i \in Nat \ {0}
    PROVE  (i * q) % i = 0
  OBVIOUS

\* The height a commitment is about is a multiple of the interval.
LEMMA CommitHeightBase ==
    ASSUME NEW h \in Nat, NEW d \in Nat, NEW i \in Nat \ {0}, h % i = d, h >= d
    PROVE  (h - d) % i = 0
  <1>1. PICK q \in Nat : h = i * q + d
    <2>1. h = i * (h \div i) + (h % i) /\ (h \div i) \in Nat
      BY DivMod
    <2> QED BY <2>1
  <1>2. h - d = i * q
    BY <1>1
  <1> QED BY <1>2, MultipleMod

\* Two multiples of the interval are at least an interval apart.
LEMMA MultiplesApart ==
    ASSUME NEW a \in Nat, NEW b \in Nat, NEW i \in Nat \ {0},
           a % i = 0, b % i = 0, a < b
    PROVE  a + i <= b
  <1>1. PICK p \in Nat : a = i * p
    <2> DEFINE d == a \div i
    <2>1. a = i * d + (a % i) /\ d \in Nat
      BY DivMod
    <2> HIDE DEF d
    <2>2. i * d \in Nat
      BY <2>1
    <2> QED BY <2>1, <2>2
  <1>2. PICK q \in Nat : b = i * q
    <2> DEFINE d == b \div i
    <2>1. b = i * d + (b % i) /\ d \in Nat
      BY DivMod
    <2> HIDE DEF d
    <2>2. i * d \in Nat
      BY <2>1
    <2> QED BY <2>1, <2>2
  <1>3. \A m, k \in Nat : m <= k => i * m <= i * k
    OBVIOUS
  <1>4. p + 1 <= q
    <2>1. ~(q <= p)
      BY <1>1, <1>2, <1>3
    <2> QED BY <2>1
  <1>5. i * (p + 1) <= i * q
    BY <1>3, <1>4
  <1>6. i * (p + 1) = i * p + i
    OBVIOUS
  <1> QED BY <1>1, <1>2, <1>5, <1>6

SnapshotHeld(top) ==
    \A x \in Ancestors(top) :
        /\ Height(x) > 0 /\ Height(x) % SNAPSHOT_INTERVAL = 0
        /\ Height(x) + SNAPSHOT_INTERVAL > peak
        /\ ~(baseDat \in Ancestors(top) /\ Height(baseDat) > Height(x))
        => snapFiles[x] # NoFile

CommitsHold(top) ==
    ~lied => \A b \in Ancestors(top) :
        IsCommitHeight(Height(b)) /\ Above(b, Ancestors(top)) =>
            Commit[b] = StateAt[AncestorAt(b, Height(b) - SNAPSHOT_DELAY)]

\* A bootstrap block is at a snapshot height, and the files are finitely many.
SnapshotsPlaced ==
    /\ baseDat # NoBlock => Height(baseDat) % SNAPSHOT_INTERVAL = 0
    /\ IsFiniteSet({x \in Block : snapFiles[x] # NoFile})

\* The end of the chain that is active now, or will be after the restart.
Current == IF pc = "down" THEN Saved ELSE Tip

CInv == SnapshotsPlaced /\ SnapshotHeld(Current) /\ CommitsHold(Current)

\* Of all snapshots on disk, the one just taken at the tip is kept.
LEMMA NewSnapshotKept ==
    ASSUME TInv, NEW n \in Block, NEW f, NEW files \in SnapshotsKept(f, Path[n]),
           f[n] # NoFile, IsFiniteSet({x \in Block : f[x] # NoFile})
    PROVE  files[n] # NoFile
  <1> DEFINE held == {x \in Block : f[x] # NoFile}
             size == IF Cardinality(held) < KEEP_SNAPSHOTS
                     THEN Cardinality(held) ELSE KEEP_SNAPSHOTS
  <1>1. PICK K \in SUBSET held :
            /\ Cardinality(K) = size
            /\ \A x \in K, y \in held \ K :
                   SnapshotRank(x, Path[n]) >= SnapshotRank(y, Path[n])
            /\ files = [x \in Block |-> IF x \in K \cup fromSnapshot THEN f[x] ELSE NoFile]
    BY DEF SnapshotsKept
  <1>2. n \in held /\ IsFiniteSet(held)
    OBVIOUS
  <1>3. n \in K
    <2> SUFFICES ASSUME n \notin K PROVE FALSE
      OBVIOUS
    <2>1. Height(n) \in Nat /\ Len(Path[n]) = Height(n) + 1 /\ Path[n][Height(n) + 1] = n
      BY OwnAncestor, PathLast DEF Height
    <2>2. SnapshotRank(n, Path[n]) = Height(n)
      BY <2>1 DEF SnapshotRank
    <2>3. ASSUME NEW x \in K PROVE FALSE
      <3>1. SnapshotRank(x, Path[n]) >= Height(n)
        BY <1>1, <1>2, <2>2, <2>3
      <3>2. Height(x) \in Nat
        BY <2>3, OwnAncestor
      <3>3. Height(x) < Height(n) + 1 /\ Path[n][Height(x) + 1] = x /\ Height(x) >= Height(n)
        BY <2>1, <3>1, <3>2 DEF SnapshotRank
      <3>4. Height(x) = Height(n)
        BY <2>1, <3>2, <3>3
      <3> QED BY <2>1, <2>3, <3>3, <3>4
    <2>4. K = {}
      BY <2>3
    <2>5. size = 0
      BY <1>1, <2>4, FS_EmptySet
    <2>6. Cardinality(held) = 0
      BY <2>5, ParameterAssumption
    <2> HIDE DEF held
    <2> QED BY <1>2, <2>6, FS_EmptySet
  <1> QED BY <1>1, <1>3

\* Writing or dropping snapshots leaves finitely many.
LEMMA SnapshotsStayFinite ==
    ASSUME TInv, NEW n \in Block, NEW s \in State,
           IsFiniteSet({x \in Block : snapFiles[x] # NoFile}),
           snapFiles' = [snapFiles EXCEPT ![n] = s]
               \/ \A x \in Block : snapFiles'[x] # NoFile => snapFiles[x] # NoFile \/ x = n
    PROVE  IsFiniteSet({x \in Block : snapFiles'[x] # NoFile})
  <1> DEFINE old == {x \in Block : snapFiles[x] # NoFile}
             new == {x \in Block : snapFiles'[x] # NoFile}
  <1>1. new \subseteq old \cup {n}
    BY DEF TInv, TypeOK
  <1>2. IsFiniteSet(old \cup {n})
    BY FS_AddElement
  <1> HIDE DEF old, new
  <1>3. IsFiniteSet(new)
    BY <1>1, <1>2, FS_Subset
  <1> QED BY <1>3 DEF new

\* Steps that leave the current chain, the snapshots and the peak alone.
LEMMA QuietCInv ==
    ASSUME CInv, Current' = Current, snapFiles' = snapFiles, baseDat' = baseDat,
           peak' = peak, lied' = lied
    PROVE  CInv'
  <1>1. SnapshotsPlaced'
    BY DEF CInv, SnapshotsPlaced
  <1>2. SnapshotHeld(Current)' /\ CommitsHold(Current)'
    BY DEF CInv, SnapshotHeld, CommitsHold, Above
  <1> QED BY <1>1, <1>2 DEF CInv

\* A disconnect drops a block that is not the bootstrap block.
LEMMA DisconnectCInv ==
    ASSUME TInv, HInv, CInv, DisconnectTip
    PROVE  CInv'
  <1>1. /\ Tip \in Block \ {Genesis} /\ Tip' = Prev[Tip]
        /\ pc = "switch" /\ pc' = "switch" /\ Tip \notin fromSnapshot
        /\ UNCHANGED <<snapFiles, baseDat, peak, lied>>
    BY DisconnectChain DEF DisconnectTip, CanDisconnect, disk, history
  <1>2. Current = Tip /\ Current' = Tip'
    BY <1>1 DEF Current
  <1>3. Tip # baseDat
    BY <1>1, ContentAssumption DEF HInv, BaseRecorded
  <1>4. PICK t \in Block : t = Prev[Tip]
    BY <1>1, AncestorStep
  <1>5. Ancestors(Tip) = Ancestors(t) \cup {Tip} /\ Current' = t
    BY <1>1, <1>2, <1>4, AncestorStep
  <1>6. SnapshotHeld(t)'
    BY <1>1, <1>2, <1>3, <1>5 DEF CInv, SnapshotHeld
  <1>7. CommitsHold(t)'
    BY <1>1, <1>2, <1>3, <1>5 DEF CInv, CommitsHold, Above
  <1>8. SnapshotsPlaced'
    BY <1>1 DEF CInv, SnapshotsPlaced
  <1> QED BY <1>5, <1>6, <1>7, <1>8 DEF CInv, SnapshotHeld, CommitsHold

\* What connect_block leaves of the snapshots.
LEMMA ConnectSnapshots ==
    ASSUME TInv, CInv, ConnectBlock, "snapshot-write" \notin Faults
    PROVE  /\ IF Height(NextBlock) % SNAPSHOT_INTERVAL # 0 THEN snapFiles' = snapFiles
              ELSE snapFiles'[NextBlock] # NoFile
           /\ IsFiniteSet({x \in Block : snapFiles'[x] # NoFile})
  <1> DEFINE n == NextBlock
             s == Applied(state, n)
             f == [snapFiles EXCEPT ![n] = s]
  <1>1. /\ n \in Block /\ s \in State /\ Append(chain, n) = Path[n]
        /\ snapFiles \in [Block -> State \cup {NoFile}]
    BY NextBlockIsChild, AppliedType DEF ConnectBlock, TInv, TypeOK
  <1>2. snapFiles' \in SnapshotsAfter(n, s, Path[n])
    BY <1>1 DEF ConnectBlock
  <1>3. f[n] # NoFile /\ \A x \in Block : f[x] # NoFile => snapFiles[x] # NoFile \/ x = n
    BY <1>1, ContentAssumption
  <1>4. IsFiniteSet({x \in Block : snapFiles[x] # NoFile})
    BY DEF CInv, SnapshotsPlaced
  <1>5. IsFiniteSet({x \in Block : f[x] # NoFile})
    <2> HIDE DEF n, s
    <2>1. {x \in Block : f[x] # NoFile} \subseteq {x \in Block : snapFiles[x] # NoFile} \cup {n}
      BY <1>3
    <2> QED BY <1>4, <2>1, FS_AddElement, FS_Subset
  <1> HIDE DEF n, s
  <1>6. Height(n) % SNAPSHOT_INTERVAL # 0 => snapFiles' = snapFiles
    BY <1>2 DEF SnapshotsAfter
  <1>7. Height(n) % SNAPSHOT_INTERVAL = 0 => snapFiles' \in SnapshotsKept(f, Path[n])
    BY <1>2 DEF SnapshotsAfter
  <1> HIDE DEF f
  <1>8. Height(n) % SNAPSHOT_INTERVAL = 0 => snapFiles'[n] # NoFile
    BY <1>1, <1>3, <1>5, <1>7, NewSnapshotKept
  <1>9. \A x \in Block : snapFiles'[x] # NoFile => snapFiles[x] # NoFile \/ x = n
    BY <1>1, <1>2, SnapshotsOld DEF TInv
  <1>10. IsFiniteSet({x \in Block : snapFiles'[x] # NoFile})
    BY <1>1, <1>4, <1>9, SnapshotsStayFinite
  <1> QED BY <1>6, <1>8, <1>10 DEF n

\* The snapshot a block at a commit height is compared with is there.
LEMMA CommitSnapshotThere ==
    ASSUME TInv, HInv, DInv, CInv, pc # "down", NEW n \in Block \ {Genesis}, Prev[n] = Tip,
           IsCommitHeight(Height(n)), ~(baseDat \in Ancestors(n) /\ Height(baseDat) >= Height(n)),
           SNAPSHOT_DELAY > 0, PRUNE_DEPTH + SNAPSHOT_DELAY <= SNAPSHOT_INTERVAL
    PROVE  /\ AncestorAt(n, Height(n) - SNAPSHOT_DELAY) \in Block
           /\ snapFiles[AncestorAt(n, Height(n) - SNAPSHOT_DELAY)] # NoFile
  <1> DEFINE h == Height(n) - SNAPSHOT_DELAY
  <1>1. /\ SNAPSHOT_INTERVAL \in Nat \ {0} /\ SNAPSHOT_DELAY \in Nat /\ PRUNE_DEPTH \in Nat
        /\ SNAPSHOT_DELAY < SNAPSHOT_INTERVAL
    BY ParameterAssumption
  <1>2. /\ Ancestors(n) = Ancestors(Tip) \cup {n} /\ Height(n) = Height(Tip) + 1
        /\ Height(Tip) \in Nat /\ Height(n) \in Nat /\ peak \in Nat /\ Tip \in Block
    BY AncestorStep, OwnAncestor, HeightNumbers
  <1>3. /\ Height(n) >= SNAPSHOT_INTERVAL + SNAPSHOT_DELAY
        /\ Height(n) % SNAPSHOT_INTERVAL = SNAPSHOT_DELAY
    BY DEF IsCommitHeight
  <1>4. h \in Nat /\ h > 0 /\ h <= Height(Tip) /\ h <= Height(n)
    BY <1>1, <1>2, <1>3
  <1>5. h % SNAPSHOT_INTERVAL = 0
    BY <1>1, <1>2, <1>3, CommitHeightBase
  <1>6. h + SNAPSHOT_INTERVAL > peak
    <2>1. Height(Tip) >= peak - PRUNE_DEPTH
      BY DEF DInv, NearPeak
    <2> QED BY <1>1, <1>2, <2>1
  <1> HIDE DEF h
  <1>7. PICK x \in Ancestors(n) : x = AncestorAt(n, h) /\ x \in Block /\ Height(x) = h
    BY <1>4, AncestorExists
  <1>8. x \in Ancestors(Tip)
    BY <1>1, <1>2, <1>7 DEF h
  <1>9. ~(baseDat \in Ancestors(Tip) /\ Height(baseDat) > h)
    <2> SUFFICES ASSUME baseDat \in Ancestors(Tip), Height(baseDat) > h PROVE FALSE
      OBVIOUS
    <2>1. baseDat \in Block /\ Height(baseDat) \in Nat /\ Height(baseDat) <= Height(Tip)
      BY <1>2, AncestorPlace
    <2>2. Height(baseDat) % SNAPSHOT_INTERVAL = 0
      BY <2>1, ContentAssumption DEF CInv, SnapshotsPlaced
    <2>3. h + SNAPSHOT_INTERVAL <= Height(baseDat)
      BY <1>1, <1>4, <1>5, <2>1, <2>2, MultiplesApart
    <2> QED BY <1>1, <1>2, <2>1, <2>3 DEF h
  <1>10. SnapshotHeld(Tip)
    BY DEF CInv, Current
  <1>11. snapFiles[x] # NoFile
    BY <1>4, <1>5, <1>6, <1>7, <1>8, <1>9, <1>10 DEF SnapshotHeld
  <1> QED BY <1>7, <1>11 DEF h

\* A connect.
LEMMA ConnectCInv ==
    ASSUME TInv, HInv, DInv, CInv, SnapFilesRight, ConnectBlock,
           "snapshot-write" \notin Faults,
           SNAPSHOT_DELAY > 0, PRUNE_DEPTH + SNAPSHOT_DELAY <= SNAPSHOT_INTERVAL
    PROVE  CInv'
  <1>1. PICK n \in Block \ {Genesis} :
            n = NextBlock /\ Prev[n] = Tip /\ Tip' = n /\ CommitOk(n)
    BY NextBlockIsChild, NewTip DEF ConnectBlock, BlockValid
  <1>2. /\ pc = "switch" /\ pc' = "flush" /\ baseDat' = baseDat /\ lied' = lied
        /\ peak' = IF Height(n) > peak THEN Height(n) ELSE peak
    BY <1>1 DEF ConnectBlock, Connecting
  <1>3. Current = Tip /\ Current' = n
    BY <1>1, <1>2 DEF Current
  <1>4. /\ Ancestors(n) = Ancestors(Tip) \cup {n} /\ Height(n) = Height(Tip) + 1
        /\ Height(n) \in Nat /\ Height(Tip) \in Nat /\ peak \in Nat /\ Tip \in Block
    BY <1>1, AncestorStep, OwnAncestor, HeightNumbers
  <1>5. /\ IF Height(n) % SNAPSHOT_INTERVAL # 0 THEN snapFiles' = snapFiles
           ELSE snapFiles'[n] # NoFile
        /\ IsFiniteSet({x \in Block : snapFiles'[x] # NoFile})
    BY <1>1, ConnectSnapshots
  <1>6. SnapshotHeld(n)'
    <2> SUFFICES ASSUME NEW x \in Ancestors(n), Height(x) > 0,
                        Height(x) % SNAPSHOT_INTERVAL = 0,
                        Height(x) + SNAPSHOT_INTERVAL > peak',
                        ~(baseDat \in Ancestors(n) /\ Height(baseDat) > Height(x)),
                        x # n
                 PROVE  snapFiles'[x] # NoFile
      BY <1>2, <1>5 DEF SnapshotHeld
    <2>1. x \in Ancestors(Tip) /\ Height(x) \in Nat /\ Height(x) < Height(n)
      BY <1>4, AncestorPlace
    <2>2. Height(n) <= peak' /\ peak <= peak' /\ peak' \in Nat
      BY <1>2, <1>4
    <2>3. SNAPSHOT_INTERVAL \in Nat \ {0}
      BY ParameterAssumption
    <2>4. Height(n) % SNAPSHOT_INTERVAL # 0
      <3>1. Height(n) % SNAPSHOT_INTERVAL = 0 => Height(x) + SNAPSHOT_INTERVAL <= Height(n)
        BY <1>4, <2>1, <2>3, MultiplesApart
      <3> QED BY <1>4, <2>1, <2>2, <2>3, <3>1
    <2>5. Height(x) + SNAPSHOT_INTERVAL > peak
      BY <2>1, <2>2, <2>3, <1>4
    <2>6. snapFiles[x] # NoFile
      BY <1>3, <1>4, <2>1, <2>5 DEF CInv, SnapshotHeld
    <2> QED BY <1>5, <2>4, <2>6
  <1>7. CommitsHold(n)'
    <2> SUFFICES ASSUME ~lied, NEW b \in Ancestors(n), IsCommitHeight(Height(b)),
                        Above(b, Ancestors(n))
                 PROVE  Commit[b] = StateAt[AncestorAt(b, Height(b) - SNAPSHOT_DELAY)]
      BY <1>2 DEF CommitsHold, Above
    <2>1. CASE b \in Ancestors(Tip)
      BY <1>3, <1>4, <2>1 DEF CInv, CommitsHold, Above
    <2>2. CASE b = n
      <3>1. ~(baseDat \in Ancestors(n) /\ Height(baseDat) >= Height(n))
        BY <2>2 DEF Above
      <3>2. /\ AncestorAt(n, Height(n) - SNAPSHOT_DELAY) \in Block
            /\ snapFiles[AncestorAt(n, Height(n) - SNAPSHOT_DELAY)] # NoFile
        BY <1>1, <1>2, <2>2, <3>1, CommitSnapshotThere
      <3> QED BY <1>1, <2>2, <3>2 DEF CommitOk, SnapFilesRight
    <2> QED BY <1>4, <2>1, <2>2
  <1>8. SnapshotsPlaced'
    BY <1>2, <1>5 DEF CInv, SnapshotsPlaced
  <1> QED BY <1>3, <1>6, <1>7, <1>8 DEF CInv, SnapshotHeld, CommitsHold

\* A bootstrap: the snapshot at the new tip is the one just written.
LEMMA AdoptCInv ==
    ASSUME TInv, CInv, NEW b \in Block, LoadSnapshot(b)
    PROVE  CInv'
  <1>1. /\ Committed(b) /\ chain' = Path[b] /\ baseDat' = b /\ pc' = "select"
        /\ snapFiles' = [snapFiles EXCEPT ![b] = Commit[CommitHeader(b)]]
    BY DEF LoadSnapshot
  <1>2. Commit[CommitHeader(b)] \in State /\ Tip' = b
    BY <1>1, CommittedState, NewTip DEF TInv
  <1>3. Current' = b /\ snapFiles'[b] # NoFile
    BY <1>1, <1>2, ContentAssumption DEF Current, TInv, TypeOK
  <1>4. b \in Ancestors(b) /\ Height(b) \in Nat
    BY OwnAncestor
  <1>5. ASSUME NEW x \in Ancestors(b)
        PROVE  Height(x) \in Nat /\ Height(x) <= Height(b) /\ (Height(x) = Height(b) => x = b)
    BY <1>4, <1>5, AncestorPlace, AncestorUnique
  <1>6. SnapshotHeld(b)'
    BY <1>1, <1>3, <1>4, <1>5 DEF SnapshotHeld
  <1>7. CommitsHold(b)'
    BY <1>1, <1>4, <1>5 DEF CommitsHold, Above
  <1>8. SnapshotsPlaced'
    <2> DEFINE h == Height(b) + SNAPSHOT_DELAY
    <2>1. /\ h \in Nat /\ SNAPSHOT_DELAY \in Nat /\ SNAPSHOT_INTERVAL \in Nat \ {0}
          /\ h >= SNAPSHOT_DELAY /\ h - SNAPSHOT_DELAY = Height(b)
      BY <1>4, ParameterAssumption
    <2>2. h % SNAPSHOT_INTERVAL = SNAPSHOT_DELAY
      BY <1>1 DEF Committed, IsCommitHeight
    <2> HIDE DEF h
    <2>3. Height(b) % SNAPSHOT_INTERVAL = 0
      <3>1. (h - SNAPSHOT_DELAY) % SNAPSHOT_INTERVAL = 0
        BY <2>1, <2>2, CommitHeightBase
      <3> QED BY <2>1, <3>1, Zenon
    <2>4. IsFiniteSet({x \in Block : snapFiles'[x] # NoFile})
      <3>1. PICK s \in State : snapFiles' = [snapFiles EXCEPT ![b] = s]
        BY <1>1, <1>2
      <3>2. IsFiniteSet({x \in Block : snapFiles[x] # NoFile})
        BY DEF CInv, SnapshotsPlaced
      <3> QED BY <3>1, <3>2, SnapshotsStayFinite
    <2> QED BY <1>1, <2>3, <2>4 DEF SnapshotsPlaced
  <1> QED BY <1>3, <1>6, <1>7, <1>8 DEF CInv, SnapshotHeld, CommitsHold

\* The fresh node is at genesis and has no snapshot.
LEMMA InitCInv == Init => CInv
  <1> SUFFICES ASSUME Init PROVE CInv
    OBVIOUS
  <1>1. Current = Genesis
    BY DEF Init, Current, Tip
  <1>2. Height(Genesis) = 0 /\ Ancestors(Genesis) = {Genesis}
    BY GenesisFirst, GenesisAlone
  <1>3. {x \in Block : snapFiles[x] # NoFile} = {}
    BY DEF Init
  <1>4. SnapshotsPlaced
    BY <1>3, FS_EmptySet DEF Init, SnapshotsPlaced
  <1>5. SnapshotHeld(Genesis) /\ CommitsHold(Genesis)
    BY <1>2 DEF SnapshotHeld, CommitsHold, Above
  <1> QED BY <1>1, <1>4, <1>5 DEF CInv, SnapshotHeld, CommitsHold

\* No crash, and no failing write but of signatures and undo files.
Undisturbed == Faults \subseteq {"witness-write", "undo-write"}

\* Every step keeps CInv.
LEMMA NextCInv ==
    ASSUME Undisturbed, SNAPSHOT_DELAY > 0,
           PRUNE_DEPTH + SNAPSHOT_DELAY <= SNAPSHOT_INTERVAL
    PROVE  TInv /\ HInv /\ DInv /\ SnapFilesRight /\ CInv /\ [Next]_vars => CInv'
  <1> SUFFICES ASSUME TInv, HInv, DInv, SnapFilesRight, CInv, [Next]_vars PROVE CInv'
    OBVIOUS
  <1>0. /\ "crash" \notin Faults /\ "crash-store" \notin Faults /\ "crash-load" \notin Faults
        /\ "load-write" \notin Faults /\ "flush-write" \notin Faults
        /\ "snapshot-write" \notin Faults
    BY DEF Undisturbed
  <1>a. ASSUME chain' = chain, pc # "down", pc' # "down", snapFiles' = snapFiles,
               baseDat' = baseDat, peak' = peak, lied' = lied
        PROVE  CInv'
    BY <1>a, TipStays, QuietCInv DEF Current
  <1>1. CASE UNCHANGED vars
    <2>1. Current' = Current
      BY <1>1, TipStays, SavedStays DEF vars, disk, ledger, Current
    <2> QED BY <1>1, <2>1, QuietCInv DEF vars, disk, history
  <1>2. CASE Activate
    <2>1. CASE SelectCandidate \/ SelectNone \/ AbortReorg \/ PathDone
      BY <2>1, <1>a DEF SelectCandidate, SelectNone, AbortReorg, PathDone, Finish,
         disk, ledger, history
    <2>2. CASE StallOnBlock \/ RejectBlock \/ NoFlushYet \/ FlushAfterConnect
      BY <2>2, <1>a DEF StallOnBlock, RejectBlock, MarkFailed, NoFlushYet, Connecting,
         FlushAfterConnect, Finish, disk, ledger, history
    <2>3. CASE DisconnectTip
      BY <2>3, DisconnectCInv
    <2>4. CASE ConnectBlock
      BY <2>4, <1>0, ConnectCInv
    <2> QED BY <1>2, <2>1, <2>2, <2>3, <2>4 DEF Activate
  <1>3. CASE \E b \in Block : AcceptHeader(b) \/ AcceptWitness(b)
    BY <1>3, <1>a DEF AcceptHeader, AcceptWitness, ledger, history
  <1>4. CASE \E b \in Block, w \in BOOLEAN : AcceptNewBlock(b, w)
    BY <1>4, <1>a DEF AcceptNewBlock, ledger, history
  <1>5. CASE \E b \in Block : LoadSnapshot(b)
    BY <1>5, AdoptCInv
  <1>6. CASE Shutdown
    <2>1. Tip \in Block /\ state \in State
      BY TipInBlock DEF TInv, TypeOK
    <2>2. Current = Tip /\ Saved' = Tip /\ pc' = "down"
      BY <1>0, <1>6, <2>1, FlushedTip DEF Shutdown, MemoryLost, Current
    <2>3. Current' = Current
      BY <2>2 DEF Current
    <2> QED BY <1>6, <2>3, QuietCInv DEF Shutdown, history
  <1>7. CASE Load
    <2>1. Current = Saved /\ Tip' = LoadedTip /\ pc' = "select"
      BY <1>7, LoadedType, NewTip DEF Load, Current
    <2>2. LoadedTip = Saved
      BY <1>7, ResumeAtSaved DEF Load
    <2>3. Current' = Current
      BY <2>1, <2>2 DEF Current
    <2> QED BY <1>7, <2>3, QuietCInv DEF Load, disk, history
  <1>8. ~Crash /\ ~ \E b \in Block : CrashStoring(b) \/ CrashLoading(b) \/ LoadSnapshotFails(b)
    BY <1>0 DEF Crash, CrashStoring, CrashLoading, LoadSnapshotFails
  <1> QED BY <1>1, <1>2, <1>3, <1>4, <1>5, <1>6, <1>7, <1>8 DEF Next

\* connect_block and write_commit_snapshot: while the node is neither killed
\* nor refused a write, no block with a false state commitment gets onto the
\* active chain, reorganisations, bootstrap and orderly restarts included: the
\* snapshot to compare with is always still there, so the exception of
\* CommitmentsChecked does not arise.  The last hypothesis is about the
\* constants of the network (5040 + 100 <= 10080).
AllCommitmentsTrue ==
    ~lied => \A b \in ActiveBlocks : ~BelowBootstrap(b) => CommitmentTrue(b)

THEOREM CommitmentsAlwaysChecked ==
    ASSUME Undisturbed, FLUSH_SYNC <= PRUNE_DEPTH, SNAPSHOT_DELAY > 0,
           PRUNE_DEPTH + SNAPSHOT_DELAY <= SNAPSHOT_INTERVAL
    PROVE  Spec => []AllCommitmentsTrue
  <1>0. "load-write" \notin Faults /\ "flush-write" \notin Faults
    BY DEF Undisturbed
  <1>1. Init => CInv
    BY InitCInv
  <1>2. TInv /\ HInv /\ DInv /\ SnapFilesRight /\ CInv /\ [Next]_vars => CInv'
    BY NextCInv
  <1>3. Spec => []DInv
    BY <1>0, DInvAlways
  <1>4. Spec => []SnapFilesRight
    BY <1>0, SnapFilesAlways
  <1>5. TInv /\ HInv /\ CInv => AllCommitmentsTrue
    <2> SUFFICES ASSUME TInv, HInv, CInv, ~lied, NEW b \in ActiveBlocks,
                        IsCommitHeight(Height(b)), ~BelowBootstrap(b)
                 PROVE  Commit[b] = StateAt[AncestorAt(b, Height(b) - SNAPSHOT_DELAY)]
      BY DEF AllCommitmentsTrue, CommitmentTrue
    <2>1. ActiveBlocks = Ancestors(Tip) /\ Tip \in Block /\ BaseRecorded
      BY ActiveIsChain DEF HInv
    <2>2. Height(b) \in Nat /\ Height(b) > 0 /\ b \in Block
      BY <2>1, AncestorPlace, ParameterAssumption DEF IsCommitHeight
    <2>3. pc # "down"
      BY <2>1, <2>2, GenesisFirst, GenesisAlone DEF BaseRecorded
    <2>4. Above(b, Ancestors(Tip))
      <3>1. baseDat \in ActiveBlocks => baseDat \in fromSnapshot
        BY <2>1, <2>3, AncestorPlace, ContentAssumption DEF BaseRecorded
      <3> QED BY <2>1, <2>2, <3>1 DEF Above, BelowBootstrap
    <2> QED BY <2>1, <2>3, <2>4 DEF CInv, Current, CommitsHold
  <1> QED BY <1>1, <1>2, <1>3, <1>4, <1>5, TInvAlways, HInvAlways, PTL DEF Spec
---------------------------------------------------------------------------
(* The transaction index.  It is kept by txid, so it is right only while no  *)
(* two blocks of the chain hold the same transaction.  Every block connected *)
(* here was applied to the state of its parent, where that is impossible;    *)
(* this is remembered for the active and for the saved chain.                *)

AllValid(top) ==
    ~lied => \A b \in Ancestors(top) :
        Above(b, Ancestors(top)) => TxsApply(StateAt[Prev[b]], b)

\* The index names only active blocks that hold the transaction,
IndexSound ==
    \A t \in Tx : txindex[t] # NoBlock => txindex[t] \in Ancestors(Tip) /\ t \in Txs[txindex[t]]

\* and all transactions of the blocks above the bootstrap block.
IndexComplete ==
    pc # "down" /\ ~lied => \A b \in Ancestors(Tip) :
        ~(baseDat \in Ancestors(Tip) /\ Height(baseDat) >= Height(b)) =>
            \A t \in Txs[b] : txindex[t] = b

VInv == AllValid(Tip) /\ AllValid(Saved) /\ Genesis \in blocksDat

\* Only connect_block leads from "switch" to "flush".
LEMMA ForwardConnects ==
    ASSUME [Next]_vars, pc = "switch", pc' = "flush"
    PROVE  ConnectBlock
  BY DEF Next, Activate, vars, SelectCandidate, SelectNone, DisconnectTip, AbortReorg, PathDone,
     StallOnBlock, RejectBlock, MarkFailed, FlushAfterConnect, NoFlushYet, Finish,
     AcceptHeader, AcceptNewBlock, AcceptWitness, LoadSnapshot, LoadSnapshotFails, Shutdown,
     Crash, CrashStoring, CrashLoading, Load, FreshNode, MemoryLost

\* A false snapshot is never forgotten.
LEMMA LiedStays ==
    ASSUME TInv, [Next]_vars, ~lied'
    PROVE  ~lied
  <1>1. CASE \E b \in Block : LoadSnapshot(b) \/ CrashLoading(b)
    <2>1. \E b \in Block : lied' = (lied \/ Commit[CommitHeader(b)] # StateAt[b])
      BY <1>1 DEF LoadSnapshot, CrashLoading
    <2> QED BY <2>1
  <1>2. CASE ConnectBlock
    BY <1>2 DEF ConnectBlock
  <1>3. CASE SelectCandidate \/ SelectNone \/ DisconnectTip \/ AbortReorg \/ PathDone
    BY <1>3 DEF SelectCandidate, SelectNone, DisconnectTip, AbortReorg, PathDone, history
  <1>4. CASE StallOnBlock \/ RejectBlock \/ NoFlushYet \/ FlushAfterConnect
    BY <1>4 DEF StallOnBlock, RejectBlock, MarkFailed, NoFlushYet, FlushAfterConnect, history
  <1>5. CASE \E b \in Block : AcceptHeader(b) \/ AcceptWitness(b) \/ CrashStoring(b)
    BY <1>5 DEF AcceptHeader, AcceptWitness, CrashStoring, history
  <1>6. CASE \E b \in Block, w \in BOOLEAN : AcceptNewBlock(b, w)
    BY <1>6 DEF AcceptNewBlock, history
  <1>7. CASE UNCHANGED vars \/ Shutdown \/ Crash \/ Load \/ \E b \in Block : LoadSnapshotFails(b)
    BY <1>7 DEF vars, Shutdown, Crash, Load, LoadSnapshotFails, history
  <1> QED BY <1>1, <1>2, <1>3, <1>4, <1>5, <1>6, <1>7 DEF Next, Activate

\* A chain stays valid while base.dat stays,
LEMMA AllValidStays ==
    ASSUME ~lied' => ~lied, NEW top, AllValid(top),
           baseDat' = baseDat \/ baseDat \notin Ancestors(top)
    PROVE  AllValid(top)'
  BY DEF AllValid, Above

\* and nothing is claimed of genesis, or of a chain adopted at its tip.
LEMMA NothingAboveValid ==
    ASSUME NEW top \in Block, top = Genesis \/ baseDat' = top
    PROVE  AllValid(top)'
  <1>1. \A b \in Ancestors(top) : Height(b) \in Nat /\ Height(b) <= Height(top)
    BY AncestorPlace
  <1>2. top \in Ancestors(top) /\ Height(Genesis) = 0
    BY OwnAncestor, GenesisFirst
  <1> QED BY <1>1, <1>2, GenesisAlone DEF AllValid, Above

\* The blocks of the active chain stay valid,
LEMMA NextTipValid ==
    ASSUME TInv, HInv, SInv, VInv, [Next]_vars, Moves
    PROVE  AllValid(Tip)'
  <1>0. /\ Tip \in Block /\ Saved \in Block /\ NoBlock \notin Block /\ Genesis \in Block
        /\ AllValid(Tip) /\ AllValid(Saved) /\ (~lied' => ~lied)
    BY SavedInBlock, ContentAssumption, GenesisAlone, LiedStays DEF VInv
  <1>a. ASSUME NEW top, Tip' = top, AllValid(top)' PROVE AllValid(Tip)'
    BY <1>a DEF AllValid
  <1>1. CASE Stay
    <2>1. PICK t : t = Tip
      OBVIOUS
    <2>2. AllValid(t)'
      BY <1>0, <1>1, <2>1, AllValidStays DEF Stay, Quiet
    <2> QED BY <1>1, <1>a, <2>1, <2>2 DEF Stay
  <1>2. CASE Back
    <2>1. PICK t \in Block : t = Prev[Tip]
      BY <1>2, AncestorStep DEF Back
    <2>2. /\ Ancestors(Tip) = Ancestors(t) \cup {Tip}
          /\ baseDat # Tip /\ baseDat' = baseDat /\ Tip' = t
      BY <1>0, <1>2, <2>1, AncestorStep DEF Back, Quiet, HInv, BaseRecorded
    <2>3. AllValid(t)
      BY <1>0, <2>2 DEF AllValid, Above
    <2> QED BY <1>0, <1>a, <2>2, <2>3, AllValidStays
  <1>3. CASE \E b \in Block : Forward(b)
    <2>1. PICK n \in Block : Forward(n)
      BY <1>3
    <2>2. /\ Ancestors(n) = Ancestors(Tip) \cup {n} /\ baseDat' = baseDat /\ Tip' = n
          /\ Prev[n] = Tip /\ ConnectBlock
      BY <2>1, AncestorStep, ForwardConnects DEF Forward
    <2>3. n = NextBlock
      BY <2>2, NextBlockIsChild, NewTip DEF ConnectBlock
    <2>4. ~lied => TxsApply(StateAt[Prev[n]], n)
      BY <2>2, <2>3 DEF SInv, StateMatchesTip, ConnectBlock, BlockValid
    <2>5. AllValid(n)
      BY <1>0, <2>2, <2>4 DEF AllValid, Above
    <2> QED BY <1>0, <1>a, <2>2, <2>5, AllValidStays
  <1>4. CASE \E b \in Block : Adopt(b)
    <2>1. PICK b \in Block : Adopt(b)
      BY <1>4
    <2>2. AllValid(b)'
      BY <2>1, NothingAboveValid DEF Adopt
    <2> QED BY <1>a, <2>1, <2>2 DEF Adopt
  <1>5. CASE Stop \/ \E b \in Block : StopAdopting(b)
    BY <1>0, <1>5, <1>a, NothingAboveValid DEF Stop, StopAdopting
  <1>6. CASE Resume
    <2>1. PICK t : t = Tip' /\ t \in {Saved, Genesis}
      BY <1>6, ResumeTip
    <2>2. AllValid(t)'
      BY <1>0, <1>6, <2>1, AllValidStays, NothingAboveValid DEF Resume, Quiet
    <2> QED BY <1>a, <2>1, <2>2
  <1> QED BY <1>1, <1>2, <1>3, <1>4, <1>5, <1>6 DEF Moves

\* and so do those of the saved chain.
LEMMA NextSavedValid ==
    ASSUME TInv, HInv, VInv, [Next]_vars, Moves
    PROVE  AllValid(Saved)'
  <1>0. Tip \in Block /\ Saved \in Block /\ AllValid(Tip) /\ AllValid(Saved) /\ (~lied' => ~lied)
    BY SavedInBlock, LiedStays DEF VInv
  <1>a. ASSUME NEW top, Saved' = top, AllValid(top)' PROVE AllValid(Saved)'
    BY <1>a DEF AllValid
  <1>1. ASSUME Saved' \in {Tip, Saved}, baseDat' = baseDat \/ baseDat \notin Ancestors(Saved')
        PROVE  AllValid(Saved)'
    <2>1. PICK t : t = Saved'
      OBVIOUS
    <2>2. AllValid(t)'
      BY <1>0, <1>1, <2>1, AllValidStays
    <2> QED BY <1>a, <2>1, <2>2
  <1>2. CASE Stay \/ Back \/ Stop \/ Resume \/ \E b \in Block : Forward(b)
    <2>1. baseDat' = baseDat
      BY <1>2 DEF Stay, Back, Stop, Resume, Forward, Quiet
    <2>2. Saved' = Saved \/ Saved' = Tip
      BY <1>2, SavedStays DEF Stay, Back, Stop, Resume, Forward
    <2> QED BY <1>1, <2>1, <2>2
  <1>3. CASE \E b \in Block : Adopt(b)
    <2>1. PICK b \in Block : Adopt(b)
      BY <1>3
    <2>2. CASE Saved' = b
      <3>1. AllValid(b)'
        BY <2>1, NothingAboveValid DEF Adopt
      <3> QED BY <1>a, <2>2, <3>1
    <2>3. CASE Saved' = Saved
      BY <1>1, <2>1, <2>3, FreshBase DEF Adopt
    <2> QED BY <2>1, <2>2, <2>3, SavedStays DEF Adopt
  <1>4. CASE \E b \in Block : StopAdopting(b)
    <2>1. Saved' = Saved /\ baseDat \notin Ancestors(Saved)
      BY <1>4, SavedStays, FreshBase DEF StopAdopting
    <2> QED BY <1>1, <2>1
  <1> QED BY <1>2, <1>3, <1>4 DEF Moves

\* VInv holds in every reachable state.
LEMMA VInvAlways ==
    ASSUME "load-write" \notin Faults
    PROVE  Spec => []VInv
  <1>1. Init => VInv
    <2> SUFFICES ASSUME Init PROVE VInv
      OBVIOUS
    <2>1. Tip = Genesis /\ Saved = Genesis /\ Genesis \in blocksDat
      BY DEF Init, Tip, Saved
    <2>2. AllValid(Genesis)
      BY GenesisFirst, GenesisAlone DEF AllValid, Above
    <2> QED BY <2>1, <2>2 DEF VInv, AllValid
  <1>2. TInv /\ HInv /\ SInv /\ VInv /\ [Next]_vars => VInv'
    BY NextMoves, NextGrows, NextTipValid, NextSavedValid DEF VInv, Grows
  <1>3. Spec => []SInv
    BY SInvAlways
  <1> QED BY <1>1, <1>2, <1>3, TInvAlways, HInvAlways, PTL DEF Spec

\* Steps that leave the chain and the index alone.
LEMMA QuietIndex ==
    ASSUME IndexSound, IndexComplete, chain' = chain, txindex' = txindex,
           baseDat' = baseDat, lied' = lied, pc # "down" \/ pc' = pc
    PROVE  IndexSound' /\ IndexComplete'
  <1>1. Tip' = Tip
    BY TipStays
  <1> QED BY <1>1 DEF IndexSound, IndexComplete

\* connect_block indexes transactions that no block below it holds.
LEMMA ConnectIndex ==
    ASSUME TInv, SInv, IndexSound, IndexComplete, ConnectBlock
    PROVE  IndexSound' /\ IndexComplete'
  <1>1. PICK n \in Block \ {Genesis} :
            n = NextBlock /\ Prev[n] = Tip /\ Tip' = n /\ TxsApply(state, n)
    BY NextBlockIsChild, NewTip DEF ConnectBlock, BlockValid
  <1>2. /\ txindex' = [t \in Tx |-> IF t \in Txs[n] THEN n ELSE txindex[t]]
        /\ baseDat' = baseDat /\ lied' = lied /\ pc # "down"
    BY <1>1 DEF ConnectBlock, Connecting
  <1>3. Ancestors(n) = Ancestors(Tip) \cup {n} /\ Txs[n] \subseteq Tx
    BY <1>1, AncestorStep, ContentAssumption
  <1>4. IndexSound'
    BY <1>1, <1>2, <1>3 DEF IndexSound
  <1>5. ASSUME ~lied, NEW b \in Ancestors(n),
               ~(baseDat \in Ancestors(n) /\ Height(baseDat) >= Height(b)), NEW t \in Txs[b]
        PROVE  txindex'[t] = b
    <2>1. b \in Block /\ t \in Tx
      BY <1>1, AncestorPlace, ContentAssumption
    <2>2. CASE b = n
      BY <1>2, <2>1, <2>2
    <2>3. CASE b \in Ancestors(Tip)
      <3>1. t \notin Txs[n]
        BY <1>1, <1>5, <2>3, FreshnessAssumption DEF SInv, StateMatchesTip
      <3>2. txindex[t] = b
        BY <1>2, <1>3, <1>5, <2>3 DEF IndexComplete
      <3> QED BY <1>2, <2>1, <3>1, <3>2
    <2> QED BY <1>3, <2>2, <2>3
  <1>6. IndexComplete'
    BY <1>1, <1>2, <1>5 DEF IndexComplete
  <1> QED BY <1>4, <1>6

\* disconnect_tip forgets exactly what the tip held.
LEMMA DisconnectIndex ==
    ASSUME TInv, HInv, IndexSound, IndexComplete, DisconnectTip
    PROVE  IndexSound' /\ IndexComplete'
  <1>1. PICK p \in Block : p = Prev[Tip] /\ Tip' = p /\ Tip \in Block \ {Genesis}
    BY DisconnectChain
  <1>2. /\ txindex' = TxIndexWithout(Tip) /\ baseDat' = baseDat /\ lied' = lied
        /\ pc # "down" /\ Tip \notin fromSnapshot
    BY DEF DisconnectTip, CanDisconnect, disk, history
  <1>3. Ancestors(Tip) = Ancestors(p) \cup {Tip} /\ Tip \notin Ancestors(p)
    BY <1>1, AncestorStep
  <1>4. baseDat # Tip
    BY <1>1, <1>2, ContentAssumption DEF HInv, BaseRecorded
  <1>5. IndexSound'
    BY <1>1, <1>2, <1>3 DEF IndexSound, TxIndexWithout
  <1>6. ASSUME ~lied, NEW b \in Ancestors(p),
               ~(baseDat \in Ancestors(p) /\ Height(baseDat) >= Height(b)), NEW t \in Txs[b]
        PROVE  txindex'[t] = b
    <2>1. b \in Block /\ t \in Tx
      BY <1>1, AncestorPlace, ContentAssumption
    <2>2. txindex[t] = b
      BY <1>2, <1>3, <1>4, <1>6 DEF IndexComplete
    <2>3. ~(baseDat \in Ancestors(Tip) /\ Height(baseDat) >= Height(Tip))
      <3>1. Tip \in Ancestors(Tip)
        BY <1>1, OwnAncestor
      <3> QED BY <1>1, <1>4, <3>1, AncestorPlace, AncestorUnique
    <2>4. t \notin Txs[Tip]
      BY <1>2, <1>3, <1>6, <2>2, <2>3 DEF IndexComplete
    <2> QED BY <1>2, <2>1, <2>2, <2>4 DEF TxIndexWithout
  <1>7. IndexComplete'
    BY <1>1, <1>2, <1>6 DEF IndexComplete
  <1> QED BY <1>5, <1>7

\* Two blocks of a chain do not hold the same transaction, unless both are
\* under the snapshot the node was bootstrapped from.
LEMMA TxOnce ==
    ASSUME NEW top \in Block, AllValid(top), ~lied,
           NEW b \in Ancestors(top), NEW c \in Ancestors(top), Height(c) > Height(b),
           ~(baseDat \in Ancestors(top) /\ Height(baseDat) >= Height(c))
    PROVE  Txs[b] \cap Txs[c] = {}
  <1>1. b \in Block /\ c \in Block /\ Height(b) \in Nat /\ Height(c) \in Nat
    BY AncestorPlace
  <1>2. c # Genesis /\ Above(c, Ancestors(top))
    BY <1>1, GenesisFirst, GenesisAlone DEF Above
  <1>3. TxsApply(StateAt[Prev[c]], c)
    BY <1>2 DEF AllValid
  <1>4. b \in Ancestors(Prev[c])
    <2>1. b \in Ancestors(c) /\ b # c
      BY <1>1, AncestorOrder
    <2> QED BY <1>1, <1>2, <2>1, AncestorStep
  <1> QED BY <1>1, <1>2, <1>3, <1>4, FreshnessAssumption

\* load rebuilds the index from the stored blocks of the saved chain.
LEMMA LoadIndex ==
    ASSUME TInv, HInv, VInv, Load
    PROVE  IndexSound' /\ IndexComplete'
  <1>1. PICK s \in Block : s = LoadedTip /\ s = Saved /\ Tip' = s
    BY LoadedType, NewTip, ResumeAtSaved DEF Load
  <1>2. /\ txindex' = LoadedTxIndex /\ baseDat' = baseDat /\ lied' = lied
        /\ AllValid(s) /\ AllBacked(s) /\ Genesis \in blocksDat
    BY <1>1 DEF Load, disk, history, VInv, HInv
  <1> DEFINE held(t) == IndexedBlocks(Path[LoadedTip], t)
  <1>3. \A t \in Tx : held(t) = {b \in Ancestors(s) : b \in blocksDat /\ t \in Txs[b]}
    BY <1>1 DEF IndexedBlocks, Ancestors
  <1>4. \A t \in Tx : txindex'[t] = IF held(t) = {} THEN NoBlock ELSE CHOOSE b \in held(t) : TRUE
    BY <1>2 DEF LoadedTxIndex
  <1> HIDE DEF held
  <1>5. \A t \in Tx : held(t) # {} => txindex'[t] \in held(t)
    BY <1>4
  <1>6. IndexSound'
    BY <1>1, <1>3, <1>4, <1>5 DEF IndexSound
  <1>7. ASSUME ~lied, NEW b \in Ancestors(s),
               ~(baseDat \in Ancestors(s) /\ Height(baseDat) >= Height(b)), NEW t \in Txs[b]
        PROVE  txindex'[t] = b
    <2>1. b \in Block /\ t \in Tx /\ Height(b) \in Nat
      BY AncestorPlace, ContentAssumption
    <2>2. b \in blocksDat
      <3>1. CASE Height(b) = 0
        BY <1>2, <2>1, <3>1, GenesisFirst
      <3>2. CASE Height(b) > 0
        BY <1>2, <1>7, <3>2 DEF AllBacked, Above, Backed
      <3> QED BY <2>1, <3>1, <3>2
    <2>3. b \in held(t)
      BY <1>3, <2>1, <2>2
    <2>4. ASSUME NEW c \in held(t) PROVE c = b
      <3>1. c \in Ancestors(s) /\ t \in Txs[c] /\ Height(c) \in Nat
        BY <1>3, <2>1, <2>4, AncestorPlace
      <3>2. CASE Height(c) > Height(b)
        <4>1. ~(baseDat \in Ancestors(s) /\ Height(baseDat) >= Height(c))
          BY <1>7, <2>1, <3>1, <3>2, AncestorPlace
        <4> QED BY <1>2, <1>7, <3>1, <3>2, <4>1, TxOnce
      <3>3. CASE Height(b) > Height(c)
        BY <1>2, <1>7, <3>1, <3>3, TxOnce
      <3>4. CASE Height(c) = Height(b)
        BY <3>1, <3>4, AncestorUnique
      <3> QED BY <2>1, <3>1, <3>2, <3>3, <3>4
    <2> QED BY <1>5, <2>1, <2>3, <2>4
  <1>8. IndexComplete'
    BY <1>1, <1>2, <1>7 DEF IndexComplete
  <1> QED BY <1>6, <1>8

\* A stop and a bootstrap leave the index empty.
LEMMA EmptyIndex ==
    ASSUME txindex' = [t \in Tx |-> NoBlock],
           pc' = "down" \/ \E b \in Block : Tip' = b /\ baseDat' = b
    PROVE  IndexSound' /\ IndexComplete'
  <1>1. IndexSound'
    BY DEF IndexSound
  <1>2. CASE pc' = "down"
    BY <1>1, <1>2 DEF IndexComplete
  <1>3. CASE \E b \in Block : Tip' = b /\ baseDat' = b
    <2>1. PICK b \in Block : Tip' = b /\ baseDat' = b
      BY <1>3
    <2>2. b \in Ancestors(b) /\ \A x \in Ancestors(b) : Height(b) >= Height(x)
      BY AncestorPlace, OwnAncestor
    <2> QED BY <1>1, <2>1, <2>2 DEF IndexComplete
  <1> QED BY <1>2, <1>3

\* Every step keeps the index right.
LEMMA NextIndex ==
    ASSUME "load-write" \notin Faults
    PROVE  TInv /\ HInv /\ SInv /\ VInv /\ IndexSound /\ IndexComplete /\ [Next]_vars
               => IndexSound' /\ IndexComplete'
  <1> SUFFICES ASSUME TInv, HInv, SInv, VInv, IndexSound, IndexComplete, [Next]_vars
               PROVE  IndexSound' /\ IndexComplete'
    OBVIOUS
  <1>1. CASE UNCHANGED vars
    BY <1>1, QuietIndex DEF vars, disk, ledger, history
  <1>2. CASE Activate
    <2>1. CASE SelectCandidate \/ SelectNone \/ AbortReorg \/ PathDone
      BY <2>1, QuietIndex DEF SelectCandidate, SelectNone, AbortReorg, PathDone,
         disk, ledger, history
    <2>2. CASE StallOnBlock \/ RejectBlock \/ NoFlushYet \/ FlushAfterConnect
      BY <2>2, QuietIndex DEF StallOnBlock, RejectBlock, MarkFailed, NoFlushYet, Connecting,
         FlushAfterConnect, disk, ledger, history
    <2> QED BY <1>2, <2>1, <2>2, DisconnectIndex, ConnectIndex DEF Activate
  <1>3. CASE \E b \in Block : AcceptHeader(b) \/ AcceptWitness(b)
    BY <1>3, QuietIndex DEF AcceptHeader, AcceptWitness, ledger, history
  <1>4. CASE \E b \in Block, w \in BOOLEAN : AcceptNewBlock(b, w)
    BY <1>4, QuietIndex DEF AcceptNewBlock, ledger, history
  <1>5. CASE \E b \in Block : LoadSnapshot(b)
    BY <1>5, NewTip, EmptyIndex DEF LoadSnapshot
  <1>6. CASE Shutdown \/ Crash \/ \E b \in Block : CrashStoring(b) \/ CrashLoading(b)
    BY <1>6, EmptyIndex DEF Shutdown, Crash, CrashStoring, CrashLoading, MemoryLost
  <1>7. CASE Load
    BY <1>7, LoadIndex
  <1>8. ~ \E b \in Block : LoadSnapshotFails(b)
    BY DEF LoadSnapshotFails
  <1> QED BY <1>1, <1>2, <1>3, <1>4, <1>5, <1>6, <1>7, <1>8 DEF Next

\* index_block_txs and load: find_tx_block answers with the active block that
\* holds the transaction and misses none above the bootstrap block, for
\* transactions in both branches of a fork too, through reorganisations,
\* crashes and the rebuild at start.
THEOREM IndexFollowsChain ==
    ASSUME "load-write" \notin Faults
    PROVE  Spec => []TxIndexMatchesChain
  <1>1. Init => IndexSound /\ IndexComplete
    <2> SUFFICES ASSUME Init PROVE IndexSound /\ IndexComplete
      OBVIOUS
    <2>1. Tip = Genesis /\ Ancestors(Genesis) = {Genesis} /\ Txs[Genesis] \subseteq Tx
      BY GenesisAlone, ContentAssumption DEF Init, Tip
    <2> QED BY <2>1 DEF Init, IndexSound, IndexComplete
  <1>2. TInv /\ HInv /\ SInv /\ VInv /\ IndexSound /\ IndexComplete /\ [Next]_vars
            => IndexSound' /\ IndexComplete'
    BY NextIndex
  <1>3. Spec => []SInv
    BY SInvAlways
  <1>4. Spec => []VInv
    BY VInvAlways
  <1>5. TInv /\ HInv /\ IndexSound /\ IndexComplete => TxIndexMatchesChain
    <2> SUFFICES ASSUME TInv, HInv, IndexSound, IndexComplete PROVE TxIndexMatchesChain
      OBVIOUS
    <2>1. /\ ActiveBlocks = Ancestors(Tip) /\ Tip \in Block
          /\ \A b \in Block : InActiveChain(b) <=> b \in Ancestors(Tip)
      BY ActiveIsChain
    <2>2. ASSUME NEW t \in Tx, txindex[t] # NoBlock
          PROVE  InActiveChain(txindex[t]) /\ t \in Txs[txindex[t]]
      BY <2>1, <2>2 DEF IndexSound, TInv, TypeOK
    <2>3. ASSUME pc # "down", baseDat \in Ancestors(Tip) PROVE baseDat \in fromSnapshot
      BY <2>1, <2>3, AncestorPlace, ContentAssumption DEF HInv, BaseRecorded
    <2>4. ASSUME pc # "down", ~lied, NEW b \in ActiveBlocks
          PROVE  \/ \A t \in Txs[b] : txindex[t] = b
                 \/ \E x \in ActiveBlocks : Height(x) >= Height(b) /\ x \in fromSnapshot
      BY <2>1, <2>3, <2>4 DEF IndexComplete
    <2> QED BY <2>2, <2>4 DEF TxIndexMatchesChain
  <1> QED BY <1>1, <1>2, <1>3, <1>4, <1>5, TInvAlways, HInvAlways, PTL DEF Spec

---------------------------------------------------------------------------
(* The heaviest chain.  A candidate that is dropped below the tip is never  *)
(* looked at again, so it must stay covered by a heavier block that was on   *)
(* the chain and is a candidate still, or has failed.                        *)

\* chain_data spreads from genesis and bootstrap blocks over stored blocks.
FlagsInv ==
    /\ chainData \subseteq Known /\ candidates \subseteq chainData \ failed
    /\ \A b \in chainData \ ({Genesis} \cup fromSnapshot) : Prev[b] \in chainData
    /\ \A b \in blocksDat \ {Genesis} : Prev[b] \in chainData => b \in chainData
    /\ Genesis \in blocksDat
    /\ pc # "down" => {Genesis, Tip} \cup fromSnapshot \subseteq chainData

\* Descendants of failed blocks are failed, and the node is on none of them.
FailedInv ==
    /\ failed \subseteq Known /\ bestHeader \notin failed
    /\ \A x \in Known : x \in failed \/ Ancestors(x) \cap failed = {}
    /\ Ancestors(Tip) \cap failed = {}
    /\ pc \in {"switch", "flush"} => cand \in Known \ failed

Visited(t) == t \in Ancestors(Tip) \/ undoFiles[t] # NoFile
Covers(t, b) == t \in candidates \cup failed /\ Visited(t) /\ ChainWork[t] > ChainWork[b]
Covered == \A b \in chainData \ (candidates \cup failed) : \E t \in Block : Covers(t, b)

\* An activation that ended normally left no heavier candidate.
Exhausted ==
    pc = "idle" /\ outcome = "done" =>
        \A c \in candidates : ~(ChainWork[c] > ChainWork[Tip])

WInv == FlagsInv /\ FailedInv /\ Covered /\ Exhausted

\* The blocks and numbers all this is about.
LEMMA WTypes ==
    ASSUME TInv, HInv, FlagsInv, FailedInv
    PROVE  /\ Known \subseteq Block /\ blocksDat \subseteq Known /\ chainData \subseteq Block
           /\ candidates \subseteq Block /\ failed \subseteq Block /\ Tip \in Block
           /\ bestHeader \in Known /\ Genesis \in Known
           /\ \A b \in Block : ChainWork[b] \in Nat /\ Ancestors(b) \subseteq Block
           /\ \A b \in Known : Ancestors(b) \subseteq Known
  BY TipInBlock, AncestorPlace, TreeAssumption DEF TInv, HInv, HeadersClosed, FlagsInv, FailedInv

\* What a step leaves alone.
LEMMA CoveredStays ==
    ASSUME TInv, HInv, FlagsInv, FailedInv, Covered,
           chainData' \ (candidates' \cup failed') \subseteq chainData \ (candidates \cup failed),
           candidates \cup failed \subseteq candidates' \cup failed',
           \A t \in Block : Visited(t) => Visited(t)'
    PROVE  Covered'
  <1> SUFFICES ASSUME NEW b \in chainData' \ (candidates' \cup failed')
               PROVE  \E t \in Block : Covers(t, b)'
    BY DEF Covered
  <1>1. PICK t \in Block : Covers(t, b)
    BY DEF Covered
  <1> QED BY <1>1 DEF Covers

\* Blocks that gain chain_data, reached from some roots, close the set again.
Spread(root, data) == {x \in data : \E c \in root :
                          /\ c \in Ancestors(x)
                          /\ \A y \in Ancestors(x) : c \in Ancestors(y) => y \in data \ chainData}

LEMMA NewDataClosed ==
    ASSUME NEW data \in SUBSET Block, NEW root \in SUBSET Block, Genesis \notin root,
           NEW base \in SUBSET Block, \A c \in root : Prev[c] \in chainData \cup base
    PROVE  /\ \A x \in Spread(root, data) : Prev[x] \in chainData \cup Spread(root, data) \cup base
           /\ \A z \in data \ {Genesis} :
                  Prev[z] \in Spread(root, data) => z \in chainData \cup Spread(root, data)
  <1> DEFINE new == Spread(root, data)
  <1> USE DEF Spread
  <1>1. ASSUME NEW x \in new PROVE Prev[x] \in chainData \cup new \cup base
    <2>1. PICK c \in root : /\ c \in Ancestors(x)
                            /\ \A y \in Ancestors(x) : c \in Ancestors(y) => y \in data \ chainData
      OBVIOUS
    <2>2. x \in Block /\ c \in Block
      OBVIOUS
    <2>3. x # Genesis
      BY <2>1, <2>2, GenesisAlone
    <2>4. CASE x = c
      BY <2>4
    <2>5. CASE x # c
      <3>1. /\ Ancestors(x) = Ancestors(Prev[x]) \cup {x} /\ Prev[x] \in Block
        BY <2>2, <2>3, AncestorStep
      <3>2. c \in Ancestors(Prev[x]) /\ Prev[x] \in Ancestors(x)
        BY <2>1, <2>5, <3>1, OwnAncestor
      <3>3. Prev[x] \in data
        BY <2>1, <3>2
      <3> QED BY <2>1, <3>1, <3>2, <3>3
    <2> QED BY <2>4, <2>5
  <1>2. ASSUME NEW z \in data \ {Genesis}, Prev[z] \in new, z \notin chainData PROVE z \in new
    <2>1. PICK c \in root : /\ c \in Ancestors(Prev[z])
              /\ \A y \in Ancestors(Prev[z]) : c \in Ancestors(y) => y \in data \ chainData
      BY <1>2
    <2>2. Ancestors(z) = Ancestors(Prev[z]) \cup {z}
      BY AncestorStep
    <2> QED BY <1>2, <2>1, <2>2
  <1> QED BY <1>1, <1>2

\* Memory is lost: there are no flags.
LEMMA LostWInv ==
    ASSUME TInv, HInv, WInv, MemoryLost, Known \subseteq Known', blocksDat \subseteq blocksDat'
    PROVE  WInv'
  <1>1. /\ pc' = "down" /\ failed' = {} /\ chainData' = {} /\ candidates' = {}
        /\ bestHeader' = Genesis
    BY DEF MemoryLost
  <1>2. FlagsInv'
    BY <1>1 DEF WInv, FlagsInv
  <1>3. FailedInv'
    BY <1>1 DEF FailedInv
  <1>4. Covered' /\ Exhausted'
    BY <1>1 DEF Covered, Exhausted
  <1> QED BY <1>2, <1>3, <1>4 DEF WInv

\* Steps that leave tree, flags and tip alone.
LEMMA QuietWInv ==
    ASSUME TInv, HInv, WInv, UNCHANGED <<headersDat, blocksDat, undoFiles, flags, chain>>,
           bestHeader' = bestHeader, pc # "down", pc' # "down",
           pc' \in {"switch", "flush"} => cand' \in Known \ failed,
           pc' = "idle" /\ outcome' = "done" => pc = "idle" /\ outcome = "done"
    PROVE  WInv'
  <1>1. Known' = Known /\ Tip' = Tip
    BY TipStays DEF Known
  <1>2. /\ failed' = failed /\ chainData' = chainData /\ candidates' = candidates
        /\ fromSnapshot' = fromSnapshot /\ blocksDat' = blocksDat /\ undoFiles' = undoFiles
    BY DEF flags
  <1>3. FlagsInv' /\ FailedInv'
    BY <1>1, <1>2 DEF WInv, FlagsInv, FailedInv
  <1>4. Covered'
    BY <1>1, <1>2 DEF WInv, Covered, Covers, Visited
  <1>5. Exhausted'
    BY <1>1, <1>2 DEF WInv, Exhausted
  <1> QED BY <1>3, <1>4, <1>5 DEF WInv

\* Work is compared along a number of steps.
LEMMA WorkOrder ==
    ASSUME NEW a \in Block, NEW b \in Block, NEW c \in Block
    PROVE  /\ ChainWork[a] \in Nat
           /\ ChainWork[a] > ChainWork[b] /\ ChainWork[b] > ChainWork[c] => ChainWork[a] > ChainWork[c]
           /\ ChainWork[a] > ChainWork[b] /\ ~(ChainWork[c] > ChainWork[b]) => ChainWork[a] > ChainWork[c]
           /\ ~(ChainWork[a] >= ChainWork[b]) <=> ChainWork[b] > ChainWork[a]
           /\ ChainWork[a] > ChainWork[b] => ChainWork[a] >= ChainWork[b]
           /\ ~(ChainWork[a] > ChainWork[a])
  BY TreeAssumption

\* The tip, or what covers it, covers the candidates dropped below it.
LEMMA FinishCovered ==
    ASSUME TInv, HInv, WInv, pc # "down", candidates' = CandidatesKept,
           UNCHANGED <<chainData, failed, undoFiles, chain>>
    PROVE  Covered'
  <1>1. /\ Tip' = Tip /\ Tip \in Block /\ Tip \in chainData \ failed
        /\ chainData \subseteq Block /\ candidates \subseteq Block /\ failed \subseteq Block
    BY TipStays, WTypes, OwnAncestor DEF WInv, FlagsInv, FailedInv
  <1>2. \A t \in Block : Visited(t)' <=> Visited(t)
    BY <1>1 DEF Visited
  <1>3. PICK top \in Block : /\ top \in candidates' \cup failed /\ Visited(top)
                             /\ top = Tip \/ ChainWork[top] > ChainWork[Tip]
    <2>1. CASE Tip \in candidates
      <3>1. Tip \in candidates' /\ Visited(Tip)
        BY <1>1, <2>1, OwnAncestor, WorkOrder, TreeAssumption DEF CandidatesKept, Visited
      <3> QED BY <1>1, <3>1
    <2>2. CASE Tip \notin candidates
      <3>1. PICK t \in Block : Covers(t, Tip)
        BY <1>1, <2>2 DEF WInv, Covered
      <3>2. t \in candidates => t \in candidates'
        BY <1>1, <3>1, WorkOrder DEF Covers, CandidatesKept
      <3> QED BY <3>1, <3>2 DEF Covers
    <2> QED BY <2>1, <2>2
  <1>4. ASSUME NEW b \in chainData \ (candidates' \cup failed)
        PROVE  \E t \in Block : t \in candidates' \cup failed /\ Visited(t) /\ ChainWork[t] > ChainWork[b]
    <2>1. b \in Block
      BY <1>1
    <2>2. CASE b \in candidates
      <3>1. ChainWork[Tip] > ChainWork[b]
        BY <1>1, <1>4, <2>1, <2>2, WorkOrder DEF CandidatesKept
      <3> QED BY <1>1, <1>3, <2>1, <3>1, WorkOrder
    <2>3. CASE b \notin candidates
      <3>1. PICK t \in Block : Covers(t, b)
        BY <1>4, <2>3 DEF WInv, Covered
      <3>2. CASE t \in candidates' \cup failed
        BY <3>1, <3>2 DEF Covers
      <3>3. CASE t \notin candidates' \cup failed
        <4>1. ChainWork[Tip] > ChainWork[t]
          BY <1>1, <3>1, <3>3, WorkOrder DEF Covers, CandidatesKept
        <4>2. ChainWork[top] > ChainWork[b]
          BY <1>1, <1>3, <2>1, <3>1, <4>1, WorkOrder DEF Covers
        <4> QED BY <1>3, <4>2
      <3> QED BY <3>2, <3>3
    <2> QED BY <2>2, <2>3
  <1> QED BY <1>2, <1>4 DEF Covered, Covers

\* Of the candidates the best_candidate loop finds the heaviest, and of these
\* the one that arrived first.
LEMMA BestFound ==
    ASSUME TInv, HInv, NEW S \in SUBSET Known, S # {}
    PROVE  \E c \in S : \A x \in S : x # c => Outranks(c, x)
  <1> DEFINE n == Len(headersDat)
             Best(k, c) == /\ c \in 1..k /\ headersDat[c] \in S
                           /\ \A j \in 1..k : headersDat[j] \in S /\ headersDat[j] # headersDat[c]
                                  => Outranks(headersDat[c], headersDat[j])
             Empty(k) == \A j \in 1..k : headersDat[j] \notin S
             T == {k \in 0..n : Empty(k) \/ \E c \in 1..k : Best(k, c)}
  <1>1. headersDat \in Seq(Block) /\ n \in Nat
    BY DEF TInv, TypeOK
  <1>2. 0 \in T
    BY <1>1
  <1>3. ASSUME NEW k \in 0..n, k \in T, k < n PROVE k + 1 \in T
    <2> DEFINE h == headersDat[k + 1]
    <2>1. k + 1 \in 1..n /\ k \in Nat /\ 1..k + 1 = 1..k \cup {k + 1}
      BY <1>1, <1>3
    <2>2. h \in Block /\ \A j \in 1..k : headersDat[j] \in Block /\ j \in 1..n /\ j < k + 1
      BY <1>1, <2>1
    <2> HIDE DEF h, n
    <2>3. CASE h \notin S
      <3>1. CASE Empty(k)
        BY <2>1, <2>3, <3>1 DEF h
      <3>2. ASSUME NEW c \in 1..k, Best(k, c) PROVE k + 1 \in T
        <4>1. Best(k + 1, c)
          BY <2>1, <2>3, <3>2 DEF h
        <4> QED BY <2>1, <4>1
      <3> QED BY <1>3, <3>1, <3>2
    <2>4. CASE h \in S
      <3>1. CASE Empty(k)
        <4>1. Best(k + 1, k + 1)
          BY <2>1, <2>4, <3>1 DEF h
        <4> QED BY <2>1, <4>1
      <3>2. ASSUME NEW c \in 1..k, Best(k, c) PROVE k + 1 \in T
        <4> DEFINE d == headersDat[c]
        <4>1. d \in Block /\ d \in S /\ c \in 1..n /\ c < k + 1
          BY <2>2, <3>2
        <4>2. CASE ChainWork[h] > ChainWork[d]
          <5>1. ASSUME NEW j \in 1..k + 1, headersDat[j] \in S, headersDat[j] # h
                PROVE  Outranks(h, headersDat[j])
            <6>1. j \in 1..k
              BY <2>1, <5>1 DEF h
            <6>2. headersDat[j] = d \/ Outranks(d, headersDat[j])
              BY <3>2, <5>1, <6>1
            <6>3. headersDat[j] \in Block
              BY <2>2, <6>1
            <6> HIDE DEF d
            <6>4. headersDat[j] = d \/ ChainWork[d] > ChainWork[headersDat[j]]
                    \/ ChainWork[d] = ChainWork[headersDat[j]]
              BY <6>2 DEF Outranks
            <6> QED BY <4>1, <4>2, <6>3, <6>4, <2>2, WorkOrder DEF Outranks
          <5>2. Best(k + 1, k + 1)
            BY <2>1, <2>4, <5>1 DEF h
          <5> QED BY <2>1, <5>2
        <4>3. CASE ~(ChainWork[h] > ChainWork[d])
          <5>1. h = d \/ Outranks(d, h)
            <6>1. ChainWork[h] \in Nat /\ ChainWork[d] \in Nat
              BY <2>2, <4>1, WorkOrder
            <6>2. ArrivedBefore(d, h)
              <7>1. c \in 1..Len(headersDat) /\ k + 1 \in 1..Len(headersDat)
                BY <2>1, <4>1 DEF n
              <7> QED BY <4>1, <7>1 DEF ArrivedBefore, h
            <6> QED BY <4>3, <6>1, <6>2 DEF Outranks
          <5>2. Best(k + 1, c)
            BY <2>1, <3>2, <4>1, <5>1 DEF h
          <5> QED BY <2>1, <5>2
        <4> QED BY <4>2, <4>3
      <3> QED BY <1>3, <3>1, <3>2
    <2> QED BY <2>3, <2>4
  <1> HIDE DEF Best, Empty
  <1>4. T \in SUBSET Nat /\ \A k \in 0..n : k \in T /\ k < n => k + 1 \in T
    BY <1>1, <1>3
  <1>5. n \in T
    <2> HIDE DEF T, n
    <2>1. \A k \in 0..n : k \in T
      BY <1>1, <1>2, <1>4, Upward
    <2> QED BY <1>1, <2>1
  <1>6. ~Empty(n)
    <2>1. PICK x \in S : TRUE
      OBVIOUS
    <2> QED BY <2>1 DEF Known, Empty
  <1>7. PICK c \in 1..n : Best(n, c)
    BY <1>5, <1>6
  <1>8. headersDat[c] \in S /\ \A x \in S : x # headersDat[c] => Outranks(headersDat[c], x)
    BY <1>7 DEF Best, Known
  <1> QED BY <1>8

\* When no candidate is selected, none is heavier than the tip.
LEMMA NoneHeavier ==
    ASSUME TInv, HInv, WInv, BestCandidates = {}
    PROVE  \A c \in candidates : ~(ChainWork[c] > ChainWork[Tip])
  <1> SUFFICES ASSUME NEW c \in candidates, ChainWork[c] > ChainWork[Tip] PROVE FALSE
    OBVIOUS
  <1>1. /\ candidates \ failed = candidates /\ candidates \in SUBSET Known
        /\ Known \subseteq Block /\ Tip \in Block
    BY WTypes DEF WInv, FlagsInv
  <1>2. PICK best \in candidates : \A x \in candidates : x # best => Outranks(best, x)
    BY <1>1, BestFound
  <1>3. best \in Block /\ c \in Block
    BY <1>1
  <1>4. ChainWork[best] > ChainWork[Tip]
    <2>1. best = c \/ ChainWork[best] > ChainWork[c] \/ ChainWork[best] = ChainWork[c]
      BY <1>2 DEF Outranks
    <2> QED BY <1>1, <1>3, <2>1, WorkOrder
  <1>5. best \in BestCandidates
    BY <1>1, <1>2, <1>4 DEF BestCandidates
  <1> QED BY <1>5

\* The end of an activation.
LEMMA FinishWInv ==
    ASSUME TInv, HInv, WInv, pc # "down", NEW how, Finish(how), how = "done" => BestCandidates = {},
           UNCHANGED <<disk, failed, chainData, fromSnapshot, chain, bestHeader>>
    PROVE  WInv'
  <1>1. /\ Known' = Known /\ Tip' = Tip /\ blocksDat' = blocksDat /\ undoFiles' = undoFiles
        /\ candidates' = CandidatesKept /\ outcome' = how /\ pc' = "idle"
    BY TipStays DEF Known, disk, Finish
  <1>2. candidates' \subseteq candidates
    BY <1>1 DEF CandidatesKept
  <1>3. FlagsInv' /\ FailedInv'
    BY <1>1, <1>2 DEF WInv, FlagsInv, FailedInv
  <1>4. Covered'
    BY <1>1, FinishCovered
  <1>5. Exhausted'
    BY <1>1, <1>2, NoneHeavier DEF Exhausted
  <1> QED BY <1>3, <1>4, <1>5 DEF WInv

\* disconnect_tip
LEMMA DisconnectWInv ==
    ASSUME TInv, HInv, WInv, DisconnectTip
    PROVE  WInv'
  <1>1. /\ Tip \in Block \ {Genesis} /\ Tip' = Prev[Tip] /\ pc = "switch" /\ pc' = "switch"
        /\ Tip \notin fromSnapshot /\ undoFiles[Tip] # NoFile
        /\ UNCHANGED <<disk, failed, chainData, candidates, fromSnapshot, bestHeader, cand>>
    BY DisconnectChain DEF DisconnectTip, CanDisconnect, flags
  <1>2. /\ Known' = Known /\ blocksDat' = blocksDat /\ undoFiles' = undoFiles
    BY <1>1 DEF Known, disk
  <1>3. Ancestors(Tip) = Ancestors(Tip') \cup {Tip}
    BY <1>1, AncestorStep
  <1>4. FlagsInv'
    BY <1>1, <1>2 DEF WInv, FlagsInv
  <1>5. FailedInv'
    BY <1>1, <1>2, <1>3 DEF WInv, FailedInv
  <1>6. Covered'
    <2>1. \A t \in Block : Visited(t) => Visited(t)'
      BY <1>1, <1>2, <1>3 DEF Visited
    <2> QED BY <1>1, <2>1, CoveredStays DEF WInv
  <1>7. Exhausted'
    BY <1>1 DEF Exhausted
  <1> QED BY <1>4, <1>5, <1>6, <1>7 DEF WInv

\* connect_block
LEMMA ConnectWInv ==
    ASSUME TInv, HInv, WInv, ConnectBlock
    PROVE  WInv'
  <1> DEFINE n == NextBlock
  <1>1. /\ n \in Block \ {Genesis} /\ Prev[n] = Tip /\ Append(chain, n) = Path[n]
        /\ chain' = Append(chain, n) /\ pc = "switch" /\ pc' = "flush" /\ n \in blocksDat
        /\ Connecting
        /\ UNCHANGED <<headersDat, blocksDat, flags, bestHeader, cand>>
        /\ undoFiles' = [x \in Block |-> IF x \in PrunedBlocks(Append(chain, n)) THEN NoFile
                                         ELSE IF x = n THEN UndoOf(state, n)
                                         ELSE undoFiles[x]]
    BY NextBlockIsChild DEF ConnectBlock, Connecting, Unready
  <1>2. UndoOf(state, n) # NoFile
    BY <1>1, UndoType, ContentAssumption DEF TInv, TypeOK
  <1> HIDE DEF n
  <1>3. Tip' = n /\ Ancestors(n) = Ancestors(Tip) \cup {n} /\ Known' = Known
    BY <1>1, NewTip, AncestorStep DEF Known
  <1>4. FlagsInv'
    <2>1. n \in chainData
      BY <1>1 DEF WInv, FlagsInv
    <2> QED BY <1>1, <1>3, <2>1 DEF WInv, FlagsInv, flags
  <1>5. n \notin failed
    <2>1. n \in Ancestors(cand) /\ cand \in Known \ failed
      <3>1. cand \in Block /\ Tip \in Ancestors(cand) /\ Tip # cand
        BY <1>1 DEF Connecting, TInv, TypeOK
      <3>2. Height(Tip) + 1 <= Height(cand) /\ Height(Tip) \in Nat /\ Height(cand) \in Nat
        BY <3>1, AncestorPlace, AncestorUnique, OwnAncestor
      <3>3. n \in Ancestors(cand)
        BY <3>1, <3>2, AncestorExists DEF n, NextBlock
      <3> QED BY <1>1, <3>3 DEF WInv, FailedInv
    <2> QED BY <2>1 DEF WInv, FailedInv
  <1>6. FailedInv'
    BY <1>1, <1>3, <1>5 DEF WInv, FailedInv, flags
  <1>7. Covered'
    <2>1. ASSUME NEW t \in Block, Visited(t) PROVE Visited(t)'
      <3>1. CASE t \in Ancestors(Tip)
        BY <1>3, <3>1 DEF Visited
      <3>2. CASE t \notin Ancestors(Tip)
        <4>1. undoFiles[t] # NoFile
          BY <2>1, <3>2 DEF Visited
        <4>2. CASE t \in PrunedBlocks(Append(chain, n))
          <5>1. t \in Ancestors(n)
            <6>1. Path[n] \in Seq(Block) /\ Len(Path[n]) \in Nat \ {0} /\ PRUNE_DEPTH \in Nat \ {0}
              BY <1>1, PathLast, ParameterAssumption
            <6>2. /\ t = Path[n][Len(Path[n]) - 1 - PRUNE_DEPTH + 1]
                  /\ Len(Path[n]) - 1 - PRUNE_DEPTH > 0
              BY <1>1, <4>2 DEF PrunedBlocks
            <6> QED BY <6>1, <6>2 DEF Ancestors
          <5> QED BY <1>3, <5>1 DEF Visited
        <4>3. CASE t \notin PrunedBlocks(Append(chain, n))
          <5>1. undoFiles'[t] = undoFiles[t] \/ undoFiles'[t] = UndoOf(state, n)
            BY <1>1, <4>3
          <5> QED BY <1>2, <4>1, <5>1 DEF Visited
        <4> QED BY <4>2, <4>3
      <3> QED BY <3>1, <3>2
    <2> QED BY <1>1, <2>1, CoveredStays DEF WInv, flags
  <1>8. Exhausted'
    BY <1>1 DEF Exhausted
  <1> QED BY <1>4, <1>6, <1>7, <1>8 DEF WInv

\* mark_failed
LEMMA RejectWInv ==
    ASSUME TInv, HInv, WInv, RejectBlock
    PROVE  WInv'
  <1> DEFINE n == NextBlock
  <1>1. /\ n \in Block \ {Genesis} /\ Prev[n] = Tip /\ pc = "switch" /\ pc' = "select"
        /\ failed' = failed \cup FailedSubtree(n) /\ candidates' = candidates \ FailedSubtree(n)
        /\ bestHeader' \in BestAmong(Known \ failed')
        /\ UNCHANGED <<disk, chainData, fromSnapshot, ledger, cand>>
    BY NextBlockIsChild DEF RejectBlock, MarkFailed, Connecting
  <1> HIDE DEF n
  <1>2. /\ Known' = Known /\ Tip' = Tip /\ blocksDat' = blocksDat /\ undoFiles' = undoFiles
    BY <1>1, TipStays DEF Known, disk, ledger
  <1>3. /\ FailedSubtree(n) \subseteq Known /\ Known \subseteq Block /\ Tip \in Block
        /\ \A x \in Known : Ancestors(x) \subseteq Known
    BY WTypes DEF FailedSubtree, WInv
  <1>4. FlagsInv'
    BY <1>1, <1>2 DEF WInv, FlagsInv
  <1>5. FailedInv'
    <2>1. failed' \subseteq Known /\ bestHeader' \notin failed'
      BY <1>1, <1>3 DEF WInv, FailedInv, BestAmong
    <2>2. ASSUME NEW x \in Known, NEW a \in Ancestors(x), a \in failed' PROVE x \in failed'
      <3>1. CASE a \in failed
        BY <1>1, <2>2, <3>1 DEF WInv, FailedInv
      <3>2. CASE a \in FailedSubtree(n)
        <4>1. n \in Ancestors(a) /\ x \in Block
          BY <1>3, <3>2 DEF FailedSubtree
        <4>2. n \in Ancestors(x)
          BY <2>2, <4>1, AncestorTrans
        <4> QED BY <1>1, <4>2 DEF FailedSubtree
      <3> QED BY <1>1, <2>2, <3>1, <3>2
    <2>3. Ancestors(Tip) \cap FailedSubtree(n) = {}
      <3> SUFFICES ASSUME NEW x \in Ancestors(Tip), n \in Ancestors(x) PROVE FALSE
        BY DEF FailedSubtree
      <3>1. n \in Ancestors(Tip)
        BY <1>3, AncestorTrans
      <3> QED BY <1>1, <3>1, AncestorStep
    <2> QED BY <1>1, <1>2, <2>1, <2>2, <2>3 DEF WInv, FailedInv
  <1>6. Covered'
    <2>1. /\ chainData' \ (candidates' \cup failed') \subseteq chainData \ (candidates \cup failed)
          /\ candidates \cup failed \subseteq candidates' \cup failed'
      BY <1>1
    <2>2. \A t \in Block : Visited(t) => Visited(t)'
      BY <1>2 DEF Visited
    <2> QED BY <2>1, <2>2, CoveredStays DEF WInv
  <1>7. Exhausted'
    BY <1>1 DEF Exhausted
  <1> QED BY <1>4, <1>5, <1>6, <1>7 DEF WInv

\* A header that nothing follows joins no flags.
LEMMA HeaderTree ==
    ASSUME TInv, HInv, WInv, NEW b \in Block, HeaderAccepted(b),
           headersDat' = HeadersAfter(b), bestHeader' = BestHeaderAfter(b),
           chain' = chain, failed' = failed, pc' \notin {"switch", "flush"}
    PROVE  FailedInv' /\ Known' = Known \cup {b} /\ b \notin failed /\ Tip' = Tip
  <1>1. Known' = Known \cup {b} /\ Tip' = Tip
    BY HeadersAfterGrow, TipStays DEF TInv
  <1>2. b \notin failed /\ bestHeader' \in {b, bestHeader}
    BY DEF HeaderAccepted, HeaderIsNew, WInv, FailedInv, BestHeaderAfter
  <1>3. b \in Known \/ (b \notin Known /\ b # Genesis /\ Prev[b] \in Known \ failed)
    BY WTypes DEF HeaderAccepted, HeaderIsNew, WInv
  <1>4. b \in failed \/ Ancestors(b) \cap failed = {}
    <2>1. CASE b \in Known
      BY <2>1 DEF WInv, FailedInv
    <2>2. CASE b \notin Known
      <3>1. Ancestors(b) = Ancestors(Prev[b]) \cup {b}
        BY <1>3, <2>2, AncestorStep
      <3> QED BY <1>2, <1>3, <2>2, <3>1 DEF WInv, FailedInv
    <2> QED BY <2>1, <2>2
  <1> QED BY <1>1, <1>2, <1>4 DEF WInv, FailedInv

\* accept_header
LEMMA AcceptHeaderWInv ==
    ASSUME TInv, HInv, WInv, NEW b \in Block, AcceptHeader(b)
    PROVE  WInv'
  <1>1. /\ pc = "idle" /\ pc' = "idle" /\ headersDat' = HeadersAfter(b)
        /\ bestHeader' = BestHeaderAfter(b) /\ HeaderAccepted(b)
        /\ UNCHANGED <<blocksDat, undoFiles, failed, chainData, candidates, fromSnapshot,
                       chain, outcome>>
    BY DEF AcceptHeader, HeaderAccepted, flags, ledger
  <1>2. FailedInv' /\ Known' = Known \cup {b} /\ Tip' = Tip
    BY <1>1, HeaderTree
  <1>3. FlagsInv'
    BY <1>1, <1>2 DEF WInv, FlagsInv
  <1>4. Covered'
    BY <1>1, <1>2 DEF WInv, Covered, Covers, Visited
  <1>5. Exhausted'
    BY <1>1, <1>2 DEF WInv, Exhausted
  <1> QED BY <1>2, <1>3, <1>4, <1>5 DEF WInv

\* accept_block and update_chain_data
LEMMA AcceptBlockWInv ==
    ASSUME TInv, HInv, WInv, NEW b \in Block, NEW w \in BOOLEAN, AcceptNewBlock(b, w)
    PROVE  WInv'
  <1> DEFINE data == blocksDat \cup {b}
             new == NewChainData(b, data)
  <1>1. /\ pc = "idle" /\ pc' = "select" /\ headersDat' = HeadersAfter(b)
        /\ bestHeader' = BestHeaderAfter(b) /\ HeaderAccepted(b) /\ b \notin blocksDat
        /\ blocksDat' = data /\ chainData' = chainData \cup new
        /\ candidates' = candidates \cup (new \ failed)
        /\ UNCHANGED <<undoFiles, failed, fromSnapshot, chain>>
    BY DEF AcceptNewBlock, ledger
  <1>2. FailedInv' /\ Known' = Known \cup {b} /\ b \notin failed /\ Tip' = Tip
    BY <1>1, HeaderTree
  <1>3. b # Genesis /\ data \in SUBSET Block /\ data \subseteq Known'
    BY <1>1, <1>2, WTypes DEF WInv, FlagsInv
  <1>4. new \subseteq data
    BY DEF NewChainData
  <1>5. /\ \A x \in new : Prev[x] \in chainData \cup new
        /\ \A z \in data \ {Genesis} : Prev[z] \in new => z \in chainData \cup new
        /\ Prev[b] \in chainData => b \in chainData \cup new
    <2>1. CASE Prev[b] \notin chainData
      <3>1. new = {}
        BY <2>1 DEF NewChainData
      <3> QED BY <2>1, <3>1
    <2>2. CASE Prev[b] \in chainData
      <3> DEFINE root == {b}
                 base == {}
      <3>1. new = Spread(root, data)
        BY <2>2 DEF NewChainData, Spread
      <3>2. /\ root \in SUBSET Block /\ Genesis \notin root /\ base \in SUBSET Block
            /\ \A c \in root : Prev[c] \in chainData \cup base
        BY <1>3, <2>2
      <3> HIDE DEF root, base, new, data
      <3>3. /\ \A x \in new : Prev[x] \in chainData \cup new \cup base
            /\ \A z \in data \ {Genesis} : Prev[z] \in new => z \in chainData \cup new
        BY <1>3, <3>1, <3>2, NewDataClosed
      <3>4. b \in chainData \cup new
        <4>1. b \in Ancestors(b)
          BY OwnAncestor
        <4>2. \A y \in Ancestors(b) : b \in Ancestors(y) => y = b
          BY AncestorPlace, AncestorUnique, OwnAncestor
        <4>3. b \in data /\ b \in root
          BY DEF data, root
        <4> QED BY <3>1, <4>1, <4>2, <4>3 DEF Spread
      <3> QED BY <3>3, <3>4 DEF base
    <2> QED BY <2>1, <2>2
  <1> HIDE DEF new
  <1>6. FlagsInv'
    BY <1>1, <1>2, <1>3, <1>4, <1>5 DEF WInv, FlagsInv
  <1>7. Covered'
    <2>1. /\ chainData' \ (candidates' \cup failed') \subseteq chainData \ (candidates \cup failed)
          /\ candidates \cup failed \subseteq candidates' \cup failed'
      BY <1>1
    <2>2. \A t \in Block : Visited(t) => Visited(t)'
      BY <1>1, <1>2 DEF Visited
    <2> QED BY <2>1, <2>2, CoveredStays DEF WInv
  <1>8. Exhausted'
    BY <1>1 DEF Exhausted
  <1> QED BY <1>2, <1>6, <1>7, <1>8 DEF WInv

\* load_snapshot_bytes
LEMMA LoadSnapshotWInv ==
    ASSUME TInv, HInv, WInv, NEW b \in Block, LoadSnapshot(b)
    PROVE  WInv'
  <1> DEFINE new == {x \in blocksDat : \E c \in ChildrenOf(b) :
                        /\ c \in Ancestors(x)
                        /\ \A y \in Ancestors(x) :
                               c \in Ancestors(y) => y \in blocksDat \ chainData}
  <1>1. /\ FreshNode /\ Committed(b) /\ pc' = "select" /\ chain' = Path[b]
        /\ chainData' = chainData \cup {b} \cup new
        /\ candidates' = candidates \cup {b} \cup (new \ failed)
        /\ fromSnapshot' = fromSnapshot \cup {b}
        /\ UNCHANGED <<headersDat, blocksDat, undoFiles, failed, bestHeader>>
    BY DEF LoadSnapshot
  <1>2. /\ Tip = Genesis /\ pc # "down" /\ Tip' = b /\ Known' = Known /\ b \in Known
    BY <1>1, FreshAtGenesis, NewTip DEF Known, Committed
  <1>3. /\ Known \subseteq Block /\ blocksDat \subseteq Known /\ bestHeader \in Known \ failed
        /\ Genesis \in blocksDat
    BY WTypes DEF WInv, FlagsInv, FailedInv
  <1>4. /\ \A x \in new : Prev[x] \in chainData \cup new \cup {b}
        /\ \A z \in blocksDat \ {Genesis} : Prev[z] \in new => z \in chainData \cup new
    <2> DEFINE root == ChildrenOf(b)
    <2>1. /\ root \in SUBSET Block /\ Genesis \notin root
          /\ \A c \in root : Prev[c] \in chainData \cup {b}
      BY <1>3 DEF ChildrenOf
    <2>2. new \subseteq blocksDat /\ blocksDat \in SUBSET Block /\ {b} \in SUBSET Block
      BY <1>3
    <2>3. new = Spread(root, blocksDat)
      BY DEF Spread
    <2> HIDE DEF root, new
    <2> QED BY <2>1, <2>2, <2>3, NewDataClosed
  <1>5. \A z \in blocksDat \ {Genesis} : Prev[z] = b => z \in chainData \cup new
    <2> SUFFICES ASSUME NEW z \in blocksDat \ {Genesis}, Prev[z] = b, z \notin chainData
                 PROVE  z \in new
      OBVIOUS
    <2>1. z \in Block /\ z \in ChildrenOf(b)
      BY <1>3 DEF ChildrenOf
    <2>2. z \in Ancestors(z) /\ \A y \in Ancestors(z) : z \in Ancestors(y) => y = z
      BY <2>1, AncestorPlace, AncestorUnique, OwnAncestor
    <2> QED BY <2>1, <2>2
  <1>6. Ancestors(b) \cap failed = {}
    <2> DEFINE h == Height(b) + SNAPSHOT_DELAY
               c == CommitHeader(b)
    <2>1. h \in Nat /\ h <= Height(bestHeader)
      BY <1>1, OwnAncestor, ParameterAssumption DEF Committed
    <2>2. c \in Ancestors(bestHeader) /\ c \in Block
      BY <1>3, <2>1, AncestorExists DEF CommitHeader
    <2>3. b \in Ancestors(bestHeader)
      BY <1>1, <1>3, <2>2, AncestorTrans DEF Committed
    <2> QED BY <1>2, <1>3, <2>3 DEF WInv, FailedInv
  <1>7. new \subseteq blocksDat
    OBVIOUS
  <1> HIDE DEF new
  <1>8. FlagsInv'
    BY <1>1, <1>2, <1>3, <1>4, <1>5, <1>6, <1>7, OwnAncestor DEF WInv, FlagsInv
  <1>9. FailedInv'
    BY <1>1, <1>2, <1>6 DEF WInv, FailedInv
  <1>10. Covered'
    <2>1. /\ chainData' \ (candidates' \cup failed') \subseteq chainData \ (candidates \cup failed)
          /\ candidates \cup failed \subseteq candidates' \cup failed'
      BY <1>1
    <2>2. \A t \in Block : Visited(t) => Visited(t)'
      BY <1>1, <1>2, GenesisAlone, GenesisFirst DEF Visited
    <2> QED BY <2>1, <2>2, CoveredStays DEF WInv
  <1>11. Exhausted'
    BY <1>1 DEF Exhausted
  <1> QED BY <1>8, <1>9, <1>10, <1>11 DEF WInv

\* base.dat names a known header.
BaseKnown == baseDat \in Known \cup {NoBlock}

LEMMA NextBaseKnown ==
    ASSUME TInv, BaseKnown, Moves, Grows
    PROVE  BaseKnown'
  BY DEF BaseKnown, Moves, Stay, Back, Stop, Resume, Forward, Adopt, StopAdopting, Quiet, Grows

\* load: the flags are set anew.
LEMMA LoadWInv ==
    ASSUME TInv, HInv, WInv, BaseKnown, Load
    PROVE  WInv'
  <1> DEFINE L == LoadedChainData
  <1>1. /\ failed' = {} /\ chainData' = L /\ candidates' = L /\ pc' = "select"
        /\ fromSnapshot' = {baseDat} \ {NoBlock} /\ chain' = Path[LoadedTip]
        /\ bestHeader' \in Known /\ UNCHANGED <<headersDat, blocksDat, undoFiles>>
    BY DEF Load, disk, LoadedBestHeaders
  <1>2. /\ Known' = Known /\ Known \subseteq Block /\ blocksDat \subseteq Known
        /\ Genesis \in Known /\ Genesis \in blocksDat /\ baseDat \in Known \cup {NoBlock}
        /\ \A b \in Known : Ancestors(b) \subseteq Known
    BY <1>1, WTypes DEF Known, BaseKnown, WInv, FlagsInv
  <1>3. \A a \in Known : a = Genesis \/ a = baseDat => a \in L
    <2> SUFFICES ASSUME NEW a \in Known, a = Genesis \/ a = baseDat PROVE a \in L
      OBVIOUS
    <2>1. a \in Ancestors(a) /\ \A y \in Ancestors(a) : ~(Height(y) > Height(a))
      BY <1>2, OwnAncestor, AncestorPlace
    <2> QED BY <2>1 DEF LoadedChainData
  <1>4. LoadedTip \in L /\ Tip' = LoadedTip
    <2>1. LoadedTip \in L
      BY <1>2, <1>3 DEF LoadedTip, UtxoUsable
    <2>2. L \subseteq Block
      BY <1>2 DEF LoadedChainData
    <2> QED BY <1>1, <2>1, <2>2, NewTip
  <1>5. \A b \in L \ ({Genesis} \cup fromSnapshot') : Prev[b] \in L
    <2> SUFFICES ASSUME NEW b \in L, b # Genesis, b \notin fromSnapshot' PROVE Prev[b] \in L
      OBVIOUS
    <2>1. b \in Known /\ b \in Block /\ b # NoBlock
      BY <1>2, ContentAssumption DEF LoadedChainData
    <2>2. PICK a \in Ancestors(b) : /\ a = Genesis \/ a = baseDat
                                    /\ \A y \in Ancestors(b) : Height(y) > Height(a) => y \in blocksDat
      BY DEF LoadedChainData
    <2>3. b # baseDat
      BY <1>1, <2>1
    <2>4. /\ Prev[b] \in Block /\ Ancestors(b) = Ancestors(Prev[b]) \cup {b}
      BY <2>1, AncestorStep
    <2>5. Prev[b] \in Known
      BY <1>2, <2>1, <2>4, OwnAncestor
    <2> QED BY <2>2, <2>3, <2>4, <2>5 DEF LoadedChainData
  <1>6. \A b \in blocksDat \ {Genesis} : Prev[b] \in L => b \in L
    <2> SUFFICES ASSUME NEW b \in blocksDat \ {Genesis}, Prev[b] \in L PROVE b \in L
      OBVIOUS
    <2>1. PICK a \in Ancestors(Prev[b]) : /\ a = Genesis \/ a = baseDat
              /\ \A y \in Ancestors(Prev[b]) : Height(y) > Height(a) => y \in blocksDat
      BY DEF LoadedChainData
    <2>2. b \in Known /\ Ancestors(b) = Ancestors(Prev[b]) \cup {b}
      BY <1>2, AncestorStep
    <2> QED BY <2>1, <2>2 DEF LoadedChainData
  <1>7. L \subseteq Known
    BY DEF LoadedChainData
  <1> HIDE DEF L
  <1>8. FlagsInv'
    BY <1>1, <1>2, <1>3, <1>4, <1>5, <1>6, <1>7 DEF FlagsInv
  <1>9. FailedInv'
    BY <1>1 DEF FailedInv
  <1>10. Covered' /\ Exhausted'
    BY <1>1 DEF Covered, Exhausted
  <1> QED BY <1>8, <1>9, <1>10 DEF WInv

LEMMA InitWInv == Init => WInv /\ BaseKnown
  <1> SUFFICES ASSUME Init PROVE WInv /\ BaseKnown
    OBVIOUS
  <1>1. /\ Known = {Genesis} /\ Tip = Genesis /\ Ancestors(Genesis) = {Genesis} /\ Genesis \in Block
    BY GenesisAlone DEF Init, Known, Tip
  <1>2. FlagsInv
    BY <1>1 DEF Init, FlagsInv
  <1>3. FailedInv
    BY <1>1 DEF Init, FailedInv
  <1>4. Covered
    BY <1>1 DEF Init, Covered
  <1>5. Exhausted
    BY <1>1, WorkOrder DEF Init, Exhausted
  <1>6. BaseKnown
    BY DEF Init, BaseKnown
  <1> QED BY <1>2, <1>3, <1>4, <1>5, <1>6 DEF WInv

\* Every step keeps WInv.
LEMMA NextWInv == TInv /\ HInv /\ WInv /\ BaseKnown /\ [Next]_vars => WInv' /\ BaseKnown'
  <1> SUFFICES ASSUME TInv, HInv, WInv, BaseKnown, [Next]_vars PROVE WInv' /\ BaseKnown'
    OBVIOUS
  <1>g. Grows /\ BaseKnown'
    BY NextGrows, NextMoves, NextBaseKnown
  <1>1. CASE UNCHANGED vars
    <2>1. Known' = Known /\ Tip' = Tip
      BY <1>1, TipStays DEF vars, disk, ledger, Known
    <2> QED BY <1>1, <1>g, <2>1 DEF vars, disk, flags, ledger, WInv, FlagsInv, FailedInv,
                Covered, Covers, Visited, Exhausted
  <1>2. CASE Activate
    <2>1. CASE SelectCandidate
      <3>1. cand' \in Known \ failed
        BY <2>1, WTypes DEF SelectCandidate, BestCandidates, WInv, FlagsInv
      <3> QED BY <1>g, <2>1, <3>1, QuietWInv DEF SelectCandidate, disk, ledger
    <2>2. CASE PathDone
      BY <1>g, <2>2, QuietWInv DEF PathDone, disk, ledger
    <2>3. CASE NoFlushYet \/ FlushAfterConnect
      BY <1>g, <2>3, QuietWInv DEF NoFlushYet, FlushAfterConnect, disk, ledger, WInv, FailedInv
    <2>4. CASE SelectNone
      BY <1>g, <2>4, FinishWInv DEF SelectNone, ledger
    <2>5. CASE AbortReorg
      BY <1>g, <2>5, FinishWInv DEF AbortReorg, ledger
    <2>6. CASE StallOnBlock
      BY <1>g, <2>6, FinishWInv DEF StallOnBlock, Connecting, ledger
    <2>7. CASE DisconnectTip \/ ConnectBlock \/ RejectBlock
      BY <1>g, <2>7, DisconnectWInv, ConnectWInv, RejectWInv
    <2> QED BY <1>2, <2>1, <2>2, <2>3, <2>4, <2>5, <2>6, <2>7 DEF Activate
  <1>3. CASE \E b \in Block : AcceptHeader(b)
    BY <1>3, <1>g, AcceptHeaderWInv
  <1>4. CASE \E b \in Block, w \in BOOLEAN : AcceptNewBlock(b, w)
    BY <1>4, <1>g, AcceptBlockWInv
  <1>5. CASE \E b \in Block : AcceptWitness(b)
    BY <1>5, <1>g, QuietWInv DEF AcceptWitness, ledger
  <1>6. CASE \E b \in Block : LoadSnapshot(b)
    BY <1>6, <1>g, LoadSnapshotWInv
  <1>7. CASE \E b \in Block : LoadSnapshotFails(b)
    BY <1>7, <1>g, QuietWInv DEF LoadSnapshotFails, FreshNode
  <1>8. CASE Shutdown \/ Crash \/ \E b \in Block : CrashStoring(b) \/ CrashLoading(b)
    <2>1. MemoryLost
      BY <1>8 DEF Shutdown, Crash, CrashStoring, CrashLoading
    <2> QED BY <1>g, <2>1, LostWInv DEF Grows
  <1>9. CASE Load
    BY <1>9, <1>g, LoadWInv
  <1> QED BY <1>1, <1>2, <1>3, <1>4, <1>5, <1>6, <1>7, <1>8, <1>9 DEF Next

LEMMA WInvAlways == Spec => []WInv
  <1>1. Init => WInv /\ BaseKnown
    BY InitWInv
  <1>2. TInv /\ HInv /\ (WInv /\ BaseKnown) /\ [Next]_vars => (WInv /\ BaseKnown)'
    BY NextWInv
  <1> QED BY <1>1, <1>2, TInvAlways, HInvAlways, PTL DEF Spec

\* Every stored chain has chain_data up to its last block.
LEMMA StoredHaveData ==
    ASSUME TInv, HInv, WInv, pc # "down", NEW b \in StoredChains
    PROVE  b \in chainData
  <1>1. b \in Known /\ b \in Block /\ b \in Ancestors(b)
    BY WTypes, OwnAncestor DEF StoredChains, WInv
  <1>2. PICK a \in Ancestors(b) : /\ a \in {Genesis} \cup fromSnapshot
                                  /\ \A y \in Ancestors(b) : Height(y) > Height(a) => y \in blocksDat
    BY DEF StoredChains
  <1> DEFINE n == Height(b) - Height(a)
             at(k) == AncestorAt(b, Height(a) + k)
             T == {k \in 0..n : at(k) \in chainData}
  <1>3. a \in chainData /\ Height(a) \in Nat /\ Height(b) \in Nat /\ Height(a) <= Height(b)
    BY <1>1, <1>2, AncestorPlace DEF WInv, FlagsInv
  <1>4. \A k \in 0..n : /\ at(k) \in Ancestors(b) /\ at(k) \in Block
                        /\ Height(at(k)) = Height(a) + k
    BY <1>1, <1>3, AncestorExists
  <1>5. 0 \in T
    <2>1. at(0) = a
      BY <1>1, <1>2, <1>3, <1>4, AncestorUnique
    <2> QED BY <1>3, <2>1
  <1>6. ASSUME NEW k \in 0..n, k \in T, k < n PROVE k + 1 \in T
    <2>1. k + 1 \in 0..n
      BY <1>3, <1>6
    <2> DEFINE z == at(k + 1)
    <2>2. z \in Ancestors(b) /\ z \in Block /\ Height(z) = Height(a) + (k + 1)
      BY <1>4, <2>1
    <2>3. at(k) \in Ancestors(b) /\ at(k) \in Block /\ Height(at(k)) = Height(a) + k
      BY <1>4
    <2> HIDE DEF z
    <2>4. z \in blocksDat /\ z # Genesis
      <3>1. Height(z) > Height(a) /\ Height(z) > 0
        BY <1>3, <2>2
      <3> QED BY <1>2, <2>2, <3>1, GenesisFirst
    <2>5. Prev[z] = at(k)
      <3>1. /\ Prev[z] \in Block /\ Height(z) = Height(Prev[z]) + 1
            /\ Ancestors(z) = Ancestors(Prev[z]) \cup {z}
        BY <2>2, <2>4, AncestorStep
      <3>2. Prev[z] \in Ancestors(b)
        BY <1>1, <2>2, <3>1, OwnAncestor, AncestorTrans
      <3>3. Height(Prev[z]) = Height(at(k))
        <4>1. Height(Prev[z]) \in Nat
          BY <3>1, OwnAncestor
        <4> QED BY <1>3, <2>2, <2>3, <3>1, <4>1
      <3> QED BY <1>1, <2>3, <3>2, <3>3, AncestorUnique
    <2>6. z \in chainData
      BY <1>6, <2>4, <2>5 DEF WInv, FlagsInv
    <2> QED BY <2>1, <2>6 DEF z
  <1>7. n \in T
    <2>1. n \in Nat /\ T \in SUBSET Nat /\ \A k \in 0..n : k \in T /\ k < n => k + 1 \in T
      BY <1>3, <1>6
    <2> HIDE DEF T, n
    <2>2. \A k \in 0..n : k \in T
      BY <1>5, <2>1, Upward
    <2> QED BY <2>1, <2>2
  <1>8. at(n) = b
    <2>1. Height(a) + n = Height(b)
      BY <1>3
    <2> HIDE DEF n
    <2>2. AncestorAt(b, Height(b)) = b
      <3>1. /\ AncestorAt(b, Height(b)) \in Ancestors(b)
            /\ Height(AncestorAt(b, Height(b))) = Height(b)
        BY <1>1, <1>3, AncestorExists
      <3> QED BY <1>1, <3>1, AncestorUnique
    <2> QED BY <2>1, <2>2
  <1> QED BY <1>7, <1>8

\* best_candidate, mark_failed and "drop candidates that can no longer win":
\* for any tree and any order of headers, blocks, signatures, reorganisations,
\* bootstraps, crashes and restarts, what outweighs the tip after an activation
\* that ended normally is invalid, or was dropped below a tip that failed since.
THEOREM MostWorkFollowed ==
    ASSUME "load-write" \notin Faults, "undo-write" \notin Faults
    PROVE  Spec => []FollowsMostWork
  <1>1. TInv /\ HInv /\ WInv /\ OnlyInvalidFailed => FollowsMostWork
    <2> SUFFICES ASSUME TInv, HInv, WInv, OnlyInvalidFailed,
                        pc = "idle", outcome = "done", ~lied,
                        NEW b \in StoredChains, ChainWork[b] > ChainWork[Tip],
                        ~TrulyInvalid(b)
                 PROVE  LostToInvalid(b)
      BY DEF FollowsMostWork
    <2>1. b \in chainData /\ b \notin failed
      BY StoredHaveData DEF OnlyInvalidFailed
    <2>2. b \notin candidates
      BY DEF WInv, Exhausted
    <2>3. PICK t \in Block : Covers(t, b)
      BY <2>1, <2>2 DEF WInv, Covered
    <2>4. b \in Block /\ Tip \in Block /\ ChainWork[t] > ChainWork[b]
      BY <2>1, <2>3, WTypes DEF Covers, WInv
    <2>5. ChainWork[t] > ChainWork[Tip]
      BY <2>4, WorkOrder
    <2>6. t \in failed /\ t \notin Ancestors(Tip)
      BY <2>3, <2>5 DEF Covers, WInv, Exhausted, FailedInv
    <2>7. undoFiles[t] # NoFile
      BY <2>3, <2>6 DEF Covers, Visited
    <2> QED BY <2>2, <2>4, <2>6, <2>7 DEF LostToInvalid
  <1>2. Spec => []OnlyInvalidFailed
    BY FailedAreInvalid
  <1> QED BY <1>1, <1>2, TInvAlways, HInvAlways, WInvAlways, PTL

=============================================================================
