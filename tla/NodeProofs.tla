------------------------------ MODULE NodeProofs ------------------------------
(***************************************************************************)
(* What the node keeps, for every tree of blocks and every run.            *)
(*                                                                         *)
(* It implements ChainView: the refinement mapping is Shown and the set    *)
(* candidates, and what it needs of the reachable states is that the tip   *)
(* and utxo.dat always lie on a valid stored chain (ChainInv), that        *)
(* neither the tip nor a candidate is above a block marked as failed       *)
(* (CandInv), and that a load that no file failed ends on a tip that no    *)
(* candidate outweighs (LoadInv).                                          *)
(*                                                                         *)
(* Its listeners follow: the pool can be applied to the tip and takes back *)
(* what a reorganisation displaces, the wallet's coins and history are     *)
(* those of the chain, and the indexes have its points.  The folds the     *)
(* model is built from (a pool rebuilt, a wallet caught up, an index read  *)
(* back) are first reduced to what one more element does; each listener    *)
(* then has an invariant of its own, above the chainstate's (ChainInv).    *)
(***************************************************************************)
EXTENDS Node, Induction

(***************************************************************************)
(* The tree                                                                *)
(***************************************************************************)
\* A chain is a nonempty sequence of blocks, and a block other than Genesis is
\* one above its parent.
LEMMA ChainShape ==
    ASSUME NEW b \in Block
    PROVE  /\ Chain(b) \in Seq(Block) /\ Len(Chain(b)) \in Nat \ {0}
           /\ Parent[b] \in Block
           /\ b # Genesis => /\ Chain(b) = Append(Chain(Parent[b]), b)
                             /\ Len(Chain(b)) = Len(Chain(Parent[b])) + 1
           /\ Height(b) \in Nat
<1>1. Chain(b) \in Seq(Block) /\ Parent[b] \in Block /\ Chain(Parent[b]) \in Seq(Block)
  BY BlockTreeAssumption, PathAssumption DEF Chain
<1>2. CASE b = Genesis
  <2>1. Chain(b) = <<Genesis>>
    BY <1>2, PathAssumption DEF Chain
  <2> QED BY <1>1, <1>2, <2>1 DEF Height
<1>3. CASE b # Genesis
  <2>1. Chain(b) = Append(Chain(Parent[b]), b)
    BY <1>3, PathAssumption DEF Chain
  <2>2. Len(Chain(b)) = Len(Chain(Parent[b])) + 1 /\ Len(Chain(Parent[b])) \in Nat
    BY <1>1, <2>1
  <2> QED BY <1>1, <1>3, <2>1, <2>2 DEF Height
<1> QED BY <1>2, <1>3

\* A block is the last one of its chain, and so one of its ancestors.
LEMMA OwnAncestor ==
    ASSUME NEW b \in Block
    PROVE  b = Chain(b)[Len(Chain(b))] /\ b \in Ancestors(b)
<1>1. b = Chain(b)[Len(Chain(b))]
  <2>1. CASE b = Genesis
    BY <2>1, PathAssumption DEF Chain
  <2>2. CASE b # Genesis
    BY <2>2, ChainShape, Chain(Parent[b]) \in Seq(Block) 
  <2> QED BY <2>1, <2>2
<1>2. Len(Chain(b)) \in DOMAIN Chain(b)
  BY ChainShape
<1> QED BY <1>1, <1>2 DEF Ancestors, AncestorSets, Range

\* The ancestors of a block are the blocks of its chain.
LEMMA AncestorsAre ==
    ASSUME NEW b \in Block, NEW a
    PROVE  a \in Ancestors(b) <=> \E i \in 1..Len(Chain(b)) : a = Chain(b)[i]
BY ChainShape DEF Ancestors, AncestorSets, Range

\* An ancestor is a block, and its chain is the part up to it.
LEMMA AncestorPrefix ==
    ASSUME NEW b \in Block, NEW i \in 1..Len(Chain(b))
    PROVE  /\ Chain(b)[i] \in Block
           /\ Chain(Chain(b)[i]) = SubSeq(Chain(b), 1, i)
           /\ Len(Chain(Chain(b)[i])) = i
<1>1. i \in DOMAIN ChainTo[b] /\ Chain(b) \in Seq(Block) /\ Len(Chain(b)) \in Nat
  BY ChainShape DEF Chain
<1>2. Chain(Chain(b)[i]) = SubSeq(Chain(b), 1, i)
  BY <1>1, PathAssumption DEF Chain
<1>3. Chain(b)[i] \in Block /\ Len(SubSeq(Chain(b), 1, i)) = i
  BY <1>1
<1> QED BY <1>2, <1>3

\* Ancestry is transitive.
LEMMA AncestorsOfAncestor ==
    ASSUME NEW b \in Block, NEW a \in Ancestors(b)
    PROVE  a \in Block /\ Ancestors(a) \subseteq Ancestors(b)
<1>1. PICK i \in 1..Len(Chain(b)) : a = Chain(b)[i]
  BY AncestorsAre
<1>2. a \in Block /\ Chain(a) = SubSeq(Chain(b), 1, i) /\ Len(Chain(a)) = i
  BY <1>1, AncestorPrefix
<1>3. ASSUME NEW c \in Ancestors(a) PROVE c \in Ancestors(b)
  <2>1. PICK j \in 1..Len(Chain(a)) : c = Chain(a)[j]
    BY <1>2, AncestorsAre
  <2>2. Chain(b) \in Seq(Block) /\ Len(Chain(b)) \in Nat
    BY ChainShape
  <2>3. j \in 1..Len(Chain(b)) /\ c = Chain(b)[j]
    BY <1>2, <2>1, <2>2
  <2> QED BY <2>3, AncestorsAre
<1> QED BY <1>2, <1>3

\* Genesis is an ancestor of every block.
LEMMA GenesisAncestor ==
    ASSUME NEW b \in Block
    PROVE  Genesis \in Ancestors(b)
<1>1. 1 \in 1..Len(Chain(b))
  BY ChainShape
<1> DEFINE r == Chain(b)[1]
<1>2. r \in Block /\ Len(Chain(r)) = 1 /\ r \in Ancestors(b)
  BY <1>1, AncestorPrefix, AncestorsAre
<1> HIDE DEF r
<1>3. r = Genesis
  <2> SUFFICES ASSUME r # Genesis PROVE FALSE
    OBVIOUS
  <2>1. Parent[r] \in Block /\ Len(Chain(r)) = Len(Chain(Parent[r])) + 1
    BY <1>2, ChainShape
  <2>2. Len(Chain(Parent[r])) \in Nat \ {0}
    BY <2>1, ChainShape
  <2> QED BY <1>2, <2>1, <2>2
<1> QED BY <1>2, <1>3

\* The ancestors of a parent are ancestors of its child.
LEMMA ParentAncestors ==
    ASSUME NEW b \in Block, b # Genesis
    PROVE  /\ Ancestors(Parent[b]) \subseteq Ancestors(b)
           /\ Ancestors(b) = Ancestors(Parent[b]) \union {b}
           /\ Height(b) = Height(Parent[b]) + 1
<1>1. /\ Parent[b] \in Block /\ Chain(Parent[b]) \in Seq(Block)
      /\ Len(Chain(Parent[b])) \in Nat
      /\ Chain(b) = Append(Chain(Parent[b]), b)
      /\ Len(Chain(b)) = Len(Chain(Parent[b])) + 1
  BY ChainShape
<1>2. \A i \in 1..Len(Chain(Parent[b])) :
         i \in 1..Len(Chain(b)) /\ Chain(b)[i] = Chain(Parent[b])[i]
  BY <1>1
<1>3. Ancestors(Parent[b]) \subseteq Ancestors(b)
  BY <1>1, <1>2, AncestorsAre
<1>4. ASSUME NEW a \in Ancestors(b) PROVE a \in Ancestors(Parent[b]) \union {b}
  <2>1. PICK i \in 1..Len(Chain(b)) : a = Chain(b)[i]
    BY AncestorsAre
  <2>2. CASE i = Len(Chain(b))
    BY <2>1, <2>2, OwnAncestor
  <2>3. CASE i # Len(Chain(b))
    <3>1. i \in 1..Len(Chain(Parent[b]))
      BY <1>1, <2>3
    <3> QED BY <1>1, <1>2, <2>1, <3>1, AncestorsAre
  <2> QED BY <2>2, <2>3
<1> QED BY <1>1, <1>3, <1>4, OwnAncestor DEF Height

\* Below a candidate, the next block is the child of the tip on the way there.
LEMMA NextAbove ==
    ASSUME tip \in Block, cand \in Block, tip \in Ancestors(cand), tip # cand
    PROVE  /\ NextBlock \in Ancestors(cand) /\ NextBlock \in Block
           /\ Ancestors(NextBlock) = Ancestors(tip) \union {NextBlock}
           /\ Height(NextBlock) = Height(tip) + 1
           /\ Height(NextBlock) <= Height(cand)
           /\ Height(NextBlock) = Height(cand) => NextBlock = cand
           /\ NextBlock # Genesis /\ Parent[NextBlock] = tip
<1>1. PICK i \in 1..Len(Chain(cand)) : tip = Chain(cand)[i]
  BY AncestorsAre
<1>2. Len(Chain(tip)) = i
  BY <1>1, AncestorPrefix
<1>3. i # Len(Chain(cand))
  BY <1>1, OwnAncestor
<1>4. Len(Chain(cand)) \in Nat /\ Chain(cand) \in Seq(Block)
  BY ChainShape
<1>5. Height(tip) + 2 = i + 1 /\ i + 1 \in 1..Len(Chain(cand))
  BY <1>2, <1>3, <1>4 DEF Height
<1> DEFINE n == Chain(cand)[i + 1]
<1>6. NextBlock = n
  BY <1>5 DEF NextBlock
<1>7. /\ n \in Block /\ Chain(n) = SubSeq(Chain(cand), 1, i + 1)
      /\ Len(Chain(n)) = i + 1 /\ n \in Ancestors(cand)
  BY <1>5, AncestorPrefix, AncestorsAre
<1>8. n = cand \/ i + 1 # Len(Chain(cand))
  BY OwnAncestor
<1>9. i \in 1..Len(Chain(n)) /\ Chain(n)[i] = tip
  BY <1>1, <1>4, <1>5, <1>7
<1> HIDE DEF n
<1>10. n # Genesis
  <2>1. Chain(Genesis) = <<Genesis>>
    BY PathAssumption DEF Chain
  <2> QED BY <1>7, <2>1
<1>11. Parent[n] = tip
  <2>1. /\ Parent[n] \in Block /\ Chain(n) = Append(Chain(Parent[n]), n)
        /\ Len(Chain(n)) = Len(Chain(Parent[n])) + 1 /\ Chain(Parent[n]) \in Seq(Block)
        /\ Len(Chain(Parent[n])) \in Nat
    BY <1>7, <1>10, ChainShape
  <2>2. Len(Chain(Parent[n])) = i
    BY <1>7, <2>1
  <2>3. Chain(n)[i] = Chain(Parent[n])[i]
    BY <2>1, <2>2
  <2>4. Chain(Parent[n])[i] = Parent[n]
    BY <2>1, <2>2, OwnAncestor
  <2> QED BY <1>9, <2>3, <2>4
<1>12. Ancestors(n) = Ancestors(tip) \union {n}
  BY <1>7, <1>10, <1>11, ParentAncestors
<1> QED BY <1>2, <1>4, <1>5, <1>6, <1>7, <1>8, <1>10, <1>11, <1>12 DEF Height

(***************************************************************************)
(* The refinement                                                          *)
(***************************************************************************)
\* ChainView sees the same tree.
LEMMA SameTree ==
    /\ Promise!ChainTo = ChainTo
    /\ \A b : Promise!Height(b) = Height(b)
    /\ \A b : Promise!Ancestors(b) = Ancestors(b)
<1>1. Promise!ChainTo = ChainTo
  BY Zenon DEF Promise!ChainTo, ChainTo, Promise!PathTo, PathTo
<1>2. \A b : Promise!Height(b) = Height(b)
  BY <1>1 DEF Promise!Height, Height, Promise!Chain, Chain
<1>3. \A b : Promise!Ancestors(b) = Ancestors(b)
  BY <1>1 DEF Promise!Ancestors, Ancestors, Promise!AncestorSets, AncestorSets,
              Promise!Chain, Chain, Promise!Range, Range
<1> QED BY <1>1, <1>2, <1>3

\* A block whose chain is stored and has no invalid block (ChainView's Sound).
OnSound(b) == b \in Block /\ Ancestors(b) \subseteq known \ Bad

\* The chainstate's part of the inductive invariant.
ChainInv ==
    /\ mode \in {"up", "loading", "down"}
    /\ known \subseteq Block /\ failed \subseteq Block /\ candidates \subseteq known
    /\ \A b \in known : Ancestors(b) \subseteq known
    /\ cut \in BOOLEAN /\ faults \in 0..MaxFaults
    /\ OnSound(tip) /\ OnSound(flushed)
    /\ from # None => OnSound(from)
    /\ cand # None => /\ from # None /\ cand \in Block
                      /\ Ancestors(cand) \subseteq known /\ Height(tip) < Height(cand)
    /\ mode = "down" => from = None

\* No block of the set b stands on has failed.
Unfailed(b) == Ancestors(b) \intersect failed = {}

\* Whatever has failed takes everything above it along, and neither a candidate
\* nor the tip is above it; a load drops no candidate before it ends.
CandInv ==
    /\ \A a \in failed : \A b \in Block : a \in Ancestors(b) => b \in failed
    /\ \A b \in candidates : Unfailed(b)
    /\ Unfailed(tip)
    /\ cand # None => cand \in candidates
    /\ mode = "loading" /\ from # None => candidates = known \ failed

\* A load that has ended has settled, unless a file failed it.
LoadInv ==
    mode = "loading" /\ from = None =>
        tip \in candidates /\ (cut \/ \A x \in candidates : Height(x) <= Height(tip))

\* Steps of the chainstate that move nothing.
Quiet == ReceiveWitness \/ AbortReorg \/ StallOnBlock \/ RejectBlock \/ UndoNotWritten

\* They leave the listeners, the tip and the stored blocks as they are.
LEMMA QuietLeaves ==
    ASSUME ChainInv, Quiet
    PROVE  /\ UNCHANGED <<poolVars, walletVars, indexVars, mode, tip, known, flushed, told, restarts, torn>>
           /\ from' = from \/ (from = None /\ from' = tip /\ mode = "up")
           /\ from' # None /\ mode # "down"
<1>1. tip # None
  BY NodeAssumption DEF ChainInv, OnSound
<1>2. CASE ReceiveWitness
  BY <1>1, <1>2 DEF ReceiveWitness, Idle
<1>3. CASE ~ ReceiveWitness
  <2>1. from # None /\ mode # "down"
    BY <1>3 DEF ChainInv, Quiet, AbortReorg, StallOnBlock, RejectBlock, UndoNotWritten
  <2> QED BY <1>3, <2>1 DEF Quiet, AbortReorg, StallOnBlock, RejectBlock, UndoNotWritten, GiveUp, MarkFailed
<1> QED BY <1>2, <1>3

\* Sound blocks are stored, and ChainView's Sound.
LEMMA SoundIs ==
    ASSUME known \subseteq Block
    PROVE  \A b : OnSound(b) <=> b \in Promise!Sound
BY SameTree, OwnAncestor DEF OnSound, Promise!Sound

\* When activation ends without a failure, no candidate is above the tip.
LEMMA ActivatedSettles ==
    ASSUME ChainInv, Activated
    PROVE  tip \in Promise!Sound /\ (cut \/ \A x \in candidates : Height(x) <= Height(tip))
BY SoundIs DEF ChainInv, Activated

\* The first chain is sound, and the invariants hold of it.
LEMMA ChainInit == Init => ChainInv /\ CandInv /\ LoadInv
<1> SUFFICES ASSUME Init PROVE ChainInv /\ CandInv /\ LoadInv
  OBVIOUS
<1>1. Ancestors(Genesis) = {Genesis}
  <2>1. Chain(Genesis) = <<Genesis>> /\ Genesis \in Block
    BY PathAssumption, BlockTreeAssumption DEF Chain
  <2>2. \A i \in 1..Len(Chain(Genesis)) : Chain(Genesis)[i] = Genesis
    BY <2>1
  <2> QED BY <2>1, <2>2, AncestorsAre, OwnAncestor
<1>2. OnSound(Genesis)
  BY <1>1, BlockTreeAssumption DEF OnSound, Init
<1>3. ChainInv
  <2>1. /\ mode = "up" /\ tip = Genesis /\ known = {Genesis} /\ failed = {} /\ candidates = {Genesis}
        /\ flushed = Genesis /\ from = None /\ cand = None /\ cut = FALSE /\ faults = 0
    BY DEF Init
  <2>2. 0 \in 0..MaxFaults /\ Genesis \in Block
    BY NodeAssumption, BlockTreeAssumption
  <2> QED BY <1>1, <1>2, <2>1, <2>2 DEF ChainInv
<1>4. mode = "up" /\ failed = {} /\ cand = None
  BY DEF Init
<1>5. CandInv /\ LoadInv
  BY <1>4 DEF CandInv, LoadInv, Unfailed
<1> QED BY <1>3, <1>5

\* Undoing the tip leaves a sound chain; Genesis is never undone.
LEMMA DisconnectKeeps ==
    ASSUME ChainInv, DisconnectTip
    PROVE  ChainInv' /\ (CandInv => CandInv')
<1>1. /\ tip \in Block /\ cand \in Block /\ tip \notin Ancestors(cand)
      /\ Ancestors(tip) \subseteq known \ Bad /\ Height(tip) < Height(cand)
  BY DEF ChainInv, DisconnectTip, IsAncestor, OnSound
<1>2. tip # Genesis
  BY <1>1, GenesisAncestor
<1>3. /\ Parent[tip] \in Block /\ Ancestors(Parent[tip]) \subseteq Ancestors(tip)
      /\ Height(tip) = Height(Parent[tip]) + 1
  BY <1>1, <1>2, ParentAncestors, ChainShape
<1>4. Height(Parent[tip]) \in Nat /\ Height(cand) \in Nat
  BY <1>1, <1>3, ChainShape
<1>5. Height(Parent[tip]) < Height(cand)
  BY <1>1, <1>3, <1>4
<1>6. OnSound(Parent[tip]) /\ Parent[tip] \in Ancestors(Parent[tip])
  BY <1>1, <1>3, OwnAncestor DEF OnSound
<1> DEFINE p == Parent[tip]
<1> HIDE DEF p
<1>7. /\ tip' = p /\ OnSound(p) /\ Height(p) < Height(cand)
      /\ Ancestors(p) \subseteq Ancestors(tip) /\ p \in Ancestors(p)
      /\ from # None
      /\ UNCHANGED <<mode, known, failed, candidates, flushed, from, cand, cut, faults>>
  BY <1>3, <1>5, <1>6 DEF DisconnectTip, ChainInv, p
<1>8. ChainInv'
  BY <1>7 DEF ChainInv, OnSound
<1>9. CandInv => CandInv'
  <2> SUFFICES ASSUME CandInv PROVE CandInv'
    OBVIOUS
  <2>1. Unfailed(p) /\ p \in known \ failed
    BY <1>7 DEF CandInv, Unfailed, OnSound
  <2> QED BY <1>7, <2>1 DEF CandInv, Unfailed
<1> QED BY <1>8, <1>9

\* A connected block extends a sound chain by a valid stored block.
LEMMA ConnectKeeps ==
    ASSUME ChainInv, ConnectBlock
    PROVE  ChainInv' /\ (CandInv => CandInv')
<1>1. /\ tip \in Block /\ cand \in Block /\ tip \in Ancestors(cand) /\ tip # cand
      /\ Ancestors(tip) \subseteq known \ Bad /\ Ancestors(cand) \subseteq known
      /\ Height(cand) \in Nat
  BY ChainShape DEF ChainInv, ConnectBlock, IsAncestor, OnSound
<1> DEFINE n == NextBlock
<1>2. /\ n \in Ancestors(cand) /\ n \in Block /\ Ancestors(n) = Ancestors(tip) \union {n}
      /\ Height(n) <= Height(cand)
      /\ Height(n) = Height(cand) => n = cand
  BY <1>1, NextAbove
<1>3. Height(n) \in Nat
  BY <1>2, ChainShape
<1>4. /\ tip' = n /\ n \notin Bad /\ flushed' \in {flushed, n} /\ cand # None
      /\ cand' = IF n = cand THEN None ELSE cand
      /\ UNCHANGED <<mode, known, failed, candidates, from, cut, faults>>
  BY DEF ConnectBlock
<1> HIDE DEF n
<1>5. OnSound(n)
  BY <1>1, <1>2, <1>4 DEF OnSound
<1>6. cand' # None => cand' = cand /\ Height(n) < Height(cand)
  BY <1>1, <1>2, <1>3, <1>4
<1>7. OnSound(tip)' /\ OnSound(flushed)' /\ (from # None => OnSound(from))'
  BY <1>4, <1>5 DEF ChainInv, OnSound
<1>8. ChainInv'
  BY <1>4, <1>6, <1>7 DEF ChainInv
<1>9. CandInv => CandInv'
  <2> SUFFICES ASSUME CandInv PROVE CandInv'
    OBVIOUS
  <2>1. Unfailed(cand) /\ Ancestors(tip) \intersect failed = {} /\ cand \in candidates
    BY <1>4 DEF CandInv, Unfailed
  <2>2. Ancestors(n) \intersect failed = {}
    BY <1>2, <2>1 DEF Unfailed
  <2> QED BY <1>4, <1>6, <2>1, <2>2 DEF CandInv, Unfailed
<1> QED BY <1>8, <1>9

\* A failed block takes every candidate above it along, and the tip is below it.
LEMMA MarkKeeps ==
    ASSUME ChainInv, cand # None, IsAncestor(tip, cand), MarkFailed(NextBlock),
           faults' \in 0..MaxFaults
    PROVE  ChainInv' /\ (CandInv => CandInv')
<1>1. /\ tip \in Block /\ cand \in Block /\ tip \in Ancestors(cand) /\ tip # cand
      /\ Ancestors(tip) \subseteq known /\ Height(tip) \in Nat
      /\ Height(tip) < Height(cand)
  BY ChainShape DEF ChainInv, IsAncestor, OnSound
<1> DEFINE n == NextBlock
<1>2. /\ n \in Block /\ Height(n) = Height(tip) + 1
  BY <1>1, NextAbove
<1>3. /\ failed' = failed \union {b \in Block : n \in Ancestors(b)}
      /\ candidates' = {b \in candidates : n \notin Ancestors(b)}
      /\ cand' = None
      /\ UNCHANGED <<mode, tip, known, flushed, from, cut>>
  BY DEF MarkFailed, IsAncestor
<1> HIDE DEF n
<1>4. n \notin Ancestors(tip)
  <2> SUFFICES ASSUME n \in Ancestors(tip) PROVE FALSE
    OBVIOUS
  <2>1. PICK i \in 1..Len(Chain(tip)) : n = Chain(tip)[i]
    BY <1>1, AncestorsAre
  <2>2. Len(Chain(n)) = i /\ Len(Chain(tip)) \in Nat
    BY <1>1, <2>1, AncestorPrefix, ChainShape
  <2> QED BY <1>2, <2>1, <2>2 DEF Height
<1>5. ChainInv'
  BY <1>3 DEF ChainInv, OnSound
<1>6. CandInv => CandInv'
  <2> SUFFICES ASSUME CandInv PROVE CandInv'
    OBVIOUS
  <2>1. ASSUME NEW a \in failed', NEW b \in Block, a \in Ancestors(b) PROVE b \in failed'
    <3>1. CASE a \in failed
      BY <1>3, <2>1, <3>1 DEF CandInv
    <3>2. CASE n \in Ancestors(a)
      BY <1>3, <2>1, <3>2, AncestorsOfAncestor
    <3> QED BY <1>3, <2>1, <3>1, <3>2
  <2>2. ASSUME NEW b \in Block, Unfailed(b), n \notin Ancestors(b) PROVE Ancestors(b) \intersect failed' = {}
    <3>1. ASSUME NEW a \in Ancestors(b), n \in Ancestors(a) PROVE FALSE
      BY <2>2, <3>1, AncestorsOfAncestor
    <3> QED BY <1>3, <2>2, <3>1 DEF Unfailed
  <2>3. \A b \in candidates' : Ancestors(b) \intersect failed' = {}
    BY <1>3, <2>2 DEF CandInv, ChainInv
  <2>4. Ancestors(tip) \intersect failed' = {}
    BY <1>1, <1>4, <2>2 DEF CandInv
  <2>5. mode = "loading" /\ from # None => candidates' = known \ failed'
    BY <1>3 DEF CandInv, ChainInv
  <2> QED BY <1>3, <2>1, <2>3, <2>4, <2>5 DEF CandInv, Unfailed
<1> QED BY <1>5, <1>6

\* A failure stays within the bound.
LEMMA FailsOnce == ASSUME ChainInv, FileFails PROVE faults' \in 0..MaxFaults
BY NodeAssumption DEF ChainInv, FileFails

\* The steps that move nothing keep the chain's invariants.
LEMMA QuietKeeps ==
    ASSUME ChainInv, Quiet
    PROVE  ChainInv' /\ (CandInv => CandInv')
<1>1. CASE ReceiveWitness
  <2>1. /\ from' = tip /\ from = None /\ mode = "up" /\ cut' = FALSE
        /\ UNCHANGED <<mode, tip, known, failed, candidates, flushed, cand, faults>>
    BY <1>1 DEF ReceiveWitness, Idle
  <2>2. cand = None
    BY <2>1 DEF ChainInv
  <2>3. OnSound(tip)' /\ OnSound(flushed)' /\ OnSound(from)'
    BY <2>1 DEF ChainInv, OnSound
  <2> QED BY <2>1, <2>2, <2>3 DEF ChainInv, CandInv, Unfailed
<1>2. CASE AbortReorg \/ StallOnBlock
  <2>1. /\ FileFails /\ cut' = TRUE /\ cand' = None
        /\ UNCHANGED <<mode, tip, known, failed, candidates, flushed, from>>
    BY <1>2 DEF AbortReorg, StallOnBlock, GiveUp
  <2> QED BY <2>1, FailsOnce DEF ChainInv, OnSound, CandInv, Unfailed
<1>3. CASE RejectBlock
  <2>1. faults' \in 0..MaxFaults
    BY <1>3 DEF RejectBlock, ChainInv
  <2> QED BY <1>3, <2>1, MarkKeeps DEF RejectBlock
<1>4. CASE UndoNotWritten
  BY <1>4, FailsOnce, MarkKeeps DEF UndoNotWritten
<1> QED BY <1>1, <1>2, <1>3, <1>4 DEF Quiet

\* Every step keeps the chain's invariants.
LEMMA ChainStep ==
    ASSUME ChainInv, [Next]_vars
    PROVE  ChainInv' /\ (CandInv => CandInv')
<1>1. ASSUME NEW b \in Block, ReceiveBlock(b) PROVE ChainInv' /\ (CandInv => CandInv')
  <2>1. /\ known' = known \union {b} /\ candidates' = candidates \union {b}
        /\ from' = tip /\ from = None /\ cut' = FALSE /\ b \notin failed /\ Parent[b] \in known
        /\ UNCHANGED <<mode, tip, failed, flushed, cand, faults>> /\ mode = "up"
    BY <1>1 DEF ReceiveBlock, Idle
  <2>2. cand = None
    BY <2>1 DEF ChainInv
  <2>3. OnSound(tip)' /\ OnSound(flushed)' /\ OnSound(from)'
    BY <2>1 DEF ChainInv, OnSound
  <2>4. Ancestors(b) \subseteq known' /\ b \in Ancestors(b)
    <3>1. b = Genesis => tip \in known /\ Genesis \in known
      BY GenesisAncestor, OwnAncestor DEF ChainInv, OnSound
    <3>2. CASE b = Genesis
      BY <2>1, <3>1, <3>2, OwnAncestor DEF ChainInv
    <3>3. CASE b # Genesis
      BY <2>1, <3>3, ParentAncestors, OwnAncestor DEF ChainInv
    <3> QED BY <3>2, <3>3
  <2>5. ChainInv'
    BY <2>1, <2>2, <2>3, <2>4 DEF ChainInv
  <2>6. CandInv => Unfailed(b)
    BY <2>1 DEF CandInv, Unfailed
  <2> QED BY <2>1, <2>2, <2>5, <2>6 DEF CandInv, Unfailed
<1>2. ASSUME NEW b \in Block, SelectCandidate(b) PROVE ChainInv' /\ (CandInv => CandInv')
  <2>1. Ancestors(b) \subseteq known /\ b \in candidates
    BY <1>2 DEF SelectCandidate, Best, ChainInv
  <2>2. /\ cand' = b /\ from # None /\ Height(tip) < Height(b)
        /\ UNCHANGED <<mode, tip, known, failed, candidates, flushed, from, cut, faults>>
    <3>1. tip \in Block /\ Height(tip) \in Nat /\ Height(b) \in Nat
      BY ChainShape DEF ChainInv, OnSound
    <3> QED BY <1>2, <3>1 DEF SelectCandidate
  <2> QED BY <2>1, <2>2 DEF ChainInv, OnSound, CandInv, Unfailed
<1>3. CASE NewTip \/ SameTip
  <2>1. /\ from' = None /\ cand = None /\ candidates' \subseteq candidates
        /\ UNCHANGED <<mode, tip, known, failed, flushed, cand, cut, faults>>
    BY <1>3 DEF NewTip, SameTip, Activated, CandidatesKept
  <2> QED BY <2>1 DEF ChainInv, OnSound, CandInv, Unfailed
<1>4. CASE Stop \/ Crash
  <2>1. /\ mode' = "down" /\ from' = None /\ cand' = None /\ flushed' \in {flushed, tip}
        /\ candidates' = {} /\ cut' = FALSE
        /\ UNCHANGED <<tip, known, failed, faults>>
    BY <1>4 DEF Stop, Crash, MemoryLost
  <2> QED BY <2>1 DEF ChainInv, OnSound, CandInv, Unfailed
<1>5. CASE Start
  <2>1. /\ mode' = "loading" /\ tip' = flushed /\ from' = flushed /\ failed' = {}
        /\ candidates' = known /\ cand = None /\ UNCHANGED <<known, flushed, cand, cut, faults>>
    BY <1>5 DEF Start, ChainInv
  <2> QED BY <2>1 DEF ChainInv, OnSound, CandInv, Unfailed
<1>6. CASE Started
  BY <1>6 DEF Started, ChainInv, OnSound, CandInv, Unfailed
<1>7. CASE UNCHANGED vars \/ \E t \in Tx : SubmitTx(t) \/ SendTx(t)
  <2>1. UNCHANGED chainVars
    BY <1>7 DEF vars, SubmitTx, SendTx
  <2> QED BY <2>1 DEF chainVars, ChainInv, OnSound, CandInv, Unfailed
<1> QED BY <1>1, <1>2, <1>3, <1>4, <1>5, <1>6, <1>7,
           DisconnectKeeps, ConnectKeeps, QuietKeeps DEF Next, Quiet

\* Every step keeps the load's part of the invariant.
LEMMA LoadStep ==
    ASSUME ChainInv, CandInv, LoadInv, [Next]_vars
    PROVE  LoadInv'
<1>1. ASSUME NEW b \in Block, ReceiveBlock(b) PROVE LoadInv'
  BY <1>1 DEF ReceiveBlock, Idle, LoadInv
<1>2. ASSUME NEW b \in Block, SelectCandidate(b) PROVE LoadInv'
  BY <1>2 DEF SelectCandidate, LoadInv
<1>3. CASE DisconnectTip \/ ConnectBlock
  <2>1. from # None /\ from' = from
    BY <1>3 DEF DisconnectTip, ConnectBlock, ChainInv
  <2> QED BY <2>1 DEF LoadInv
<1>4. CASE Quiet
  BY <1>4, QuietLeaves DEF LoadInv
<1>5. CASE NewTip \/ SameTip
  <2>1. /\ UNCHANGED <<mode, tip, known, cut>> /\ Activated /\ from # None
        /\ candidates' = {b \in candidates : Height(b) >= Height(tip)}
    BY <1>5 DEF NewTip, SameTip, Activated, CandidatesKept
  <2>2. mode = "loading" => tip \in candidates
    <3>1. tip \in known /\ tip \notin failed
      BY OwnAncestor DEF ChainInv, CandInv, OnSound, Unfailed
    <3> QED BY <2>1, <3>1 DEF CandInv
  <2>3. Height(tip) \in Nat
    BY ChainShape DEF ChainInv, OnSound
  <2> DEFINE t == tip
  <2>4. t \in candidates => t \in candidates'
    BY <2>1, <2>3
  <2>5. cut \/ \A x \in candidates' : Height(x) <= Height(tip)
    BY <2>1, ActivatedSettles
  <2> QED BY <2>1, <2>2, <2>4, <2>5 DEF LoadInv
<1>6. CASE Stop \/ Crash \/ Started
  BY <1>6 DEF Stop, Crash, MemoryLost, Started, LoadInv
<1>7. CASE Start
  <2>1. from' # None
    BY <1>7, NodeAssumption DEF Start, ChainInv, OnSound
  <2> QED BY <2>1 DEF LoadInv
<1>8. CASE UNCHANGED vars \/ \E t \in Tx : SubmitTx(t) \/ SendTx(t)
  <2>1. UNCHANGED chainVars
    BY <1>8 DEF vars, SubmitTx, SendTx
  <2> QED BY <2>1 DEF chainVars, LoadInv
<1> QED BY <1>1, <1>2, <1>3, <1>4, <1>5, <1>6, <1>7, <1>8 DEF Next, Quiet

\* The initial states of the node are initial states of ChainView.
LEMMA ShownInit == Init => Promise!Init
BY BlockTreeAssumption, NodeAssumption DEF Init, Promise!Init, Shown

\* A failed block is condemned.
LEMMA CondemnStep ==
    ASSUME ChainInv, RejectBlock \/ UndoNotWritten
    PROVE  Promise!Condemn(NextBlock) /\ NextBlock \in Block
<1>1. /\ tip \in Block /\ cand \in Block /\ tip \in Ancestors(cand) /\ tip # cand
  BY ChainShape DEF ChainInv, IsAncestor, OnSound, RejectBlock, UndoNotWritten
<1> DEFINE n == NextBlock
<1>2. n \in Block
  BY <1>1, NextAbove
<1>3. /\ candidates' = {b \in candidates : ~ IsAncestor(n, b)}
      /\ UNCHANGED <<mode, tip, known, from, cut>>
      /\ faults' = IF n \in Bad THEN faults ELSE faults + 1
  BY DEF RejectBlock, UndoNotWritten, MarkFailed, FileFails
<1> HIDE DEF n
<1>4. Shown' = Shown
  BY <1>3 DEF Shown
<1>5. {b \in candidates : ~ IsAncestor(n, b)} = {b \in candidates : ~ Promise!IsAncestor(n, b)}
  BY SameTree DEF IsAncestor, Promise!IsAncestor
<1>6. Promise!Condemn(n)
  BY <1>3, <1>4, <1>5 DEF Promise!Condemn
<1> QED BY <1>2, <1>6 DEF n

\* Every step of the node is a step of ChainView or changes nothing it shows.
LEMMA ShownStep ==
    ASSUME ChainInv, CandInv, LoadInv, [Next]_vars
    PROVE  [Promise!Next]_<<known, Shown, candidates, cut, faults>>
<1> USE NodeAssumption
<1>1. tip \in Block /\ tip # None /\ (from # None => from \in Block)
  BY DEF ChainInv, OnSound
<1>2. ASSUME NEW b \in Block, ReceiveBlock(b) PROVE Promise!Next
  <2>1. /\ known' = known \union {b} /\ candidates' = candidates \union {b} /\ cut' = FALSE
        /\ faults' = faults /\ Shown = tip /\ Shown' = tip
    BY <1>1, <1>2 DEF ReceiveBlock, Idle, Shown
  <2>2. Promise!Learn(b)
    BY <1>1, <2>1 DEF Promise!Learn
  <2> QED BY <2>2 DEF Promise!Next
<1>3. ASSUME NEW b \in Block, SelectCandidate(b)
      PROVE  UNCHANGED <<known, Shown, candidates, cut, faults>>
  BY <1>3 DEF SelectCandidate, Shown
<1>4. CASE DisconnectTip \/ ConnectBlock
  <2>1. from # None /\ UNCHANGED <<mode, known, from, candidates, cut, faults>>
    BY <1>4 DEF DisconnectTip, ConnectBlock, ChainInv
  <2> QED BY <2>1 DEF Shown
<1>5. CASE ReceiveWitness
  <2>1. cut' = FALSE /\ Shown = tip /\ Shown' = tip /\ UNCHANGED <<known, candidates, faults>>
    BY <1>1, <1>5 DEF ReceiveWitness, Idle, Shown
  <2>2. Promise!TryAgain
    BY <1>1, <2>1 DEF Promise!TryAgain
  <2> QED BY <2>2 DEF Promise!Next
<1>6. CASE AbortReorg \/ StallOnBlock
  <2>1. /\ cut' = TRUE /\ faults' = faults + 1 /\ UNCHANGED <<mode, tip, from, known, candidates>>
    BY <1>6 DEF AbortReorg, StallOnBlock, GiveUp, FileFails
  <2>2. Promise!CutShort
    BY <2>1 DEF Promise!CutShort, Shown
  <2> QED BY <2>2 DEF Promise!Next
<1>7. CASE RejectBlock \/ UndoNotWritten
  BY <1>7, CondemnStep DEF Promise!Next
<1>8. CASE NewTip \/ SameTip
  <2>1. /\ Activated /\ from # None /\ from' = None /\ UNCHANGED <<mode, tip, known, cut, faults>>
        /\ candidates' = {b \in candidates : Height(b) >= Height(tip)}
        /\ SameTip => tip = from
    BY <1>8 DEF NewTip, SameTip, Activated, CandidatesKept
  <2>2. Promise!Settled(tip)
    BY <2>1, ActivatedSettles, SameTree DEF Promise!Settled
  <2>3. Shown' = IF Shown = None THEN None ELSE tip
    BY <1>1, <2>1 DEF Shown
  <2>4. {b \in candidates : Height(b) >= Height(tip)}
          = {b \in candidates : Promise!Height(b) >= Promise!Height(tip)}
    BY SameTree
  <2>5. Promise!Settle(tip)
    BY <2>1, <2>2, <2>3, <2>4 DEF Promise!Settle
  <2> QED BY <1>1, <2>5 DEF Promise!Next
<1>9. CASE Stop \/ Crash
  <2>1. mode' = "down" /\ candidates' = {} /\ cut' = FALSE /\ UNCHANGED <<known, faults>>
    BY <1>9 DEF Stop, Crash, MemoryLost
  <2>2. Promise!GoDown
    BY <2>1 DEF Promise!GoDown, Shown
  <2> QED BY <2>2 DEF Promise!Next
<1>10. CASE Start
  <2>1. /\ mode = "down" /\ mode' = "loading" /\ candidates' = known /\ UNCHANGED <<known, cut, faults>>
    BY <1>10 DEF Start
  <2>2. Promise!Load
    BY <2>1 DEF Promise!Load, Shown
  <2> QED BY <2>2 DEF Promise!Next
<1>11. CASE Started
  <2>1. /\ Shown = None /\ Shown' = tip /\ UNCHANGED <<known, candidates, cut, faults>>
        /\ tip \in candidates /\ (cut \/ \A x \in candidates : Height(x) <= Height(tip))
    BY <1>11 DEF Started, Shown, LoadInv
  <2>2. Promise!Settled(tip)
    BY <2>1, SoundIs, SameTree DEF Promise!Settled, ChainInv
  <2>3. Promise!ComeUp(tip)
    BY <2>1, <2>2 DEF Promise!ComeUp
  <2> QED BY <1>1, <2>3 DEF Promise!Next
<1>12. CASE UNCHANGED vars \/ \E t \in Tx : SubmitTx(t) \/ SendTx(t)
  <2>1. UNCHANGED chainVars
    BY <1>12 DEF vars, SubmitTx, SendTx
  <2> QED BY <2>1 DEF chainVars, Shown
<1> QED BY <1>2, <1>3, <1>4, <1>5, <1>6, <1>7, <1>8, <1>9, <1>10, <1>11, <1>12 DEF Next

(***************************************************************************)
(* The results                                                             *)
(***************************************************************************)
\* Through reorganisations cut off by a crash or given up for want of data,
\* candidates that prove invalid half way and loads from an older utxo.dat, the
\* tip and utxo.dat lie on valid stored chains, neither the tip nor a candidate is
\* above a block marked as failed, and a load that no file failed ends on a tip
\* that no candidate outweighs (chainstate.cpp:821-861).
THEOREM ChainStaysSound == Spec => [](ChainInv /\ CandInv /\ LoadInv)
<1>1. ChainInv /\ CandInv /\ LoadInv /\ [Next]_vars => (ChainInv /\ CandInv /\ LoadInv)'
  BY ChainStep, LoadStep
<1> QED BY <1>1, ChainInit, PTL DEF Spec

\* The node implements ChainView, whatever the tree of blocks, the invalid ones
\* among them, the number of restarts and of failing files: those who watch the
\* chain only see it replaced as a whole, by a valid chain, and one that no
\* candidate outweighs unless a file failed it (Chainstate::activate_best_chain,
\* load).
THEOREM NodeKeepsPromise == Spec => KeepsPromise
<1>1. ChainInv /\ CandInv /\ LoadInv /\ [Next]_vars
        => [Promise!Next]_<<known, Shown, candidates, cut, faults>>
  BY ShownStep
<1> QED BY <1>1, ShownInit, ChainStaysSound, PTL DEF Spec, KeepsPromise, Promise!Spec

(***************************************************************************)
(* What the listeners compute, element by element                          *)
(***************************************************************************)
CoinSets == SUBSET (Tx \X Nat)

\* Spending and paying keeps a set of coins one.
LEMMA ApplyCoins ==
    ASSUME NEW view \in CoinSets, NEW t \in Tx
    PROVE  Apply(view, t) \in CoinSets /\ Ins[t] \in CoinSets /\ OutCoins(t) \in CoinSets
<1>1. Ins[t] \in CoinSets
  BY BlockTreeAssumption DEF CoinSets
<1>2. \A i \in DOMAIN Outs[t] : i \in Nat
  BY BlockTreeAssumption
<1>3. OutCoins(t) \in CoinSets
  BY <1>2 DEF OutCoins, CoinSets
<1> QED BY <1>1, <1>3 DEF Apply, CoinSets

ApplyAllFcn(f, s, view) == [i \in 0..Len(s) |-> IF i = 0 THEN view ELSE Apply(f[i - 1], s[i])]

\* A view after a sequence of transactions.
LEMMA ApplyAllStep ==
    ASSUME NEW view \in CoinSets
    PROVE  /\ ApplyAll(view, <<>>) = view
           /\ \A s \in Seq(Tx) : ApplyAll(view, s) \in CoinSets
           /\ \A s \in Seq(Tx) : \A x \in Tx :
                 ApplyAll(view, Append(s, x)) = Apply(ApplyAll(view, s), x)
<1> DEFINE V == CoinSets
           v == view
           G == [x \in Tx |-> [a \in V |-> Apply(a, x)]]
<1>1. Steps(Tx, V, v, G)
  BY ApplyCoins DEF Steps
<1>2. \A x \in Tx : \A a \in V : G[x][a] = Apply(a, x)
  OBVIOUS
<1> HIDE DEF G, V, v
<1>3. TakesSteps(Tx, V, v, G)
  BY <1>1, RunStep
<1>4. ASSUME NEW s \in Seq(Tx) PROVE ApplyAll(view, s) = Run(G, v, s)
  <2>1. Ends(V, G, v, s)
    BY <1>1, RunExists
  <2>2. PICK r \in [0..Len(s) -> V] : IsRun(r, G, v, s)
    BY <2>1 DEF Ends
  <2>3. \A i \in 1..Len(s) : s[i] \in Tx /\ i - 1 \in 0..Len(s) /\ i \in 0..Len(s) /\ i # 0
    OBVIOUS
  <2>4. r[0] = v /\ \A i \in 1..Len(s) : r[i] = Apply(r[i - 1], s[i])
    BY <1>2, <2>2, <2>3 DEF IsRun
  <2>5. r = ApplyAllFcn(r, s, view)
    BY <2>2, <2>4 DEF ApplyAllFcn, v
  <2> DEFINE c == CHOOSE f : f = ApplyAllFcn(f, s, view)
  <2>6. c = ApplyAllFcn(c, s, view)
    BY <2>5, Zenon
  <2>7. ApplyAll(view, s) = c[Len(s)]
    BY Zenon DEF ApplyAll, ApplyAllFcn
  <2> HIDE DEF c
  <2>8. ApplyAllFcn(c, s, view)[0] = v
    BY <2>3, 0 \in 0..Len(s), Zenon DEF ApplyAllFcn, v
  <2>9. ASSUME NEW i \in 1..Len(s)
        PROVE  ApplyAllFcn(c, s, view)[i] = Apply(c[i - 1], s[i])
    BY <2>3, Zenon DEF ApplyAllFcn
  <2>10. c[0] = v /\ \A i \in 1..Len(s) : c[i - 1] \in V => c[i] = G[s[i]][c[i - 1]]
    BY <1>2, <2>3, <2>6, <2>8, <2>9
  <2>11. c[Len(s)] = Run(G, v, s)
    BY <1>1, <2>10, EndsAsRun
  <2> QED BY <2>7, <2>11
<1>5. <<>> \in Seq(Tx) /\ \A s \in Seq(Tx) : \A x \in Tx : Append(s, x) \in Seq(Tx)
  OBVIOUS
<1>6. ASSUME NEW s \in Seq(Tx), NEW x \in Tx
      PROVE  ApplyAll(view, Append(s, x)) = Apply(ApplyAll(view, s), x)
  <2>1. Append(s, x) \in Seq(Tx)
    BY <1>5
  <2>2. Run(G, v, s) \in V /\ Run(G, v, Append(s, x)) = G[x][Run(G, v, s)]
    BY <1>3 DEF TakesSteps
  <2> QED BY <1>2, <1>4, <2>1, <2>2
<1>7. ApplyAll(view, <<>>) = v /\ \A s \in Seq(Tx) : ApplyAll(view, s) \in V
  BY <1>3, <1>4, <1>5 DEF TakesSteps
<1> QED BY <1>6, <1>7 DEF V, v

CoinsFcn(f, s) == [i \in 0..Len(s) |-> IF i = 0 THEN {} ELSE ApplyAll(f[i - 1], TxsOf[s[i]])]

\* The coins along a path of blocks.
LEMMA CoinsAfterStep ==
    ASSUME TRUE
    PROVE  /\ CoinsAfter(<<>>) = {}
           /\ \A s \in Seq(Block) : CoinsAfter(s) \in CoinSets
           /\ \A s \in Seq(Block) : \A x \in Block :
                 CoinsAfter(Append(s, x)) = ApplyAll(CoinsAfter(s), TxsOf[x])
<1> DEFINE V == CoinSets
           v == {}
           G == [x \in Block |-> [a \in V |-> ApplyAll(a, TxsOf[x])]]
<1>0. {} \in V /\ \A a \in V : \A x \in Block : ApplyAll(a, TxsOf[x]) \in V
  BY ApplyAllStep, BlockTreeAssumption DEF CoinSets
<1>1. Steps(Block, V, v, G)
  BY <1>0 DEF Steps
<1>2. \A x \in Block : \A a \in V : G[x][a] = ApplyAll(a, TxsOf[x])
  OBVIOUS
<1> HIDE DEF G, V, v
<1>3. TakesSteps(Block, V, v, G)
  BY <1>1, RunStep
<1>4. ASSUME NEW s \in Seq(Block) PROVE CoinsAfter(s) = Run(G, v, s)
  <2>1. Ends(V, G, v, s)
    BY <1>1, RunExists
  <2>2. PICK r \in [0..Len(s) -> V] : IsRun(r, G, v, s)
    BY <2>1 DEF Ends
  <2>3. \A i \in 1..Len(s) : s[i] \in Block /\ i - 1 \in 0..Len(s) /\ i \in 0..Len(s) /\ i # 0
    OBVIOUS
  <2>4. r[0] = v /\ \A i \in 1..Len(s) : r[i] = ApplyAll(r[i - 1], TxsOf[s[i]])
    BY <1>2, <2>2, <2>3 DEF IsRun
  <2>5. r = CoinsFcn(r, s)
    BY <2>2, <2>4 DEF CoinsFcn, v
  <2> DEFINE c == CHOOSE f : f = CoinsFcn(f, s)
  <2>6. c = CoinsFcn(c, s)
    BY <2>5, Zenon
  <2>7. CoinsAfter(s) = c[Len(s)]
    BY Zenon DEF CoinsAfter, CoinsFcn
  <2> HIDE DEF c
  <2>8. CoinsFcn(c, s)[0] = v
    BY <2>3, 0 \in 0..Len(s), Zenon DEF CoinsFcn, v
  <2>9. ASSUME NEW i \in 1..Len(s)
        PROVE  CoinsFcn(c, s)[i] = ApplyAll(c[i - 1], TxsOf[s[i]])
    BY <2>3, Zenon DEF CoinsFcn
  <2>10. c[0] = v /\ \A i \in 1..Len(s) : c[i - 1] \in V => c[i] = G[s[i]][c[i - 1]]
    BY <1>2, <2>3, <2>6, <2>8, <2>9
  <2>11. c[Len(s)] = Run(G, v, s)
    BY <1>1, <2>10, EndsAsRun
  <2> QED BY <2>7, <2>11
<1>5. <<>> \in Seq(Block) /\ \A s \in Seq(Block) : \A x \in Block : Append(s, x) \in Seq(Block)
  OBVIOUS
<1>6. ASSUME NEW s \in Seq(Block), NEW x \in Block
      PROVE  CoinsAfter(Append(s, x)) = ApplyAll(CoinsAfter(s), TxsOf[x])
  <2>1. Append(s, x) \in Seq(Block)
    BY <1>5
  <2>2. Run(G, v, s) \in V /\ Run(G, v, Append(s, x)) = G[x][Run(G, v, s)]
    BY <1>3 DEF TakesSteps
  <2> QED BY <1>2, <1>4, <2>1, <2>2
<1>7. CoinsAfter(<<>>) = v /\ \A s \in Seq(Block) : CoinsAfter(s) \in V
  BY <1>3, <1>4, <1>5 DEF TakesSteps
<1> QED BY <1>6, <1>7 DEF V, v

\* The coins of a chain.
LEMMA CoinsTyped == ASSUME NEW b \in Block PROVE Coins[b] \in CoinSets /\ Coins[b] = CoinsAfter(Chain(b))
BY CoinsAfterStep, ChainShape DEF Coins

KeptSet == [ord : Seq(Tx), view : CoinSets]

KeptFcn(f, s, b) == [i \in 0..Len(s) |-> IF i = 0 THEN [ord |-> <<>>, view |-> Coins[b]] ELSE KeptNext(f[i - 1], b, s[i])]

\* The entries that still apply, one by one.
LEMMA KeptStep ==
    ASSUME NEW b \in Block
    PROVE  /\ Kept(<<>>, b) = [ord |-> <<>>, view |-> Coins[b]]
           /\ \A s \in Seq(Tx) : Kept(s, b) \in KeptSet
           /\ \A s \in Seq(Tx) : \A x \in Tx :
                 Kept(Append(s, x), b) = KeptNext(Kept(s, b), b, x)
<1> DEFINE V == KeptSet
           v == [ord |-> <<>>, view |-> Coins[b]]
           G == [x \in Tx |-> [a \in V |-> KeptNext(a, b, x)]]
<1>1. Steps(Tx, V, v, G)
  <2>1. v \in V
    BY CoinsTyped DEF KeptSet
  <2>2. ASSUME NEW a \in V, NEW x \in Tx PROVE KeptNext(a, b, x) \in V
    BY ApplyCoins DEF KeptNext, KeptSet
  <2> QED BY <2>1, <2>2 DEF Steps
<1>2. \A x \in Tx : \A a \in V : G[x][a] = KeptNext(a, b, x)
  OBVIOUS
<1> HIDE DEF G, V, v
<1>3. TakesSteps(Tx, V, v, G)
  BY <1>1, RunStep
<1>4. ASSUME NEW s \in Seq(Tx) PROVE Kept(s, b) = Run(G, v, s)
  <2>1. Ends(V, G, v, s)
    BY <1>1, RunExists
  <2>2. PICK r \in [0..Len(s) -> V] : IsRun(r, G, v, s)
    BY <2>1 DEF Ends
  <2>3. \A i \in 1..Len(s) : s[i] \in Tx /\ i - 1 \in 0..Len(s) /\ i \in 0..Len(s) /\ i # 0
    OBVIOUS
  <2>4. r[0] = v /\ \A i \in 1..Len(s) : r[i] = KeptNext(r[i - 1], b, s[i])
    BY <1>2, <2>2, <2>3 DEF IsRun
  <2>5. r = KeptFcn(r, s, b)
    BY <2>2, <2>4 DEF KeptFcn, v
  <2> DEFINE c == CHOOSE f : f = KeptFcn(f, s, b)
  <2>6. c = KeptFcn(c, s, b)
    BY <2>5, Zenon
  <2>7. Kept(s, b) = c[Len(s)]
    BY Zenon DEF Kept, KeptFcn
  <2> HIDE DEF c
  <2>8. KeptFcn(c, s, b)[0] = v
    BY <2>3, 0 \in 0..Len(s), Zenon DEF KeptFcn, v
  <2>9. ASSUME NEW i \in 1..Len(s)
        PROVE  KeptFcn(c, s, b)[i] = KeptNext(c[i - 1], b, s[i])
    BY <2>3, Zenon DEF KeptFcn
  <2>10. c[0] = v /\ \A i \in 1..Len(s) : c[i - 1] \in V => c[i] = G[s[i]][c[i - 1]]
    BY <1>2, <2>3, <2>6, <2>8, <2>9
  <2>11. c[Len(s)] = Run(G, v, s)
    BY <1>1, <2>10, EndsAsRun
  <2> QED BY <2>7, <2>11
<1>5. <<>> \in Seq(Tx) /\ \A s \in Seq(Tx) : \A x \in Tx : Append(s, x) \in Seq(Tx)
  OBVIOUS
<1>6. ASSUME NEW s \in Seq(Tx), NEW x \in Tx
      PROVE  Kept(Append(s, x), b) = KeptNext(Kept(s, b), b, x)
  <2>1. Append(s, x) \in Seq(Tx)
    BY <1>5
  <2>2. Run(G, v, s) \in V /\ Run(G, v, Append(s, x)) = G[x][Run(G, v, s)]
    BY <1>3 DEF TakesSteps
  <2> QED BY <1>2, <1>4, <2>1, <2>2
<1>7. Kept(<<>>, b) = v /\ \A s \in Seq(Tx) : Kept(s, b) \in V
  BY <1>3, <1>4, <1>5 DEF TakesSteps
<1> QED BY <1>6, <1>7 DEF V, v

OfferedFcn(f, s, b, ord) == [i \in 0..Len(s) |-> IF i = 0 THEN ord ELSE OfferedNext(f[i - 1], b, s[i])]

\* The pool, transaction by transaction.
LEMMA OfferedStep ==
    ASSUME NEW b \in Block, NEW ord \in Seq(Tx)
    PROVE  /\ Offered(ord, b, <<>>) = ord
           /\ \A s \in Seq(Tx) : Offered(ord, b, s) \in Seq(Tx)
           /\ \A s \in Seq(Tx) : \A x \in Tx :
                 Offered(ord, b, Append(s, x)) = OfferedNext(Offered(ord, b, s), b, x)
<1> DEFINE V == Seq(Tx)
           v == ord
           G == [x \in Tx |-> [a \in V |-> OfferedNext(a, b, x)]]
<1>1. Steps(Tx, V, v, G)
  BY DEF Steps, OfferedNext
<1>2. \A x \in Tx : \A a \in V : G[x][a] = OfferedNext(a, b, x)
  OBVIOUS
<1> HIDE DEF G, V, v
<1>3. TakesSteps(Tx, V, v, G)
  BY <1>1, RunStep
<1>4. ASSUME NEW s \in Seq(Tx) PROVE Offered(ord, b, s) = Run(G, v, s)
  <2>1. Ends(V, G, v, s)
    BY <1>1, RunExists
  <2>2. PICK r \in [0..Len(s) -> V] : IsRun(r, G, v, s)
    BY <2>1 DEF Ends
  <2>3. \A i \in 1..Len(s) : s[i] \in Tx /\ i - 1 \in 0..Len(s) /\ i \in 0..Len(s) /\ i # 0
    OBVIOUS
  <2>4. r[0] = v /\ \A i \in 1..Len(s) : r[i] = OfferedNext(r[i - 1], b, s[i])
    BY <1>2, <2>2, <2>3 DEF IsRun
  <2>5. r = OfferedFcn(r, s, b, ord)
    BY <2>2, <2>4 DEF OfferedFcn, v
  <2> DEFINE c == CHOOSE f : f = OfferedFcn(f, s, b, ord)
  <2>6. c = OfferedFcn(c, s, b, ord)
    BY <2>5, Zenon
  <2>7. Offered(ord, b, s) = c[Len(s)]
    BY Zenon DEF Offered, OfferedFcn
  <2> HIDE DEF c
  <2>8. OfferedFcn(c, s, b, ord)[0] = v
    BY <2>3, 0 \in 0..Len(s), Zenon DEF OfferedFcn, v
  <2>9. ASSUME NEW i \in 1..Len(s)
        PROVE  OfferedFcn(c, s, b, ord)[i] = OfferedNext(c[i - 1], b, s[i])
    BY <2>3, Zenon DEF OfferedFcn
  <2>10. c[0] = v /\ \A i \in 1..Len(s) : c[i - 1] \in V => c[i] = G[s[i]][c[i - 1]]
    BY <1>2, <2>3, <2>6, <2>8, <2>9
  <2>11. c[Len(s)] = Run(G, v, s)
    BY <1>1, <2>10, EndsAsRun
  <2> QED BY <2>7, <2>11
<1>5. <<>> \in Seq(Tx) /\ \A s \in Seq(Tx) : \A x \in Tx : Append(s, x) \in Seq(Tx)
  OBVIOUS
<1>6. ASSUME NEW s \in Seq(Tx), NEW x \in Tx
      PROVE  Offered(ord, b, Append(s, x)) = OfferedNext(Offered(ord, b, s), b, x)
  <2>1. Append(s, x) \in Seq(Tx)
    BY <1>5
  <2>2. Run(G, v, s) \in V /\ Run(G, v, Append(s, x)) = G[x][Run(G, v, s)]
    BY <1>3 DEF TakesSteps
  <2> QED BY <1>2, <1>4, <2>1, <2>2
<1>7. Offered(ord, b, <<>>) = v /\ \A s \in Seq(Tx) : Offered(ord, b, s) \in V
  BY <1>3, <1>4, <1>5 DEF TakesSteps
<1> QED BY <1>6, <1>7 DEF V, v

(***************************************************************************)
(* The pool                                                                *)
(***************************************************************************)
\* What still applies of a sequence: some of its entries, none twice if none
\* was, and all of them the next time.
KeptWell(s, k, b) ==
    /\ Range(k.ord) \subseteq Range(s)
    /\ Len(k.ord) <= Len(s)
    /\ NoRepeat(s) => NoRepeat(k.ord)
    /\ Kept(k.ord, b) = k

\* A pool rebuilt on a tip is well formed.
LEMMA KeptFacts ==
    ASSUME NEW b \in Block, NEW s \in Seq(Tx)
    PROVE  Kept(s, b) \in KeptSet /\ KeptWell(s, Kept(s, b), b)
<1> DEFINE T == {p \in Seq(Tx) : KeptWell(p, Kept(p, b), b)}
<1>1. <<>> \in T
  <2>1. Kept(<<>>, b) = [ord |-> <<>>, view |-> Coins[b]] /\ <<>> \in Seq(Tx)
    BY KeptStep
  <2>2. Kept(<<>>, b).ord = <<>>
    BY <2>1
  <2> QED BY <2>1, <2>2 DEF KeptWell
<1>2. ASSUME NEW p \in Seq(Tx), NEW x \in Tx, p \in T PROVE Append(p, x) \in T
  <2> DEFINE k == Kept(p, b)
             q == Append(p, x)
  <2>1. k \in KeptSet /\ Kept(q, b) = KeptNext(k, b, x)
    BY KeptStep
  <2>2. KeptWell(p, k, b)
    BY <1>2
  <2>3. /\ q \in Seq(Tx) /\ Len(q) = Len(p) + 1 /\ Range(q) = Range(p) \union {x}
        /\ NoRepeat(q) <=> NoRepeat(p) /\ x \notin Range(p)
    BY AppendFacts, NoRepeatAppend
  <2>4. k.ord \in Seq(Tx) /\ Len(k.ord) \in Nat /\ Len(p) \in Nat
    BY <2>1 DEF KeptSet
  <2> HIDE DEF k, q
  <2>5. ASSUME Applies(k.view, b, x) PROVE KeptWell(q, Kept(q, b), b)
    <3> DEFINE r == Append(k.ord, x)
               v == Apply(k.view, x)
    <3>1. Kept(q, b) = [ord |-> r, view |-> v]
      BY <2>1, <2>5 DEF KeptNext
    <3>2. /\ r \in Seq(Tx) /\ Len(r) = Len(k.ord) + 1 /\ Range(r) = Range(k.ord) \union {x}
          /\ NoRepeat(r) <=> NoRepeat(k.ord) /\ x \notin Range(k.ord)
      BY <2>4, AppendFacts, NoRepeatAppend
    <3>3. Kept(r, b) = KeptNext(k, b, x)
      BY <2>2, <2>4, KeptStep DEF KeptWell
    <3> HIDE DEF r, v
    <3>4. Kept(q, b).ord = r
      BY <3>1
    <3> QED BY <2>1, <2>2, <2>3, <2>4, <3>2, <3>3, <3>4 DEF KeptWell
  <2>6. ASSUME ~ Applies(k.view, b, x) PROVE KeptWell(q, Kept(q, b), b)
    <3>1. Kept(q, b) = k
      BY <2>1, <2>6 DEF KeptNext
    <3> QED BY <2>2, <2>3, <2>4, <3>1 DEF KeptWell
  <2>7. KeptWell(q, Kept(q, b), b)
    BY <2>5, <2>6
  <2> QED BY <2>3, <2>7 DEF q
<1> HIDE DEF T
<1>3. s \in T
  BY <1>1, <1>2, SeqUpward
<1>4. Kept(s, b) \in KeptSet
  BY KeptStep
<1> QED BY <1>3, <1>4 DEF T

\* A pool on the chain to b: no entry twice, no more than it may hold, and all
\* of them apply.
Settled(s, b) ==
    /\ s \in Seq(Tx) /\ NoRepeat(s)
    /\ Len(s) <= MaxPool
    /\ Kept(s, b).ord = s

\* An accepted transaction comes last, and is kept.
LEMMA AcceptedKept ==
    ASSUME NEW b \in Block, NEW s, Settled(s, b), NEW t \in Tx, Accepts(s, b, t)
    PROVE  /\ Settled(Append(s, t), b)
           /\ Kept(Append(s, t), b) = [ord |-> Append(s, t), view |-> Apply(Kept(s, b).view, t)]
<1>1. /\ s \in Seq(Tx) /\ NoRepeat(s) /\ Len(s) \in Nat /\ Len(s) <= MaxPool
      /\ Kept(s, b).ord = s
  BY DEF Settled
<1>2. t \notin Range(s) /\ Applies(Kept(s, b).view, b, t) /\ Len(s) < MaxPool /\ MaxPool \in Nat
  BY PoolAssumption DEF Accepts
<1>3. /\ Append(s, t) \in Seq(Tx) /\ Len(Append(s, t)) = Len(s) + 1
      /\ NoRepeat(Append(s, t))
  BY <1>1, <1>2, AppendFacts, NoRepeatAppend
<1>4. Kept(Append(s, t), b) = KeptNext(Kept(s, b), b, t)
  BY <1>1, KeptStep
<1>5. Kept(Append(s, t), b) = [ord |-> Append(s, t), view |-> Apply(Kept(s, b).view, t)]
  BY <1>1, <1>2, <1>4 DEF KeptNext
<1> QED BY <1>1, <1>2, <1>3, <1>5 DEF Settled

\* Offering transactions keeps the pool settled, and nothing leaves it.
LEMMA OfferedFacts ==
    ASSUME NEW b \in Block, NEW ord, Settled(ord, b), NEW ts \in Seq(Tx)
    PROVE  /\ Settled(Offered(ord, b, ts), b)
           /\ Range(ord) \subseteq Range(Offered(ord, b, ts))
           /\ Range(Offered(ord, b, ts)) \subseteq Range(ord) \union Range(ts)
<1> DEFINE O(p) == Offered(ord, b, p)
           Holds(p) == /\ Settled(O(p), b)
                       /\ Range(ord) \subseteq Range(O(p))
                       /\ Range(O(p)) \subseteq Range(ord) \union Range(p)
           T == {p \in Seq(Tx) : Holds(p)}
<1>0. ord \in Seq(Tx)
  BY DEF Settled
<1>1. <<>> \in T
  BY <1>0, OfferedStep
<1>2. ASSUME NEW p \in Seq(Tx), NEW x \in Tx, p \in T PROVE Append(p, x) \in T
  <2>1. O(p) \in Seq(Tx) /\ O(Append(p, x)) = OfferedNext(O(p), b, x)
    BY <1>0, OfferedStep
  <2>2. Holds(p)
    BY <1>2
  <2>3. Append(p, x) \in Seq(Tx) /\ Range(Append(p, x)) = Range(p) \union {x}
    BY AppendFacts
  <2> HIDE DEF O
  <2>4. CASE Accepts(O(p), b, x)
    <3>1. O(Append(p, x)) = Append(O(p), x)
      BY <2>1, <2>4 DEF OfferedNext
    <3>2. Settled(Append(O(p), x), b)
      BY <2>2, <2>4, AcceptedKept
    <3>3. Range(Append(O(p), x)) = Range(O(p)) \union {x}
      BY <2>1, AppendFacts
    <3> QED BY <2>2, <2>3, <3>1, <3>2, <3>3
  <2>5. CASE ~ Accepts(O(p), b, x)
    <3>1. O(Append(p, x)) = O(p)
      BY <2>1, <2>5 DEF OfferedNext
    <3> QED BY <2>2, <2>3, <3>1
  <2> QED BY <2>4, <2>5
<1> HIDE DEF T
<1>3. ts \in T
  BY <1>1, <1>2, SeqUpward
<1> QED BY <1>3 DEF T

\* Looking at the entries again settles the pool on any chain.
LEMMA KeptSettled ==
    ASSUME NEW b \in Block, NEW s \in Seq(Tx), NoRepeat(s), Len(s) <= MaxPool
    PROVE  Settled(Kept(s, b).ord, b)
<1>1. Kept(s, b) \in KeptSet /\ KeptWell(s, Kept(s, b), b)
  BY KeptFacts
<1>2. Kept(s, b).ord \in Seq(Tx) /\ Len(Kept(s, b).ord) \in Nat /\ Len(s) \in Nat /\ MaxPool \in Nat
  BY <1>1, PoolAssumption DEF KeptSet
<1> QED BY <1>1, <1>2 DEF KeptWell, Settled

(***************************************************************************)
(* The wallet                                                              *)
(***************************************************************************)
CoinStates == [height : Int, locked : BOOLEAN]
CoinMaps == UNION {[D -> CoinStates] : D \in CoinSets}
Deltas == {Worth(A) - Worth(B) : A \in CoinSets, B \in CoinSets}
Entries == [height : Int, delta : Deltas]
HistMaps == UNION {[D -> Entries] : D \in SUBSET Tx}
Wallets == [coins : CoinMaps, hist : HistMaps, synced : Block]

\* The wallet's maps are functions on sets of coins and of transactions.
LEMMA MapsAre ==
    /\ \A f : f \in CoinMaps <=> /\ DOMAIN f \in CoinSets /\ f = [x \in DOMAIN f |-> f[x]]
                               /\ \A x \in DOMAIN f : f[x] \in CoinStates
    /\ \A f : f \in HistMaps <=> /\ DOMAIN f \in SUBSET Tx /\ f = [x \in DOMAIN f |-> f[x]]
                               /\ \A x \in DOMAIN f : f[x] \in Entries
<1>1. ASSUME NEW f, f \in CoinMaps
      PROVE  /\ DOMAIN f \in CoinSets /\ f = [x \in DOMAIN f |-> f[x]]
             /\ \A x \in DOMAIN f : f[x] \in CoinStates
  BY <1>1 DEF CoinMaps
<1>2. ASSUME NEW f, DOMAIN f \in CoinSets, f = [x \in DOMAIN f |-> f[x]],
             \A x \in DOMAIN f : f[x] \in CoinStates
      PROVE  f \in CoinMaps
  <2>1. f \in [DOMAIN f -> CoinStates]
    BY <1>2
  <2> QED BY <1>2, <2>1 DEF CoinMaps
<1>3. ASSUME NEW f, f \in HistMaps
      PROVE  /\ DOMAIN f \in SUBSET Tx /\ f = [x \in DOMAIN f |-> f[x]]
             /\ \A x \in DOMAIN f : f[x] \in Entries
  BY <1>3 DEF HistMaps
<1>4. ASSUME NEW f, DOMAIN f \in SUBSET Tx, f = [x \in DOMAIN f |-> f[x]],
             \A x \in DOMAIN f : f[x] \in Entries
      PROVE  f \in HistMaps
  <2>1. f \in [DOMAIN f -> Entries]
    BY <1>4
  <2> QED BY <1>4, <2>1 DEF HistMaps
<1> QED BY <1>1, <1>2, <1>3, <1>4

\* One map written over another.
LEMMA OverFacts ==
    ASSUME NEW f, NEW g
    PROVE  /\ DOMAIN Over(f, g) = DOMAIN f \union DOMAIN g
           /\ \A x \in DOMAIN Over(f, g) : Over(f, g)[x] = IF x \in DOMAIN g THEN g[x] ELSE f[x]
           /\ Over(f, g) = [x \in DOMAIN Over(f, g) |-> Over(f, g)[x]]
BY DEF Over

\* What a transaction leaves of the wallet: its inputs are gone, or locked while
\* it is pending (h < 0), its own outputs are there, and if it touches the
\* wallet it is in the history.
Processed(w, t, h, p) ==
    /\ p \in Wallets /\ p.synced = w.synced
    /\ DOMAIN p.coins = (IF h < 0 THEN DOMAIN w.coins ELSE DOMAIN w.coins \ Ins[t]) \union OwnOuts(t)
    /\ \A c \in OwnOuts(t) : p.coins[c] = [height |-> h, locked |-> FALSE]
    /\ \A c \in DOMAIN p.coins \ OwnOuts(t) :
          /\ p.coins[c].height = w.coins[c].height
          /\ p.coins[c].locked = TRUE <=> w.coins[c].locked = TRUE \/ (h < 0 /\ c \in Ins[t])
    /\ ~ Touches(w, t) => p.hist = w.hist
    /\ Touches(w, t) => /\ DOMAIN p.hist = DOMAIN w.hist \union {t} /\ p.hist[t].height = h
                        /\ \A x \in DOMAIN w.hist \ {t} : p.hist[x] = w.hist[x]

\* That is what processing a transaction does to a wallet.
LEMMA ProcessTxFacts ==
    ASSUME NEW w \in Wallets, NEW t \in Tx, NEW h \in Int
    PROVE  Processed(w, t, h, ProcessTx(w, t, h))
<1> DEFINE spent == Ins[t] \intersect DOMAIN w.coins
           locked == [c \in DOMAIN w.coins |-> [w.coins[c] EXCEPT !.locked = @ \/ c \in spent]]
           freed == Restrict(w.coins, DOMAIN w.coins \ spent)
           rest == IF h < 0 THEN locked ELSE freed
           own == [c \in OwnOuts(t) |-> [height |-> h, locked |-> FALSE]]
           entry == [height |-> h, delta |-> Worth(OwnOuts(t)) - Worth(spent)]
           coins == Over(rest, own)
           hist == IF spent \union OwnOuts(t) = {} THEN w.hist ELSE Over(w.hist, [x \in {t} |-> entry])
           p == ProcessTx(w, t, h)
<1>1. /\ w.coins \in CoinMaps /\ w.hist \in HistMaps /\ w.synced \in Block
      /\ w = [coins |-> w.coins, hist |-> w.hist, synced |-> w.synced]
  BY DEF Wallets
<1>2. /\ DOMAIN w.coins \in CoinSets /\ \A c \in DOMAIN w.coins : w.coins[c] \in CoinStates
      /\ DOMAIN w.hist \in SUBSET Tx /\ \A x \in DOMAIN w.hist : w.hist[x] \in Entries
  BY <1>1, MapsAre
<1>3. Ins[t] \in CoinSets /\ OwnOuts(t) \in CoinSets /\ spent \in CoinSets
  BY ApplyCoins DEF OwnOuts, CoinSets
<1>4. p = [coins |-> coins, hist |-> hist, synced |-> w.synced]
  <2>1. p = [w EXCEPT !.coins = coins, !.hist = hist]
    BY Zenon DEF ProcessTx
  <2> HIDE DEF p, coins, hist
  <2> QED BY <1>1, <2>1
<1>5. /\ DOMAIN rest = IF h < 0 THEN DOMAIN w.coins ELSE DOMAIN w.coins \ Ins[t]
      /\ \A c \in DOMAIN rest :
            rest[c] = [height |-> w.coins[c].height, locked |-> w.coins[c].locked \/ (h < 0 /\ c \in Ins[t])]
  <2>1. CASE h < 0
    <3>1. rest = locked
      BY <2>1
    <3> HIDE DEF rest
    <3> QED BY <1>2, <2>1, <3>1 DEF CoinStates
  <2>2. CASE ~ (h < 0)
    <3>1. rest = freed
      BY <2>2
    <3> HIDE DEF rest
    <3> QED BY <1>2, <2>2, <3>1 DEF CoinStates, Restrict
  <2> QED BY <2>1, <2>2
<1>6. DOMAIN own = OwnOuts(t) /\ \A c \in OwnOuts(t) : own[c] = [height |-> h, locked |-> FALSE]
  OBVIOUS
<1> HIDE DEF rest, own
<1>7. /\ DOMAIN coins = (IF h < 0 THEN DOMAIN w.coins ELSE DOMAIN w.coins \ Ins[t]) \union OwnOuts(t)
      /\ \A c \in OwnOuts(t) : coins[c] = [height |-> h, locked |-> FALSE]
      /\ \A c \in DOMAIN coins \ OwnOuts(t) :
            coins[c] = [height |-> w.coins[c].height,
                        locked |-> w.coins[c].locked \/ (h < 0 /\ c \in Ins[t])]
      /\ coins = [c \in DOMAIN coins |-> coins[c]]
  <2>1. /\ DOMAIN coins = DOMAIN rest \union DOMAIN own
        /\ \A c \in DOMAIN coins : coins[c] = IF c \in DOMAIN own THEN own[c] ELSE rest[c]
        /\ coins = [c \in DOMAIN coins |-> coins[c]]
    BY OverFacts, Zenon
  <2> HIDE DEF coins
  <2> QED BY <1>5, <1>6, <2>1
<1>8. coins \in CoinMaps
  <2> HIDE DEF coins
  <2>1. ASSUME NEW c \in DOMAIN coins PROVE coins[c] \in CoinStates
    <3>1. CASE c \in OwnOuts(t)
      <4>1. coins[c] = [height |-> h, locked |-> FALSE]
        BY <1>7, <3>1
      <4>2. [height |-> h, locked |-> FALSE] \in CoinStates
        BY DEF CoinStates
      <4> QED BY <4>1, <4>2
    <3>2. CASE c \notin OwnOuts(t)
      <4> DEFINE l == w.coins[c].locked \/ (h < 0 /\ c \in Ins[t])
      <4>1. c \in DOMAIN w.coins /\ l \in BOOLEAN
        BY <1>7, <3>2
      <4>2. coins[c] = [height |-> w.coins[c].height, locked |-> l]
        BY <1>7, <3>2
      <4> HIDE DEF l
      <4> QED BY <1>2, <4>1, <4>2 DEF CoinStates
    <3> QED BY <3>1, <3>2
  <2>2. DOMAIN coins \in CoinSets
    BY <1>2, <1>3, <1>7 DEF CoinSets
  <2> QED BY <1>7, <2>1, <2>2, MapsAre
<1>8a. ASSUME NEW c \in DOMAIN coins \ OwnOuts(t)
       PROVE  /\ coins[c].height = w.coins[c].height
              /\ coins[c].locked = TRUE <=> w.coins[c].locked = TRUE \/ (h < 0 /\ c \in Ins[t])
  <2> HIDE DEF coins
  <2> DEFINE l == w.coins[c].locked \/ (h < 0 /\ c \in Ins[t])
  <2>1. w.coins[c].locked \in BOOLEAN
    <3>1. c \in DOMAIN w.coins
      BY <1>7
    <3> QED BY <1>2, <3>1 DEF CoinStates
  <2>2. l = TRUE <=> w.coins[c].locked = TRUE \/ (h < 0 /\ c \in Ins[t])
    BY <2>1
  <2>3. coins[c] = [height |-> w.coins[c].height, locked |-> l]
    BY <1>7
  <2> HIDE DEF l
  <2> QED BY <2>2, <2>3
<1>9. entry \in Entries /\ entry.height = h
  BY <1>3 DEF Entries, Deltas
<1>10. Touches(w, t) <=> spent \union OwnOuts(t) # {}
  BY DEF Touches
<1> DEFINE one == [x \in {t} |-> entry]
<1> HIDE DEF entry
<1> HIDE DEF p
<1>11. ASSUME ~ Touches(w, t) PROVE Processed(w, t, h, p)
  <2>1. hist = w.hist
    BY <1>10, <1>11
  <2> HIDE DEF coins, hist
  <2>2. p \in Wallets /\ p.coins = coins /\ p.hist = w.hist /\ p.synced = w.synced
    BY <1>1, <1>4, <1>8, <2>1 DEF Wallets
  <2> QED BY <1>7, <1>8a, <1>11, <2>2 DEF Processed
<1>12. ASSUME Touches(w, t) PROVE Processed(w, t, h, p)
  <2>1. hist = Over(w.hist, one) /\ DOMAIN one = {t} /\ one[t] = entry
    BY <1>10, <1>12
  <2> HIDE DEF one
  <2>0. /\ DOMAIN hist = DOMAIN w.hist \union DOMAIN one
        /\ \A x \in DOMAIN hist : hist[x] = IF x \in DOMAIN one THEN one[x] ELSE w.hist[x]
        /\ hist = [x \in DOMAIN hist |-> hist[x]]
    <3> DEFINE o == Over(w.hist, one)
    <3>1. /\ DOMAIN o = DOMAIN w.hist \union DOMAIN one
          /\ \A x \in DOMAIN o : o[x] = IF x \in DOMAIN one THEN one[x] ELSE w.hist[x]
          /\ o = [x \in DOMAIN o |-> o[x]]
      BY OverFacts, Zenon
    <3>2. hist = o
      BY <2>1
    <3> HIDE DEF o, hist
    <3> QED BY <3>1, <3>2
  <2> HIDE DEF coins, hist
  <2>2. /\ DOMAIN hist = DOMAIN w.hist \union {t} /\ hist[t] = entry
        /\ \A x \in DOMAIN w.hist \ {t} : hist[x] = w.hist[x]
        /\ hist = [x \in DOMAIN hist |-> hist[x]]
    BY <2>0, <2>1
  <2>3. hist \in HistMaps
    BY <1>2, <1>9, <2>2, MapsAre
  <2>4. p \in Wallets /\ p.coins = coins /\ p.hist = hist /\ p.synced = w.synced
    BY <1>1, <1>4, <1>8, <2>3 DEF Wallets
  <2> QED BY <1>7, <1>8a, <1>9, <1>12, <2>2, <2>4 DEF Processed
<1> QED BY <1>11, <1>12 DEF p

ProcessFcn(f, s, w, h) == [i \in 0..Len(s) |-> IF i = 0 THEN w ELSE ProcessTx(f[i - 1], s[i], h)]

\* The wallet after the transactions of a block, one by one.
LEMMA ProcessAllStep ==
    ASSUME NEW w \in Wallets, NEW h \in Int
    PROVE  /\ ProcessAll(w, <<>>, h) = w
           /\ \A s \in Seq(Tx) : ProcessAll(w, s, h) \in Wallets
           /\ \A s \in Seq(Tx) : \A x \in Tx :
                 ProcessAll(w, Append(s, x), h) = ProcessTx(ProcessAll(w, s, h), x, h)
<1> DEFINE V == Wallets
           v == w
           G == [x \in Tx |-> [a \in V |-> ProcessTx(a, x, h)]]
<1>1. Steps(Tx, V, v, G)
  BY ProcessTxFacts DEF Steps, Processed
<1>2. \A x \in Tx : \A a \in V : G[x][a] = ProcessTx(a, x, h)
  OBVIOUS
<1> HIDE DEF G, V, v
<1>3. TakesSteps(Tx, V, v, G)
  BY <1>1, RunStep
<1>4. ASSUME NEW s \in Seq(Tx) PROVE ProcessAll(w, s, h) = Run(G, v, s)
  <2>1. Ends(V, G, v, s)
    BY <1>1, RunExists
  <2>2. PICK r \in [0..Len(s) -> V] : IsRun(r, G, v, s)
    BY <2>1 DEF Ends
  <2>3. \A i \in 1..Len(s) : s[i] \in Tx /\ i - 1 \in 0..Len(s) /\ i \in 0..Len(s) /\ i # 0
    OBVIOUS
  <2>4. r[0] = v /\ \A i \in 1..Len(s) : r[i] = ProcessTx(r[i - 1], s[i], h)
    BY <1>2, <2>2, <2>3 DEF IsRun
  <2>5. r = ProcessFcn(r, s, w, h)
    BY <2>2, <2>4 DEF ProcessFcn, v
  <2> DEFINE c == CHOOSE f : f = ProcessFcn(f, s, w, h)
  <2>6. c = ProcessFcn(c, s, w, h)
    BY <2>5, Zenon
  <2>7. ProcessAll(w, s, h) = c[Len(s)]
    BY Zenon DEF ProcessAll, ProcessFcn
  <2> HIDE DEF c
  <2>8. ProcessFcn(c, s, w, h)[0] = v
    BY <2>3, 0 \in 0..Len(s), Zenon DEF ProcessFcn, v
  <2>9. ASSUME NEW i \in 1..Len(s)
        PROVE  ProcessFcn(c, s, w, h)[i] = ProcessTx(c[i - 1], s[i], h)
    BY <2>3, Zenon DEF ProcessFcn
  <2>10. c[0] = v /\ \A i \in 1..Len(s) : c[i - 1] \in V => c[i] = G[s[i]][c[i - 1]]
    BY <1>2, <2>3, <2>6, <2>8, <2>9
  <2>11. c[Len(s)] = Run(G, v, s)
    BY <1>1, <2>10, EndsAsRun
  <2> QED BY <2>7, <2>11
<1>5. <<>> \in Seq(Tx) /\ \A s \in Seq(Tx) : \A x \in Tx : Append(s, x) \in Seq(Tx)
  OBVIOUS
<1>6. ASSUME NEW s \in Seq(Tx), NEW x \in Tx
      PROVE  ProcessAll(w, Append(s, x), h) = ProcessTx(ProcessAll(w, s, h), x, h)
  <2>1. Append(s, x) \in Seq(Tx)
    BY <1>5
  <2>2. Run(G, v, s) \in V /\ Run(G, v, Append(s, x)) = G[x][Run(G, v, s)]
    BY <1>3 DEF TakesSteps
  <2> QED BY <1>2, <1>4, <2>1, <2>2
<1>7. ProcessAll(w, <<>>, h) = v /\ \A s \in Seq(Tx) : ProcessAll(w, s, h) \in V
  BY <1>3, <1>4, <1>5 DEF TakesSteps
<1> QED BY <1>6, <1>7 DEF V, v

RecordedFcn(f, s, w) == [i \in 0..Len(s) |-> IF i = 0 THEN w ELSE RecordedNext(f[i - 1], s[i])]

\* The wallet after the transactions new in the pool, one by one.
LEMMA RecordedStep ==
    ASSUME NEW w \in Wallets
    PROVE  /\ Recorded(w, <<>>) = w
           /\ \A s \in Seq(Tx) : Recorded(w, s) \in Wallets
           /\ \A s \in Seq(Tx) : \A x \in Tx :
                 Recorded(w, Append(s, x)) = RecordedNext(Recorded(w, s), x)
<1> DEFINE V == Wallets
           v == w
           G == [x \in Tx |-> [a \in V |-> RecordedNext(a, x)]]
<1>1. Steps(Tx, V, v, G)
  <2>1. \A a \in V : \A x \in Tx : RecordedNext(a, x) \in V
    BY ProcessTxFacts, -1 \in Int DEF RecordedNext, Processed
  <2> QED BY <2>1 DEF Steps
<1>2. \A x \in Tx : \A a \in V : G[x][a] = RecordedNext(a, x)
  OBVIOUS
<1> HIDE DEF G, V, v
<1>3. TakesSteps(Tx, V, v, G)
  BY <1>1, RunStep
<1>4. ASSUME NEW s \in Seq(Tx) PROVE Recorded(w, s) = Run(G, v, s)
  <2>1. Ends(V, G, v, s)
    BY <1>1, RunExists
  <2>2. PICK r \in [0..Len(s) -> V] : IsRun(r, G, v, s)
    BY <2>1 DEF Ends
  <2>3. \A i \in 1..Len(s) : s[i] \in Tx /\ i - 1 \in 0..Len(s) /\ i \in 0..Len(s) /\ i # 0
    OBVIOUS
  <2>4. r[0] = v /\ \A i \in 1..Len(s) : r[i] = RecordedNext(r[i - 1], s[i])
    BY <1>2, <2>2, <2>3 DEF IsRun
  <2>5. r = RecordedFcn(r, s, w)
    BY <2>2, <2>4 DEF RecordedFcn, v
  <2> DEFINE c == CHOOSE f : f = RecordedFcn(f, s, w)
  <2>6. c = RecordedFcn(c, s, w)
    BY <2>5, Zenon
  <2>7. Recorded(w, s) = c[Len(s)]
    BY Zenon DEF Recorded, RecordedFcn
  <2> HIDE DEF c
  <2>8. RecordedFcn(c, s, w)[0] = v
    BY <2>3, 0 \in 0..Len(s), Zenon DEF RecordedFcn, v
  <2>9. ASSUME NEW i \in 1..Len(s)
        PROVE  RecordedFcn(c, s, w)[i] = RecordedNext(c[i - 1], s[i])
    BY <2>3, Zenon DEF RecordedFcn
  <2>10. c[0] = v /\ \A i \in 1..Len(s) : c[i - 1] \in V => c[i] = G[s[i]][c[i - 1]]
    BY <1>2, <2>3, <2>6, <2>8, <2>9
  <2>11. c[Len(s)] = Run(G, v, s)
    BY <1>1, <2>10, EndsAsRun
  <2> QED BY <2>7, <2>11
<1>5. <<>> \in Seq(Tx) /\ \A s \in Seq(Tx) : \A x \in Tx : Append(s, x) \in Seq(Tx)
  OBVIOUS
<1>6. ASSUME NEW s \in Seq(Tx), NEW x \in Tx
      PROVE  Recorded(w, Append(s, x)) = RecordedNext(Recorded(w, s), x)
  <2>1. Append(s, x) \in Seq(Tx)
    BY <1>5
  <2>2. Run(G, v, s) \in V /\ Run(G, v, Append(s, x)) = G[x][Run(G, v, s)]
    BY <1>3 DEF TakesSteps
  <2> QED BY <1>2, <1>4, <2>1, <2>2
<1>7. Recorded(w, <<>>) = v /\ \A s \in Seq(Tx) : Recorded(w, s) \in V
  BY <1>3, <1>4, <1>5 DEF TakesSteps
<1> QED BY <1>6, <1>7 DEF V, v

\* A block connected.
LEMMA BlockConnectedFacts ==
    ASSUME NEW w \in Wallets, NEW b \in Block
    PROVE  /\ BlockConnected(w, b) \in Wallets /\ BlockConnected(w, b).synced = b
           /\ BlockConnected(w, b).hist = ProcessAll(w, TxsOf[b], Height(b)).hist
<1>1. Height(b) \in Int /\ TxsOf[b] \in Seq(Tx)
  BY ChainShape, BlockTreeAssumption
<1> DEFINE p == ProcessAll(w, TxsOf[b], Height(b))
<1>2. p \in Wallets
  BY <1>1, ProcessAllStep
<1>3. BlockConnected(w, b) = [p EXCEPT !.synced = b]
  BY DEF BlockConnected
<1> HIDE DEF p
<1>4. BlockConnected(w, b) \in Wallets /\ BlockConnected(w, b).synced = b /\ BlockConnected(w, b).hist = p.hist
  BY <1>2, <1>3 DEF Wallets
<1> QED BY <1>4 DEF p

ConnectedFcn(f, s, w) == [i \in 0..Len(s) |-> IF i = 0 THEN w ELSE BlockConnected(f[i - 1], s[i])]

\* The blocks of a path, one by one.
LEMMA AllConnectedStep ==
    ASSUME NEW w \in Wallets
    PROVE  /\ AllConnected(w, <<>>) = w
           /\ \A s \in Seq(Block) : AllConnected(w, s) \in Wallets
           /\ \A s \in Seq(Block) : \A x \in Block :
                 AllConnected(w, Append(s, x)) = BlockConnected(AllConnected(w, s), x)
<1> DEFINE V == Wallets
           v == w
           G == [x \in Block |-> [a \in V |-> BlockConnected(a, x)]]
<1>1. Steps(Block, V, v, G)
  BY BlockConnectedFacts DEF Steps
<1>2. \A x \in Block : \A a \in V : G[x][a] = BlockConnected(a, x)
  OBVIOUS
<1> HIDE DEF G, V, v
<1>3. TakesSteps(Block, V, v, G)
  BY <1>1, RunStep
<1>4. ASSUME NEW s \in Seq(Block) PROVE AllConnected(w, s) = Run(G, v, s)
  <2>1. Ends(V, G, v, s)
    BY <1>1, RunExists
  <2>2. PICK r \in [0..Len(s) -> V] : IsRun(r, G, v, s)
    BY <2>1 DEF Ends
  <2>3. \A i \in 1..Len(s) : s[i] \in Block /\ i - 1 \in 0..Len(s) /\ i \in 0..Len(s) /\ i # 0
    OBVIOUS
  <2>4. r[0] = v /\ \A i \in 1..Len(s) : r[i] = BlockConnected(r[i - 1], s[i])
    BY <1>2, <2>2, <2>3 DEF IsRun
  <2>5. r = ConnectedFcn(r, s, w)
    BY <2>2, <2>4 DEF ConnectedFcn, v
  <2> DEFINE c == CHOOSE f : f = ConnectedFcn(f, s, w)
  <2>6. c = ConnectedFcn(c, s, w)
    BY <2>5, Zenon
  <2>7. AllConnected(w, s) = c[Len(s)]
    BY Zenon DEF AllConnected, ConnectedFcn
  <2> HIDE DEF c
  <2>8. ConnectedFcn(c, s, w)[0] = v
    BY <2>3, 0 \in 0..Len(s), Zenon DEF ConnectedFcn, v
  <2>9. ASSUME NEW i \in 1..Len(s)
        PROVE  ConnectedFcn(c, s, w)[i] = BlockConnected(c[i - 1], s[i])
    BY <2>3, Zenon DEF ConnectedFcn
  <2>10. c[0] = v /\ \A i \in 1..Len(s) : c[i - 1] \in V => c[i] = G[s[i]][c[i - 1]]
    BY <1>2, <2>3, <2>6, <2>8, <2>9
  <2>11. c[Len(s)] = Run(G, v, s)
    BY <1>1, <2>10, EndsAsRun
  <2> QED BY <2>7, <2>11
<1>5. <<>> \in Seq(Block) /\ \A s \in Seq(Block) : \A x \in Block : Append(s, x) \in Seq(Block)
  OBVIOUS
<1>6. ASSUME NEW s \in Seq(Block), NEW x \in Block
      PROVE  AllConnected(w, Append(s, x)) = BlockConnected(AllConnected(w, s), x)
  <2>1. Append(s, x) \in Seq(Block)
    BY <1>5
  <2>2. Run(G, v, s) \in V /\ Run(G, v, Append(s, x)) = G[x][Run(G, v, s)]
    BY <1>3 DEF TakesSteps
  <2> QED BY <1>2, <1>4, <2>1, <2>2
<1>7. AllConnected(w, <<>>) = v /\ \A s \in Seq(Block) : AllConnected(w, s) \in V
  BY <1>3, <1>4, <1>5 DEF TakesSteps
<1> QED BY <1>6, <1>7 DEF V, v

\* A block disconnected.
LEMMA BlockDisconnectedFacts ==
    ASSUME NEW w \in Wallets, NEW b \in Block
    PROVE  LET d == BlockDisconnected(w, b)
           IN  /\ d \in Wallets /\ d.synced = Parent[b] /\ d.coins = w.coins
               /\ DOMAIN d.hist = {t \in DOMAIN w.hist : ~ (t \in TxSet(b) /\ Coinbase(t))}
               /\ \A t \in DOMAIN d.hist : t \notin TxSet(b) => d.hist[t] = w.hist[t]
<1> DEFINE d == BlockDisconnected(w, b)
           D == {t \in DOMAIN w.hist : ~ (t \in TxSet(b) /\ Coinbase(t))}
           hist == [t \in D |-> IF t \in TxSet(b) THEN [w.hist[t] EXCEPT !.height = -1] ELSE w.hist[t]]
<1>1. /\ w.coins \in CoinMaps /\ w.hist \in HistMaps /\ Parent[b] \in Block
      /\ w = [coins |-> w.coins, hist |-> w.hist, synced |-> w.synced]
  BY ChainShape DEF Wallets
<1>2. DOMAIN w.hist \in SUBSET Tx /\ \A t \in DOMAIN w.hist : w.hist[t] \in Entries
  BY <1>1, MapsAre
<1>3. /\ DOMAIN hist = D /\ D \in SUBSET Tx /\ hist = [t \in DOMAIN hist |-> hist[t]]
      /\ \A t \in D : hist[t] \in Entries /\ (t \notin TxSet(b) => hist[t] = w.hist[t])
  BY <1>2 DEF Entries
<1>4. d = [w EXCEPT !.synced = Parent[b], !.hist = hist]
  BY Zenon DEF BlockDisconnected
<1> HIDE DEF d, hist, D
<1>5. hist \in HistMaps
  BY <1>3, MapsAre
<1>6. d \in Wallets /\ d.synced = Parent[b] /\ d.coins = w.coins /\ d.hist = hist
  BY <1>1, <1>4, <1>5 DEF Wallets
<1>7. /\ DOMAIN d.hist = D
      /\ \A t \in D : t \notin TxSet(b) => d.hist[t] = w.hist[t]
  BY <1>3, <1>6
<1> QED BY <1>6, <1>7 DEF d, D

\* The height of a transaction in a chain.
LEMMA TxHeightFacts ==
    ASSUME NEW b \in Block, NEW t
    PROVE  /\ TxHeight(t, b) \in Int /\ TxHeight(t, b) >= -1
           /\ TxHeight(t, b) >= 0 <=> \E a \in Ancestors(b) : t \in TxSet(a)
           /\ TxHeight(t, b) >= 0 => \E a \in Ancestors(b) : t \in TxSet(a) /\ TxHeight(t, b) = Height(a)
<1>1. CASE \E a \in Ancestors(b) : t \in TxSet(a)
  <2> DEFINE a == CHOOSE a \in Ancestors(b) : t \in TxSet(a)
  <2>1. a \in Ancestors(b) /\ t \in TxSet(a)
    BY <1>1, Zenon
  <2>2. TxHeight(t, b) = Height(a)
    BY <1>1 DEF TxHeight
  <2> HIDE DEF a
  <2>3. Height(a) \in Nat
    BY <2>1, AncestorsOfAncestor, ChainShape
  <2> QED BY <1>1, <2>1, <2>2, <2>3
<1>2. CASE ~ \E a \in Ancestors(b) : t \in TxSet(a)
  <2>1. TxHeight(t, b) = -1
    BY <1>2 DEF TxHeight
  <2> QED BY <1>2, <2>1
<1> QED BY <1>1, <1>2

\* The refreshed wallet.
LEMMA RefreshedFacts ==
    ASSUME NEW w \in Wallets, NEW b \in Block, NEW pool \in Seq(Tx), NEW spent
    PROVE  LET r == Refreshed(w, b, pool, spent)
           IN  /\ r \in Wallets /\ r.synced = w.synced /\ r.hist = w.hist
               /\ r.coins = TrueCoins(b, pool, spent)
<1> DEFINE m == TrueCoins(b, pool, spent)
           r == Refreshed(w, b, pool, spent)
<1>1. m \in CoinMaps
  <2> DEFINE chained == {c \in Coins[b] : Mine(c)}
             pending == UNION {OwnOuts(pool[i]) : i \in DOMAIN pool}
  <2>1. DOMAIN m = chained \union pending /\ m = [c \in DOMAIN m |-> m[c]]
    BY DEF TrueCoins
  <2>2. chained \in CoinSets
    BY CoinsTyped DEF CoinSets
  <2>3. \A i \in DOMAIN pool : OwnOuts(pool[i]) \in CoinSets
    <3>1. ASSUME NEW i \in DOMAIN pool PROVE OutCoins(pool[i]) \in CoinSets
      BY ApplyCoins, pool[i] \in Tx, {} \in CoinSets DEF CoinSets
    <3> QED BY <3>1 DEF OwnOuts, CoinSets
  <2>4. pending \in CoinSets
    BY <2>3 DEF CoinSets
  <2>5. \A c \in DOMAIN m : m[c] = [height |-> IF c \in chained THEN TxHeight(c[1], b) ELSE -1,
                                    locked |-> c \in spent]
    BY DEF TrueCoins
  <2>6. \A c \in DOMAIN m : m[c] \in CoinStates
    <3> HIDE DEF chained, m
    <3>1. ASSUME NEW c \in DOMAIN m PROVE m[c] \in CoinStates
      <4> DEFINE l == c \in spent
                 x == IF c \in chained THEN TxHeight(c[1], b) ELSE -1
      <4>1. l \in BOOLEAN /\ x \in Int
        BY TxHeightFacts
      <4>2. m[c] = [height |-> x, locked |-> l]
        BY <2>5
      <4> HIDE DEF l, x
      <4> QED BY <4>1, <4>2 DEF CoinStates
    <3> QED BY <3>1
  <2> HIDE DEF chained, pending, m
  <2>7. DOMAIN m \in CoinSets
    BY <2>1, <2>2, <2>4 DEF CoinSets
  <2> QED BY <2>1, <2>6, <2>7, MapsAre
<1>2. r = [w EXCEPT !.coins = m]
  BY DEF Refreshed
<1> HIDE DEF m, r
<1>3. r \in Wallets /\ r.synced = w.synced /\ r.hist = w.hist /\ r.coins = m
  BY <1>1, <1>2 DEF Wallets
<1> QED BY <1>3 DEF m, r

\* Recording pending transactions leaves the block the wallet is at.
LEMMA RecordedSynced ==
    ASSUME NEW w \in Wallets, NEW ts \in Seq(Tx)
    PROVE  Recorded(w, ts) \in Wallets /\ Recorded(w, ts).synced = w.synced
<1> DEFINE T == {p \in Seq(Tx) : Recorded(w, p).synced = w.synced}
<1>1. <<>> \in T
  BY RecordedStep
<1>2. ASSUME NEW p \in Seq(Tx), NEW x \in Tx, p \in T PROVE Append(p, x) \in T
  <2> DEFINE r == Recorded(w, p)
  <2>1. /\ r \in Wallets /\ r.synced = w.synced /\ Recorded(w, Append(p, x)) = RecordedNext(r, x)
        /\ Append(p, x) \in Seq(Tx)
    BY <1>2, RecordedStep, AppendFacts
  <2> HIDE DEF r
  <2>2. RecordedNext(r, x).synced = r.synced
    <3> DEFINE m == -1
    <3>1. m \in Int
      OBVIOUS
    <3> HIDE DEF m
    <3>2. Processed(r, x, m, ProcessTx(r, x, m))
      BY <2>1, <3>1, ProcessTxFacts
    <3>3. ProcessTx(r, x, m).synced = r.synced
      BY <3>2 DEF Processed
    <3> QED BY <3>3 DEF RecordedNext, m
  <2> QED BY <2>1, <2>2
<1> HIDE DEF T
<1>3. ts \in T
  BY <1>1, <1>2, SeqUpward
<1> QED BY <1>3, RecordedStep DEF T

\* Connecting the blocks of a path leaves the wallet at the last one.
LEMMA AllConnectedSynced ==
    ASSUME NEW w \in Wallets, NEW path \in Seq(Block)
    PROVE  /\ AllConnected(w, path) \in Wallets
           /\ AllConnected(w, path).synced = IF path = <<>> THEN w.synced ELSE path[Len(path)]
<1> DEFINE LastSeen(p) == IF p = <<>> THEN w.synced ELSE p[Len(p)]
           T == {p \in Seq(Block) : AllConnected(w, p).synced = LastSeen(p)}
<1>1. <<>> \in T
  BY AllConnectedStep
<1>2. ASSUME NEW p \in Seq(Block), NEW x \in Block PROVE Append(p, x) \in T
  <2> DEFINE r == AllConnected(w, p)
  <2>1. /\ r \in Wallets /\ AllConnected(w, Append(p, x)) = BlockConnected(r, x)
        /\ Append(p, x) \in Seq(Block)
    BY AllConnectedStep, AppendFacts
  <2>2. Append(p, x) # <<>> /\ Append(p, x)[Len(Append(p, x))] = x
    OBVIOUS
  <2> HIDE DEF r
  <2>3. AllConnected(w, Append(p, x)).synced = x
    BY <2>1, BlockConnectedFacts
  <2>4. LastSeen(Append(p, x)) = x
    BY <2>2
  <2> HIDE DEF LastSeen
  <2> QED BY <2>1, <2>3, <2>4
<1> HIDE DEF T
<1>3. path \in T
  BY <1>1, <1>2, SeqUpward
<1> QED BY <1>3, AllConnectedStep DEF T

\* The part of a chain the wallet has not seen is a path, which ends in the tip
\* or is empty.
Unseen(w, b) == SubSeq(Chain(b), IF IsAncestor(w.synced, b) THEN Height(w.synced) + 2 ELSE 1, Len(Chain(b)))

\* Catching up connects it.
LEMMA UnseenFacts ==
    ASSUME NEW w \in Wallets, NEW b \in Block
    PROVE  /\ Unseen(w, b) \in Seq(Block)
           /\ Unseen(w, b) = <<>> => w.synced = b
           /\ Unseen(w, b) # <<>> => Unseen(w, b)[Len(Unseen(w, b))] = b
           /\ CaughtUp(w, b) = AllConnected(w, Unseen(w, b))
<1> DEFINE C == Chain(b)
           n == Len(C)
           k == IF IsAncestor(w.synced, b) THEN Height(w.synced) + 2 ELSE 1
<1>1. C \in Seq(Block) /\ n \in Nat \ {0} /\ C[n] = b /\ n = Len(C)
  BY ChainShape, OwnAncestor
<1>2. /\ k \in 1..n + 1
      /\ k = n + 1 => w.synced = b
  <2>1. CASE IsAncestor(w.synced, b)
    <3>1. PICK i \in 1..n : w.synced = C[i]
      BY <2>1, AncestorsAre DEF IsAncestor
    <3>2. Len(Chain(w.synced)) = i
      BY <3>1, AncestorPrefix
    <3>3. k = i + 1
      BY <2>1, <3>2 DEF Height
    <3> HIDE DEF k, n, C
    <3> QED BY <1>1, <3>1, <3>3
  <2>2. CASE ~ IsAncestor(w.synced, b)
    BY <1>1, <2>2
  <2> QED BY <2>1, <2>2
<1>3. Unseen(w, b) = SubSeq(C, k, n) /\ CaughtUp(w, b) = AllConnected(w, SubSeq(C, k, n))
  BY DEF Unseen, CaughtUp, ConnectedFrom
<1> HIDE DEF k, n, C
<1>0. SUFFICES SubSeq(C, k, n) \in Seq(Block) /\ IF SubSeq(C, k, n) = <<>> THEN w.synced = b
                                              ELSE SubSeq(C, k, n)[Len(SubSeq(C, k, n))] = b
  BY <1>3
<1>4. CASE k = n + 1
  <2>1. SubSeq(C, k, n) = <<>> /\ <<>> \in Seq(Block)
    BY <1>1, <1>4
  <2> QED BY <1>2, <1>4, <2>1
<1>5. CASE k # n + 1
  <2>1. k \in 1..n /\ n \in 1..n
    BY <1>1, <1>2, <1>5
  <2>2. Len(SubSeq(C, k, n)) = n - k + 1 /\ SubSeq(C, k, n) \in Seq(Block)
    <3>1. \A i \in k..n : C[i] \in Block
      BY <1>1, <2>1
    <3> QED BY <1>1, <2>1, <3>1
  <2>3. n - k + 1 \in 1..(n - k + 1) /\ k + (n - k + 1) - 1 = n
    BY <1>1, <2>1
  <2>4. SubSeq(C, k, n)[n - k + 1] = C[n]
    BY <1>1, <2>1, <2>3
  <2> DEFINE u == SubSeq(C, k, n)
  <2>5. Len(u) = n - k + 1 /\ u \in Seq(Block) /\ u[n - k + 1] = b /\ n - k + 1 # 0
    BY <1>1, <2>1, <2>2, <2>3, <2>4
  <2> HIDE DEF u
  <2>6. u # <<>> /\ u[Len(u)] = b
    BY <2>5
  <2> QED BY <2>5, <2>6 DEF u
<1> QED BY <1>4, <1>5

\* A wallet that has caught up is at the tip.
LEMMA CaughtUpSynced ==
    ASSUME NEW w \in Wallets, NEW b \in Block
    PROVE  CaughtUp(w, b) \in Wallets /\ CaughtUp(w, b).synced = b
<1> DEFINE u == Unseen(w, b)
<1>1. /\ u \in Seq(Block) /\ (u = <<>> => w.synced = b) /\ (u # <<>> => u[Len(u)] = b)
      /\ CaughtUp(w, b) = AllConnected(w, u)
  BY UnseenFacts
<1> HIDE DEF u
<1>2. /\ AllConnected(w, u) \in Wallets
      /\ AllConnected(w, u).synced = IF u = <<>> THEN w.synced ELSE u[Len(u)]
  BY <1>1, AllConnectedSynced
<1> QED BY <1>1, <1>2

(***************************************************************************)
(* The listeners' state                                                    *)
(***************************************************************************)
PoolInv ==
    /\ order \in Seq(Tx) /\ NoRepeat(order)
    /\ Len(order) <= MaxPool
    /\ readd \in Seq(Tx) /\ dirty \in BOOLEAN
    /\ ~ dirty => Settled(order, tip)
    /\ mode = "down" => order = <<>> /\ readd = <<>> /\ ~ dirty

WalletInv ==
    /\ wallet \in Wallets /\ walletFile \in Wallets
    /\ wallet.synced \in known /\ walletFile.synced \in known

HistoryInv == told \in BOOLEAN /\ restarts \in 0..MaxRestarts

ListenInv == PoolInv /\ WalletInv /\ HistoryInv

\* An empty pool is settled on every chain.
LEMMA EmptySettled ==
    ASSUME NEW b \in Block
    PROVE  Settled(<<>>, b)
<1>1. Kept(<<>>, b).ord = <<>>
  BY KeptStep
<1> QED BY <1>1, PoolAssumption DEF Settled, NoRepeat

\* The listeners' invariant holds at the start.
LEMMA ListenInit == Init => ListenInv
<1> SUFFICES ASSUME Init PROVE ListenInv
  OBVIOUS
<1>1. NewWallet \in Wallets /\ NewWallet.synced = Genesis
  <2> DEFINE e == [coins |-> <<>>, hist |-> <<>>, synced |-> Genesis]
  <2>1. <<>> \in CoinMaps /\ <<>> \in HistMaps
    <3>1. DOMAIN <<>> = {} /\ <<>> = [x \in DOMAIN <<>> |-> <<>>[x]]
      OBVIOUS
    <3>2. {} \in CoinSets /\ {} \in SUBSET Tx
      BY DEF CoinSets
    <3> QED BY <3>1, <3>2, MapsAre
  <2>2. e \in Wallets /\ Genesis \in Block
    BY <2>1, BlockTreeAssumption DEF Wallets
  <2> HIDE DEF e
  <2>3. NewWallet = BlockConnected(e, Genesis)
    BY DEF NewWallet, e
  <2> QED BY <2>2, <2>3, BlockConnectedFacts
<1>2. Settled(<<>>, Genesis)
  BY EmptySettled, BlockTreeAssumption
<1>3. order = <<>> /\ readd = <<>> /\ dirty = FALSE /\ tip = Genesis
  BY DEF Init, PoolInit
<1>4. PoolInv
  BY <1>2, <1>3 DEF PoolInv, Settled
<1>5. WalletInv
  BY <1>1 DEF Init, WalletInit, WalletInv
<1> QED BY <1>4, <1>5, NodeAssumption DEF Init, ListenInv, HistoryInv

\* Whatever is offered, the pool is settled on the tip afterwards.
LEMMA OfferedSettled ==
    ASSUME PoolInv, tip \in Block, NEW ts \in Seq(Tx)
    PROVE  /\ Settled(Rebuilt(tip), tip) /\ Range(Rebuilt(tip)) \subseteq Range(order)
           /\ Settled(Offered(Rebuilt(tip), tip, ts), tip)
<1>1. Settled(Rebuilt(tip), tip) /\ Range(Rebuilt(tip)) \subseteq Range(order)
  BY KeptSettled, KeptFacts DEF PoolInv, Rebuilt, KeptWell
<1> QED BY <1>1, OfferedFacts

\* A step that offers transactions to the pool, and keeps the tip.
LEMMA OfferStep ==
    ASSUME PoolInv, tip \in Block, NEW ts \in Seq(Tx), mode # "down",
           order' = Offered(Rebuilt(tip), tip, ts), dirty' = FALSE, readd' \in Seq(Tx),
           tip' = tip, mode' = mode
    PROVE  PoolInv' /\ NewInPool \in Seq(Tx)
<1>1. Settled(order', tip)
  BY OfferedSettled
<1>2. Settled(order, tip)'
  BY <1>1 DEF Settled
<1>3. order' \in Seq(Tx) /\ NoRepeat(order') /\ Len(order') <= MaxPool
  BY <1>1 DEF Settled
<1>4. PoolInv'
  BY <1>2, <1>3 DEF PoolInv, NoRepeat
<1>5. NewInPool \in Seq(Tx)
  BY <1>3, FilterFacts DEF NewInPool
<1> QED BY <1>4, <1>5

\* A step that leaves the pool alone, and the tip if the pool is settled on it.
LEMMA PoolSame ==
    ASSUME PoolInv, UNCHANGED poolVars, mode' # "down" \/ mode = "down", UNCHANGED tip \/ dirty \/ order = <<>>,
           tip' \in Block
    PROVE  PoolInv'
<1>1. order' = order /\ readd' = readd /\ dirty' = dirty
  BY DEF poolVars
<1>2. ~ dirty => Settled(order, tip')
  <2>1. CASE UNCHANGED tip
    BY <2>1 DEF PoolInv
  <2>2. CASE order = <<>>
    BY <2>2, EmptySettled
  <2> QED BY <2>1, <2>2
<1>3. ~ dirty' => Settled(order, tip)'
  BY <1>1, <1>2 DEF Settled
<1> QED BY <1>1, <1>3 DEF PoolInv, NoRepeat

\* Between steps of the wallet nothing changes for it but that more blocks are
\* known.
LEMMA WalletSame ==
    ASSUME WalletInv, UNCHANGED walletVars, known \subseteq known'
    PROVE  WalletInv'
BY DEF WalletInv, walletVars

\* Undoing and connecting a block leave the pool to be looked at again.
LEMMA ListenMove ==
    ASSUME ChainInv, ListenInv, DisconnectTip \/ ConnectBlock
    PROVE  ListenInv'
<1>1. /\ tip \in Block /\ cand \in Block /\ known \subseteq Block /\ from # None /\ mode # "down"
      /\ Ancestors(tip) \subseteq known /\ Ancestors(cand) \subseteq known
      /\ Height(tip) < Height(cand) /\ Height(cand) \in Nat /\ Height(tip) \in Nat
  BY ChainShape DEF ChainInv, DisconnectTip, ConnectBlock, OnSound
<1>2. CASE DisconnectTip
  <2>1. tip # Genesis
    BY <1>1, <1>2, GenesisAncestor DEF DisconnectTip, IsAncestor
  <2>2. Parent[tip] \in Ancestors(tip) /\ Parent[tip] \in known
    BY <1>1, <2>1, ParentAncestors, OwnAncestor, ChainShape
  <2>3. Tail(TxsOf[tip]) \in Seq(Tx)
    BY <1>1, BlockTreeAssumption
  <2>4. PoolInv'
    <3>1. /\ readd' = readd \o Tail(TxsOf[tip]) /\ dirty' = TRUE /\ order' = order
          /\ mode' = mode
      BY <1>2 DEF DisconnectTip, PoolDisconnect
    <3>2. readd' \in Seq(Tx)
      BY <2>3, <3>1 DEF ListenInv, PoolInv
    <3> QED BY <1>1, <3>1, <3>2 DEF ListenInv, PoolInv, NoRepeat
  <2>5. WalletInv'
    <3>1. /\ wallet' = IF Running THEN BlockDisconnected(wallet, tip) ELSE wallet
          /\ UNCHANGED <<walletFile, known>>
      BY <1>2 DEF DisconnectTip
    <3>2. BlockDisconnected(wallet, tip) \in Wallets /\ BlockDisconnected(wallet, tip).synced = Parent[tip]
      BY <1>1, BlockDisconnectedFacts DEF ListenInv, WalletInv
    <3> QED BY <2>2, <3>1, <3>2 DEF ListenInv, WalletInv
  <2> QED BY <1>2, <2>4, <2>5 DEF ListenInv, HistoryInv, DisconnectTip
<1>3. CASE ConnectBlock
  <2> DEFINE n == NextBlock
  <2>1. tip \in Ancestors(cand) /\ tip # cand
    BY <1>1, <1>3 DEF ConnectBlock, IsAncestor
  <2>2. n \in Ancestors(cand) /\ n \in Block
    BY <1>1, <2>1, NextAbove
  <2>3. /\ PoolConnect(n) /\ wallet' = IF Running THEN BlockConnected(wallet, n) ELSE wallet
        /\ UNCHANGED <<walletFile, mode, known, told, restarts>>
    BY <1>3 DEF ConnectBlock
  <2> HIDE DEF n
  <2>4. PoolInv'
    <3> DEFINE f == Filter(order, Tx \ TxSet(n))
    <3>1. order' = f /\ dirty' = TRUE /\ readd' = readd /\ order \in Seq(Tx)
      BY <2>3 DEF PoolConnect, ListenInv, PoolInv
    <3>2. f \in Seq(Tx) /\ NoRepeat(f) /\ Len(f) <= Len(order)
      BY <3>1, FilterFacts DEF ListenInv, PoolInv
    <3> HIDE DEF f
    <3>3. Len(f) \in Nat /\ Len(order) \in Nat /\ Len(order) <= MaxPool /\ MaxPool \in Nat
      BY <3>1, <3>2, PoolAssumption DEF ListenInv, PoolInv
    <3>4. Len(f) <= MaxPool
      BY <3>2, <3>3
    <3> QED BY <1>1, <2>3, <3>1, <3>2, <3>4 DEF ListenInv, PoolInv, NoRepeat
  <2>5. WalletInv'
    BY <1>1, <2>2, <2>3, BlockConnectedFacts DEF ListenInv, WalletInv
  <2> QED BY <2>3, <2>4, <2>5 DEF ListenInv, HistoryInv
<1> QED BY <1>2, <1>3

\* The callback on the tip.
LEMMA ListenTip ==
    ASSUME ChainInv, ListenInv, NewTip
    PROVE  ListenInv'
<1>1. /\ tip \in Block /\ mode # "down"
      /\ UNCHANGED <<mode, tip, known, restarts>> /\ told' = TRUE
      /\ PoolTip(tip)
  BY DEF ChainInv, NewTip, Activated, OnSound, Running
<1>2. PoolInv' /\ NewInPool \in Seq(Tx)
  <2>1. order' = Offered(Rebuilt(tip), tip, readd) /\ readd' = <<>> /\ dirty' = FALSE
    BY <1>1 DEF PoolTip
  <2>2. readd \in Seq(Tx) /\ readd' \in Seq(Tx)
    BY <2>1 DEF ListenInv, PoolInv
  <2> QED BY <1>1, <2>1, <2>2, OfferStep DEF ListenInv
<1>3. WalletInv'
  <2>1. CASE Running
    <3> DEFINE w == Recorded(wallet, NewInPool)
               r == Refreshed(w, tip, order', PoolSpends(order'))
    <3>1. w \in Wallets /\ w.synced = wallet.synced
      BY <1>2, RecordedSynced DEF ListenInv, WalletInv
    <3>2. wallet' = r /\ walletFile' \in {wallet', IF w = wallet THEN walletFile ELSE w}
      BY <2>1 DEF NewTip
    <3>3. order' \in Seq(Tx)
      BY <1>2 DEF PoolInv
    <3> HIDE DEF w
    <3>4. r \in Wallets /\ r.synced = w.synced
      <4> DEFINE o == order'
                 s == PoolSpends(o)
      <4>1. o \in Seq(Tx)
        BY <3>3
      <4> HIDE DEF o, s
      <4>2. Refreshed(w, tip, o, s) \in Wallets /\ Refreshed(w, tip, o, s).synced = w.synced
        BY <1>1, <3>1, <4>1, RefreshedFacts
      <4> QED BY <4>2 DEF o, s
    <3> HIDE DEF r
    <3> QED BY <1>1, <3>1, <3>2, <3>4 DEF ListenInv, WalletInv
  <2>2. CASE ~ Running
    BY <1>1, <2>2, WalletSame DEF NewTip, ListenInv
  <2> QED BY <2>1, <2>2
<1> QED BY <1>1, <1>2, <1>3 DEF ListenInv, HistoryInv

\* A transaction submitted or sent.
LEMMA ListenTx ==
    ASSUME ChainInv, ListenInv, NEW t \in Tx, SubmitTx(t) \/ SendTx(t)
    PROVE  ListenInv'
<1>1. /\ tip \in Block /\ Idle /\ PoolAccept(tip, t) /\ UNCHANGED chainVars
  BY DEF ChainInv, OnSound, SubmitTx, SendTx
<1>2. /\ UNCHANGED <<mode, tip, known, told, restarts>> /\ mode = "up"
      /\ <<t>> \in Seq(Tx)
  BY <1>1 DEF chainVars, Idle
<1>3. PoolInv' /\ NewInPool \in Seq(Tx)
  BY <1>1, <1>2, OfferStep DEF PoolAccept, ListenInv, PoolInv
<1> DEFINE w == Recorded(wallet, NewInPool)
           p == ProcessTx(w, t, -1)
<1>4. w \in Wallets /\ w.synced = wallet.synced
  BY <1>3, RecordedSynced DEF ListenInv, WalletInv
<1>5. /\ wallet' \in {wallet, w, p}
      /\ walletFile' \in {walletFile, wallet'}
  BY DEF SubmitTx, SendTx
<1> HIDE DEF w
<1>6. p \in Wallets /\ p.synced = w.synced
  <2> DEFINE m == -1
  <2>1. m \in Int
    OBVIOUS
  <2> HIDE DEF m
  <2>2. Processed(w, t, m, ProcessTx(w, t, m))
    BY <1>4, <2>1, ProcessTxFacts
  <2>3. ProcessTx(w, t, m) \in Wallets /\ ProcessTx(w, t, m).synced = w.synced
    BY <2>2 DEF Processed
  <2> QED BY <2>3 DEF m
<1> HIDE DEF p
<1>7. WalletInv'
  BY <1>2, <1>4, <1>5, <1>6 DEF ListenInv, WalletInv
<1> QED BY <1>2, <1>3, <1>7 DEF ListenInv, HistoryInv

\* Every step keeps the listeners' invariant.
LEMMA ListenStep ==
    ASSUME ChainInv, ListenInv, [Next]_vars
    PROVE  ListenInv'
<1>0. tip' \in Block /\ tip \in Block
  BY ChainStep DEF ChainInv, OnSound
<1>1. ASSUME NEW b \in Block, ReceiveBlock(b) PROVE ListenInv'
  <2>1. /\ UNCHANGED <<poolVars, walletVars, mode, tip, told, restarts>>
        /\ known' = known \union {b}
    BY <1>1 DEF ReceiveBlock
  <2> QED BY <1>0, <2>1, PoolSame, WalletSame DEF ListenInv, HistoryInv
<1>2. ASSUME NEW b \in Block, SelectCandidate(b) PROVE ListenInv'
  <2>1. UNCHANGED <<poolVars, walletVars, mode, tip, known, told, restarts>>
    BY <1>2 DEF SelectCandidate
  <2> QED BY <1>0, <2>1, PoolSame, WalletSame DEF ListenInv, HistoryInv
<1>3. CASE Quiet
  <2>1. UNCHANGED <<poolVars, walletVars, mode, tip, known, told, restarts>>
    BY <1>3, QuietLeaves
  <2> QED BY <1>0, <2>1, PoolSame, WalletSame DEF ListenInv, HistoryInv
<1>4. CASE SameTip
  <2>1. UNCHANGED <<poolVars, walletVars, mode, tip, known, restarts>> /\ told' = (told /\ ~ dirty)
    BY <1>4 DEF SameTip
  <2>2. told' \in BOOLEAN
    BY <2>1
  <2> QED BY <1>0, <2>1, <2>2, PoolSame, WalletSame DEF ListenInv, HistoryInv
<1>5. CASE Stop \/ Crash
  <2>1. /\ order' = <<>> /\ readd' = <<>> /\ dirty' = FALSE /\ mode' = "down"
        /\ UNCHANGED <<tip, known, told>> /\ restarts' = restarts + 1 /\ restarts < MaxRestarts
        /\ wallet' = wallet /\ walletFile' \in {wallet, walletFile}
    BY <1>5 DEF Stop, Crash, MemoryLost, walletVars
  <2>2. Settled(<<>>, tip)
    BY <1>0, EmptySettled
  <2>3. Settled(order, tip)'
    BY <2>1, <2>2 DEF Settled
  <2>4. PoolInv'
    BY <2>1, <2>3 DEF PoolInv, Settled, NoRepeat
  <2>5. WalletInv'
    BY <2>1 DEF ListenInv, WalletInv
  <2>6. HistoryInv'
    BY <2>1, NodeAssumption DEF ListenInv, HistoryInv
  <2> QED BY <2>4, <2>5, <2>6 DEF ListenInv
<1>6. CASE Start
  <2>1. UNCHANGED <<poolVars, walletVars, known, told, restarts>> /\ mode = "down" /\ mode' = "loading"
    BY <1>6 DEF Start
  <2>2. order = <<>>
    BY <2>1 DEF ListenInv, PoolInv
  <2> QED BY <1>0, <2>1, <2>2, PoolSame, WalletSame DEF ListenInv, HistoryInv
<1>7. CASE Started
  <2> DEFINE w == CaughtUp(walletFile, tip)
             r == Refreshed(w, tip, order, PoolSpends(order))
  <2>1. /\ UNCHANGED <<poolVars, tip, known, restarts>> /\ mode' = "up" /\ told' = TRUE
        /\ wallet' = r /\ walletFile' = r
    BY <1>7 DEF Started
  <2>2. w \in Wallets /\ w.synced = tip
    BY <1>0, CaughtUpSynced DEF ListenInv, WalletInv
  <2>3. order \in Seq(Tx) /\ tip \in known
    BY <1>0, OwnAncestor DEF ListenInv, PoolInv, ChainInv, OnSound
  <2> HIDE DEF w
  <2>4. r \in Wallets /\ r.synced = tip
    BY <1>0, <2>2, <2>3, RefreshedFacts
  <2> HIDE DEF r
  <2>5. WalletInv'
    BY <2>1, <2>3, <2>4 DEF WalletInv
  <2> QED BY <1>0, <2>1, <2>5, PoolSame DEF ListenInv, HistoryInv
<1>8. CASE UNCHANGED vars
  <2>1. UNCHANGED <<poolVars, walletVars, mode, tip, known, told, restarts>>
    BY <1>8 DEF vars, chainVars
  <2> QED BY <1>0, <2>1, PoolSame, WalletSame DEF ListenInv, HistoryInv
<1> QED BY <1>1, <1>2, <1>3, <1>4, <1>5, <1>6, <1>7, <1>8, ListenMove, ListenTip, ListenTx DEF Next, Quiet

\* The pool's part of the invariant is what PoolApplies says.
LEMMA ListenApplies == ChainInv /\ ListenInv /\ torn \in BOOLEAN => PoolApplies
<1> SUFFICES ASSUME ChainInv, ListenInv, torn \in BOOLEAN PROVE PoolApplies
  OBVIOUS
<1>1. Cardinality(Range(order)) = Len(order)
  BY NoRepeatCount DEF ListenInv, PoolInv
<1>2. /\ mode \in {"up", "loading", "down"} /\ {tip, flushed} \subseteq known /\ known \subseteq Block
      /\ failed \subseteq Block /\ {from, cand} \subseteq Block \union {None}
      /\ candidates \subseteq known /\ faults \in 0..MaxFaults /\ cut \in BOOLEAN
  BY OwnAncestor DEF ChainInv, OnSound
<1>3. TypeOK
  BY <1>1, <1>2 DEF TypeOK, ListenInv, PoolInv, WalletInv, HistoryInv
<1> QED BY <1>3 DEF PoolApplies, ListenInv, PoolInv, Settled, select_for_block

(***************************************************************************)
(* The wallet's coins                                                      *)
(***************************************************************************)
\* A sequence of transactions adds nothing to a view but their outputs.
LEMMA AppliedFrom ==
    ASSUME NEW view \in CoinSets, NEW ts \in Seq(Tx)
    PROVE  ApplyAll(view, ts) \subseteq view \union UNION {OutCoins(t) : t \in Range(ts)}
<1> DEFINE From(p) == view \union UNION {OutCoins(t) : t \in Range(p)}
           T == {p \in Seq(Tx) : ApplyAll(view, p) \subseteq From(p)}
<1>1. <<>> \in T
  BY ApplyAllStep
<1>2. ASSUME NEW p \in Seq(Tx), NEW x \in Tx, p \in T PROVE Append(p, x) \in T
  <2>1. /\ ApplyAll(view, Append(p, x)) = Apply(ApplyAll(view, p), x)
        /\ Range(Append(p, x)) = Range(p) \union {x} /\ Append(p, x) \in Seq(Tx)
    BY ApplyAllStep, AppendFacts
  <2>2. From(p) \subseteq From(Append(p, x)) /\ OutCoins(x) \subseteq From(Append(p, x))
    BY <2>1
  <2>3. ApplyAll(view, p) \subseteq From(p)
    BY <1>2
  <2> HIDE DEF From
  <2> QED BY <2>1, <2>2, <2>3 DEF Apply
<1> HIDE DEF T
<1>3. ts \in T
  BY <1>1, <1>2, SeqUpward
<1> QED BY <1>3 DEF T

\* The coins of a chain are outputs of its transactions.
LEMMA CoinsFrom ==
    ASSUME NEW b \in Block, NEW c \in Coins[b]
    PROVE  \E a \in Ancestors(b) : \E t \in TxSet(a) : t \in Tx /\ c \in OutCoins(t) /\ c[1] = t
<1> DEFINE Paid(a) == UNION {OutCoins(t) : t \in TxSet(a)}
           T == {p \in Seq(Block) : CoinsAfter(p) \subseteq UNION {Paid(a) : a \in Range(p)}}
<1>1. <<>> \in T
  BY CoinsAfterStep
<1>2. ASSUME NEW p \in Seq(Block), NEW x \in Block, p \in T PROVE Append(p, x) \in T
  <2>1. /\ CoinsAfter(Append(p, x)) = ApplyAll(CoinsAfter(p), TxsOf[x]) /\ CoinsAfter(p) \in CoinSets
        /\ Range(Append(p, x)) = Range(p) \union {x} /\ Append(p, x) \in Seq(Block)
    BY CoinsAfterStep, AppendFacts
  <2>2. TxsOf[x] \in Seq(Tx)
    BY BlockTreeAssumption
  <2>3. ApplyAll(CoinsAfter(p), TxsOf[x]) \subseteq CoinsAfter(p) \union Paid(x)
    BY <2>1, <2>2, AppliedFrom DEF TxSet
  <2> HIDE DEF Paid
  <2>4. CoinsAfter(p) \subseteq UNION {Paid(a) : a \in Range(p)}
    BY <1>2
  <2> QED BY <2>1, <2>3, <2>4
<1> HIDE DEF T
<1>3. Chain(b) \in T
  BY <1>1, <1>2, SeqUpward, ChainShape
<1>4. PICK a \in Range(Chain(b)) : c \in Paid(a)
  BY <1>3, CoinsTyped DEF T
<1>5. a \in Ancestors(b) /\ a \in Block
  BY <1>4, AncestorsOfAncestor DEF Ancestors, AncestorSets
<1>6. PICK t \in TxSet(a) : c \in OutCoins(t)
  BY <1>4
<1>7. t \in Tx
  BY <1>5, <1>6, BlockTreeAssumption, RangeFacts DEF TxSet
<1>8. c[1] = t
  BY <1>6 DEF OutCoins
<1> QED BY <1>5, <1>6, <1>7, <1>8

\* What the kept transactions spend, and what they leave, are coins of the
\* chain or their outputs.
LEMMA KeptFrom ==
    ASSUME NEW b \in Block, NEW s \in Seq(Tx)
    PROVE  LET k == Kept(s, b)
               From == Coins[b] \union UNION {OutCoins(t) : t \in Range(k.ord)}
           IN  k.view \subseteq From /\ \A t \in Range(k.ord) : Ins[t] \subseteq From
<1> DEFINE From(r) == Coins[b] \union UNION {OutCoins(t) : t \in Range(r)}
           Holds(k) == k.view \subseteq From(k.ord) /\ \A t \in Range(k.ord) : Ins[t] \subseteq From(k.ord)
           T == {p \in Seq(Tx) : Holds(Kept(p, b))}
<1>1. <<>> \in T
  <2>1. Kept(<<>>, b).ord = <<>> /\ Kept(<<>>, b).view = Coins[b]
    BY KeptStep
  <2>2. Range(<<>>) = {}
    BY DEF Range
  <2> QED BY <2>1, <2>2
<1>2. ASSUME NEW p \in Seq(Tx), NEW x \in Tx, p \in T PROVE Append(p, x) \in T
  <2> DEFINE k == Kept(p, b)
             q == Append(p, x)
  <2>1. k \in KeptSet /\ Kept(q, b) = KeptNext(k, b, x) /\ q \in Seq(Tx)
    BY KeptStep, AppendFacts
  <2>2. Holds(k) /\ k.ord \in Seq(Tx)
    BY <1>2, <2>1 DEF KeptSet
  <2> HIDE DEF k, q
  <2>3. ASSUME Applies(k.view, b, x) PROVE Holds(Kept(q, b))
    <3> DEFINE r == Append(k.ord, x)
               v == Apply(k.view, x)
    <3>1. Range(r) = Range(k.ord) \union {x}
      BY <2>2, AppendFacts
    <3> HIDE DEF r
    <3>2. From(k.ord) \subseteq From(r) /\ OutCoins(x) \subseteq From(r)
      BY <3>1
    <3>3. Ins[x] \subseteq k.view
      BY <2>3 DEF Applies
    <3>4. v \subseteq From(r) /\ \A t \in Range(r) : Ins[t] \subseteq From(r)
      <4> HIDE DEF From
      <4>1. k.view \subseteq From(k.ord) /\ \A t \in Range(k.ord) : Ins[t] \subseteq From(k.ord)
        BY <2>2
      <4> QED BY <3>1, <3>2, <3>3, <4>1 DEF Apply
    <3> HIDE DEF v
    <3>5. Kept(q, b).ord = r /\ Kept(q, b).view = v
      BY <2>1, <2>3 DEF KeptNext, r, v
    <3> QED BY <3>4, <3>5
  <2>4. ASSUME ~ Applies(k.view, b, x) PROVE Holds(Kept(q, b))
    BY <2>1, <2>2, <2>4 DEF KeptNext
  <2>5. Holds(Kept(q, b))
    BY <2>3, <2>4
  <2> QED BY <2>1, <2>5 DEF q
<1> HIDE DEF T
<1>3. s \in T
  BY <1>1, <1>2, SeqUpward
<1> QED BY <1>3 DEF T

\* The coins the pool spends, transaction by transaction.
LEMMA SpendsAre ==
    ASSUME NEW s \in Seq(Tx)
    PROVE  /\ PoolSpends(s) = UNION {Ins[t] : t \in Range(s)}
           /\ \A x \in Tx : PoolSpends(Append(s, x)) = PoolSpends(s) \union Ins[x]
           /\ UNION {OwnOuts(s[i]) : i \in DOMAIN s} = UNION {OwnOuts(t) : t \in Range(s)}
<1>1. \A q : PoolSpends(q) = UNION {Ins[t] : t \in Range(q)}
  BY DEF PoolSpends, Range
<1>2. ASSUME NEW x \in Tx PROVE PoolSpends(Append(s, x)) = PoolSpends(s) \union Ins[x]
  <2>1. Range(Append(s, x)) = Range(s) \union {x}
    BY AppendFacts
  <2> QED BY <1>1, <2>1
<1>3. UNION {OwnOuts(s[i]) : i \in DOMAIN s} = UNION {OwnOuts(t) : t \in Range(s)}
  BY DEF Range
<1> QED BY <1>1, <1>2, <1>3

\* A coin of a transaction that is neither in the chain nor in the pool is not
\* among the coins of the chain, spent by the pool or in its view.
LEMMA FreshCoins ==
    ASSUME NEW b \in Block, NEW s, Settled(s, b), NEW t \in Tx, Accepts(s, b, t), NEW c \in OutCoins(t)
    PROVE  c \notin Coins[b] /\ c \notin PoolSpends(s) /\ c \notin Ins[t]
<1> DEFINE From == Coins[b] \union UNION {OutCoins(x) : x \in Range(s)}
<1>1. s \in Seq(Tx) /\ Kept(s, b).ord = s
  BY DEF Settled
<1>2. t \notin Range(s) /\ TxHeight(t, b) = -1 /\ Ins[t] \subseteq Kept(s, b).view
  BY DEF Accepts, Applies
<1>3. Kept(s, b).view \subseteq From /\ \A x \in Range(s) : Ins[x] \subseteq From
  BY <1>1, KeptFrom
<1>4. \A x : c \in OutCoins(x) => x = t
  BY DEF OutCoins
<1>5. c \notin Coins[b]
  <2> SUFFICES ASSUME c \in Coins[b] PROVE FALSE
    OBVIOUS
  <2>1. PICK a \in Ancestors(b) : \E x \in TxSet(a) : c \in OutCoins(x)
    BY CoinsFrom
  <2>2. t \in TxSet(a)
    BY <1>4, <2>1
  <2>3. TxHeight(t, b) >= 0
    BY <2>1, <2>2, TxHeightFacts
  <2> QED BY <1>2, <2>3
<1>6. c \notin From
  BY <1>2, <1>4, <1>5
<1> HIDE DEF From
<1>7. c \notin PoolSpends(s)
  BY <1>1, <1>3, <1>6, SpendsAre
<1> QED BY <1>2, <1>3, <1>5, <1>6, <1>7

\* What the wallet's coins are if they are true to the chain and the pool.
OwnCoins(b, s) == {c \in Coins[b] : Mine(c)} \union UNION {OwnOuts(t) : t \in Range(s)}
CoinHeight(b, c) == IF c \in Coins[b] /\ Mine(c) THEN TxHeight(c[1], b) ELSE -1
TrueTo(m, b, s, spent) ==
    /\ m \in CoinMaps /\ DOMAIN m = OwnCoins(b, s)
    /\ \A c \in OwnCoins(b, s) : m[c].height = CoinHeight(b, c) /\ (m[c].locked = TRUE <=> c \in spent)

\* Equal to TrueCoins, and true coin by coin.
LEMMA TrueCoinsAre ==
    ASSUME NEW b \in Block, NEW s \in Seq(Tx), NEW spent, NEW m \in CoinMaps
    PROVE  m = TrueCoins(b, s, spent) <=> TrueTo(m, b, s, spent)
<1> DEFINE own == OwnCoins(b, s)
           L(c) == c \in spent
           g == [c \in own |-> [height |-> CoinHeight(b, c), locked |-> L(c)]]
<1>1. TrueCoins(b, s, spent) = g
  BY SpendsAre DEF TrueCoins, OwnCoins, CoinHeight
<1>2. m = [c \in DOMAIN m |-> m[c]] /\ \A c \in DOMAIN m : m[c] \in CoinStates
  BY MapsAre
<1>3. ASSUME m = g PROVE TrueTo(m, b, s, spent)
  <2>1. DOMAIN m = own
    BY <1>3
  <2>2. ASSUME NEW c \in own PROVE m[c].height = CoinHeight(b, c) /\ (m[c].locked = TRUE <=> c \in spent)
    <3>1. m[c] = [height |-> CoinHeight(b, c), locked |-> L(c)] /\ (L(c) = TRUE <=> c \in spent)
      BY <1>3
    <3> HIDE DEF L
    <3> QED BY <3>1
  <2> QED BY <2>1, <2>2 DEF TrueTo
<1>4. ASSUME TrueTo(m, b, s, spent) PROVE m = g
  <2>1. DOMAIN m = own
    BY <1>4 DEF TrueTo
  <2>2. ASSUME NEW c \in own PROVE m[c] = [height |-> CoinHeight(b, c), locked |-> L(c)]
    <3>1. m[c].height = CoinHeight(b, c) /\ m[c].locked = L(c) /\ m[c] \in CoinStates
      <4>1. m[c] \in CoinStates /\ m[c].height = CoinHeight(b, c) /\ (m[c].locked = TRUE <=> c \in spent)
        BY <1>2, <1>4, <2>1 DEF TrueTo
      <4>2. m[c].locked = L(c)
        BY <4>1 DEF CoinStates
      <4> QED BY <4>1, <4>2
    <3> HIDE DEF L
    <3> QED BY <3>1 DEF CoinStates
  <2> HIDE DEF L, own
  <2> QED BY <1>2, <2>1, <2>2
<1> QED BY <1>1, <1>3, <1>4

\* Recording a transaction the pool has accepted puts the coins right.
LEMMA RecordCoins ==
    ASSUME NEW b \in Block, NEW s, Settled(s, b), NEW t \in Tx, Accepts(s, b, t),
           NEW w \in Wallets, w.coins = TrueCoins(b, s, PoolSpends(s))
    PROVE  /\ RecordedNext(w, t) \in Wallets
           /\ RecordedNext(w, t).coins = TrueCoins(b, Append(s, t), PoolSpends(Append(s, t)))
<1> DEFINE q == Append(s, t)
           Own(r) == OwnCoins(b, r)
           HeightAt(c) == CoinHeight(b, c)
           m == RecordedNext(w, t).coins
           low == -1
<1>1. s \in Seq(Tx) /\ q \in Seq(Tx) /\ Range(q) = Range(s) \union {t}
  BY AppendFacts DEF Settled
<1>2. PoolSpends(q) = PoolSpends(s) \union Ins[t]
  BY <1>1, SpendsAre
<1>3. w.coins \in CoinMaps
  BY DEF Wallets
<1>4. /\ DOMAIN w.coins = Own(s)
      /\ \A c \in Own(s) : w.coins[c].height = HeightAt(c) /\ (w.coins[c].locked = TRUE <=> c \in PoolSpends(s))
  <2>1. TrueTo(w.coins, b, s, PoolSpends(s))
    BY <1>1, <1>3, TrueCoinsAre
  <2> QED BY <2>1 DEF TrueTo
<1>5. \A c \in OwnOuts(t) : c \notin Coins[b] /\ c \notin PoolSpends(s) /\ c \notin Ins[t]
  BY FreshCoins DEF OwnOuts
<1>6. Own(q) = Own(s) \union OwnOuts(t)
  BY <1>1 DEF OwnCoins
<1>7. low \in Int /\ low < 0 /\ low = -1
  OBVIOUS
<1> HIDE DEF low
<1>8. Processed(w, t, low, ProcessTx(w, t, low))
  BY <1>7, ProcessTxFacts
<1> HIDE DEF q, Own
<1>9. ASSUME ~ Touches(w, t)
      PROVE  /\ RecordedNext(w, t) \in Wallets /\ DOMAIN m = Own(q)
             /\ \A c \in Own(q) : m[c].height = HeightAt(c) /\ (m[c].locked = TRUE <=> c \in PoolSpends(q))
  <2>1. RecordedNext(w, t) = w
    BY <1>9 DEF RecordedNext
  <2>2. OwnOuts(t) = {} /\ Ins[t] \intersect DOMAIN w.coins = {}
    BY <1>9 DEF Touches
  <2> HIDE DEF HeightAt
  <2>3. Own(q) = Own(s) /\ \A c \in Own(s) : c \in PoolSpends(q) <=> c \in PoolSpends(s)
    BY <1>2, <1>4, <1>6, <2>2
  <2> QED BY <1>4, <2>1, <2>3
<1>10. ASSUME Touches(w, t)
       PROVE  /\ RecordedNext(w, t) \in Wallets /\ DOMAIN m = Own(q)
              /\ \A c \in Own(q) : m[c].height = HeightAt(c) /\ (m[c].locked = TRUE <=> c \in PoolSpends(q))
  <2> DEFINE p == ProcessTx(w, t, low)
  <2>1. RecordedNext(w, t) = p
    BY <1>7, <1>10 DEF RecordedNext
  <2>2. /\ p \in Wallets /\ DOMAIN p.coins = DOMAIN w.coins \union OwnOuts(t)
        /\ \A c \in OwnOuts(t) : p.coins[c] = [height |-> low, locked |-> FALSE]
        /\ \A c \in DOMAIN p.coins \ OwnOuts(t) :
              /\ p.coins[c].height = w.coins[c].height
              /\ p.coins[c].locked = TRUE <=> w.coins[c].locked = TRUE \/ c \in Ins[t]
    BY <1>7, <1>8 DEF Processed
  <2> HIDE DEF p
  <2>3. ASSUME NEW c \in Own(q)
        PROVE  p.coins[c].height = HeightAt(c) /\ (p.coins[c].locked = TRUE <=> c \in PoolSpends(q))
    <3>1. CASE c \in OwnOuts(t)
      <4>1. HeightAt(c) = low /\ ~ (c \in PoolSpends(q))
        BY <1>2, <1>5, <1>7, <3>1 DEF CoinHeight
      <4>2. p.coins[c].height = low /\ p.coins[c].locked = FALSE
        BY <2>2, <3>1
      <4> QED BY <4>1, <4>2
    <3>2. CASE c \notin OwnOuts(t)
      <4>1. c \in Own(s) /\ c \in DOMAIN p.coins \ OwnOuts(t)
        BY <1>4, <1>6, <2>2, <3>2
      <4> HIDE DEF HeightAt
      <4> QED BY <1>2, <1>4, <2>2, <4>1
    <3> QED BY <3>1, <3>2
  <2> QED BY <1>4, <1>6, <2>1, <2>2, <2>3
<1>11. m \in CoinMaps
  BY <1>9, <1>10 DEF Wallets
<1> HIDE DEF m
<1>12. TrueTo(m, b, q, PoolSpends(q))
  BY <1>9, <1>10, <1>11 DEF m, TrueTo, Own
<1>13. m = TrueCoins(b, q, PoolSpends(q))
  BY <1>1, <1>11, <1>12, TrueCoinsAre
<1> QED BY <1>9, <1>10, <1>13 DEF m, q

\* Recording a transaction a second time changes none of the coins.
LEMMA RecordAgain ==
    ASSUME NEW w \in Wallets, NEW t \in Tx, OutCoins(t) \intersect Ins[t] = {}
    PROVE  /\ ProcessTx(RecordedNext(w, t), t, -1) \in Wallets
           /\ ProcessTx(RecordedNext(w, t), t, -1).coins = RecordedNext(w, t).coins
<1> DEFINE low == -1
           r == RecordedNext(w, t)
           p == ProcessTx(r, t, low)
<1>1. low \in Int /\ low < 0 /\ low = -1
  OBVIOUS
<1> HIDE DEF low
<1> DEFINE q == ProcessTx(w, t, low)
<1>2. Processed(w, t, low, q)
  BY <1>1, ProcessTxFacts
<1>3. r = IF Touches(w, t) THEN q ELSE w
  BY <1>1 DEF RecordedNext
<1>4. r \in Wallets
  BY <1>2, <1>3 DEF Processed
<1> HIDE DEF r, q
<1>5. Processed(r, t, low, p)
  BY <1>1, <1>4, ProcessTxFacts
<1>6. p \in Wallets /\ p.coins \in CoinMaps /\ r.coins \in CoinMaps
  BY <1>4, <1>5 DEF Processed, Wallets
<1>7. \A c \in OwnOuts(t) : c \notin Ins[t]
  BY DEF OwnOuts
<1>8. /\ OwnOuts(t) \subseteq DOMAIN r.coins
      /\ \A c \in OwnOuts(t) : r.coins[c] = [height |-> low, locked |-> FALSE]
      /\ \A c \in DOMAIN r.coins \intersect Ins[t] : r.coins[c].locked = TRUE
  <2>1. CASE Touches(w, t)
    <3>1. r = q
      BY <1>3, <2>1
    <3>2. /\ DOMAIN r.coins = DOMAIN w.coins \union OwnOuts(t)
          /\ \A c \in OwnOuts(t) : r.coins[c] = [height |-> low, locked |-> FALSE]
          /\ \A c \in DOMAIN r.coins \ OwnOuts(t) :
                r.coins[c].locked = TRUE <=> w.coins[c].locked = TRUE \/ c \in Ins[t]
      BY <1>1, <1>2, <3>1 DEF Processed
    <3>3. ASSUME NEW c \in DOMAIN r.coins \intersect Ins[t] PROVE r.coins[c].locked = TRUE
      BY <1>7, <3>2
    <3> QED BY <3>2, <3>3
  <2>2. CASE ~ Touches(w, t)
    BY <1>3, <2>2 DEF Touches
  <2> QED BY <2>1, <2>2
<1>9. /\ DOMAIN p.coins = DOMAIN r.coins
      /\ \A c \in OwnOuts(t) : p.coins[c] = r.coins[c]
      /\ \A c \in DOMAIN p.coins \ OwnOuts(t) :
            /\ p.coins[c].height = r.coins[c].height
            /\ p.coins[c].locked = TRUE <=> r.coins[c].locked = TRUE \/ c \in Ins[t]
  <2> HIDE DEF p
  <2>1. /\ DOMAIN p.coins = DOMAIN r.coins \union OwnOuts(t)
        /\ \A c \in OwnOuts(t) : p.coins[c] = [height |-> low, locked |-> FALSE]
        /\ \A c \in DOMAIN p.coins \ OwnOuts(t) :
              /\ p.coins[c].height = r.coins[c].height
              /\ p.coins[c].locked = TRUE <=> r.coins[c].locked = TRUE \/ c \in Ins[t]
    BY <1>1, <1>5 DEF Processed
  <2>2. DOMAIN p.coins = DOMAIN r.coins
    BY <1>8, <2>1
  <2>3. ASSUME NEW c \in OwnOuts(t) PROVE p.coins[c] = r.coins[c]
    <3> DEFINE new == [height |-> low, locked |-> FALSE]
    <3>1. p.coins[c] = new
      BY <2>1
    <3>2. r.coins[c] = new
      BY <1>8
    <3> HIDE DEF new
    <3> QED BY <3>1, <3>2
  <2> QED BY <2>1, <2>2, <2>3
<1>10. /\ \A c \in DOMAIN r.coins : r.coins[c] \in CoinStates
       /\ \A c \in DOMAIN p.coins : p.coins[c] \in CoinStates
  BY <1>6, MapsAre
<1>11. ASSUME NEW c \in DOMAIN p.coins PROVE p.coins[c] = r.coins[c]
  <2>1. CASE c \in OwnOuts(t)
    BY <1>9, <2>1
  <2>2. CASE c \notin OwnOuts(t)
    <3>1. r.coins[c] \in CoinStates /\ p.coins[c] \in CoinStates
      BY <1>9, <1>10
    <3>2. p.coins[c].height = r.coins[c].height /\ (p.coins[c].locked = TRUE <=> r.coins[c].locked = TRUE)
      BY <1>8, <1>9, <2>2
    <3> QED BY <3>1, <3>2 DEF CoinStates
  <2> QED BY <2>1, <2>2
<1>12. p.coins = r.coins
  <2>1. p.coins = [c \in DOMAIN p.coins |-> p.coins[c]] /\ r.coins = [c \in DOMAIN r.coins |-> r.coins[c]]
    BY <1>6, MapsAre
  <2> QED BY <1>9, <1>11, <2>1
<1> QED BY <1>1, <1>6, <1>12 DEF r

\* Filter leaves nothing of a sequence that has nothing in the set.
LEMMA NoneNew ==
    ASSUME NEW s \in Seq(Tx)
    PROVE  /\ Filter(s, Tx \ Range(s)) = <<>>
           /\ \A t \in Tx : t \notin Range(s) => Filter(Append(s, t), Tx \ Range(s)) = <<t>>
<1> DEFINE S == Tx \ Range(s)
           f == Filter(s, S)
<1>1. f \in Seq(Tx) /\ Range(f) = {}
  BY FilterFacts
<1>2. f = <<>>
  <2> SUFFICES ASSUME f # <<>> PROVE FALSE
    OBVIOUS
  <2> HIDE DEF f
  <2>1. 1 \in 1..Len(f)
    BY <1>1
  <2> QED BY <1>1, <2>1, RangeFacts
<1>3. ASSUME NEW t \in Tx, t \notin Range(s) PROVE Filter(Append(s, t), S) = <<t>>
  <2>1. Filter(Append(s, t), S) = FilterNext(f, t, S) /\ t \in S
    BY <1>3, FilterStep
  <2> HIDE DEF f, S
  <2>2. FilterNext(f, t, S) = Append(<<>>, t)
    BY <1>2, <2>1 DEF FilterNext
  <2> QED BY <2>1, <2>2
<1> QED BY <1>2, <1>3

\* What one transaction does to a settled pool, and to a wallet that is true to
\* it.
OneMore(s, b, t, w, o, new) ==
    \/ o = s /\ new = <<>> /\ Recorded(w, new) = w
    \/ /\ Accepts(s, b, t) /\ o = Append(s, t)
       /\ new = <<t>> /\ Recorded(w, new) = RecordedNext(w, t)

\* It is taken at the end or leaves everything as it was.
LEMMA OneOffered ==
    ASSUME NEW b \in Block, NEW s, Settled(s, b), NEW t \in Tx, NEW w \in Wallets,
           NEW one, one = <<t>>,
           NEW o, o = Offered(s, b, one), NEW new, new = Filter(o, Tx \ Range(s))
    PROVE  OneMore(s, b, t, w, o, new)
<1>1. s \in Seq(Tx) /\ <<>> \in Seq(Tx) /\ one = Append(<<>>, t)
  BY DEF Settled
<1>2. Offered(s, b, one) = OfferedNext(s, b, t)
  <2>1. Offered(s, b, <<>>) = s /\ Offered(s, b, Append(<<>>, t)) = OfferedNext(Offered(s, b, <<>>), b, t)
    BY <1>1, OfferedStep
  <2> QED BY <1>1, <2>1
<1>3. Recorded(w, <<>>) = w /\ Recorded(w, one) = RecordedNext(w, t)
  <2>1. Recorded(w, <<>>) = w /\ Recorded(w, Append(<<>>, t)) = RecordedNext(Recorded(w, <<>>), t)
    BY <1>1, RecordedStep
  <2> QED BY <1>1, <2>1
<1>4. CASE Accepts(s, b, t)
  <2>1. t \notin Range(s)
    BY <1>4 DEF Accepts
  <2>2. Filter(Append(s, t), Tx \ Range(s)) = <<t>>
    BY <1>1, <2>1, NoneNew
  <2>3. Offered(s, b, one) = Append(s, t)
    BY <1>2, <1>4 DEF OfferedNext
  <2>4. Filter(Offered(s, b, one), Tx \ Range(s)) = one
    BY <2>2, <2>3
  <2>5. Recorded(w, Filter(Offered(s, b, one), Tx \ Range(s))) = RecordedNext(w, t)
    BY <1>3, <2>4
  <2>6. o = Append(s, t) /\ new = one /\ Recorded(w, new) = RecordedNext(w, t)
    BY <2>3, <2>4, <2>5
  <2> QED BY <1>4, <2>6 DEF OneMore
<1>5. CASE ~ Accepts(s, b, t)
  <2>1. Offered(s, b, one) = s
    BY <1>2, <1>5 DEF OfferedNext
  <2>2. Filter(Offered(s, b, one), Tx \ Range(s)) = <<>>
    BY <1>1, <2>1, NoneNew
  <2>3. Recorded(w, Filter(Offered(s, b, one), Tx \ Range(s))) = w
    BY <1>3, <2>2
  <2>4. o = s /\ new = <<>> /\ Recorded(w, new) = w
    BY <2>1, <2>2, <2>3
  <2> QED BY <2>4 DEF OneMore
<1> QED BY <1>4, <1>5

\* The wallet's coins are true to the chain and the pool also while an
\* activation has not moved the tip yet; a pool that has not been looked at
\* since a load is empty.
CoinsInv ==
    /\ mode = "up" /\ told /\ (from = None \/ ~ dirty) =>
          wallet.coins = TrueCoins(tip, order, PoolSpends(order))
    /\ mode = "up" /\ told /\ from = None /\ dirty => order = <<>>
    /\ mode = "loading" => order = <<>> \/ (from = None /\ ~ dirty)

\* The new wallet holds the own coins of the genesis block.
LEMMA NewWalletCoins == NewWallet \in Wallets /\ NewWallet.coins = TrueCoins(Genesis, <<>>, {})
<1> DEFINE e == [coins |-> <<>>, hist |-> <<>>, synced |-> Genesis]
           P(s) == ProcessAll(e, s, 0)
           V(s) == ApplyAll({}, s)
           Holds(s) == /\ DOMAIN P(s).coins = {c \in V(s) : Mine(c)}
                       /\ \A c \in DOMAIN P(s).coins : P(s).coins[c] = [height |-> 0, locked |-> FALSE]
           T == {s \in Seq(Tx) : Holds(s)}
<1>1. e \in Wallets /\ e.coins = <<>>
  <2>1. DOMAIN <<>> = {} /\ <<>> = [x \in DOMAIN <<>> |-> <<>>[x]]
    OBVIOUS
  <2>2. {} \in CoinSets /\ {} \in SUBSET Tx
    BY DEF CoinSets
  <2>3. <<>> \in CoinMaps /\ <<>> \in HistMaps
    BY <2>1, <2>2, MapsAre
  <2> QED BY <2>3, BlockTreeAssumption DEF Wallets
<1> HIDE DEF e
<1>2. {} \in CoinSets /\ 0 \in Int
  BY DEF CoinSets
<1>3. <<>> \in T
  <2>1. P(<<>>) = e /\ V(<<>>) = {} /\ DOMAIN <<>> = {}
    BY <1>1, <1>2, ProcessAllStep, ApplyAllStep
  <2> QED BY <1>1, <2>1
<1>4. ASSUME NEW p \in Seq(Tx), NEW x \in Tx, p \in T PROVE Append(p, x) \in T
  <2> DEFINE q == Append(p, x)
             w == P(p)
             v == V(p)
  <2>1. w \in Wallets /\ P(q) = ProcessTx(w, x, 0) /\ V(q) = Apply(v, x) /\ q \in Seq(Tx)
    BY <1>1, <1>2, ProcessAllStep, ApplyAllStep, AppendFacts
  <2>2. /\ DOMAIN w.coins = {c \in v : Mine(c)}
        /\ \A c \in DOMAIN w.coins : w.coins[c] = [height |-> 0, locked |-> FALSE]
    BY <1>4
  <2> HIDE DEF w, v, q
  <2> DEFINE r == ProcessTx(w, x, 0)
             u == Apply(v, x)
  <2>3. Processed(w, x, 0, r)
    BY <2>1, ProcessTxFacts
  <2>4. /\ r \in Wallets /\ DOMAIN r.coins = (DOMAIN w.coins \ Ins[x]) \union OwnOuts(x)
        /\ \A c \in OwnOuts(x) : r.coins[c] = [height |-> 0, locked |-> FALSE]
        /\ \A c \in DOMAIN r.coins \ OwnOuts(x) :
              r.coins[c].height = w.coins[c].height /\ (r.coins[c].locked = TRUE <=> w.coins[c].locked = TRUE)
    BY <2>3 DEF Processed
  <2>5. DOMAIN r.coins = {c \in u : Mine(c)}
    BY <2>2, <2>4 DEF Apply, OwnOuts
  <2> HIDE DEF r, u
  <2>6. ASSUME NEW c \in DOMAIN r.coins PROVE r.coins[c] = [height |-> 0, locked |-> FALSE]
    <3>1. r.coins[c] \in CoinStates
      BY <2>4, MapsAre DEF Wallets
    <3>2. r.coins[c].height = 0 /\ ~ (r.coins[c].locked = TRUE)
      BY <2>2, <2>4
    <3> QED BY <3>1, <3>2 DEF CoinStates
  <2>7. P(q) = r /\ V(q) = u
    BY <2>1 DEF r, u
  <2> HIDE DEF P, V
  <2> QED BY <2>1, <2>5, <2>6, <2>7 DEF q
<1> HIDE DEF T
<1>5. Genesis \in Block /\ TxsOf[Genesis] \in Seq(Tx) /\ Chain(Genesis) = <<Genesis>> /\ Height(Genesis) = 0
  BY BlockTreeAssumption, PathAssumption DEF Chain, Height
<1> DEFINE ts == TxsOf[Genesis]
<1>6. ts \in T
  BY <1>3, <1>4, <1>5, SeqUpward
<1>7. V(ts) = Coins[Genesis]
  <2>1. <<>> \in Seq(Block) /\ <<Genesis>> = Append(<<>>, Genesis)
    OBVIOUS
  <2>2. CoinsAfter(<<Genesis>>) = ApplyAll({}, TxsOf[Genesis])
    BY <1>5, <2>1, CoinsAfterStep
  <2> QED BY <1>5, <2>2, CoinsTyped
<1>8. NewWallet = BlockConnected(e, Genesis)
  BY DEF NewWallet, e
<1>9. P(ts) \in Wallets /\ NewWallet = [P(ts) EXCEPT !.synced = Genesis]
  BY <1>1, <1>2, <1>5, <1>8, ProcessAllStep DEF BlockConnected
<1> DEFINE m == P(ts).coins
<1>10. NewWallet \in Wallets /\ NewWallet.coins = m /\ m \in CoinMaps
  <2> HIDE DEF P, ts
  <2> QED BY <1>5, <1>9 DEF Wallets
<1>11. DOMAIN m = {c \in Coins[Genesis] : Mine(c)} /\ \A c \in DOMAIN m : m[c] = [height |-> 0, locked |-> FALSE]
  BY <1>6, <1>7 DEF T
<1> HIDE DEF m
<1>12. \A c \in Coins[Genesis] : TxHeight(c[1], Genesis) = 0
  <2> TAKE c \in Coins[Genesis]
  <2>1. PICK a \in Ancestors(Genesis) : \E t \in TxSet(a) : c[1] = t
    BY <1>5, CoinsFrom
  <2>2. TxHeight(c[1], Genesis) >= 0
    BY <1>5, <2>1, TxHeightFacts
  <2>3. PICK d \in Ancestors(Genesis) : TxHeight(c[1], Genesis) = Height(d)
    BY <1>5, <2>2, TxHeightFacts
  <2>4. d = Genesis
    BY <1>5, <2>3, AncestorsAre
  <2> QED BY <1>5, <2>3, <2>4
<1>13. OwnCoins(Genesis, <<>>) = {c \in Coins[Genesis] : Mine(c)}
  BY DEF OwnCoins, Range
<1>14. TrueTo(m, Genesis, <<>>, {})
  BY <1>10, <1>11, <1>12, <1>13 DEF TrueTo, CoinHeight
<1>15. m = TrueCoins(Genesis, <<>>, {})
  BY <1>5, <1>10, <1>14, TrueCoinsAre, EmptySeq
<1> QED BY <1>10, <1>15

\* The invariant of the coins holds at the start.
LEMMA CoinsInit == Init => CoinsInv
<1> SUFFICES ASSUME Init PROVE CoinsInv
  OBVIOUS
<1>1. order = <<>> /\ tip = Genesis /\ dirty = FALSE /\ wallet = NewWallet /\ mode = "up"
  BY DEF Init, PoolInit, WalletInit
<1>2. PoolSpends(<<>>) = {}
  BY DEF PoolSpends
<1> QED BY <1>1, <1>2, NewWalletCoins DEF CoinsInv

\* A step that leaves tip, pool, wallet and mode keeps the wallet's coins true.
LEMMA CoinsSame ==
    ASSUME CoinsInv, UNCHANGED <<poolVars, wallet, tip, mode>>, told' => told,
           from' = None => from = None \/ ~ dirty,
           mode = "loading" /\ from = None => from' = None
    PROVE  CoinsInv'
<1>1. order' = order /\ dirty' = dirty /\ wallet' = wallet /\ tip' = tip /\ mode' = mode
  BY DEF poolVars
<1>2. TrueCoins(tip, order, PoolSpends(order))' = TrueCoins(tip', order', PoolSpends(order'))
  BY DEF TrueCoins, PoolSpends, Coins, CoinsAfter, OwnOuts, TxHeight
<1>3. mode' = "up" /\ told' /\ (from' = None \/ ~ dirty') => wallet'.coins = TrueCoins(tip', order', PoolSpends(order'))
  BY <1>1 DEF CoinsInv
<1> QED BY <1>1, <1>2, <1>3 DEF CoinsInv

\* A transaction submitted or sent.
LEMMA CoinsTx ==
    ASSUME ChainInv, ListenInv, CoinsInv, NEW t \in Tx, SubmitTx(t) \/ SendTx(t)
    PROVE  CoinsInv'
<1>1. /\ tip \in Block /\ mode = "up" /\ from = None
      /\ order' = Offered(Rebuilt(tip), tip, <<t>>) /\ dirty' = FALSE
      /\ UNCHANGED <<mode, tip, from, told>>
  BY DEF ChainInv, OnSound, SubmitTx, SendTx, PoolAccept, Idle, chainVars
<1>2. SUFFICES ASSUME told PROVE wallet'.coins = TrueCoins(tip, order', PoolSpends(order'))
  <2>1. TrueCoins(tip, order, PoolSpends(order))' = TrueCoins(tip', order', PoolSpends(order'))
    BY DEF TrueCoins, PoolSpends, Coins, CoinsAfter, OwnOuts, TxHeight
  <2> QED BY <1>1, <2>1 DEF CoinsInv
<1>3. wallet.coins = TrueCoins(tip, order, PoolSpends(order)) /\ (dirty => order = <<>>)
  BY <1>1, <1>2 DEF CoinsInv
<1>4. Rebuilt(tip) = order /\ Settled(order, tip)
  <2>1. CASE dirty
    <3>1. Kept(<<>>, tip).ord = <<>>
      BY <1>1, KeptStep
    <3> QED BY <1>1, <1>3, <2>1, <3>1, EmptySettled DEF Rebuilt
  <2>2. CASE ~ dirty
    BY <2>2 DEF Rebuilt, ListenInv, PoolInv
  <2> QED BY <2>1, <2>2
<1> DEFINE o == order'
           w == Recorded(wallet, NewInPool)
<1>5. wallet \in Wallets /\ o = Offered(order, tip, <<t>>) /\ NewInPool = Filter(o, Tx \ Range(order))
  BY <1>1, <1>4 DEF ListenInv, WalletInv, NewInPool
<1>6. \/ wallet' = w
      \/ NewInPool = <<>> /\ wallet' = wallet
      \/ NewInPool # <<>> /\ wallet' = ProcessTx(w, t, -1)
  BY DEF SubmitTx, SendTx
<1> HIDE DEF o
<1>7. \/ o = order /\ NewInPool = <<>> /\ w = wallet
      \/ /\ Accepts(order, tip, t) /\ o = Append(order, t)
         /\ NewInPool = <<t>> /\ w = RecordedNext(wallet, t)
  <2> DEFINE new == NewInPool
             one == <<t>>
  <2>1. o = Offered(order, tip, one) /\ new = Filter(o, Tx \ Range(order)) /\ one = <<t>>
    BY <1>5
  <2> HIDE DEF new, one
  <2>2. OneMore(order, tip, t, wallet, o, new)
    BY <1>1, <1>4, <1>5, <2>1, OneOffered
  <2> QED BY <2>2 DEF new, OneMore
<1> HIDE DEF w
<1>8. CASE o = order /\ NewInPool = <<>> /\ w = wallet
  BY <1>3, <1>6, <1>8 DEF o
<1>9. CASE Accepts(order, tip, t) /\ o = Append(order, t) /\ w = RecordedNext(wallet, t)
  <2> DEFINE q == Append(order, t)
  <2>0. RecordedNext(wallet, t).coins = TrueCoins(tip, q, PoolSpends(q))
    BY <1>1, <1>3, <1>4, <1>5, <1>9, RecordCoins
  <2> HIDE DEF q
  <2>1. w.coins = TrueCoins(tip, o, PoolSpends(o))
    BY <1>9, <2>0 DEF q
  <2>2. OutCoins(t) \intersect Ins[t] = {}
    BY <1>1, <1>4, <1>9, FreshCoins
  <2>3. ProcessTx(w, t, -1).coins = w.coins
    BY <1>5, <1>9, <2>2, RecordAgain
  <2> DEFINE again == ProcessTx(w, t, -1)
  <2>4. NewInPool = <<>> => w = wallet
    BY <1>7
  <2>5. wallet' = w \/ wallet' = again
    BY <1>6, <2>4
  <2>6. again.coins = w.coins
    BY <2>3
  <2> HIDE DEF again
  <2>7. wallet'.coins = w.coins
    BY <2>5, <2>6
  <2> QED BY <2>1, <2>7 DEF o
<1> QED BY <1>7, <1>8, <1>9

\* Every step keeps the wallet's coins true.
LEMMA CoinsStep ==
    ASSUME ChainInv, ListenInv, CoinsInv, [Next]_vars
    PROVE  CoinsInv'
<1>0. /\ tip' \in Block /\ tip \in Block /\ ListenInv'
      /\ TrueCoins(tip, order, PoolSpends(order))' = TrueCoins(tip', order', PoolSpends(order'))
  <2>1. TrueCoins(tip, order, PoolSpends(order))' = TrueCoins(tip', order', PoolSpends(order'))
    BY DEF TrueCoins, PoolSpends, Coins, CoinsAfter, OwnOuts, TxHeight
  <2> QED BY <2>1, ChainStep, ListenStep DEF ChainInv, OnSound
<1>1. ASSUME NEW b \in Block, ReceiveBlock(b) PROVE CoinsInv'
  <2>1. /\ UNCHANGED <<poolVars, wallet, tip, mode, told>> /\ from = None /\ mode = "up"
        /\ from' = tip /\ from' # None
    BY <1>0, <1>1, NodeAssumption DEF ReceiveBlock, Idle, walletVars
  <2> QED BY <2>1, CoinsSame
<1>2. ASSUME NEW b \in Block, SelectCandidate(b) PROVE CoinsInv'
  <2>1. UNCHANGED <<poolVars, wallet, tip, mode, told, from>>
    BY <1>2 DEF SelectCandidate, walletVars
  <2> QED BY <2>1, CoinsSame
<1>3. CASE Quiet
  <2>1. /\ UNCHANGED <<poolVars, wallet, tip, mode, told>>
        /\ from' # None /\ (from = None => mode = "up")
    BY <1>3, QuietLeaves DEF walletVars
  <2> QED BY <2>1, CoinsSame
<1>4. CASE DisconnectTip \/ ConnectBlock
  <2>1. /\ dirty' = TRUE /\ from # None /\ UNCHANGED <<mode, from>>
        /\ order = <<>> => order' = <<>>
    <3>1. \A S : Filter(<<>>, S) = <<>>
      BY FilterStep
    <3>2. CASE DisconnectTip
      BY <3>2 DEF DisconnectTip, PoolDisconnect, ChainInv
    <3>3. CASE ConnectBlock
      BY <3>1, <3>3 DEF ConnectBlock, PoolConnect, ChainInv
    <3> QED BY <1>4, <3>2, <3>3
  <2> QED BY <2>1 DEF CoinsInv
<1>5. CASE NewTip
  <2>1. /\ dirty' = FALSE /\ from' = None /\ tip' = tip /\ mode' = mode /\ PoolTip(tip)
    BY <1>5 DEF NewTip, PoolTip
  <2>2. mode = "up" => wallet'.coins = TrueCoins(tip', order', PoolSpends(order'))
    <3>1. SUFFICES ASSUME mode = "up" PROVE wallet'.coins = TrueCoins(tip', order', PoolSpends(order'))
      OBVIOUS
    <3> DEFINE w == Recorded(wallet, NewInPool)
               o == order'
               s == PoolSpends(o)
    <3>2. wallet' = Refreshed(w, tip, o, s)
      BY <1>5, <3>1 DEF NewTip, Running
    <3>3. o \in Seq(Tx) /\ wallet \in Wallets
      BY <1>0 DEF ListenInv, PoolInv, WalletInv
    <3>4. NewInPool \in Seq(Tx)
      BY <3>3, FilterFacts DEF NewInPool
    <3>5. w \in Wallets
      BY <3>3, <3>4, RecordedSynced
    <3> HIDE DEF w, o, s
    <3>6. Refreshed(w, tip, o, s).coins = TrueCoins(tip, o, s)
      BY <1>0, <3>3, <3>5, RefreshedFacts
    <3> QED BY <2>1, <3>2, <3>6 DEF o, s
  <2> QED BY <1>0, <2>1, <2>2 DEF CoinsInv
<1>6. CASE SameTip
  <2>1. /\ UNCHANGED <<poolVars, wallet, tip, mode>> /\ told' = (told /\ ~ dirty)
        /\ from # None /\ from' = None
    BY <1>6 DEF SameTip, Activated, walletVars
  <2>2. CASE told /\ ~ dirty
    BY <2>1, <2>2, CoinsSame
  <2>3. CASE ~ (told /\ ~ dirty)
    <3>0. ~ told'
      BY <2>1, <2>3, Zenon
    <3>1. ~ told' /\ order' = order /\ dirty' = dirty /\ mode' = mode
      BY <2>1, <3>0 DEF poolVars
    <3> QED BY <2>1, <3>1 DEF CoinsInv
  <2> QED BY <2>2, <2>3
<1>7. CASE Stop \/ Crash
  <2>1. mode' = "down"
    BY <1>7 DEF Stop, Crash, MemoryLost
  <2> QED BY <2>1 DEF CoinsInv
<1>8. CASE Start
  <2>1. mode' = "loading" /\ order' = <<>>
    BY <1>8 DEF Start, poolVars, ListenInv, PoolInv
  <2> QED BY <2>1 DEF CoinsInv
<1>9. CASE Started
  <2> DEFINE w == CaughtUp(walletFile, tip)
  <2>1. /\ order' = order /\ dirty' = dirty /\ tip' = tip /\ mode' = "up" /\ from = None
        /\ wallet' = Refreshed(w, tip, order, PoolSpends(order)) /\ mode = "loading" /\ from' = None
    BY <1>9 DEF Started, poolVars
  <2>2. w \in Wallets /\ order \in Seq(Tx)
    BY <1>0, CaughtUpSynced DEF ListenInv, WalletInv, PoolInv
  <2> HIDE DEF w
  <2>3. wallet'.coins = TrueCoins(tip', order', PoolSpends(order'))
    BY <1>0, <2>1, <2>2, RefreshedFacts
  <2> QED BY <1>0, <2>1, <2>3 DEF CoinsInv
<1>10. CASE UNCHANGED vars
  <2>1. UNCHANGED <<poolVars, wallet, tip, mode, told, from>>
    BY <1>10 DEF vars, chainVars, walletVars
  <2> QED BY <2>1, CoinsSame
<1> QED BY <1>1, <1>2, <1>3, <1>4, <1>5, <1>6, <1>7, <1>8, <1>9, <1>10, CoinsTx DEF Next, Quiet

\* The invariant of the coins has what CoinsMatch says.
LEMMA CoinsTrue == CoinsInv => CoinsMatch
BY DEF CoinsInv, CoinsMatch, Idle

(***************************************************************************)
(* The wallet's history                                                    *)
(***************************************************************************)
\* The history holds the payments of these blocks at their heights.
DatedOn(hist, S) ==
    \A a \in S : \A t \in TxSet(a) :
        OwnOuts(t) # {} => t \in DOMAIN hist /\ hist[t].height = Height(a)

\* Two blocks that share no transaction.
Apart(a, b) == TxSet(a) \intersect TxSet(b) = {}

\* A lower block of a chain is another one.
LEMMA LowerAncestor ==
    ASSUME NEW b \in Block, NEW a \in Ancestors(b)
    PROVE  Height(a) \in Nat /\ Height(a) <= Height(b) /\ (Height(a) = Height(b) => a = b)
<1> DEFINE C == Chain(b)
           n == Len(C)
<1>1. n \in Nat \ {0} /\ C[n] = b
  BY ChainShape, OwnAncestor
<1>2. PICK i \in 1..n : a = C[i]
  BY AncestorsAre
<1>3. Len(Chain(a)) = i
  BY <1>2, AncestorPrefix
<1>4. Height(a) = i - 1 /\ Height(b) = n - 1
  BY <1>3 DEF Height
<1> HIDE DEF n, C
<1> QED BY <1>1, <1>2, <1>4

\* The blocks of a connectable chain share no transaction, and each of them is
\* connectable.
LEMMA ChainApart ==
    ASSUME NEW b \in Block, Connectable(b)
    PROVE  /\ \A a \in Ancestors(b) : a \in Block /\ Connectable(a)
           /\ \A a \in Ancestors(b) \ {b} : Apart(a, b)
           /\ \A i, j \in 1..Len(Chain(b)) : i # j => Apart(Chain(b)[i], Chain(b)[j])
<1>1. ASSUME NEW a \in Ancestors(b) PROVE a \in Block /\ Connectable(a)
  <2>1. a \in Block /\ Ancestors(a) \subseteq Ancestors(b)
    BY AncestorsOfAncestor
  <2> QED BY <2>1 DEF Connectable
<1>2. \A a \in Ancestors(b) \ {b} : Apart(a, b)
  BY ContentAssumption DEF Apart
<1> DEFINE C == Chain(b)
<1>3. ASSUME NEW i \in 1..Len(C), NEW j \in 1..Len(C), i < j PROVE Apart(C[i], C[j])
  <2>1. C[i] \in Ancestors(b) /\ C[j] \in Ancestors(b)
    BY AncestorsAre
  <2>2. C[j] \in Block /\ Connectable(C[j])
    BY <1>1, <2>1
  <2>3. Len(Chain(C[i])) = i /\ Len(Chain(C[j])) = j /\ Chain(C[j]) = SubSeq(C, 1, j)
    BY AncestorPrefix
  <2>4. C \in Seq(Block) /\ Len(C) \in Nat
    BY ChainShape
  <2>5. C[i] = SubSeq(C, 1, j)[i] /\ i \in 1..j
    BY <1>3, <2>4
  <2> HIDE DEF C
  <2>6. C[i] \in Ancestors(C[j])
    BY <2>2, <2>3, <2>5, AncestorsAre
  <2>7. C[i] # C[j]
    BY <1>3, <2>3
  <2> QED BY <2>2, <2>6, <2>7, ContentAssumption DEF Apart
<1>4. ASSUME NEW i \in 1..Len(C), NEW j \in 1..Len(C), i # j PROVE Apart(C[i], C[j])
  <2>1. Len(C) \in Nat
    BY ChainShape
  <2> HIDE DEF C
  <2>2. i < j \/ j < i
    BY <1>4, <2>1
  <2>3. Apart(C[i], C[j]) \/ Apart(C[j], C[i])
    BY <1>3, <2>2
  <2> QED BY <2>3 DEF Apart
<1> QED BY <1>1, <1>2, <1>4

\* The transactions of a block that pay the wallet are in its history at that
\* height, and the others as they were.
LEMMA ProcessAllHist ==
    ASSUME NEW w \in Wallets, NEW h \in Int, NEW ts \in Seq(Tx)
    PROVE  LET p == ProcessAll(w, ts, h)
           IN  /\ \A t \in Range(ts) : OwnOuts(t) # {} => t \in DOMAIN p.hist /\ p.hist[t].height = h
               /\ \A t \in DOMAIN w.hist \ Range(ts) : t \in DOMAIN p.hist /\ p.hist[t] = w.hist[t]
<1> DEFINE P(s) == ProcessAll(w, s, h)
           Holds(s) ==
               /\ \A t \in Range(s) : OwnOuts(t) # {} => t \in DOMAIN P(s).hist /\ P(s).hist[t].height = h
               /\ \A t \in DOMAIN w.hist \ Range(s) : t \in DOMAIN P(s).hist /\ P(s).hist[t] = w.hist[t]
           T == {s \in Seq(Tx) : Holds(s)}
<1>1. <<>> \in T
  <2>1. P(<<>>) = w /\ Range(<<>>) = {} /\ <<>> \in Seq(Tx)
    BY ProcessAllStep DEF Range
  <2> QED BY <2>1
<1>2. ASSUME NEW s \in Seq(Tx), NEW x \in Tx, s \in T PROVE Append(s, x) \in T
  <2> DEFINE p == P(s)
             q == Append(s, x)
             r == ProcessTx(p, x, h)
  <2>1. p \in Wallets /\ P(q) = r /\ q \in Seq(Tx) /\ Range(q) = Range(s) \union {x}
    BY ProcessAllStep, AppendFacts
  <2>2. /\ \A t \in Range(s) : OwnOuts(t) # {} => t \in DOMAIN p.hist /\ p.hist[t].height = h
        /\ \A t \in DOMAIN w.hist \ Range(s) : t \in DOMAIN p.hist /\ p.hist[t] = w.hist[t]
    BY <1>2
  <2> HIDE DEF p, q
  <2>3. Processed(p, x, h, r)
    BY <2>1, ProcessTxFacts
  <2> HIDE DEF r
  <2>4. /\ OwnOuts(x) # {} => x \in DOMAIN r.hist /\ r.hist[x].height = h
        /\ \A t \in DOMAIN p.hist \ {x} : t \in DOMAIN r.hist /\ r.hist[t] = p.hist[t]
    BY <2>3 DEF Processed, Touches
  <2>5. \A t \in Range(q) : OwnOuts(t) # {} => t \in DOMAIN r.hist /\ r.hist[t].height = h
    BY <2>1, <2>2, <2>4
  <2>6. \A t \in DOMAIN w.hist \ Range(q) : t \in DOMAIN r.hist /\ r.hist[t] = w.hist[t]
    BY <2>1, <2>2, <2>4
  <2>7. P(q) = r
    BY <2>1
  <2> HIDE DEF P
  <2>8. Holds(q)
    BY <2>5, <2>6, <2>7
  <2> QED BY <2>1, <2>8 DEF q
<1> HIDE DEF T
<1>3. ts \in T
  BY <1>1, <1>2, SeqUpward
<1> QED BY <1>3 DEF T

\* Recording pending transactions leaves the rest of the history as it was.
LEMMA RecordedHist ==
    ASSUME NEW w \in Wallets, NEW ts \in Seq(Tx)
    PROVE  \A t \in DOMAIN w.hist \ Range(ts) :
               t \in DOMAIN Recorded(w, ts).hist /\ Recorded(w, ts).hist[t] = w.hist[t]
<1> DEFINE P(s) == Recorded(w, s)
           Holds(s) == \A t \in DOMAIN w.hist \ Range(s) : t \in DOMAIN P(s).hist /\ P(s).hist[t] = w.hist[t]
           T == {s \in Seq(Tx) : Holds(s)}
<1>1. <<>> \in T
  <2>1. P(<<>>) = w /\ <<>> \in Seq(Tx)
    BY RecordedStep
  <2> QED BY <2>1
<1>2. ASSUME NEW s \in Seq(Tx), NEW x \in Tx, s \in T PROVE Append(s, x) \in T
  <2> DEFINE p == P(s)
             q == Append(s, x)
             low == -1
             r == ProcessTx(p, x, low)
             n == RecordedNext(p, x)
  <2>1. p \in Wallets /\ P(q) = n /\ q \in Seq(Tx) /\ Range(q) = Range(s) \union {x}
    BY RecordedStep, AppendFacts
  <2>2. Holds(s)
    BY <1>2
  <2>3. n = r \/ n = p
    BY DEF RecordedNext
  <2>4. low \in Int
    OBVIOUS
  <2> HIDE DEF p, q, low
  <2>5. Processed(p, x, low, r)
    BY <2>1, <2>4, ProcessTxFacts
  <2> HIDE DEF r, n
  <2>6. \A t \in DOMAIN p.hist \ {x} : t \in DOMAIN n.hist /\ n.hist[t] = p.hist[t]
    BY <2>3, <2>5 DEF Processed
  <2>7. \A t \in DOMAIN w.hist \ Range(s) : t \in DOMAIN p.hist /\ p.hist[t] = w.hist[t]
    BY <2>2 DEF p
  <2>8. \A t \in DOMAIN w.hist \ Range(q) : t \in DOMAIN n.hist /\ n.hist[t] = w.hist[t]
    BY <2>1, <2>6, <2>7
  <2>9. P(q) = n
    BY <2>1
  <2> HIDE DEF P
  <2>10. Holds(q)
    BY <2>8, <2>9
  <2> QED BY <2>1, <2>10 DEF q
<1> HIDE DEF T
<1>3. ts \in T
  BY <1>1, <1>2, SeqUpward
<1> QED BY <1>3 DEF T

\* A block connected dates its own payments and leaves those of blocks that
\* share no transaction with it.
LEMMA ConnectDates ==
    ASSUME NEW w \in Wallets, NEW b \in Block, NEW S, DatedOn(w.hist, S), \A a \in S : Apart(a, b)
    PROVE  DatedOn(BlockConnected(w, b).hist, S \union {b})
<1> DEFINE h == Height(b)
           ts == TxsOf[b]
           p == ProcessAll(w, ts, h)
<1>1. h \in Int /\ ts \in Seq(Tx) /\ Range(ts) = TxSet(b) /\ BlockConnected(w, b).hist = p.hist
  BY ChainShape, BlockTreeAssumption, BlockConnectedFacts DEF TxSet
<1> HIDE DEF h, ts
<1>2. /\ \A t \in Range(ts) : OwnOuts(t) # {} => t \in DOMAIN p.hist /\ p.hist[t].height = h
      /\ \A t \in DOMAIN w.hist \ Range(ts) : t \in DOMAIN p.hist /\ p.hist[t] = w.hist[t]
  BY <1>1, ProcessAllHist
<1> HIDE DEF p
<1>3. ASSUME NEW a \in S, NEW t \in TxSet(a), OwnOuts(t) # {}
      PROVE  t \in DOMAIN p.hist /\ p.hist[t].height = Height(a)
  <2>1. t \notin Range(ts)
    BY <1>1 DEF Apart
  <2> QED BY <1>2, <1>3, <2>1 DEF DatedOn
<1>4. ASSUME NEW t \in TxSet(b), OwnOuts(t) # {}
      PROVE  t \in DOMAIN p.hist /\ p.hist[t].height = Height(b)
  BY <1>1, <1>2, <1>4 DEF h
<1> QED BY <1>1, <1>3, <1>4 DEF DatedOn

\* So does a path of blocks that share none with each other.
PathApart(S, path) ==
    /\ \A i \in 1..Len(path) : \A a \in S : Apart(a, path[i])
    /\ \A i, j \in 1..Len(path) : i # j => Apart(path[i], path[j])

\* Connecting it dates the payments of all its blocks.
LEMMA PathDates ==
    ASSUME NEW w \in Wallets, NEW path \in Seq(Block), NEW S, DatedOn(w.hist, S), PathApart(S, path)
    PROVE  DatedOn(AllConnected(w, path).hist, S \union Range(path))
<1> DEFINE A(p) == AllConnected(w, p)
           T == {p \in Seq(Block) : PathApart(S, p) => DatedOn(A(p).hist, S \union Range(p))}
<1>1. <<>> \in T
  <2>1. A(<<>>) = w /\ <<>> \in Seq(Block) /\ S \union Range(<<>>) = S
    BY AllConnectedStep DEF Range
  <2> QED BY <2>1
<1>2. ASSUME NEW p \in Seq(Block), NEW x \in Block, p \in T PROVE Append(p, x) \in T
  <2> DEFINE q == Append(p, x)
             v == A(p)
             R == S \union Range(p)
  <2>1. /\ v \in Wallets /\ A(q) = BlockConnected(v, x)
        /\ q \in Seq(Block) /\ Len(q) = Len(p) + 1 /\ \A i \in 1..Len(p) : q[i] = p[i]
        /\ q[Len(p) + 1] = x /\ Range(q) = Range(p) \union {x} /\ Len(p) \in Nat
    BY AllConnectedStep, AppendFacts
  <2>2. PathApart(S, p) => DatedOn(v.hist, R)
    BY <1>2
  <2>3. \A a : a \in Range(p) <=> \E i \in 1..Len(p) : a = p[i]
    BY RangeFacts
  <2> HIDE DEF q, v
  <2>4. SUFFICES ASSUME PathApart(S, q) PROVE DatedOn(BlockConnected(v, x).hist, R \union {x})
    <3>1. S \union Range(q) = R \union {x}
      BY <2>1
    <3> HIDE DEF R, A
    <3> QED BY <2>1, <3>1 DEF q
  <2>5. PathApart(S, p)
    BY <2>1, <2>4 DEF PathApart
  <2>6. \A a \in R : Apart(a, x)
    <3>1. ASSUME NEW a \in S PROVE Apart(a, x)
      BY <2>1, <2>4 DEF PathApart
    <3>2. ASSUME NEW i \in 1..Len(p) PROVE Apart(p[i], x)
      <4>1. i \in 1..Len(q) /\ Len(q) \in 1..Len(q) /\ i # Len(q) /\ q[i] = p[i] /\ q[Len(q)] = x
        BY <2>1
      <4> QED BY <2>4, <4>1 DEF PathApart
    <3> QED BY <2>3, <3>1, <3>2
  <2> HIDE DEF R
  <2> QED BY <2>1, <2>2, <2>5, <2>6, ConnectDates
<1> HIDE DEF T
<1>3. path \in T
  BY <1>1, <1>2, SeqUpward
<1> QED BY <1>3 DEF T

\* Catching up dates every payment of the chain, wherever the wallet was saved.
LEMMA CatchUpDates ==
    ASSUME NEW w \in Wallets, NEW b \in Block, Connectable(b), DatedOn(w.hist, Ancestors(w.synced))
    PROVE  DatedOn(CaughtUp(w, b).hist, Ancestors(b))
<1> DEFINE C == Chain(b)
           n == Len(C)
           k == IF IsAncestor(w.synced, b) THEN Height(w.synced) + 2 ELSE 1
           u == Unseen(w, b)
           S == {C[i] : i \in 1..k - 1}
<1>1. C \in Seq(Block) /\ n \in Nat \ {0}
  BY ChainShape
<1>2. k \in 1..n + 1 /\ DatedOn(w.hist, S)
  <2>1. ASSUME IsAncestor(w.synced, b) PROVE k \in 1..n + 1 /\ DatedOn(w.hist, S)
    <3> DEFINE a == w.synced
    <3>1. PICK i \in 1..n : a = C[i]
      BY <2>1, AncestorsAre DEF IsAncestor
    <3>2. Len(Chain(a)) = i /\ Chain(a) = SubSeq(C, 1, i) /\ a \in Block
      BY <3>1, AncestorPrefix
    <3>3. k = i + 1
      BY <2>1, <3>2 DEF Height
    <3> HIDE DEF k
    <3>4. S \subseteq Ancestors(a)
      <4> SUFFICES ASSUME NEW j \in 1..i PROVE C[j] \in Ancestors(a)
        BY <3>3
      <4>1. C[j] = Chain(a)[j] /\ j \in 1..Len(Chain(a))
        BY <1>1, <3>1, <3>2
      <4> HIDE DEF a, C, n
      <4> QED BY <3>2, <4>1, AncestorsAre
    <3>5. DatedOn(w.hist, S)
      BY <3>4 DEF DatedOn
    <3> HIDE DEF C, n, S
    <3> QED BY <1>1, <3>1, <3>3, <3>5
  <2>2. ASSUME ~ IsAncestor(w.synced, b) PROVE k \in 1..n + 1 /\ DatedOn(w.hist, S)
    <3>1. k = 1
      BY <2>2
    <3> HIDE DEF k
    <3>2. S = {}
      BY <3>1
    <3> HIDE DEF S, C, n
    <3> QED BY <1>1, <3>1, <3>2 DEF DatedOn
  <2> QED BY <2>1, <2>2
<1>3. u \in Seq(Block) /\ u = SubSeq(C, k, n) /\ CaughtUp(w, b) = AllConnected(w, u)
  BY UnseenFacts DEF Unseen
<1>4. \A i, j \in 1..n : i # j => Apart(C[i], C[j])
  BY ChainApart
<1>5. \A a : a \in Ancestors(b) <=> \E i \in 1..n : a = C[i]
  BY AncestorsAre
<1> HIDE DEF C, n, k, u
<1>6. Len(u) = n - k + 1 /\ \A i \in 1..Len(u) : u[i] = C[k - 1 + i] /\ k - 1 + i \in k..n
  BY <1>1, <1>2, <1>3
<1>7. PathApart(S, u)
  <2>1. ASSUME NEW i \in 1..Len(u), NEW j \in 1..k - 1 PROVE Apart(C[j], u[i])
    <3>1. k - 1 + i \in 1..n /\ j \in 1..n /\ j # k - 1 + i /\ u[i] = C[k - 1 + i]
      BY <1>1, <1>2, <1>6
    <3> QED BY <1>4, <3>1
  <2>2. ASSUME NEW i \in 1..Len(u), NEW j \in 1..Len(u), i # j PROVE Apart(u[i], u[j])
    <3>1. /\ k - 1 + i \in 1..n /\ k - 1 + j \in 1..n /\ k - 1 + i # k - 1 + j
          /\ u[i] = C[k - 1 + i] /\ u[j] = C[k - 1 + j]
      BY <1>1, <1>2, <1>6, <2>2
    <3> QED BY <1>4, <3>1
  <2> QED BY <2>1, <2>2 DEF PathApart
<1>8. Ancestors(b) \subseteq S \union Range(u)
  <2> SUFFICES ASSUME NEW i \in 1..n PROVE C[i] \in S \union Range(u)
    BY <1>5
  <2>1. CASE i \in 1..k - 1
    BY <2>1
  <2>2. CASE ~ (i \in 1..k - 1)
    <3>1. i - k + 1 \in 1..Len(u) /\ k - 1 + (i - k + 1) = i
      BY <1>1, <1>2, <1>6, <2>2
    <3>2. C[i] = u[i - k + 1]
      BY <1>6, <3>1
    <3> DEFINE m == i - k + 1
    <3>3. m \in 1..Len(u) /\ C[i] = u[m]
      BY <3>1, <3>2
    <3> HIDE DEF m
    <3>4. u[m] \in Range(u)
      BY <1>3, <3>3, RangeFacts
    <3> HIDE DEF S
    <3> QED BY <3>3, <3>4
  <2> QED BY <2>1, <2>2
<1> HIDE DEF S
<1>9. DatedOn(AllConnected(w, u).hist, S \union Range(u))
  BY <1>2, <1>3, <1>7, PathDates
<1> QED BY <1>3, <1>8, <1>9 DEF DatedOn

\* A disconnected block leaves the payments of the blocks below it.
LEMMA DisconnectDates ==
    ASSUME NEW w \in Wallets, NEW b \in Block, b # Genesis, Connectable(b), DatedOn(w.hist, Ancestors(b))
    PROVE  DatedOn(BlockDisconnected(w, b).hist, Ancestors(Parent[b]))
<1> DEFINE d == BlockDisconnected(w, b)
<1>1. Ancestors(Parent[b]) \subseteq Ancestors(b) \ {b}
  <2>1. Ancestors(Parent[b]) \subseteq Ancestors(b) /\ Height(b) = Height(Parent[b]) + 1 /\ Parent[b] \in Block
    BY ParentAncestors, ChainShape
  <2>2. Height(Parent[b]) \in Nat /\ (b \in Ancestors(Parent[b]) => Height(b) <= Height(Parent[b]))
    BY <2>1, LowerAncestor, ChainShape
  <2> QED BY <2>1, <2>2
<1>2. /\ DOMAIN d.hist = {t \in DOMAIN w.hist : ~ (t \in TxSet(b) /\ Coinbase(t))}
      /\ \A t \in DOMAIN d.hist : t \notin TxSet(b) => d.hist[t] = w.hist[t]
  BY BlockDisconnectedFacts
<1> HIDE DEF d
<1>3. ASSUME NEW a \in Ancestors(Parent[b]), NEW t \in TxSet(a), OwnOuts(t) # {}
      PROVE  t \in DOMAIN d.hist /\ d.hist[t].height = Height(a)
  <2>1. a \in Ancestors(b) /\ Apart(a, b)
    BY <1>1, ChainApart
  <2>2. t \notin TxSet(b)
    BY <2>1 DEF Apart
  <2>3. t \in DOMAIN w.hist /\ w.hist[t].height = Height(a)
    BY <1>3, <2>1 DEF DatedOn
  <2> QED BY <1>2, <2>2, <2>3
<1> QED BY <1>3 DEF DatedOn, d

\* What is in the pool and was not there before is not in the chain.
LEMMA NewUnconfirmed ==
    ASSUME NEW b \in Block, NEW ord, Settled(ord, b), NEW ts \in Seq(Tx)
    PROVE  \A t \in Range(Offered(ord, b, ts)) \ Range(ord) : ~ \E a \in Ancestors(b) : t \in TxSet(a)
<1> DEFINE O(p) == Offered(ord, b, p)
           Absent(t) == ~ \E a \in Ancestors(b) : t \in TxSet(a)
           T == {p \in Seq(Tx) : \A t \in Range(O(p)) \ Range(ord) : Absent(t)}
<1>0. ord \in Seq(Tx)
  BY DEF Settled
<1>1. <<>> \in T
  BY <1>0, OfferedStep
<1>2. ASSUME NEW p \in Seq(Tx), NEW x \in Tx, p \in T PROVE Append(p, x) \in T
  <2> DEFINE q == Append(p, x)
  <2>1. O(p) \in Seq(Tx) /\ O(q) = OfferedNext(O(p), b, x) /\ q \in Seq(Tx)
    BY <1>0, OfferedStep, AppendFacts
  <2>2. \A t \in Range(O(p)) \ Range(ord) : Absent(t)
    BY <1>2
  <2> HIDE DEF O, q, Absent
  <2>3. CASE Accepts(O(p), b, x)
    <3>1. O(q) = Append(O(p), x)
      BY <2>1, <2>3 DEF OfferedNext
    <3>2. Range(Append(O(p), x)) = Range(O(p)) \union {x}
      BY <2>1, AppendFacts
    <3>3. TxHeight(x, b) = -1
      BY <2>3 DEF Accepts
    <3>4. Absent(x)
      BY <3>3, TxHeightFacts DEF Absent
    <3>5. Range(O(q)) = Range(O(p)) \union {x}
      BY <3>1, <3>2
    <3> QED BY <2>1, <2>2, <3>4, <3>5 DEF q
  <2>4. CASE ~ Accepts(O(p), b, x)
    <3>1. O(q) = O(p)
      BY <2>1, <2>4 DEF OfferedNext
    <3> QED BY <2>1, <2>2, <3>1 DEF q
  <2> QED BY <2>3, <2>4
<1> HIDE DEF T
<1>3. ts \in T
  BY <1>1, <1>2, SeqUpward
<1> QED BY <1>3 DEF T

\* The file holds the payments of the chain to the block it was saved at, and a
\* running wallet is at the tip and holds those of its chain.
HistInv ==
    /\ walletFile.synced \in Block /\ DatedOn(walletFile.hist, Ancestors(walletFile.synced))
    /\ mode = "up" => wallet.synced = tip /\ DatedOn(wallet.hist, Ancestors(tip))

\* The invariant of the history holds at the start.
LEMMA HistInit == Init => HistInv
<1> SUFFICES ASSUME Init PROVE HistInv
  OBVIOUS
<1> DEFINE e == [coins |-> <<>>, hist |-> <<>>, synced |-> Genesis]
<1>1. e \in Wallets
  <2>1. DOMAIN <<>> = {} /\ <<>> = [x \in DOMAIN <<>> |-> <<>>[x]]
    OBVIOUS
  <2>2. {} \in CoinSets /\ {} \in SUBSET Tx
    BY DEF CoinSets
  <2>3. <<>> \in CoinMaps /\ <<>> \in HistMaps
    BY <2>1, <2>2, MapsAre
  <2> QED BY <2>3, BlockTreeAssumption DEF Wallets
<1>2. NewWallet = BlockConnected(e, Genesis)
  BY DEF NewWallet
<1> HIDE DEF e
<1>3. Genesis \in Block /\ Ancestors(Genesis) = {Genesis}
  <2>1. Genesis \in Block /\ Chain(Genesis) = <<Genesis>>
    BY BlockTreeAssumption, PathAssumption DEF Chain
  <2> QED BY <2>1 DEF Ancestors, AncestorSets, Range
<1>4. DatedOn(e.hist, {}) /\ \A a \in {} : Apart(a, Genesis)
  BY DEF DatedOn
<1>5. DatedOn(BlockConnected(e, Genesis).hist, {} \union {Genesis})
  BY <1>1, <1>3, <1>4, ConnectDates
<1>6. NewWallet.synced = Genesis /\ DatedOn(NewWallet.hist, Ancestors(Genesis))
  BY <1>1, <1>2, <1>3, <1>5, BlockConnectedFacts
<1> QED BY <1>3, <1>6 DEF Init, WalletInit, HistInv

\* Recording what is new in the pool leaves the chain's payments dated.
LEMMA RecordedDates ==
    ASSUME ChainInv, ListenInv, mode = "up", HistInv, NEW ts \in Seq(Tx),
           order' = Offered(Rebuilt(tip), tip, ts)
    PROVE  LET w == Recorded(wallet, NewInPool)
           IN  /\ w \in Wallets /\ w.synced = tip /\ DatedOn(w.hist, Ancestors(tip))
               /\ NewInPool \in Seq(Tx)
               /\ \A t \in Range(NewInPool) : t \in Range(ts) /\ ~ \E a \in Ancestors(tip) : t \in TxSet(a)
<1> DEFINE o == Offered(Rebuilt(tip), tip, ts)
           new == NewInPool
           w == Recorded(wallet, new)
<1>1. tip \in Block /\ PoolInv /\ wallet \in Wallets
  BY DEF ChainInv, OnSound, ListenInv, WalletInv
<1>2. Settled(Rebuilt(tip), tip) /\ Range(Rebuilt(tip)) \subseteq Range(order)
  BY <1>1, OfferedSettled
<1>3. /\ \A t \in Range(o) \ Range(Rebuilt(tip)) : ~ \E a \in Ancestors(tip) : t \in TxSet(a)
      /\ Range(o) \subseteq Range(Rebuilt(tip)) \union Range(ts) /\ o \in Seq(Tx)
  BY <1>1, <1>2, NewUnconfirmed, OfferedFacts DEF Settled
<1>4. new = Filter(o, Tx \ Range(order))
  BY DEF NewInPool
<1> HIDE DEF o, new
<1>5. new \in Seq(Tx) /\ Range(new) = Range(o) \intersect (Tx \ Range(order))
  BY <1>3, <1>4, FilterFacts
<1>6. \A t \in Range(new) : t \in Range(ts) /\ ~ \E a \in Ancestors(tip) : t \in TxSet(a)
  BY <1>2, <1>3, <1>5
<1>7. w \in Wallets /\ w.synced = wallet.synced
  BY <1>1, <1>5, RecordedSynced
<1>8. \A t \in DOMAIN wallet.hist \ Range(new) : t \in DOMAIN w.hist /\ w.hist[t] = wallet.hist[t]
  BY <1>1, <1>5, RecordedHist
<1> HIDE DEF w
<1>9. DatedOn(w.hist, Ancestors(tip))
  <2> SUFFICES ASSUME NEW a \in Ancestors(tip), NEW t \in TxSet(a), OwnOuts(t) # {}
               PROVE  t \in DOMAIN w.hist /\ w.hist[t].height = Height(a)
    BY DEF DatedOn
  <2>1. t \in DOMAIN wallet.hist /\ wallet.hist[t].height = Height(a)
    BY DEF HistInv, DatedOn
  <2> QED BY <1>6, <1>8, <2>1
<1>10. w.synced = tip
  BY <1>7 DEF HistInv
<1> QED BY <1>5, <1>6, <1>7, <1>9, <1>10 DEF w, new

\* A step that leaves the wallet's histories, and the tip while it runs.
LEMMA HistSame ==
    ASSUME HistInv, UNCHANGED walletFile, UNCHANGED wallet \/ mode' # "up",
           mode' = "up" => mode = "up" /\ tip' = tip
    PROVE  HistInv'
<1>1. walletFile'.synced = walletFile.synced /\ walletFile'.hist = walletFile.hist
  OBVIOUS
<1>2. ASSUME mode' = "up" PROVE wallet'.synced = tip' /\ DatedOn(wallet.hist, Ancestors(tip))' 
  <2>1. mode = "up" /\ tip' = tip /\ wallet' = wallet
    BY <1>2
  <2> QED BY <2>1 DEF HistInv, DatedOn
<1>3. DatedOn(walletFile.hist, Ancestors(walletFile.synced))'
  BY DEF HistInv, DatedOn
<1> QED BY <1>1, <1>2, <1>3 DEF HistInv

\* Every step keeps the histories.
LEMMA HistStep ==
    ASSUME ChainInv, ListenInv, HistInv, [Next]_vars
    PROVE  HistInv'
<1>0. /\ tip \in Block /\ tip' \in Block /\ Connectable(tip) /\ Connectable(tip')
      /\ wallet \in Wallets /\ walletFile \in Wallets /\ PoolInv
      /\ ChainInv'
  <2>1. ChainInv'
    BY ChainStep
  <2> QED BY <2>1 DEF ChainInv, OnSound, Connectable, ListenInv, WalletInv
<1>1. ASSUME NEW b \in Block, ReceiveBlock(b) \/ SelectCandidate(b) PROVE HistInv'
  <2>1. UNCHANGED <<wallet, walletFile, mode, tip>>
    BY <1>1 DEF ReceiveBlock, SelectCandidate, walletVars
  <2> QED BY <2>1, HistSame
<1>2. CASE Quiet \/ SameTip
  <2>1. UNCHANGED <<wallet, walletFile, mode, tip>>
    BY <1>2, QuietLeaves DEF SameTip, walletVars
  <2> QED BY <2>1, HistSame
<1>3. CASE DisconnectTip
  <2>1. /\ tip' = Parent[tip] /\ UNCHANGED <<walletFile, mode>> /\ tip # Genesis
        /\ mode = "up" => wallet' = BlockDisconnected(wallet, tip)
    <3>1. cand \in Block /\ tip \notin Ancestors(cand)
      BY <1>3 DEF DisconnectTip, ChainInv, IsAncestor
    <3> QED BY <1>3, <3>1, GenesisAncestor DEF DisconnectTip, Running
  <2>2. CASE mode # "up"
    BY <2>1, <2>2, HistSame
  <2>3. CASE mode = "up"
    <3> DEFINE d == BlockDisconnected(wallet, tip)
    <3>1. d.synced = Parent[tip]
      BY <1>0, BlockDisconnectedFacts
    <3>2. DatedOn(wallet.hist, Ancestors(tip))
      BY <2>3 DEF HistInv
    <3>3. DatedOn(d.hist, Ancestors(Parent[tip]))
      BY <1>0, <2>1, <3>2, DisconnectDates
    <3> HIDE DEF d
    <3>4. wallet' = d
      BY <2>1, <2>3 DEF d
    <3>5. wallet'.synced = tip' /\ DatedOn(wallet'.hist, Ancestors(tip'))
      BY <2>1, <3>1, <3>3, <3>4
    <3> QED BY <2>1, <3>5 DEF HistInv, DatedOn
  <2> QED BY <2>2, <2>3
<1>4. CASE ConnectBlock
  <2> DEFINE n == NextBlock
  <2>1. /\ tip' = n /\ UNCHANGED <<walletFile, mode>>
        /\ mode = "up" => wallet' = BlockConnected(wallet, n)
    BY <1>4 DEF ConnectBlock, Running
  <2>2. n \in Block /\ Ancestors(n) = Ancestors(tip) \union {n} /\ Height(n) = Height(tip) + 1
    <3>1. /\ cand \in Block /\ tip \in Ancestors(cand) /\ Height(tip) < Height(cand)
          /\ Height(tip) \in Nat
      BY <1>0, <1>4, ChainShape DEF ConnectBlock, ChainInv, IsAncestor
    <3>2. tip # cand
      BY <3>1
    <3> QED BY <1>0, <3>1, <3>2, NextAbove
  <2> HIDE DEF n
  <2>3. CASE mode # "up"
    BY <2>1, <2>3, HistSame
  <2>4. CASE mode = "up"
    <3> DEFINE c == BlockConnected(wallet, n)
    <3>1. \A a \in Ancestors(tip) : Apart(a, n)
      <4> TAKE a \in Ancestors(tip)
      <4>1. a # n
        BY <1>0, <2>2, LowerAncestor, ChainShape
      <4>2. Connectable(n)
        BY <1>0, <2>1
      <4> QED BY <2>2, <4>1, <4>2, ChainApart
    <3>2. DatedOn(wallet.hist, Ancestors(tip))
      BY <2>4 DEF HistInv
    <3>3. DatedOn(c.hist, Ancestors(tip) \union {n})
      BY <1>0, <2>2, <3>1, <3>2, ConnectDates
    <3>4. c.synced = n
      BY <1>0, <2>2, BlockConnectedFacts
    <3> HIDE DEF c
    <3>5. wallet' = c
      BY <2>1, <2>4 DEF c
    <3>6. wallet'.synced = tip' /\ DatedOn(wallet'.hist, Ancestors(tip'))
      BY <2>1, <2>2, <3>3, <3>4, <3>5
    <3> QED BY <2>1, <3>6 DEF HistInv, DatedOn
  <2> QED BY <2>3, <2>4
<1>5. CASE NewTip
  <2>1. tip' = tip /\ mode' = mode /\ order' = Offered(Rebuilt(tip), tip, readd) /\ readd \in Seq(Tx)
    BY <1>0, <1>5 DEF NewTip, PoolTip, PoolInv
  <2>2. CASE mode # "up"
    <3>1. UNCHANGED walletVars
      BY <1>5, <2>2 DEF NewTip, Running
    <3> QED BY <2>1, <2>2, <3>1, HistSame DEF walletVars
  <2>3. CASE mode = "up"
    <3> DEFINE w == Recorded(wallet, NewInPool)
               o == order'
               r == Refreshed(w, tip, o, PoolSpends(o))
    <3>1. w \in Wallets /\ w.synced = tip /\ DatedOn(w.hist, Ancestors(tip))
      BY <2>1, <2>3, RecordedDates
    <3>2. o \in Seq(Tx)
      <4>1. Settled(Offered(Rebuilt(tip), tip, readd), tip)
        BY <1>0, <2>1, OfferedSettled
      <4> QED BY <2>1, <4>1 DEF Settled
    <3>3. wallet' = r /\ walletFile' \in {r, w, walletFile}
      BY <1>5, <2>3 DEF NewTip, Running
    <3> HIDE DEF w, o
    <3>4. r.synced = w.synced /\ r.hist = w.hist
      BY <1>0, <3>1, <3>2, RefreshedFacts
    <3> HIDE DEF r
    <3>5. wallet'.synced = tip' /\ DatedOn(wallet'.hist, Ancestors(tip'))
      BY <2>1, <3>1, <3>3, <3>4
    <3>6. walletFile'.synced \in Block /\ DatedOn(walletFile'.hist, Ancestors(walletFile'.synced))
      BY <1>0, <3>1, <3>3, <3>4 DEF HistInv
    <3> QED BY <3>5, <3>6 DEF HistInv, DatedOn
  <2> QED BY <2>2, <2>3
<1>6. ASSUME NEW t \in Tx, SubmitTx(t) \/ SendTx(t) PROVE HistInv'
  <2> DEFINE w == Recorded(wallet, NewInPool)
             low == -1
             p == ProcessTx(w, t, low)
             one == <<t>>
  <2>1. /\ mode = "up" /\ UNCHANGED <<mode, tip>>
        /\ order' = Offered(Rebuilt(tip), tip, one) /\ one \in Seq(Tx) /\ Range(one) = {t}
    BY <1>6 DEF SubmitTx, SendTx, PoolAccept, Idle, chainVars, Range
  <2>2. /\ w \in Wallets /\ w.synced = tip /\ DatedOn(w.hist, Ancestors(tip))
        /\ NewInPool \in Seq(Tx)
        /\ \A x \in Range(NewInPool) : x \in Range(one) /\ ~ \E a \in Ancestors(tip) : x \in TxSet(a)
    BY <2>1, RecordedDates
  <2>3. /\ wallet' \in {w, wallet} \/ (NewInPool # <<>> /\ wallet' = p)
        /\ walletFile' \in {walletFile, wallet'}
    BY <1>6 DEF SubmitTx, SendTx
  <2>4. low \in Int
    OBVIOUS
  <2> HIDE DEF w, low, one
  <2>5. Processed(w, t, low, p)
    BY <2>2, <2>4, ProcessTxFacts
  <2> HIDE DEF p
  <2>6. NewInPool # <<>> => p.synced = tip /\ DatedOn(p.hist, Ancestors(tip))
    <3> SUFFICES ASSUME NewInPool # <<>> PROVE p.synced = tip /\ DatedOn(p.hist, Ancestors(tip))
      OBVIOUS
    <3>1. ~ \E a \in Ancestors(tip) : t \in TxSet(a)
      <4> DEFINE new == NewInPool
      <4>1. new # <<>> /\ new \in Seq(Tx)
        BY <2>2
      <4> HIDE DEF new
      <4>2. 1 \in 1..Len(new)
        BY <4>1
      <4>3. new[1] \in Range(new)
        BY <4>1, <4>2, RangeFacts
      <4> QED BY <2>1, <2>2, <4>3 DEF new
    <3>2. p.synced = w.synced /\ \A x \in DOMAIN w.hist \ {t} : x \in DOMAIN p.hist /\ p.hist[x] = w.hist[x]
      BY <2>5 DEF Processed
    <3>3. DatedOn(p.hist, Ancestors(tip))
      BY <2>2, <3>1, <3>2 DEF DatedOn
    <3> QED BY <2>2, <3>2, <3>3
  <2>7. wallet.synced = tip /\ DatedOn(wallet.hist, Ancestors(tip))
    BY <2>1 DEF HistInv
  <2>8. wallet'.synced = tip /\ DatedOn(wallet'.hist, Ancestors(tip))
    BY <2>2, <2>3, <2>6, <2>7
  <2>9. walletFile'.synced \in Block /\ DatedOn(walletFile'.hist, Ancestors(walletFile'.synced))
    BY <1>0, <2>3, <2>8 DEF HistInv
  <2> QED BY <2>1, <2>8, <2>9 DEF HistInv, DatedOn
<1>7. CASE Stop
  <2>1. mode' = "down" /\ mode = "up" /\ walletFile' = wallet
    BY <1>7 DEF Stop, MemoryLost, Idle
  <2>2. walletFile'.synced \in Block /\ DatedOn(walletFile'.hist, Ancestors(walletFile'.synced))
    BY <1>0, <2>1 DEF HistInv
  <2> QED BY <2>1, <2>2 DEF HistInv, DatedOn
<1>8. CASE Crash \/ Start
  <2>1. mode' # "up" /\ UNCHANGED <<wallet, walletFile>>
    BY <1>8 DEF Crash, MemoryLost, Start, walletVars
  <2> QED BY <2>1, HistSame
<1>9. CASE Started
  <2> DEFINE w == CaughtUp(walletFile, tip)
             r == Refreshed(w, tip, order, PoolSpends(order))
  <2>1. tip' = tip /\ wallet' = r /\ walletFile' = r /\ order \in Seq(Tx)
    BY <1>0, <1>9 DEF Started, PoolInv
  <2>2. w \in Wallets /\ w.synced = tip
    BY <1>0, CaughtUpSynced
  <2>3. DatedOn(walletFile.hist, Ancestors(walletFile.synced))
    BY DEF HistInv
  <2>4. DatedOn(w.hist, Ancestors(tip))
    BY <1>0, <2>3, CatchUpDates
  <2> HIDE DEF w
  <2>5. r.synced = w.synced /\ r.hist = w.hist
    BY <1>0, <2>1, <2>2, RefreshedFacts
  <2> HIDE DEF r
  <2>6. r.synced = tip /\ DatedOn(r.hist, Ancestors(tip))
    BY <2>2, <2>4, <2>5
  <2>7. wallet'.synced = tip' /\ DatedOn(wallet'.hist, Ancestors(tip'))
    BY <2>1, <2>6
  <2>8. walletFile'.synced \in Block /\ DatedOn(walletFile'.hist, Ancestors(walletFile'.synced))
    BY <1>0, <2>1, <2>6
  <2> QED BY <2>7, <2>8 DEF HistInv, DatedOn
<1>10. CASE UNCHANGED vars
  <2>1. UNCHANGED <<wallet, walletFile, mode, tip>>
    BY <1>10 DEF vars, chainVars, walletVars
  <2> QED BY <2>1, HistSame
<1> QED BY <1>1, <1>2, <1>3, <1>4, <1>5, <1>6, <1>7, <1>8, <1>9, <1>10 DEF Next, Quiet

\* The invariant of the history has what PaymentsDated says.
LEMMA HistDated == HistInv => PaymentsDated
BY DEF HistInv, PaymentsDated, DatedOn, Idle

(***************************************************************************)
(* Transactions taken back                                                 *)
(***************************************************************************)
\* A coin of the chain is there for the next transaction unless the pool spends
\* it.
LEMMA KeptLeaves ==
    ASSUME NEW b \in Block, NEW s \in Seq(Tx)
    PROVE  Coins[b] \ PoolSpends(Kept(s, b).ord) \subseteq Kept(s, b).view
<1> DEFINE K(p) == Kept(p, b)
           Holds(k) == Coins[b] \ PoolSpends(k.ord) \subseteq k.view
           T == {p \in Seq(Tx) : Holds(K(p))}
<1>1. <<>> \in T
  <2>1. K(<<>>).view = Coins[b] /\ <<>> \in Seq(Tx)
    BY KeptStep
  <2> HIDE DEF K
  <2> QED BY <2>1
<1>2. ASSUME NEW p \in Seq(Tx), NEW x \in Tx, p \in T PROVE Append(p, x) \in T
  <2> DEFINE q == Append(p, x)
             k == K(p)
             r == Append(k.ord, x)
             v == Apply(k.view, x)
  <2>1. k \in KeptSet /\ K(q) = KeptNext(k, b, x) /\ q \in Seq(Tx) /\ Holds(k)
    BY <1>2, KeptStep, AppendFacts
  <2>2. k.ord \in Seq(Tx)
    BY <2>1 DEF KeptSet
  <2> HIDE DEF K, k
  <2>3. CASE Applies(k.view, b, x)
    <3>1. K(q) = [ord |-> r, view |-> v]
      BY <2>1, <2>3 DEF KeptNext
    <3>2. PoolSpends(r) = PoolSpends(k.ord) \union Ins[x]
      BY <2>2, SpendsAre
    <3>3. v = (k.view \ Ins[x]) \union OutCoins(x)
      BY DEF Apply
    <3> HIDE DEF r, v
    <3>4. K(q).ord = r /\ K(q).view = v
      BY <3>1
    <3>5. Holds(K(q))
      BY <2>1, <3>2, <3>3, <3>4
    <3> QED BY <2>1, <3>5
  <2>4. CASE ~ Applies(k.view, b, x)
    <3>1. K(q) = k
      BY <2>1, <2>4 DEF KeptNext
    <3>2. Holds(K(q))
      BY <2>1, <3>1
    <3> QED BY <2>1, <3>2
  <2> QED BY <2>3, <2>4
<1> HIDE DEF T
<1>3. s \in T
  BY <1>1, <1>2, SeqUpward
<1> QED BY <1>3 DEF T

\* Why a transaction that was offered to the pool is not in it.
Settles(t, o, b) ==
    \/ t \in Range(o) \/ t \notin Standard \/ Coinbase(t) \/ TxHeight(t, b) # -1
    \/ Len(o) >= MaxPool
    \/ \E c \in Ins[t] :
          \/ c \notin Coins[b] \/ c \in PoolSpends(o)
          \/ Coinbase(c[1]) /\ ~ MatureAt(c, TxHeight(c[1], b), b)

\* It remains a reason when another transaction is added.
LEMMA SettlesOn ==
    ASSUME NEW o \in Seq(Tx), NEW x \in Tx, NEW b, NEW t, Settles(t, o, b)
    PROVE  Settles(t, Append(o, x), b)
<1> DEFINE q == Append(o, x)
<1>1. Range(o) \subseteq Range(q) /\ Len(q) = Len(o) + 1 /\ Len(o) \in Nat
  BY AppendFacts
<1>2. PoolSpends(o) \subseteq PoolSpends(q)
  BY SpendsAre
<1>3. Len(o) >= MaxPool => Len(q) >= MaxPool
  BY <1>1, PoolAssumption
<1> HIDE DEF q
<1> QED BY <1>1, <1>2, <1>3 DEF Settles, q

\* There is one for every transaction offered.
LEMMA OfferedSettles ==
    ASSUME NEW b \in Block, NEW ord, Settled(ord, b), NEW ts \in Seq(Tx)
    PROVE  \A t \in Range(ts) : Settles(t, Offered(ord, b, ts), b)
<1> DEFINE O(p) == Offered(ord, b, p)
           T == {p \in Seq(Tx) : \A t \in Range(p) : Settles(t, O(p), b)}
<1>0. ord \in Seq(Tx)
  BY DEF Settled
<1>1. <<>> \in T
  BY DEF Range
<1>2. ASSUME NEW p \in Seq(Tx), NEW x \in Tx, p \in T PROVE Append(p, x) \in T
  <2> DEFINE q == Append(p, x)
             o == O(p)
             k == Kept(o, b)
  <2>1. o \in Seq(Tx) /\ O(q) = OfferedNext(o, b, x) /\ q \in Seq(Tx) /\ Range(q) = Range(p) \union {x}
    BY <1>0, OfferedStep, AppendFacts
  <2>2. \A t \in Range(p) : Settles(t, o, b)
    BY <1>2
  <2>3. Settled(o, b)
    BY OfferedFacts
  <2> HIDE DEF O, o, q
  <2>4. CASE Accepts(o, b, x)
    <3>1. O(q) = Append(o, x) /\ x \in Range(Append(o, x))
      BY <2>1, <2>4, AppendFacts DEF OfferedNext
    <3>2. \A t \in Range(q) : Settles(t, Append(o, x), b)
      BY <2>1, <2>2, <3>1, SettlesOn DEF Settles
    <3> QED BY <2>1, <3>1, <3>2 DEF q
  <2>5. CASE ~ Accepts(o, b, x)
    <3>1. O(q) = o
      BY <2>1, <2>5 DEF OfferedNext
    <3>2. k.ord = o /\ Coins[b] \ PoolSpends(o) \subseteq k.view
      BY <2>1, <2>3, KeptLeaves DEF Settled
    <3>3. Len(o) \in Nat
      BY <2>1
    <3> HIDE DEF k
    <3>4. ~ Applies(k.view, b, x) => Settles(x, o, b)
      <4> SUFFICES ASSUME ~ Applies(k.view, b, x) PROVE Settles(x, o, b)
        OBVIOUS
      <4>1. PICK c \in Ins[x] : c \notin k.view \/ (Coinbase(c[1]) /\ ~ MatureAt(c, TxHeight(c[1], b), b))
        BY DEF Applies
      <4>2. c \notin k.view => c \notin Coins[b] \/ c \in PoolSpends(o)
        BY <3>2
      <4> QED BY <4>1, <4>2 DEF Settles
    <3>5. ~ (Len(o) < MaxPool) => Settles(x, o, b)
      BY <3>3, PoolAssumption DEF Settles
    <3>6. Settles(x, o, b)
      BY <2>5, <3>4, <3>5 DEF Accepts, Settles, k
    <3> QED BY <2>1, <2>2, <3>1, <3>6 DEF q
  <2> QED BY <2>4, <2>5
<1> HIDE DEF T
<1>3. ts \in T
  BY <1>1, <1>2, SeqUpward
<1> QED BY <1>3 DEF T

\* What the activation has taken out of the chain waits to be taken back.
DropInv == from # None => Displaced \subseteq Range(readd)

\* Every step keeps the displaced transactions among those to be taken back.
LEMMA DropStep ==
    ASSUME ChainInv, ListenInv, DropInv, [Next]_vars
    PROVE  DropInv'
<1>0. /\ tip \in Block /\ (from # None => from \in Block) /\ readd \in Seq(Tx)
      /\ Displaced' = UNION {Range(Tail(TxsOf[b])) : b \in Ancestors(from') \ Ancestors(tip')}
  BY DEF ChainInv, OnSound, ListenInv, PoolInv, Displaced
<1>1. CASE ReceiveWitness \/ \E b \in Block : ReceiveBlock(b)
  <2>1. from' = tip /\ tip' = tip
    BY <1>1 DEF ReceiveBlock, ReceiveWitness
  <2>2. Displaced' = {}
    BY <1>0, <2>1
  <2> QED BY <2>2 DEF DropInv
<1>2. CASE DisconnectTip
  <2> DEFINE ts == Tail(TxsOf[tip])
  <2>1. /\ tip' = Parent[tip] /\ from' = from /\ from # None
        /\ readd' = readd \o ts /\ tip # Genesis
    <3>1. cand \in Block /\ tip \notin Ancestors(cand) /\ from # None
      BY <1>2 DEF DisconnectTip, ChainInv, IsAncestor
    <3> QED BY <1>0, <1>2, <3>1, GenesisAncestor DEF DisconnectTip, PoolDisconnect
  <2>2. Ancestors(tip) = Ancestors(Parent[tip]) \union {tip}
    BY <1>0, <2>1, ParentAncestors
  <2>3. ts \in Seq(Tx)
    <3>1. TxsOf[tip] \in Seq(Tx) /\ TxsOf[tip] # <<>>
      BY <1>0, BlockTreeAssumption
    <3> QED BY <3>1
  <2> HIDE DEF ts
  <2>4. Range(readd) \subseteq Range(readd') /\ Range(ts) \subseteq Range(readd')
    BY <1>0, <2>1, <2>3, ConcatFacts
  <2>5. ASSUME NEW b \in Ancestors(from') \ Ancestors(tip') PROVE Range(Tail(TxsOf[b])) \subseteq Range(readd')
    <3>1. CASE b = tip
      BY <2>4, <3>1 DEF ts
    <3>2. CASE b # tip
      <4>1. b \in Ancestors(from) \ Ancestors(tip)
        BY <2>1, <2>2, <2>5, <3>2
      <4>2. Range(Tail(TxsOf[b])) \subseteq Range(readd)
        BY <2>1, <4>1 DEF DropInv, Displaced
      <4> QED BY <2>4, <4>2
    <3> QED BY <3>1, <3>2
  <2>6. Displaced' \subseteq Range(readd')
    BY <1>0, <2>5
  <2> QED BY <2>6 DEF DropInv, Range
<1>3. CASE ConnectBlock
  <2>1. /\ tip' = NextBlock /\ from' = from /\ from # None /\ readd' = readd
        /\ cand \in Block /\ tip \in Ancestors(cand) /\ Height(tip) < Height(cand)
        /\ Height(tip) \in Nat
    BY <1>0, <1>3, ChainShape DEF ConnectBlock, ChainInv, PoolConnect, IsAncestor
  <2>2. tip # cand
    BY <2>1
  <2>3. Ancestors(tip) \subseteq Ancestors(tip')
    BY <1>0, <2>1, <2>2, NextAbove
  <2>4. Displaced' \subseteq Displaced
    BY <1>0, <2>1, <2>3 DEF Displaced
  <2> QED BY <2>1, <2>4 DEF DropInv, Range
<1>4. CASE (Quiet /\ ~ ReceiveWitness) \/ \E b \in Block : SelectCandidate(b)
  <2>1. UNCHANGED <<from, tip, readd>>
    BY <1>4 DEF Quiet, AbortReorg, StallOnBlock, RejectBlock, UndoNotWritten, GiveUp, MarkFailed,
                SelectCandidate, poolVars
  <2> QED BY <1>0, <2>1 DEF DropInv, Displaced, Range
<1>5. CASE NewTip \/ SameTip \/ Stop \/ Crash \/ Started \/ \E t \in Tx : SubmitTx(t) \/ SendTx(t)
  <2>1. from' = None
    BY <1>5 DEF NewTip, SameTip, Stop, Crash, MemoryLost, Started, SubmitTx, SendTx, Idle, chainVars
  <2> QED BY <2>1 DEF DropInv
<1>6. CASE Start
  <2>1. from' = flushed /\ tip' = flushed
    BY <1>6 DEF Start
  <2>2. Displaced' = {}
    BY <1>0, <2>1
  <2> QED BY <2>2 DEF DropInv
<1>7. CASE UNCHANGED vars
  <2>1. UNCHANGED <<from, tip, readd>>
    BY <1>7 DEF vars, chainVars, poolVars
  <2> QED BY <1>0, <2>1 DEF DropInv, Displaced, Range
<1> QED BY <1>1, <1>2, <1>3, <1>4, <1>5, <1>6, <1>7 DEF Next, Quiet

\* A coinbase coin that a block of one connectable chain spends is mature on
\* another one that is as high.
LEMMA StillMature ==
    ASSUME NEW b \in Block, Connectable(b), NEW a \in Block, Connectable(a), Height(a) <= Height(b),
           NEW t \in TxSet(a), NEW c \in Ins[t], Coinbase(c[1]), c \in Coins[b]
    PROVE  MatureAt(c, TxHeight(c[1], b), b)
<1>1. TxHeight(c[1], a) >= 0 /\ Height(a) >= TxHeight(c[1], a) + Maturity
  BY ContentAssumption
<1>2. TxHeight(c[1], b) >= 0
  BY CoinsFrom, TxHeightFacts
<1>3. PICK a1 \in Ancestors(a) : c[1] \in TxSet(a1) /\ TxHeight(c[1], a) = Height(a1)
  BY <1>1, TxHeightFacts
<1>4. PICK b1 \in Ancestors(b) : c[1] \in TxSet(b1) /\ TxHeight(c[1], b) = Height(b1)
  BY <1>2, TxHeightFacts
<1>5. a1 \in Block /\ Connectable(a1) /\ b1 \in Block /\ Connectable(b1)
  BY ChainApart
<1>6. Height(a1) = Height(b1)
  BY <1>3, <1>4, <1>5, ContentAssumption
<1>7. Height(a) \in Nat /\ Height(b) \in Nat /\ Height(b1) \in Nat /\ Maturity \in Nat
  BY <1>5, ChainShape, BlockTreeAssumption
<1>8. Height(b) + 1 >= TxHeight(c[1], b) + Maturity
  BY <1>1, <1>3, <1>4, <1>6, <1>7
<1> QED BY <1>2, <1>8 DEF MatureAt

\* The end of an activation takes them back, or there is a reason not to.
LEMMA TipTakesBack ==
    ASSUME ChainInv, ListenInv, DropInv, NewTip
    PROVE  \A t \in Displaced : Retaken(t)
<1> SUFFICES ASSUME NEW t \in Displaced PROVE Retaken(t)
  OBVIOUS
<1> DEFINE o == Offered(Rebuilt(tip), tip, readd)
<1>1. /\ tip \in Block /\ Connectable(tip) /\ PoolInv /\ readd \in Seq(Tx)
      /\ order' = o /\ Activated /\ from # None
  BY DEF ChainInv, OnSound, Connectable, ListenInv, PoolInv, NewTip, PoolTip, Activated
<1>2. from \in Block /\ Connectable(from)
  BY <1>1 DEF ChainInv, OnSound, Connectable
<1>3. PICK a \in Ancestors(from) \ Ancestors(tip) : t \in Range(Tail(TxsOf[a]))
  BY DEF Displaced
<1>4. a \in Block /\ Connectable(a) /\ Height(a) \in Nat /\ Height(a) <= Height(from)
  BY <1>2, <1>3, ChainApart, LowerAncestor
<1>5. t \in TxSet(a) /\ ~ Coinbase(t)
  <2> DEFINE ts == TxsOf[a]
  <2>1. ts \in Seq(Tx) /\ ts # <<>>
    BY <1>4, BlockTreeAssumption
  <2> DEFINE r == Tail(ts)
  <2>2. /\ r \in Seq(Tx) /\ Len(r) = Len(ts) - 1 /\ Len(ts) \in Nat
        /\ \A i \in 1..Len(ts) - 1 : r[i] = ts[i + 1]
    BY <2>1
  <2>7. t \in Range(r)
    BY <1>3
  <2> HIDE DEF r
  <2>3. PICK i \in 1..Len(r) : t = r[i]
    BY <2>2, <2>7, RangeFacts
  <2>4. \A j \in 2..Len(ts) : ~ Coinbase(ts[j])
    BY <1>4, ContentAssumption
  <2> HIDE DEF ts
  <2>5. t = ts[i + 1] /\ i + 1 \in 2..Len(ts) /\ i + 1 \in 1..Len(ts)
    BY <2>2, <2>3
  <2>6. t \in Range(ts)
    BY <2>1, <2>5, RangeFacts
  <2> QED BY <2>4, <2>5, <2>6 DEF TxSet, ts
<1>6. Settled(Rebuilt(tip), tip) /\ Settled(o, tip)
  BY <1>1, OfferedSettled
<1>7. t \in Range(readd)
  BY <1>1 DEF DropInv
<1>8. Settles(t, o, tip)
  BY <1>1, <1>6, <1>7, OfferedSettles
<1> HIDE DEF o
<1>9. Len(o) <= MaxPool /\ Len(o) \in Nat /\ MaxPool \in Nat
  BY <1>6, PoolAssumption DEF Settled
<1>10. TxHeight(t, tip) # -1 => TxHeight(t, tip) >= 0
  BY <1>1, TxHeightFacts
<1>11. Height(from) \in Nat /\ Height(tip) \in Nat
  BY <1>1, <1>2, ChainShape
<1>12. Height(from) <= Height(tip) =>
         \A c \in Ins[t] : Coinbase(c[1]) /\ c \in Coins[tip] => MatureAt(c, TxHeight(c[1], tip), tip)
  BY <1>1, <1>4, <1>5, <1>11, StillMature
<1>13. Len(o) >= MaxPool => Len(o) = MaxPool
  BY <1>9
<1>14. \/ t \in Range(o) \/ TxHeight(t, tip) >= 0
       \/ t \notin Standard \/ Len(o) = MaxPool
       \/ \E c \in Ins[t] : c \notin Coins[tip] \/ c \in PoolSpends(o)
       \/ Height(tip) < Height(from) /\ \E c \in Ins[t] : ~ MatureAt(c, TxHeight(c[1], tip), tip)
  BY <1>5, <1>8, <1>10, <1>11, <1>12, <1>13 DEF Settles
<1> QED BY <1>1, <1>14 DEF Retaken

(***************************************************************************)
(* The indexes                                                             *)
(***************************************************************************)
Keys == {"pool", "trades", "msgs"}
Point == Nat \X (Block \union Tx)
Indexes == [Keys -> Seq(Point)]

\* Cutting a sequence of points at a height.
LEMMA CutFacts ==
    ASSUME NEW s \in Seq(Point), NEW h \in Nat
    PROVE  /\ Below(s, h) \in Seq(Point) /\ Range(Below(s, h)) = {p \in Range(s) : p[1] < h}
           /\ UpTo(s, h) \in Seq(Point) /\ Range(UpTo(s, h)) = {p \in Range(s) : p[1] <= h}
<1>1. /\ Below(s, h) \in Seq(Point)
      /\ Range(Below(s, h)) = Range(s) \intersect {p \in Range(s) : p[1] < h}
  BY FilterFacts DEF Below
<1>2. /\ UpTo(s, h) \in Seq(Point)
      /\ Range(UpTo(s, h)) = Range(s) \intersect {p \in Range(s) : p[1] <= h}
  BY FilterFacts DEF UpTo
<1> QED BY <1>1, <1>2

\* The points of a block lie at its height, at most one of each pool.
LEMMA PointsFacts ==
    ASSUME NEW b \in Block
    PROVE  /\ Points(b) \in Indexes /\ Len(Points(b)["pool"]) <= 1
           /\ \A k \in Keys : \A p \in Range(Points(b)[k]) : p[1] = Height(b)
<1> DEFINE h == Height(b)
           swaps == Marks(b, Swaps)
           msgs == Marks(b, Texts)
           pool == IF swaps = <<>> THEN <<>> ELSE <<<<h, b>>>>
<1>1. h \in Nat /\ TxsOf[b] \in Seq(Tx)
  BY ChainShape, BlockTreeAssumption
<1>2. swaps \in Seq(Tx) /\ msgs \in Seq(Tx)
  BY <1>1, FilterFacts DEF Marks
<1>3. Points(b) = [pool |-> pool, trades |-> At(h, swaps), msgs |-> At(h, msgs)]
  BY DEF Points
<1> HIDE DEF h
<1>4. ASSUME NEW ts \in Seq(Tx)
      PROVE  At(h, ts) \in Seq(Point) /\ \A p \in Range(At(h, ts)) : p[1] = h
  <2>1. At(h, ts) = [i \in 1..Len(ts) |-> <<h, ts[i]>>] /\ Len(ts) \in Nat
    BY DEF At
  <2>2. \A i \in 1..Len(ts) : <<h, ts[i]>> \in Point
    BY <1>1 DEF Point
  <2> QED BY <2>1, <2>2 DEF Range
<1>5. pool \in Seq(Point) /\ Len(pool) <= 1 /\ \A p \in Range(pool) : p[1] = h
  <2> DEFINE pt == <<h, b>>
  <2>1. pt \in Point /\ pt[1] = h
    BY <1>1 DEF Point
  <2> HIDE DEF pt
  <2>2. CASE swaps = <<>>
    BY <2>2 DEF Range
  <2>3. CASE swaps # <<>>
    <3>1. pool = <<pt>>
      BY <2>3 DEF pt
    <3> HIDE DEF pool
    <3> QED BY <2>1, <3>1 DEF Range
  <2> QED BY <2>2, <2>3
<1> HIDE DEF swaps, msgs, pool
<1>6. /\ DOMAIN Points(b) = Keys /\ Points(b) = [k \in Keys |-> Points(b)[k]]
      /\ Points(b)["pool"] = pool /\ Points(b)["trades"] = At(h, swaps) /\ Points(b)["msgs"] = At(h, msgs)
  BY <1>3 DEF Keys
<1>7. At(h, swaps) \in Seq(Point) /\ At(h, msgs) \in Seq(Point)
  BY <1>2, <1>4
<1>8. \A k \in Keys : Points(b)[k] \in Seq(Point)
  BY <1>5, <1>6, <1>7 DEF Keys
<1>9. \A k \in Keys : \A p \in Range(Points(b)[k]) : p[1] = h
  BY <1>2, <1>4, <1>5, <1>6 DEF Keys
<1>10. Points(b) \in Indexes
  BY <1>6, <1>8 DEF Indexes
<1> QED BY <1>5, <1>6, <1>9, <1>10 DEF h

\* The genesis block has none.
LEMMA GenesisPoints == \A k \in Keys : Points(Genesis)[k] = <<>>
<1>1. TxsOf[Genesis] \in Seq(Tx)
  BY BlockTreeAssumption
<1>2. Marks(Genesis, Swaps) = <<>> /\ Marks(Genesis, Texts) = <<>>
  BY <1>1, FilterNone, IndexAssumption DEF Marks, TxSet
<1>3. \A h : At(h, <<>>) = <<>>
  BY DEF At
<1> QED BY <1>2, <1>3 DEF Points, Keys

\* Adding points to every index.
LEMMA ExtendedFacts ==
    ASSUME NEW a \in Indexes, NEW e \in Indexes
    PROVE  /\ Extended(a, e) \in Indexes
           /\ \A k \in Keys : /\ Extended(a, e)[k] = a[k] \o e[k]
                              /\ Range(Extended(a, e)[k]) = Range(a[k]) \union Range(e[k])
<1>1. DOMAIN a = Keys /\ \A k \in Keys : a[k] \in Seq(Point) /\ e[k] \in Seq(Point)
  BY DEF Indexes
<1>2. ASSUME NEW k \in Keys
      PROVE  a[k] \o e[k] \in Seq(Point) /\ Range(a[k] \o e[k]) = Range(a[k]) \union Range(e[k])
  BY <1>1, ConcatFacts
<1>3. Extended(a, e) = [k \in Keys |-> a[k] \o e[k]]
  BY <1>1 DEF Extended
<1> QED BY <1>2, <1>3 DEF Indexes

LoadedFcn(f, s, k) == [i \in 0..Len(s) |-> IF i = 0 THEN <<>> ELSE PointRead(k, f[i - 1], s[i])]

\* A file read back, point by point.
LEMMA LoadedStep ==
    ASSUME NEW k
    PROVE  /\ LoadedPoints(k, <<>>) = <<>>
           /\ \A s \in Seq(Point) : LoadedPoints(k, s) \in Seq(Point)
           /\ \A s \in Seq(Point) : \A x \in Point :
                 LoadedPoints(k, Append(s, x)) = PointRead(k, LoadedPoints(k, s), x)
<1> DEFINE V == Seq(Point)
           v == <<>>
           G == [x \in Point |-> [a \in V |-> PointRead(k, a, x)]]
<1>1. Steps(Point, V, v, G)
  <2>1. ASSUME NEW a \in V, NEW x \in Point PROVE PointRead(k, a, x) \in V
    <3>1. x[1] \in Nat
      BY DEF Point
    <3>2. Below(a, x[1]) \in Seq(Point) /\ UpTo(a, x[1]) \in Seq(Point)
      BY <3>1, CutFacts
    <3> QED BY <3>2 DEF PointRead
  <2>2. <<>> \in V
    OBVIOUS
  <2> HIDE DEF V
  <2> QED BY <2>1, <2>2 DEF Steps
<1>2. \A x \in Point : \A a \in V : G[x][a] = PointRead(k, a, x)
  OBVIOUS
<1> HIDE DEF G, V, v
<1>3. TakesSteps(Point, V, v, G)
  BY <1>1, RunStep
<1>4. ASSUME NEW s \in Seq(Point) PROVE LoadedPoints(k, s) = Run(G, v, s)
  <2>1. Ends(V, G, v, s)
    BY <1>1, RunExists
  <2>2. PICK r \in [0..Len(s) -> V] : IsRun(r, G, v, s)
    BY <2>1 DEF Ends
  <2>3. \A i \in 1..Len(s) : s[i] \in Point /\ i - 1 \in 0..Len(s) /\ i \in 0..Len(s) /\ i # 0
    OBVIOUS
  <2>4. r[0] = v /\ \A i \in 1..Len(s) : r[i] = PointRead(k, r[i - 1], s[i])
    BY <1>2, <2>2, <2>3 DEF IsRun
  <2>5. r = LoadedFcn(r, s, k)
    BY <2>2, <2>4 DEF LoadedFcn, v
  <2> DEFINE c == CHOOSE f : f = LoadedFcn(f, s, k)
  <2>6. c = LoadedFcn(c, s, k)
    BY <2>5, Zenon
  <2>7. LoadedPoints(k, s) = c[Len(s)]
    BY Zenon DEF LoadedPoints, LoadedFcn
  <2> HIDE DEF c
  <2>8. LoadedFcn(c, s, k)[0] = v
    BY <2>3, 0 \in 0..Len(s), Zenon DEF LoadedFcn, v
  <2>9. ASSUME NEW i \in 1..Len(s)
        PROVE  LoadedFcn(c, s, k)[i] = PointRead(k, c[i - 1], s[i])
    BY <2>3, Zenon DEF LoadedFcn
  <2>10. c[0] = v /\ \A i \in 1..Len(s) : c[i - 1] \in V => c[i] = G[s[i]][c[i - 1]]
    BY <1>2, <2>3, <2>6, <2>8, <2>9
  <2>11. c[Len(s)] = Run(G, v, s)
    BY <1>1, <2>10, EndsAsRun
  <2> QED BY <2>7, <2>11
<1>5. <<>> \in Seq(Point) /\ \A s \in Seq(Point) : \A x \in Point : Append(s, x) \in Seq(Point)
  OBVIOUS
<1>6. ASSUME NEW s \in Seq(Point), NEW x \in Point
      PROVE  LoadedPoints(k, Append(s, x)) = PointRead(k, LoadedPoints(k, s), x)
  <2>1. Append(s, x) \in Seq(Point)
    BY <1>5
  <2>2. Run(G, v, s) \in V /\ Run(G, v, Append(s, x)) = G[x][Run(G, v, s)]
    BY <1>3 DEF TakesSteps
  <2> QED BY <1>2, <1>4, <2>1, <2>2
<1>7. LoadedPoints(k, <<>>) = v /\ \A s \in Seq(Point) : LoadedPoints(k, s) \in V
  BY <1>3, <1>4, <1>5 DEF TakesSteps
<1> QED BY <1>6, <1>7 DEF V, v

IndexFcn(f, s) == [i \in 0..Len(s) |-> IF i = 0 THEN NoPoints ELSE Extended(f[i - 1], Points(s[i]))]

\* The index along a path of blocks.
LEMMA IndexAfterStep ==
    ASSUME TRUE
    PROVE  /\ IndexAfter(<<>>) = NoPoints
           /\ \A s \in Seq(Block) : IndexAfter(s) \in Indexes
           /\ \A s \in Seq(Block) : \A x \in Block :
                 IndexAfter(Append(s, x)) = Extended(IndexAfter(s), Points(x))
<1> DEFINE V == Indexes
           v == NoPoints
           G == [x \in Block |-> [a \in V |-> Extended(a, Points(x))]]
<1>1. Steps(Block, V, v, G)
  <2>1. NoPoints \in Indexes
    BY DEF NoPoints, Indexes, Keys
  <2> QED BY <2>1, PointsFacts, ExtendedFacts DEF Steps
<1>2. \A x \in Block : \A a \in V : G[x][a] = Extended(a, Points(x))
  OBVIOUS
<1> HIDE DEF G, V, v
<1>3. TakesSteps(Block, V, v, G)
  BY <1>1, RunStep
<1>4. ASSUME NEW s \in Seq(Block) PROVE IndexAfter(s) = Run(G, v, s)
  <2>1. Ends(V, G, v, s)
    BY <1>1, RunExists
  <2>2. PICK r \in [0..Len(s) -> V] : IsRun(r, G, v, s)
    BY <2>1 DEF Ends
  <2>3. \A i \in 1..Len(s) : s[i] \in Block /\ i - 1 \in 0..Len(s) /\ i \in 0..Len(s) /\ i # 0
    OBVIOUS
  <2>4. r[0] = v /\ \A i \in 1..Len(s) : r[i] = Extended(r[i - 1], Points(s[i]))
    BY <1>2, <2>2, <2>3 DEF IsRun
  <2>5. r = IndexFcn(r, s)
    BY <2>2, <2>4 DEF IndexFcn, v
  <2> DEFINE c == CHOOSE f : f = IndexFcn(f, s)
  <2>6. c = IndexFcn(c, s)
    BY <2>5, Zenon
  <2>7. IndexAfter(s) = c[Len(s)]
    BY Zenon DEF IndexAfter, IndexFcn
  <2> HIDE DEF c
  <2>8. IndexFcn(c, s)[0] = v
    BY <2>3, 0 \in 0..Len(s), Zenon DEF IndexFcn, v
  <2>9. ASSUME NEW i \in 1..Len(s)
        PROVE  IndexFcn(c, s)[i] = Extended(c[i - 1], Points(s[i]))
    BY <2>3, Zenon DEF IndexFcn
  <2>10. c[0] = v /\ \A i \in 1..Len(s) : c[i - 1] \in V => c[i] = G[s[i]][c[i - 1]]
    BY <1>2, <2>3, <2>6, <2>8, <2>9
  <2>11. c[Len(s)] = Run(G, v, s)
    BY <1>1, <2>10, EndsAsRun
  <2> QED BY <2>7, <2>11
<1>5. <<>> \in Seq(Block) /\ \A s \in Seq(Block) : \A x \in Block : Append(s, x) \in Seq(Block)
  OBVIOUS
<1>6. ASSUME NEW s \in Seq(Block), NEW x \in Block
      PROVE  IndexAfter(Append(s, x)) = Extended(IndexAfter(s), Points(x))
  <2>1. Append(s, x) \in Seq(Block)
    BY <1>5
  <2>2. Run(G, v, s) \in V /\ Run(G, v, Append(s, x)) = G[x][Run(G, v, s)]
    BY <1>3 DEF TakesSteps
  <2> QED BY <1>2, <1>4, <2>1, <2>2
<1>7. IndexAfter(<<>>) = v /\ \A s \in Seq(Block) : IndexAfter(s) \in V
  BY <1>3, <1>4, <1>5 DEF TakesSteps
<1> QED BY <1>6, <1>7 DEF V, v

\* The index of a chain: the points of its blocks.
LEMMA TrueFacts ==
    ASSUME NEW b \in Block
    PROVE  /\ TrueIndex[b] \in Indexes
           /\ \A k \in Keys : Range(TrueIndex[b][k]) = UNION {Range(Points(a)[k]) : a \in Ancestors(b)}
           /\ \A k \in Keys : \A p \in Range(TrueIndex[b][k]) : p[1] <= Height(b)
           /\ b # Genesis => TrueIndex[b] = Extended(TrueIndex[Parent[b]], Points(b))
<1>1. TrueIndex[b] = IndexAfter(Chain(b)) /\ Chain(b) \in Seq(Block)
  BY ChainShape DEF TrueIndex
<1>2. ASSUME NEW k \in Keys PROVE Range(TrueIndex[b][k]) = UNION {Range(Points(a)[k]) : a \in Ancestors(b)}
  <2> DEFINE At1(p) == UNION {Range(Points(a)[k]) : a \in Range(p)}
             T == {p \in Seq(Block) : Range(IndexAfter(p)[k]) = At1(p)}
  <2>1. <<>> \in T
    <3>1. IndexAfter(<<>>) = NoPoints /\ Range(<<>>) = {} /\ <<>> \in Seq(Block)
      BY IndexAfterStep DEF Range
    <3>2. NoPoints[k] = <<>>
      BY DEF NoPoints, Keys
    <3> QED BY <3>1, <3>2
  <2>2. ASSUME NEW p \in Seq(Block), NEW x \in Block, p \in T PROVE Append(p, x) \in T
    <3> DEFINE q == Append(p, x)
               i == IndexAfter(p)
    <3>1. i \in Indexes /\ IndexAfter(q) = Extended(i, Points(x))
      BY IndexAfterStep
    <3>2. q \in Seq(Block) /\ Range(q) = Range(p) \union {x}
      BY AppendFacts
    <3>3. Range(i[k]) = At1(p)
      BY <2>2
    <3> DEFINE e == Points(x)
    <3>6. e \in Indexes
      BY PointsFacts
    <3> HIDE DEF i, q, e
    <3>4. Range(Extended(i, e)[k]) = Range(i[k]) \union Range(e[k])
      BY <3>1, <3>6, ExtendedFacts
    <3>5. Range(IndexAfter(q)[k]) = At1(q)
      BY <3>1, <3>2, <3>3, <3>4 DEF e
    <3> QED BY <3>2, <3>5 DEF q
  <2> HIDE DEF T
  <2>3. Chain(b) \in T
    BY <1>1, <2>1, <2>2, SeqUpward
  <2>4. Ancestors(b) = Range(Chain(b))
    BY DEF Ancestors, AncestorSets
  <2> QED BY <1>1, <2>3, <2>4 DEF T
<1>3. ASSUME NEW k \in Keys, NEW p \in Range(TrueIndex[b][k]) PROVE p[1] <= Height(b)
  <2>1. PICK a \in Ancestors(b) : p \in Range(Points(a)[k])
    BY <1>2, <1>3
  <2>2. a \in Block /\ Height(a) <= Height(b)
    BY <2>1, AncestorsOfAncestor, LowerAncestor
  <2> QED BY <2>1, <2>2, PointsFacts
<1>4. ASSUME b # Genesis PROVE TrueIndex[b] = Extended(TrueIndex[Parent[b]], Points(b))
  <2>1. Chain(b) = Append(Chain(Parent[b]), b) /\ Parent[b] \in Block
    BY <1>4, ChainShape
  <2>2. Chain(Parent[b]) \in Seq(Block) /\ TrueIndex[Parent[b]] = IndexAfter(Chain(Parent[b]))
    BY <2>1, ChainShape DEF TrueIndex
  <2> QED BY <1>1, <2>1, <2>2, IndexAfterStep
<1>5. TrueIndex[b] \in Indexes
  BY <1>1, IndexAfterStep
<1> QED BY <1>2, <1>3, <1>4, <1>5

\* Heights never decrease along an index, and those of a pool increase.
Ordered(k, s) ==
    \A i, j \in 1..Len(s) : i < j => /\ s[i][1] <= s[j][1]
                                     /\ k = "pool" => s[i][1] < s[j][1]
Above(k, s, x) == \A p \in Range(s) : p[1] <= x[1] /\ (k = "pool" => p[1] < x[1])

\* One more point, above the others.
LEMMA OrderedAppend ==
    ASSUME NEW k, NEW s \in Seq(Point), NEW x \in Point
    PROVE  Ordered(k, Append(s, x)) <=> Ordered(k, s) /\ Above(k, s, x)
<1> DEFINE q == Append(s, x)
           n == Len(s)
<1>1. /\ Len(q) = n + 1 /\ n \in Nat /\ q[n + 1] = x /\ \A i \in 1..n : q[i] = s[i]
  BY AppendFacts
<1>2. \A p : p \in Range(s) <=> \E i \in 1..n : p = s[i]
  BY RangeFacts
<1> HIDE DEF q
<1>3. ASSUME Ordered(k, q) PROVE Ordered(k, s)
  <2> SUFFICES ASSUME NEW i \in 1..n, NEW j \in 1..n, i < j
               PROVE  s[i][1] <= s[j][1] /\ (k = "pool" => s[i][1] < s[j][1])
    BY DEF Ordered, n
  <2>1. i \in 1..Len(q) /\ j \in 1..Len(q) /\ q[i] = s[i] /\ q[j] = s[j]
    BY <1>1
  <2> QED BY <1>3, <2>1 DEF Ordered
<1>4. ASSUME Ordered(k, q) PROVE Above(k, s, x)
  <2> SUFFICES ASSUME NEW i \in 1..n
               PROVE  s[i][1] <= x[1] /\ (k = "pool" => s[i][1] < x[1])
    BY <1>2 DEF Above
  <2>1. i \in 1..Len(q) /\ n + 1 \in 1..Len(q) /\ q[i] = s[i] /\ q[n + 1] = x /\ i < n + 1
    BY <1>1
  <2> QED BY <1>4, <2>1 DEF Ordered
<1>5. ASSUME Ordered(k, s), Above(k, s, x) PROVE Ordered(k, q)
  <2> SUFFICES ASSUME NEW i \in 1..n + 1, NEW j \in 1..n + 1, i < j
               PROVE  q[i][1] <= q[j][1] /\ (k = "pool" => q[i][1] < q[j][1])
    BY <1>1 DEF Ordered
  <2>1. i \in 1..n /\ q[i] = s[i]
    BY <1>1
  <2>2. CASE j = n + 1
    <3>1. s[i] \in Range(s)
      BY <1>2, <2>1
    <3> QED BY <1>1, <1>5, <2>1, <2>2, <3>1 DEF Above
  <2>3. CASE j # n + 1
    <3>1. j \in 1..n /\ q[j] = s[j]
      BY <1>1, <2>3
    <3> QED BY <1>5, <2>1, <3>1 DEF Ordered, n
  <2> QED BY <2>2, <2>3
<1> QED BY <1>3, <1>4, <1>5 DEF q

\* Taking points out keeps the order.
LEMMA OrderedFilter ==
    ASSUME NEW k, NEW S, NEW s \in Seq(Point), Ordered(k, s)
    PROVE  Ordered(k, Filter(s, S))
<1> DEFINE F(p) == Filter(p, S)
           T == {p \in Seq(Point) : Ordered(k, p) => Ordered(k, F(p))}
<1>1. <<>> \in T
  <2>1. F(<<>>) = <<>>
    BY FilterStep
  <2> QED BY <2>1
<1>2. ASSUME NEW p \in Seq(Point), NEW x \in Point, p \in T PROVE Append(p, x) \in T
  <2> DEFINE q == Append(p, x)
             f == F(p)
  <2>1. F(q) = FilterNext(f, x, S)
    BY FilterStep
  <2>2. f \in Seq(Point) /\ Range(f) = Range(p) \intersect S
    BY FilterFacts
  <2>3. q \in Seq(Point) /\ (Ordered(k, p) => Ordered(k, f))
    BY <1>2, AppendFacts
  <2> HIDE DEF F, f
  <2>4. ASSUME Ordered(k, q) PROVE Ordered(k, F(q))
    <3>1. Ordered(k, p) /\ Above(k, p, x)
      BY <2>4, OrderedAppend
    <3> HIDE DEF q
    <3>2. Ordered(k, f) /\ Above(k, f, x)
      BY <2>2, <2>3, <3>1 DEF Above
    <3>3. Ordered(k, Append(f, x))
      BY <2>2, <3>2, OrderedAppend
    <3> QED BY <2>1, <3>2, <3>3 DEF FilterNext
  <2> QED BY <2>3, <2>4
<1> HIDE DEF T
<1>3. s \in T
  BY <1>1, <1>2, SeqUpward
<1> QED BY <1>3 DEF T

\* So does putting higher points after them.
LEMMA OrderedConcat ==
    ASSUME NEW k, NEW s \in Seq(Point), NEW t \in Seq(Point), Ordered(k, s), Ordered(k, t),
           \A x \in Range(t) : Above(k, s, x)
    PROVE  Ordered(k, s \o t)
<1> DEFINE Fits(p) == Ordered(k, p) /\ \A x \in Range(p) : Above(k, s, x)
           T == {p \in Seq(Point) : Fits(p) => Ordered(k, s \o p)}
<1>1. <<>> \in T
  <2>1. s \o <<>> = s /\ <<>> \in Seq(Point)
    BY ConcatFacts
  <2> QED BY <2>1
<1>2. ASSUME NEW p \in Seq(Point), NEW x \in Point, p \in T PROVE Append(p, x) \in T
  <2> DEFINE q == Append(p, x)
             c == s \o p
  <2>1. c \in Seq(Point) /\ s \o q = Append(c, x) /\ Range(c) = Range(s) \union Range(p)
    BY ConcatFacts
  <2>2. q \in Seq(Point) /\ Range(q) = Range(p) \union {x}
    BY AppendFacts
  <2> HIDE DEF c
  <2>3. ASSUME Fits(q) PROVE Ordered(k, s \o q)
    <3>1. Ordered(k, p) /\ Above(k, p, x)
      BY <2>3, OrderedAppend
    <3>2. Fits(p) /\ Above(k, s, x)
      BY <2>2, <2>3, <3>1
    <3>3. Ordered(k, c)
      BY <1>2, <3>2 DEF c
    <3>4. Above(k, c, x)
      BY <2>1, <3>1, <3>2 DEF Above
    <3> QED BY <2>1, <3>3, <3>4, OrderedAppend
  <2> HIDE DEF Fits, q
  <2> QED BY <2>2, <2>3 DEF q
<1> HIDE DEF T
<1>3. t \in T
  BY <1>1, <1>2, SeqUpward
<1> QED BY <1>3 DEF T

\* The points of a block are in order.
LEMMA PointsOrdered ==
    ASSUME NEW b \in Block, NEW k \in Keys
    PROVE  Ordered(k, Points(b)[k])
<1> DEFINE s == Points(b)[k]
<1>1. s \in Seq(Point) /\ \A p \in Range(s) : p[1] = Height(b)
  BY PointsFacts DEF Indexes
<1>2. k = "pool" => Len(s) <= 1
  BY PointsFacts
<1>3. Height(b) \in Nat
  BY ChainShape
<1> HIDE DEF s
<1>4. \A i \in 1..Len(s) : s[i][1] = Height(b)
  BY <1>1, RangeFacts
<1>5. ASSUME NEW i \in 1..Len(s), NEW j \in 1..Len(s), i < j
      PROVE  s[i][1] <= s[j][1] /\ (k = "pool" => s[i][1] < s[j][1])
  <2>1. s[i][1] <= s[j][1]
    BY <1>3, <1>4
  <2>2. k # "pool"
    BY <1>1, <1>2, <1>5
  <2> QED BY <2>1, <2>2
<1> QED BY <1>5 DEF Ordered, s

\* Which points stay when a point is read back.
Stays(k, x, p) == p[1] < x[1] \/ (k # "pool" /\ p[1] = x[1])

\* One point read back: it stays with those it does not replace, in order.
LEMMA PointReadFacts ==
    ASSUME NEW k, NEW s \in Seq(Point), Ordered(k, s), NEW x \in Point
    PROVE  /\ PointRead(k, s, x) \in Seq(Point) /\ Ordered(k, PointRead(k, s, x))
           /\ Range(PointRead(k, s, x)) = {p \in Range(s) : Stays(k, x, p)} \union {x}
<1> DEFINE h == x[1]
           below == Below(s, h)
           upTo == UpTo(s, h)
<1>1. h \in Nat /\ \A p \in Range(s) : p \in Point /\ p[1] \in Nat
  BY RangeFacts DEF Point
<1>2. /\ below \in Seq(Point) /\ Range(below) = {p \in Range(s) : p[1] < h}
      /\ upTo \in Seq(Point) /\ Range(upTo) = {p \in Range(s) : p[1] <= h}
  BY <1>1, CutFacts
<1>3. Ordered(k, below) /\ Ordered(k, upTo)
  BY OrderedFilter DEF Below, UpTo
<1>4. PointRead(k, s, x) = IF k = "pool" THEN Append(below, x)
                           ELSE IF x \in Range(upTo) THEN upTo ELSE Append(upTo, x)
  BY DEF PointRead
<1> HIDE DEF below, upTo
<1>5. CASE k = "pool"
  <2> DEFINE r == Append(below, x)
  <2>1. r \in Seq(Point) /\ Range(r) = Range(below) \union {x}
    BY <1>2, AppendFacts
  <2>2. Above(k, below, x)
    BY <1>1, <1>2 DEF Above
  <2>3. Ordered(k, r)
    BY <1>2, <1>3, <2>2, OrderedAppend
  <2>4. PointRead(k, s, x) = r
    BY <1>4, <1>5
  <2> HIDE DEF r
  <2>5. Range(r) = {p \in Range(s) : Stays(k, x, p)} \union {x}
    BY <1>2, <1>5, <2>1 DEF Stays
  <2> QED BY <2>1, <2>3, <2>4, <2>5
<1>6. CASE k # "pool"
  <2> DEFINE r == Append(upTo, x)
  <2>1. r \in Seq(Point) /\ Range(r) = Range(upTo) \union {x}
    BY <1>2, AppendFacts
  <2>2. Above(k, upTo, x)
    BY <1>1, <1>2, <1>6 DEF Above
  <2>3. Ordered(k, r)
    BY <1>2, <1>3, <2>2, OrderedAppend
  <2> HIDE DEF r
  <2>4. Range(upTo) = {p \in Range(s) : Stays(k, x, p)}
    BY <1>1, <1>2, <1>6 DEF Stays
  <2>5. CASE x \in Range(upTo)
    <3>1. PointRead(k, s, x) = upTo
      BY <1>4, <1>6, <2>5
    <3> QED BY <1>2, <1>3, <2>4, <2>5, <3>1
  <2>6. CASE x \notin Range(upTo)
    <3>1. PointRead(k, s, x) = r
      BY <1>4, <1>6, <2>6 DEF r
    <3> QED BY <2>1, <2>3, <2>4, <3>1
  <2> QED BY <2>5, <2>6
<1> QED BY <1>5, <1>6

\* What is read back is in order, and whole if the file is in order.
LEMMA LoadedFacts ==
    ASSUME NEW k, NEW s \in Seq(Point)
    PROVE  /\ LoadedPoints(k, s) \in Seq(Point) /\ Ordered(k, LoadedPoints(k, s))
           /\ Ordered(k, s) => Range(s) \subseteq Range(LoadedPoints(k, s))
<1> DEFINE L(p) == LoadedPoints(k, p)
           Good(p) == Ordered(k, L(p)) /\ (Ordered(k, p) => Range(p) \subseteq Range(L(p)))
           T == {p \in Seq(Point) : Good(p)}
<1>1. <<>> \in T
  <2>1. L(<<>>) = <<>> /\ <<>> \in Seq(Point)
    BY LoadedStep
  <2>2. Ordered(k, <<>>)
    BY DEF Ordered
  <2> HIDE DEF L
  <2> QED BY <2>1, <2>2
<1>2. ASSUME NEW p \in Seq(Point), NEW x \in Point, p \in T PROVE Append(p, x) \in T
  <2> DEFINE q == Append(p, x)
             l == L(p)
  <2>1. l \in Seq(Point) /\ L(q) = PointRead(k, l, x)
    BY LoadedStep
  <2>2. Good(p) /\ Ordered(k, l)
    BY <1>2
  <2>3. q \in Seq(Point) /\ Range(q) = Range(p) \union {x}
    BY AppendFacts
  <2>4. Ordered(k, q) => Ordered(k, p) /\ Above(k, p, x)
    BY OrderedAppend
  <2> HIDE DEF L, l, q
  <2>5. Ordered(k, L(q)) /\ Range(L(q)) = {r \in Range(l) : Stays(k, x, r)} \union {x}
    BY <2>1, <2>2, PointReadFacts
  <2>6. ASSUME Ordered(k, q) PROVE Range(q) \subseteq Range(L(q))
    <3>1. Range(p) \subseteq Range(l)
      BY <2>2, <2>4, <2>6 DEF l
    <3>2. \A r \in Range(p) : r \in Point /\ r[1] \in Nat /\ x[1] \in Nat
      BY RangeFacts DEF Point
    <3>3. \A r \in Range(p) : Stays(k, x, r)
      BY <2>4, <2>6, <3>2 DEF Above, Stays
    <3> QED BY <2>3, <2>5, <3>1, <3>3
  <2> QED BY <2>3, <2>5, <2>6 DEF q
<1> HIDE DEF T
<1>3. s \in T
  BY <1>1, <1>2, SeqUpward
<1> QED BY <1>3, LoadedStep DEF T

\* Points of one height written after the others are read back after those below.
LEMMA LoadedAppend ==
    ASSUME NEW k, NEW s \in Seq(Point), NEW t \in Seq(Point), NEW h \in Nat,
           \A p \in Range(t) : p[1] = h, k = "pool" => Len(t) <= 1
    PROVE  {p \in Range(LoadedPoints(k, s)) : p[1] < h} \union Range(t) \subseteq Range(LoadedPoints(k, s \o t))
<1> DEFINE L(p) == LoadedPoints(k, p)
           old == {p \in Range(L(s)) : p[1] < h}
           Fits(p) == (\A x \in Range(p) : x[1] = h) /\ (k = "pool" => Len(p) <= 1)
           T == {p \in Seq(Point) : Fits(p) => old \union Range(p) \subseteq Range(L(s \o p))}
<1>1. <<>> \in T
  <2>1. s \o <<>> = s /\ <<>> \in Seq(Point)
    BY ConcatFacts
  <2>2. Range(<<>>) = {}
    BY DEF Range
  <2> HIDE DEF L
  <2> QED BY <2>1, <2>2
<1>2. ASSUME NEW p \in Seq(Point), NEW x \in Point, p \in T PROVE Append(p, x) \in T
  <2> DEFINE q == Append(p, x)
             c == s \o p
             l == L(c)
  <2>1. c \in Seq(Point) /\ s \o q = Append(c, x)
    BY ConcatFacts
  <2>2. q \in Seq(Point) /\ Range(q) = Range(p) \union {x} /\ Len(q) = Len(p) + 1 /\ Len(p) \in Nat
    BY AppendFacts
  <2> HIDE DEF c, q
  <2>3. L(Append(c, x)) = PointRead(k, l, x)
    BY <2>1, LoadedStep
  <2>4. l \in Seq(Point) /\ Ordered(k, l)
    BY <2>1, LoadedFacts
  <2>5. \A r \in Range(p) : r \in Point
    BY RangeFacts
  <2>6. \A r \in old : r \in Point
    <3>1. L(s) \in Seq(Point)
      BY LoadedFacts
    <3> HIDE DEF L
    <3> QED BY <3>1, RangeFacts
  <2> HIDE DEF L, l, old
  <2>7. Range(L(s \o q)) = {r \in Range(l) : Stays(k, x, r)} \union {x}
    BY <2>1, <2>3, <2>4, PointReadFacts
  <2>8. ASSUME Fits(q) PROVE old \union Range(q) \subseteq Range(L(s \o q))
    <3>1. Fits(p) /\ x[1] = h
      BY <2>2, <2>8
    <3>2. old \union Range(p) \subseteq Range(l)
      BY <1>2, <3>1 DEF l, c
    <3>3. \A r \in old : Stays(k, x, r)
      BY <3>1 DEF old, Stays
    <3>4. ASSUME NEW r \in Range(p) PROVE Stays(k, x, r)
      <4>1. p # <<>>
        BY <3>4 DEF Range
      <4>2. k # "pool"
        BY <2>2, <2>8, <4>1
      <4> QED BY <3>1, <4>2 DEF Stays
    <3> QED BY <2>2, <2>7, <3>2, <3>3, <3>4
  <2> HIDE DEF Fits
  <2> QED BY <2>2, <2>8 DEF q
<1> HIDE DEF T
<1>3. t \in T
  BY <1>1, <1>2, SeqUpward
<1> QED BY <1>3 DEF T

\* An index in order, and one that has every point of the chain to a block.
Orderly(ix) == ix \in Indexes /\ \A k \in Keys : Ordered(k, ix[k])
Covers(ix, b) == \A k \in Keys : Range(TrueIndex[b][k]) \subseteq Range(ix[k])

\* What the steps make of an index.
Cut(ix, b) == [k \in DOMAIN ix |-> Below(ix[k], Height(b))]
Connected(ix, b) == Extended(Trimmed(ix, b), Points(b))
Capped(ix, b) == [k \in DOMAIN ix |-> UpTo(ix[k], Height(b))]
ReadBack(file) == [k \in DOMAIN file |-> LoadedPoints(k, file[k])]

\* A chain has the points of its beginnings.
LEMMA CoversAncestor ==
    ASSUME NEW ix, NEW b \in Block, NEW a \in Ancestors(b), Covers(ix, b)
    PROVE  Covers(ix, a)
<1>1. a \in Block /\ Ancestors(a) \subseteq Ancestors(b)
  BY AncestorsOfAncestor
<1>2. ASSUME NEW k \in Keys PROVE Range(TrueIndex[a][k]) \subseteq Range(TrueIndex[b][k])
  <2>1. Range(TrueIndex[a][k]) = UNION {Range(Points(x)[k]) : x \in Ancestors(a)}
    BY <1>1, TrueFacts
  <2>2. Range(TrueIndex[b][k]) = UNION {Range(Points(x)[k]) : x \in Ancestors(b)}
    BY TrueFacts
  <2> QED BY <1>1, <2>1, <2>2
<1> QED BY <1>2 DEF Covers

\* The points of a block are those its parent's chain lacks, and lie above them.
LEMMA TrueParent ==
    ASSUME NEW b \in Block, b # Genesis, NEW k \in Keys
    PROVE  /\ Parent[b] \in Block /\ Height(b) \in Nat
           /\ TrueIndex[Parent[b]][k] \in Seq(Point) /\ Points(b)[k] \in Seq(Point)
           /\ TrueIndex[b][k] = TrueIndex[Parent[b]][k] \o Points(b)[k]
           /\ Range(TrueIndex[b][k]) = Range(TrueIndex[Parent[b]][k]) \union Range(Points(b)[k])
           /\ \A p \in Range(TrueIndex[Parent[b]][k]) : p \in Point /\ p[1] < Height(b)
           /\ \A p \in Range(Points(b)[k]) : p \in Point /\ p[1] = Height(b)
<1> DEFINE a == Parent[b]
           t == TrueIndex[a]
           e == Points(b)
<1>1. a \in Block /\ Height(b) = Height(a) + 1 /\ Height(a) \in Nat
  BY ChainShape, ParentAncestors
<1>2. t \in Indexes /\ (\A p \in Range(t[k]) : p[1] <= Height(a)) /\ TrueIndex[b] = Extended(t, e)
  BY <1>1, TrueFacts
<1>3. e \in Indexes /\ \A p \in Range(e[k]) : p[1] = Height(b)
  BY PointsFacts
<1> HIDE DEF a, t, e
<1>4. TrueIndex[b][k] = t[k] \o e[k] /\ Range(TrueIndex[b][k]) = Range(t[k]) \union Range(e[k])
  <2>1. Extended(t, e)[k] = t[k] \o e[k] /\ Range(Extended(t, e)[k]) = Range(t[k]) \union Range(e[k])
    BY <1>2, <1>3, ExtendedFacts, Zenon
  <2> QED BY <1>2, <2>1
<1>5. t[k] \in Seq(Point) /\ e[k] \in Seq(Point)
  BY <1>2, <1>3 DEF Indexes
<1>6. (\A p \in Range(t[k]) : p \in Point) /\ \A p \in Range(e[k]) : p \in Point
  BY <1>5, RangeFacts
<1>7. \A p \in Range(t[k]) : p[1] < Height(b)
  BY <1>1, <1>2, <1>6 DEF Point
<1> QED BY <1>1, <1>3, <1>4, <1>5, <1>6, <1>7 DEF a, t, e

\* Cutting the points of a chain at its last block leaves its parent's.
LEMMA TrueCut ==
    ASSUME NEW b \in Block, b # Genesis, NEW k \in Keys
    PROVE  /\ Below(TrueIndex[b][k], Height(b)) = TrueIndex[Parent[b]][k]
           /\ Below(TrueIndex[Parent[b]][k], Height(b)) = TrueIndex[Parent[b]][k]
<1> DEFINE t == TrueIndex[Parent[b]][k]
           e == Points(b)[k]
           S == {p \in Range(t \o e) : p[1] < Height(b)}
           R == {p \in Range(t) : p[1] < Height(b)}
<1>1. /\ Height(b) \in Nat /\ t \in Seq(Point) /\ e \in Seq(Point) /\ TrueIndex[b][k] = t \o e
      /\ (\A p \in Range(t) : p[1] < Height(b)) /\ \A p \in Range(e) : p[1] = Height(b)
  BY TrueParent
<1> HIDE DEF t, e
<1>2. Range(t \o e) = Range(t) \union Range(e)
  BY <1>1, ConcatFacts
<1>3. Range(t) \subseteq S /\ Range(e) \intersect S = {} /\ Range(t) \subseteq R
  BY <1>1, <1>2
<1> HIDE DEF S, R
<1>4. Filter(t, S) = t /\ Filter(t, R) = t
  BY <1>1, <1>3, FilterAll
<1>5. Filter(e, S) = <<>>
  BY <1>1, <1>3, FilterNone
<1>6. Filter(t \o e, S) = Filter(t, S) \o Filter(e, S)
  BY <1>1, FilterConcat
<1>7. t \o <<>> = t
  BY <1>1, ConcatFacts
<1>8. Below(TrueIndex[b][k], Height(b)) = Filter(t \o e, S)
  BY <1>1 DEF Below, S
<1>9. Below(t, Height(b)) = Filter(t, R)
  BY DEF Below, R
<1> QED BY <1>4, <1>5, <1>6, <1>7, <1>8, <1>9 DEF t

\* Disconnecting a block.
LEMMA CutKeeps ==
    ASSUME NEW b \in Block, b # Genesis, NEW ix, Orderly(ix)
    PROVE  /\ Orderly(Cut(ix, b))
           /\ Covers(ix, b) => Covers(Cut(ix, b), Parent[b])
           /\ ix = TrueIndex[b] => Cut(ix, b) = TrueIndex[Parent[b]]
<1>1. ix \in Indexes /\ DOMAIN ix = Keys /\ Cut(ix, b) = [k \in Keys |-> Below(ix[k], Height(b))]
  BY DEF Orderly, Indexes, Cut
<1>2. ASSUME NEW k \in Keys
      PROVE  /\ Below(ix[k], Height(b)) \in Seq(Point) /\ Ordered(k, Below(ix[k], Height(b)))
             /\ Range(Below(ix[k], Height(b))) = {p \in Range(ix[k]) : p[1] < Height(b)}
  <2>1. ix[k] \in Seq(Point) /\ Ordered(k, ix[k]) /\ Height(b) \in Nat
    BY <1>1, ChainShape DEF Orderly, Indexes
  <2>2. Ordered(k, Below(ix[k], Height(b)))
    BY <2>1, OrderedFilter DEF Below
  <2> QED BY <2>1, <2>2, CutFacts
<1>3. Orderly(Cut(ix, b))
  BY <1>1, <1>2 DEF Orderly, Indexes
<1>4. ASSUME Covers(ix, b) PROVE Covers(Cut(ix, b), Parent[b])
  <2>1. ASSUME NEW k \in Keys PROVE Range(TrueIndex[Parent[b]][k]) \subseteq Range(Cut(ix, b)[k])
    <3>1. /\ Range(TrueIndex[Parent[b]][k]) \subseteq Range(TrueIndex[b][k])
          /\ \A p \in Range(TrueIndex[Parent[b]][k]) : p[1] < Height(b)
      BY TrueParent
    <3> QED BY <1>1, <1>2, <1>4, <3>1 DEF Covers
  <2> QED BY <2>1 DEF Covers
<1>5. ASSUME ix = TrueIndex[b] PROVE Cut(ix, b) = TrueIndex[Parent[b]]
  <2>1. TrueIndex[Parent[b]] = [k \in Keys |-> TrueIndex[Parent[b]][k]]
    BY ChainShape, TrueFacts DEF Indexes
  <2>2. \A k \in Keys : Below(ix[k], Height(b)) = TrueIndex[Parent[b]][k]
    BY <1>5, TrueCut
  <2> QED BY <1>1, <2>1, <2>2
<1> QED BY <1>3, <1>4, <1>5

\* What of an index is left before a block's points are added.
LEMMA TrimmedFacts ==
    ASSUME NEW b \in Block, NEW ix \in Indexes
    PROVE  /\ Trimmed(ix, b) \in Indexes
           /\ \A k \in Keys : \/ Trimmed(ix, b)[k] = Below(ix[k], Height(b))
                              \/ Trimmed(ix, b)[k] = ix[k] /\ Points(b)[k] = <<>>
<1>1. DOMAIN ix = Keys /\ Height(b) \in Nat /\ \A k \in Keys : ix[k] \in Seq(Point)
  BY ChainShape DEF Indexes
<1>2. ASSUME NEW k \in Keys
      PROVE  /\ Trimmed(ix, b)[k] \in Seq(Point)
             /\ \/ Trimmed(ix, b)[k] = Below(ix[k], Height(b))
                \/ Trimmed(ix, b)[k] = ix[k] /\ Points(b)[k] = <<>>
  <2>1. Below(ix[k], Height(b)) \in Seq(Point)
    BY <1>1, CutFacts
  <2> QED BY <1>1, <2>1 DEF Trimmed
<1>3. Trimmed(ix, b) = [k \in Keys |-> Trimmed(ix, b)[k]]
  BY <1>1 DEF Trimmed
<1> QED BY <1>2, <1>3 DEF Indexes

\* Connecting a block, to the index in memory.
LEMMA ConnectedKeeps ==
    ASSUME NEW b \in Block, b # Genesis, NEW ix, Orderly(ix)
    PROVE  /\ Orderly(Connected(ix, b))
           /\ Covers(ix, Parent[b]) => Covers(Connected(ix, b), b)
           /\ ix = TrueIndex[Parent[b]] => Connected(ix, b) = TrueIndex[b]
<1> DEFINE t == Trimmed(ix, b)
           e == Points(b)
<1>1. ix \in Indexes /\ t \in Indexes /\ e \in Indexes /\ Connected(ix, b) = Extended(t, e)
  BY TrimmedFacts, PointsFacts DEF Orderly, Connected
<1>2. /\ Extended(t, e) \in Indexes
      /\ \A k \in Keys : /\ Extended(t, e)[k] = t[k] \o e[k]
                         /\ Range(Extended(t, e)[k]) = Range(t[k]) \union Range(e[k])
  <2> HIDE DEF t, e
  <2> QED BY <1>1, ExtendedFacts, Zenon
<1>3. \A k \in Keys : \/ t[k] = Below(ix[k], Height(b))
                      \/ t[k] = ix[k] /\ e[k] = <<>>
  BY <1>1, TrimmedFacts
<1>4. \A k \in Keys : e[k] \in Seq(Point) /\ t[k] \in Seq(Point) /\ ix[k] \in Seq(Point) /\ Ordered(k, ix[k])
  BY <1>1 DEF Indexes, Orderly
<1>5. \A k \in Keys : Ordered(k, e[k]) /\ \A p \in Range(e[k]) : p[1] = Height(b)
  BY PointsOrdered, PointsFacts
<1>6. Height(b) \in Nat /\ Parent[b] \in Block
  BY ChainShape
<1> HIDE DEF t, e
<1>7. ASSUME NEW k \in Keys
      PROVE  /\ Ordered(k, t[k] \o e[k])
             /\ {p \in Range(ix[k]) : p[1] < Height(b)} \subseteq Range(t[k])
  <2>1. CASE t[k] = Below(ix[k], Height(b))
    <3>1. Range(t[k]) = {p \in Range(ix[k]) : p[1] < Height(b)}
      BY <1>4, <1>6, <2>1, CutFacts
    <3>2. Ordered(k, t[k])
      BY <1>4, <2>1, OrderedFilter DEF Below
    <3>3. \A p \in Range(t[k]) : p[1] <= Height(b)
      <4>1. \A p \in Range(ix[k]) : p \in Point
        BY <1>4, RangeFacts
      <4> QED BY <1>6, <3>1, <4>1 DEF Point
    <3>4. \A x \in Range(e[k]) : Above(k, t[k], x)
      BY <1>5, <3>1, <3>3 DEF Above
    <3>5. Ordered(k, t[k] \o e[k])
      BY <1>4, <1>5, <3>2, <3>4, OrderedConcat
    <3> QED BY <3>1, <3>5
  <2>2. CASE t[k] = ix[k] /\ e[k] = <<>>
    <3>1. t[k] \o e[k] = ix[k]
      BY <1>4, <2>2, ConcatFacts
    <3> QED BY <1>4, <2>2, <3>1
  <2> QED BY <1>3, <2>1, <2>2
<1>8. Orderly(Connected(ix, b))
  BY <1>1, <1>2, <1>7 DEF Orderly
<1>9. ASSUME Covers(ix, Parent[b]) PROVE Covers(Connected(ix, b), b)
  <2>1. ASSUME NEW k \in Keys PROVE Range(TrueIndex[b][k]) \subseteq Range(Connected(ix, b)[k])
    <3>1. /\ Range(TrueIndex[b][k]) = Range(TrueIndex[Parent[b]][k]) \union Range(e[k])
          /\ \A p \in Range(TrueIndex[Parent[b]][k]) : p[1] < Height(b)
      BY TrueParent DEF e
    <3>2. Range(TrueIndex[Parent[b]][k]) \subseteq Range(t[k])
      BY <1>7, <1>9, <3>1 DEF Covers
    <3>3. Range(Connected(ix, b)[k]) = Range(t[k]) \union Range(e[k])
      BY <1>1, <1>2
    <3> QED BY <3>1, <3>2, <3>3
  <2> QED BY <2>1 DEF Covers
<1>10. ASSUME ix = TrueIndex[Parent[b]] PROVE Connected(ix, b) = TrueIndex[b]
  <2>1. \A k \in Keys : t[k] = ix[k]
    BY <1>3, <1>10, TrueCut
  <2>2. t = ix
    BY <1>1, <2>1 DEF Indexes
  <2>3. TrueIndex[b] = Extended(TrueIndex[Parent[b]], e)
    BY TrueFacts DEF e
  <2> QED BY <1>1, <1>10, <2>2, <2>3
<1> QED BY <1>8, <1>9, <1>10

\* Connecting a block, to the files.
LEMMA FileKeeps ==
    ASSUME NEW b \in Block, b # Genesis, NEW file \in Indexes
    PROVE  /\ Extended(file, Points(b)) \in Indexes
           /\ Covers(ReadBack(file), Parent[b]) => Covers(ReadBack(Extended(file, Points(b))), b)
<1> DEFINE e == Points(b)
           new == Extended(file, e)
<1>1. e \in Indexes
  BY PointsFacts
<1>2. new \in Indexes /\ \A k \in Keys : new[k] = file[k] \o e[k]
  <2> HIDE DEF e
  <2> QED BY <1>1, ExtendedFacts, Zenon
<1>3. /\ \A k \in Keys : ReadBack(file)[k] = LoadedPoints(k, file[k])
      /\ \A k \in Keys : ReadBack(new)[k] = LoadedPoints(k, file[k] \o e[k])
  BY <1>2 DEF ReadBack, Indexes
<1>4. \A k \in Keys : file[k] \in Seq(Point) /\ e[k] \in Seq(Point)
  BY <1>1 DEF Indexes
<1>5. ASSUME Covers(ReadBack(file), Parent[b]) PROVE Covers(ReadBack(new), b)
  <2>1. ASSUME NEW k \in Keys PROVE Range(TrueIndex[b][k]) \subseteq Range(ReadBack(new)[k])
    <3>1. /\ Range(TrueIndex[b][k]) = Range(TrueIndex[Parent[b]][k]) \union Range(e[k])
          /\ \A p \in Range(TrueIndex[Parent[b]][k]) : p[1] < Height(b)
          /\ Height(b) \in Nat
      BY TrueParent
    <3>2. Range(TrueIndex[Parent[b]][k]) \subseteq Range(LoadedPoints(k, file[k]))
      BY <1>3, <1>5 DEF Covers
    <3>3. (\A p \in Range(e[k]) : p[1] = Height(b)) /\ (k = "pool" => Len(e[k]) <= 1)
      BY PointsFacts
    <3> HIDE DEF e, new
    <3>4. {p \in Range(LoadedPoints(k, file[k])) : p[1] < Height(b)} \union Range(e[k])
             \subseteq Range(LoadedPoints(k, file[k] \o e[k]))
      BY <1>4, <3>1, <3>3, LoadedAppend
    <3>5. Range(TrueIndex[Parent[b]][k]) \subseteq {p \in Range(LoadedPoints(k, file[k])) : p[1] < Height(b)}
      BY <3>1, <3>2
    <3>6. Range(ReadBack(new)[k]) = Range(LoadedPoints(k, file[k] \o e[k]))
      BY <1>3
    <3> QED BY <3>1, <3>4, <3>5, <3>6
  <2> QED BY <2>1 DEF Covers
<1> QED BY <1>2, <1>5

\* Files read back.
LEMMA ReadBackFacts ==
    ASSUME NEW file \in Indexes
    PROVE  /\ Orderly(ReadBack(file))
           /\ \A b : Orderly(file) /\ Covers(file, b) => Covers(ReadBack(file), b)
<1>1. /\ ReadBack(file) = [k \in Keys |-> LoadedPoints(k, file[k])]
      /\ \A k \in Keys : file[k] \in Seq(Point)
  BY DEF ReadBack, Indexes
<1>2. ASSUME NEW k \in Keys
      PROVE  /\ LoadedPoints(k, file[k]) \in Seq(Point) /\ Ordered(k, LoadedPoints(k, file[k]))
             /\ Ordered(k, file[k]) => Range(file[k]) \subseteq Range(LoadedPoints(k, file[k]))
  BY <1>1, LoadedFacts
<1>3. Orderly(ReadBack(file))
  BY <1>1, <1>2 DEF Orderly, Indexes
<1>4. ASSUME NEW b, Orderly(file), Covers(file, b) PROVE Covers(ReadBack(file), b)
  BY <1>1, <1>2, <1>4 DEF Orderly, Covers
<1> QED BY <1>3, <1>4

\* Dropping the points above a chain.
LEMMA CappedKeeps ==
    ASSUME NEW b \in Block, NEW ix, Orderly(ix)
    PROVE  /\ Orderly(Capped(ix, b))
           /\ Covers(ix, b) => Covers(Capped(ix, b), b)
<1>1. ix \in Indexes /\ DOMAIN ix = Keys /\ Capped(ix, b) = [k \in Keys |-> UpTo(ix[k], Height(b))]
  BY DEF Orderly, Indexes, Capped
<1>2. ASSUME NEW k \in Keys
      PROVE  /\ UpTo(ix[k], Height(b)) \in Seq(Point) /\ Ordered(k, UpTo(ix[k], Height(b)))
             /\ Range(UpTo(ix[k], Height(b))) = {p \in Range(ix[k]) : p[1] <= Height(b)}
  <2>1. ix[k] \in Seq(Point) /\ Ordered(k, ix[k]) /\ Height(b) \in Nat
    BY <1>1, ChainShape DEF Orderly, Indexes
  <2>2. Ordered(k, UpTo(ix[k], Height(b)))
    BY <2>1, OrderedFilter DEF UpTo
  <2> QED BY <2>1, <2>2, CutFacts
<1>3. Orderly(Capped(ix, b))
  BY <1>1, <1>2 DEF Orderly, Indexes
<1>4. ASSUME Covers(ix, b) PROVE Covers(Capped(ix, b), b)
  <2>1. \A k \in Keys : \A p \in Range(TrueIndex[b][k]) : p[1] <= Height(b)
    BY TrueFacts
  <2> QED BY <1>1, <1>2, <1>4, <2>1 DEF Covers
<1> QED BY <1>3, <1>4

(***************************************************************************)
(* The invariant of the indexes                                            *)
(***************************************************************************)
IndexesOrderly == Orderly(index) /\ indexFile \in Indexes /\ torn \in BOOLEAN
IndexesCover ==
    ~ torn => /\ mode # "down" => Covers(index, tip)
              /\ mode = "up" => Covers(ReadBack(indexFile), tip)
              /\ mode = "down" => Covers(ReadBack(indexFile), flushed)
IndexesExact == restarts = 0 => mode = "up" /\ index = TrueIndex[tip]

IndexInv == IndexesOrderly /\ IndexesCover /\ IndexesExact

\* The invariant of the indexes holds at the start.
LEMMA IndexInvInit == Init => IndexInv
<1> SUFFICES ASSUME Init PROVE IndexInv
  OBVIOUS
<1>1. /\ index = NoPoints /\ indexFile = NoPoints /\ torn = FALSE /\ mode = "up"
      /\ tip = Genesis /\ restarts = 0 /\ Genesis \in Block
  BY BlockTreeAssumption DEF Init, IndexInit
<1>2. NoPoints \in Indexes /\ \A k \in Keys : NoPoints[k] = <<>>
  BY DEF NoPoints, Indexes, Keys
<1>3. Orderly(NoPoints)
  BY <1>2 DEF Orderly, Ordered
<1>4. TrueIndex[Genesis] = NoPoints
  <2>1. Chain(Genesis) = Append(<<>>, Genesis)
    BY PathAssumption DEF Chain
  <2>2. TrueIndex[Genesis] = Extended(IndexAfter(<<>>), Points(Genesis))
    <3>1. TrueIndex[Genesis] = IndexAfter(Append(<<>>, Genesis)) /\ <<>> \in Seq(Block)
      BY <1>1, <2>1 DEF TrueIndex
    <3> QED BY <1>1, <3>1, IndexAfterStep
  <2>3. IndexAfter(<<>>) = NoPoints
    BY IndexAfterStep
  <2>4. \A k \in Keys : NoPoints[k] \o Points(Genesis)[k] = <<>>
    BY <1>2, GenesisPoints
  <2>5. NoPoints = [k \in Keys |-> <<>>]
    BY DEF NoPoints, Keys
  <2>6. Extended(NoPoints, Points(Genesis)) = [k \in Keys |-> NoPoints[k] \o Points(Genesis)[k]]
    BY <1>2 DEF Extended, Indexes
  <2> QED BY <2>2, <2>3, <2>4, <2>5, <2>6
<1>5. Covers(NoPoints, Genesis)
  BY <1>4 DEF Covers
<1>6. Covers(ReadBack(NoPoints), Genesis)
  BY <1>2, <1>3, <1>5, ReadBackFacts
<1> QED BY <1>1, <1>2, <1>3, <1>4, <1>5, <1>6 DEF IndexInv, IndexesOrderly, IndexesCover, IndexesExact

\* A step that leaves the indexes, and the chain they follow.
LEMMA IndexSame ==
    ASSUME IndexInv, UNCHANGED <<index, indexFile, torn, mode, tip, flushed, restarts>>
    PROVE  IndexInv'
BY DEF IndexInv, IndexesOrderly, IndexesCover, IndexesExact, Orderly, Covers, ReadBack, TrueIndex

\* Disconnecting and connecting.
LEMMA IndexDisconnects ==
    ASSUME ChainInv, IndexInv, DisconnectTip
    PROVE  IndexInv'
<1>1. /\ tip \in Block /\ cand \in Block /\ tip \notin Ancestors(cand) /\ mode # "down"
      /\ tip' = Parent[tip] /\ UNCHANGED <<mode, flushed, restarts, torn, indexFile>>
  BY DEF ChainInv, DisconnectTip, IsAncestor, OnSound, IndexDisconnect
<1>2. tip # Genesis
  BY <1>1, GenesisAncestor
<1>3. index' = Cut(index, tip)
  BY DEF DisconnectTip, IndexDisconnect, Cut
<1>4. Parent[tip] \in Ancestors(tip)
  BY <1>1, <1>2, ParentAncestors, OwnAncestor, ChainShape
<1>5. Orderly(index)
  BY DEF IndexInv, IndexesOrderly
<1>6. Orderly(index')
  BY <1>1, <1>2, <1>3, <1>5, CutKeeps
<1>7. Covers(index, tip) => Covers(index', tip')
  BY <1>1, <1>2, <1>3, <1>5, CutKeeps
<1>8. Covers(ReadBack(indexFile), tip) => Covers(ReadBack(indexFile)', tip')
  <2>1. Covers(ReadBack(indexFile), tip) => Covers(ReadBack(indexFile), Parent[tip])
    BY <1>1, <1>4, CoversAncestor
  <2>2. ReadBack(indexFile)' = ReadBack(indexFile)
    BY <1>1 DEF ReadBack
  <2> QED BY <1>1, <2>1, <2>2
<1>9. index = TrueIndex[tip] => index' = TrueIndex[tip']
  BY <1>1, <1>2, <1>3, <1>5, CutKeeps
<1>10. IndexesOrderly'
  BY <1>1, <1>6 DEF IndexInv, IndexesOrderly, Orderly
<1>11. IndexesCover'
  BY <1>1, <1>7, <1>8 DEF IndexInv, IndexesCover
<1>12. IndexesExact'
  BY <1>1, <1>9 DEF IndexInv, IndexesExact
<1> QED BY <1>10, <1>11, <1>12 DEF IndexInv

\* Connecting, in memory and to the files.
LEMMA IndexConnects ==
    ASSUME ChainInv, IndexInv, ConnectBlock
    PROVE  IndexInv'
<1> DEFINE n == NextBlock
<1>1. /\ tip \in Block /\ cand \in Block /\ tip \in Ancestors(cand) /\ tip # cand /\ mode # "down"
      /\ tip' = n /\ UNCHANGED <<mode, restarts, torn>>
  <2>1. /\ tip \in Block /\ cand \in Block /\ Height(tip) < Height(cand) /\ mode # "down"
    BY DEF ChainInv, ConnectBlock, OnSound
  <2>2. Height(tip) \in Nat
    BY <2>1, ChainShape
  <2>3. tip # cand
    BY <2>1, <2>2
  <2>4. tip \in Ancestors(cand) /\ tip' = n /\ UNCHANGED <<mode, restarts, torn>>
    BY DEF ConnectBlock, IsAncestor
  <2> QED BY <2>1, <2>3, <2>4
<1>2. n \in Block /\ n # Genesis /\ Parent[n] = tip
  BY <1>1, NextAbove
<1>3. /\ index' = Connected(index, n)
      /\ indexFile' = IF mode = "up" THEN Extended(indexFile, Points(n)) ELSE indexFile
  BY DEF ConnectBlock, IndexConnect, Connected, Running
<1>4. Orderly(index) /\ indexFile \in Indexes /\ torn \in BOOLEAN
  BY DEF IndexInv, IndexesOrderly
<1> HIDE DEF n
<1>5. Orderly(index')
  BY <1>2, <1>3, <1>4, ConnectedKeeps
<1>6. Covers(index, tip) => Covers(index', tip')
  BY <1>1, <1>2, <1>3, <1>4, ConnectedKeeps
<1>7. index = TrueIndex[tip] => index' = TrueIndex[tip']
  BY <1>1, <1>2, <1>3, <1>4, ConnectedKeeps
<1>8. /\ Extended(indexFile, Points(n)) \in Indexes
      /\ Covers(ReadBack(indexFile), tip) => Covers(ReadBack(Extended(indexFile, Points(n))), n)
  BY <1>2, <1>4, FileKeeps
<1>9. indexFile' \in Indexes
  BY <1>3, <1>4, <1>8
<1>10. mode = "up" /\ Covers(ReadBack(indexFile), tip) => Covers(ReadBack(indexFile)', tip')
  <2>1. ASSUME mode = "up" PROVE ReadBack(indexFile)' = ReadBack(Extended(indexFile, Points(n)))
    BY <1>3, <2>1 DEF ReadBack
  <2> QED BY <1>1, <1>8, <2>1
<1>11. IndexesOrderly'
  BY <1>1, <1>4, <1>5, <1>9 DEF IndexesOrderly, Orderly
<1>12. IndexesCover'
  BY <1>1, <1>6, <1>10 DEF IndexInv, IndexesCover
<1>13. IndexesExact'
  BY <1>1, <1>7 DEF IndexInv, IndexesExact
<1> QED BY <1>11, <1>12, <1>13 DEF IndexInv

\* Losing the memory.
LEMMA IndexStops ==
    ASSUME ChainInv, HistoryInv, IndexInv, Stop \/ Crash
    PROVE  IndexInv'
<1>1. /\ mode' = "down" /\ restarts' = restarts + 1 /\ restarts \in Nat
      /\ UNCHANGED <<index, indexFile, tip>>
  BY NodeAssumption DEF Stop, Crash, MemoryLost, indexVars, HistoryInv
<1>2. ReadBack(indexFile)' = ReadBack(indexFile)
  BY <1>1 DEF ReadBack
<1>3. torn' \in BOOLEAN /\ IndexesCover'
  <2>1. CASE Stop
    <3>1. mode = "up" /\ flushed' = tip /\ torn' = torn
      BY <2>1 DEF Stop, Idle
    <3> QED BY <1>1, <1>2, <3>1 DEF IndexInv, IndexesOrderly, IndexesCover
  <2>2. CASE Crash
    <3>1. /\ mode # "down" /\ flushed' = flushed
          /\ torn' = (torn \/ mode = "loading" \/ ~ IsAncestor(flushed, tip))
      BY <2>2 DEF Crash
    <3>2. torn' \in BOOLEAN
      BY <3>1, Zenon DEF IndexInv, IndexesOrderly
    <3>3. ASSUME ~ torn' PROVE Covers(ReadBack(indexFile)', flushed')
      <4>1. ~ torn /\ mode # "loading" /\ flushed \in Ancestors(tip)
        BY <3>1, <3>3, Zenon DEF IsAncestor
      <4>2. mode = "up" /\ tip \in Block
        BY <3>1, <4>1 DEF ChainInv, OnSound
      <4>3. Covers(ReadBack(indexFile), tip)
        BY <4>1, <4>2 DEF IndexInv, IndexesCover
      <4>4. Covers(ReadBack(indexFile), flushed)
        BY <4>1, <4>2, <4>3, CoversAncestor
      <4> QED BY <1>2, <3>1, <4>4
    <3> QED BY <1>1, <3>2, <3>3 DEF IndexesCover
  <2> QED BY <2>1, <2>2
<1>4. IndexesOrderly'
  BY <1>1, <1>3 DEF IndexInv, IndexesOrderly, Orderly
<1>5. restarts' # 0
  BY <1>1
<1> QED BY <1>3, <1>4, <1>5 DEF IndexInv, IndexesExact

\* The load: the files read back, and written anew when it has ended.
LEMMA IndexStarts ==
    ASSUME ChainInv, HistoryInv, IndexInv, Start
    PROVE  IndexInv'
<1>1. /\ mode = "down" /\ mode' = "loading" /\ tip' = flushed
      /\ UNCHANGED <<indexFile, restarts, torn>> /\ index' = ReadBack(indexFile)
  BY DEF Start, IndexLoad, ReadBack
<1>2. indexFile \in Indexes /\ torn \in BOOLEAN
  BY DEF IndexInv, IndexesOrderly
<1>3. Orderly(index')
  BY <1>1, <1>2, ReadBackFacts
<1>4. IndexesOrderly'
  BY <1>1, <1>2, <1>3 DEF IndexesOrderly, Orderly
<1>5. IndexesCover'
  BY <1>1 DEF IndexInv, IndexesCover
<1>6. restarts # 0
  BY <1>1 DEF IndexInv, IndexesExact
<1> QED BY <1>1, <1>4, <1>5, <1>6 DEF IndexInv, IndexesExact

\* The end of the load: capped at the tip, and the files rewritten.
LEMMA IndexStarted ==
    ASSUME ChainInv, HistoryInv, IndexInv, Started
    PROVE  IndexInv'
<1>1. /\ mode = "loading" /\ mode' = "up" /\ UNCHANGED <<tip, restarts, torn>>
      /\ index' = Capped(index, tip) /\ indexFile' = index'
  BY DEF Started, IndexCompact, Capped
<1>2. Orderly(index) /\ torn \in BOOLEAN /\ tip \in Block
  BY DEF IndexInv, IndexesOrderly, ChainInv, OnSound
<1>3. Orderly(index') /\ (Covers(index, tip) => Covers(index', tip))
  BY <1>1, <1>2, CappedKeeps
<1>4. index' \in Indexes /\ ReadBack(indexFile)' = ReadBack(index')
  BY <1>1, <1>3 DEF Orderly, ReadBack
<1>5. Covers(index', tip) => Covers(ReadBack(index'), tip)
  BY <1>3, <1>4, ReadBackFacts
<1>6. IndexesOrderly'
  BY <1>1, <1>2, <1>3, <1>4 DEF IndexesOrderly, Orderly
<1>7. IndexesCover'
  BY <1>1, <1>3, <1>4, <1>5 DEF IndexInv, IndexesCover
<1>8. restarts # 0
  BY <1>1 DEF IndexInv, IndexesExact
<1> QED BY <1>1, <1>6, <1>7, <1>8 DEF IndexInv, IndexesExact

\* Every step keeps the invariant of the indexes.
LEMMA IndexStep ==
    ASSUME ChainInv, HistoryInv, IndexInv, [Next]_vars
    PROVE  IndexInv'
<1>1. ASSUME NEW b \in Block, ReceiveBlock(b) \/ SelectCandidate(b) PROVE IndexInv'
  <2>1. UNCHANGED <<index, indexFile, torn, mode, tip, flushed, restarts>>
    BY <1>1 DEF ReceiveBlock, SelectCandidate, indexVars
  <2> QED BY <2>1, IndexSame
<1>2. ASSUME NEW t \in Tx, SubmitTx(t) \/ SendTx(t) PROVE IndexInv'
  <2>1. UNCHANGED <<index, indexFile, torn, mode, tip, flushed, restarts>>
    BY <1>2 DEF SubmitTx, SendTx, indexVars, chainVars
  <2> QED BY <2>1, IndexSame
<1>3. CASE Quiet \/ NewTip \/ SameTip
  <2>1. UNCHANGED <<index, indexFile, torn, mode, tip, flushed, restarts>>
    BY <1>3, QuietLeaves DEF NewTip, SameTip, indexVars
  <2> QED BY <2>1, IndexSame
<1>4. CASE UNCHANGED vars
  <2>1. UNCHANGED <<index, indexFile, torn, mode, tip, flushed, restarts>>
    BY <1>4 DEF vars, indexVars, chainVars
  <2> QED BY <2>1, IndexSame
<1> QED BY <1>1, <1>2, <1>3, <1>4, IndexDisconnects, IndexConnects, IndexStops, IndexStarts,
          IndexStarted DEF Next, Quiet

\* The invariant of the indexes is what IndexesFollow says.
LEMMA IndexesDo == IndexInv => IndexesFollow
<1> SUFFICES ASSUME IndexInv PROVE IndexesFollow
  OBVIOUS
<1>1. DOMAIN index = Keys
  BY DEF IndexInv, IndexesOrderly, Orderly, Indexes
<1> QED BY <1>1 DEF IndexInv, IndexesCover, IndexesExact, Covers, IndexesFollow, Idle

(***************************************************************************)
(* The results                                                             *)
(***************************************************************************)
\* The inductive invariant: the chainstate's, and one for each listener.
NodeInv == ChainInv /\ ListenInv /\ CoinsInv /\ HistInv /\ DropInv /\ IndexInv

\* It holds at the start.
LEMMA NodeInvInit == Init => NodeInv
<1>1. Init => DropInv
  BY DEF Init, DropInv
<1> QED BY <1>1, ChainInit, ListenInit, CoinsInit, HistInit, IndexInvInit DEF NodeInv

\* Every step keeps it.
LEMMA NodeInvStep == NodeInv /\ [Next]_vars => NodeInv'
<1> SUFFICES ASSUME NodeInv, [Next]_vars PROVE NodeInv'
  OBVIOUS
<1>1. ChainInv /\ ListenInv /\ CoinsInv /\ HistInv /\ DropInv /\ IndexInv /\ HistoryInv
  BY DEF NodeInv, ListenInv
<1>2. ChainInv'
  BY <1>1, ChainStep
<1>3. ListenInv'
  BY <1>1, ListenStep
<1>4. CoinsInv'
  BY <1>1, CoinsStep
<1>5. HistInv'
  BY <1>1, HistStep
<1>6. DropInv'
  BY <1>1, DropStep
<1>7. IndexInv'
  BY <1>1, IndexStep
<1> QED BY <1>2, <1>3, <1>4, <1>5, <1>6, <1>7 DEF NodeInv

\* Every reachable state has it.
THEOREM ListenersFollow == Spec => []NodeInv
BY NodeInvInit, NodeInvStep, PTL DEF Spec

\* Whatever reorganisations, conflicts, submissions and restarts came before, a
\* pool between activations can be applied to the tip in order of arrival, holds
\* no transaction twice and no more than it may (mempool.cpp:16-28, mempool.h).
THEOREM PoolAlwaysApplies == Spec => []PoolApplies
<1>1. NodeInv => PoolApplies
  BY ListenApplies DEF NodeInv, IndexInv, IndexesOrderly
<1> QED BY <1>1, ListenersFollow, PTL

\* A reorganisation drops no transaction of the blocks it undoes: on_tip takes it
\* back unless the new chain has it or a conflict, it depends on one that is not
\* confirmed, it is not of the kind the pool takes, or the pool is full
\* (mempool.cpp:16-28, node.cpp:44).
THEOREM NothingEverDropped == Spec => NothingDropped
<1>1. NodeInv /\ [Next]_vars => [NewTip => \A t \in Displaced : Retaken(t)]_vars
  BY TipTakesBack DEF NodeInv
<1> QED BY <1>1, ListenersFollow, PTL DEF Spec, NothingDropped

\* When the listeners have been told of the tip, the wallet has exactly the own
\* unspent coins of the chain and the pool, locked where the pool spends them,
\* whichever callbacks touched them in between (node.cpp:61, wallet.cpp:404).
THEOREM CoinsAlwaysMatch == Spec => []CoinsMatch
<1>1. NodeInv => CoinsMatch
  BY CoinsTrue DEF NodeInv
<1> QED BY <1>1, ListenersFollow, PTL

\* Every payment of the active chain is in the wallet's history at its height,
\* also when the wallet was saved on a branch abandoned before the restart
\* (wallet.cpp:427, node.cpp:162).
THEOREM PaymentsAlwaysDated == Spec => []PaymentsDated
<1>1. NodeInv => PaymentsDated
  BY HistDated DEF NodeInv
<1> QED BY <1>1, ListenersFollow, PTL

\* The indexes have every point of the active chain unless a crash tore them, and
\* no other until the first restart (node.cpp:81, :279, :355, :398).
THEOREM IndexesAlwaysFollow == Spec => []IndexesFollow
<1>1. NodeInv => IndexesFollow
  BY IndexesDo DEF NodeInv
<1> QED BY <1>1, ListenersFollow, PTL
====
