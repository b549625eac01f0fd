----------------------------- MODULE MinerProofs -----------------------------
(***************************************************************************)
(* Proofs about Miner, for any number of workers, any payout addresses and *)
(* any bounds: the type invariant, that no new tip is missed, and that no  *)
(* worker keeps grinding a template that was replaced.                     *)
(***************************************************************************)
EXTENDS Miner, TLAPS

\* The template under construction is current, or dirty_ is set again; the
\* payout cannot change while the coordinator runs.
MInv == /\ TypeOK
        /\ FreshWhenClean
        /\ coord \in {"build", "publish", "bump"} => pay = payout
        /\ coord = "publish" /\ ~dirty => Current(fresh)
        /\ coord = "bump" /\ ~dirty => Current(tmpl)

\* Initially no thread runs.
LEMMA MInvInit == Init => MInv
<1> SUFFICES ASSUME Init PROVE MInv
  OBVIOUS
<1>1. NothingFound \in [block : Template, nonceFor : Template]
  BY DEF NothingFound, Template
<1> QED
  BY <1>1 DEF Init, MInv, TypeOK, FreshWhenClean, Template

\* A step of the coordinator.
LEMMA MInvCoordinator == MInv /\ Coordinator => MInv'
<1> SUFFICES ASSUME MInv, Coordinator PROVE MInv'
  OBVIOUS
<1> USE DEF MInv, TypeOK, FreshWhenClean, Current, miner, coordinator, workers, control
<1>1. CASE CoordWake
  BY <1>1 DEF CoordWake
<1>2. CASE CoordEnds
  BY <1>2 DEF CoordEnds
<1>3. CASE CoordClear
  BY <1>3 DEF CoordClear
<1>4. CASE CoordPayout
  BY <1>4 DEF CoordPayout
<1>5. CASE CoordBuild
  <2>1. fresh' \in [prev : Nat, pay : Payout, id : Nat]
    BY <1>5 DEF CoordBuild
  <2>2. fresh' # NoTemplate
    BY <2>1, MinerAssumption
  <2>3. fresh'.prev = tip /\ fresh'.pay = pay
    BY <1>5 DEF CoordBuild
  <2> QED
    BY <1>5, <2>1, <2>2, <2>3 DEF CoordBuild, Template
<1>6. CASE CoordPublish
  BY <1>6 DEF CoordPublish, Template
<1>7. CASE CoordBump
  BY <1>7 DEF CoordBump
<1> QED
  BY <1>1, <1>2, <1>3, <1>4, <1>5, <1>6, <1>7 DEF Coordinator

\* A step of a worker: only its own block can move the tip, and then dirty_ is set.
LEMMA MInvWorker == ASSUME NEW w \in Worker, MInv, WorkerStep(w) PROVE MInv'
<1> USE DEF MInv, TypeOK, FreshWhenClean, Current, miner, coordinator, workers, control, Goes
<1>1. CASE WorkerEnds(w)
  BY <1>1 DEF WorkerEnds
<1>2. CASE WorkerStale(w)
  BY <1>2 DEF WorkerStale
<1>3. CASE WorkerCurrent(w)
  BY <1>3 DEF WorkerCurrent
<1>4. CASE WorkerLoad(w)
  BY <1>4 DEF WorkerLoad
<1>5. CASE WorkerBatch(w)
  BY <1>5 DEF WorkerBatch
<1>6. CASE WorkerSolves(w)
  BY <1>6 DEF WorkerSolves
<1>7. CASE WorkerDrops(w)
  BY <1>7 DEF WorkerDrops
<1>8. CASE WorkerCopies(w)
  BY <1>8 DEF WorkerCopies
<1>9. CASE WorkerMarks(w)
  BY <1>9 DEF WorkerMarks
<1>10. CASE WorkerSubmits(w)
  <2>1. found' \in [Worker -> [block : Template, nonceFor : Template]]
    BY <1>10 DEF WorkerSubmits, NothingFound, Template
  <2>2. \/ tip' = tip + 1 /\ dirty' = TRUE
        \/ tip' = tip /\ dirty' = dirty
    BY <1>10 DEF WorkerSubmits, TipAdvances
  <2>3. at' \in [Worker -> {"top", "load", "grind", "solved", "copied", "submit", "wait", "ended"}]
    BY <1>10 DEF WorkerSubmits
  <2>4. UNCHANGED <<running, version, tmpl, payout, coordinator, seen, hdr, solves, control>>
    BY <1>10 DEF WorkerSubmits
  <2> HIDE DEF WorkerSubmits, Goes
  <2>5. CASE tip' = tip + 1 /\ dirty' = TRUE
    BY <2>1, <2>3, <2>4, <2>5
  <2>6. CASE tip' = tip /\ dirty' = dirty
    BY <2>1, <2>3, <2>4, <2>6
  <2> QED
    BY <2>2, <2>5, <2>6
<1>11. CASE WorkerResumes(w)
  BY <1>11 DEF WorkerResumes
<1> QED
  BY <1>1, <1>2, <1>3, <1>4, <1>5, <1>6, <1>7, <1>8, <1>9, <1>10, <1>11 DEF WorkerStep

\* Another miner's block, and the callers of start and stop.
LEMMA MInvOthers ==
    ASSUME MInv,
           \/ OtherBlock
           \/ \E who \in Requests, p \in Payout \cup {NoPayout} : Call(who, p)
           \/ Start \/ Stopped \/ Done
    PROVE  MInv'
<1> USE DEF MInv, TypeOK, FreshWhenClean, Current, miner, coordinator, workers, control
<1>1. CASE OtherBlock
  BY <1>1 DEF OtherBlock, TipAdvances
<1>2. CASE \E who \in Requests, p \in Payout \cup {NoPayout} : Call(who, p)
  <2>1. PICK who \in Requests, p \in Payout \cup {NoPayout} : Call(who, p)
    BY <1>2
  <2> QED
    BY <2>1, MinerAssumption DEF Call
<1>3. CASE Start
  BY <1>3 DEF Start, Template
<1>4. CASE Stopped
  BY <1>4 DEF Stopped
<1>5. CASE Done
  BY <1>5 DEF Done, vars
<1> QED
  BY <1>1, <1>2, <1>3, <1>4, <1>5

\* MInv is inductive.
LEMMA MInvNext == MInv /\ [Next]_vars => MInv'
<1> SUFFICES ASSUME MInv, [Next]_vars PROVE MInv'
  OBVIOUS
<1>1. CASE Next
  BY <1>1, MInvCoordinator, MInvWorker, MInvOthers DEF Next
<1>2. CASE UNCHANGED vars
  BY <1>2 DEF vars, miner, coordinator, workers, control, MInv, TypeOK, FreshWhenClean, Current
<1> QED
  BY <1>1, <1>2

\* The miner's variables keep their types: in particular every template pays
\* an address that start was called with.
THEOREM MinerTypeCorrect == Spec => []TypeOK
<1>1. MInv => TypeOK
  BY DEF MInv
<1> QED
  BY MInvInit, MInvNext, <1>1, PTL DEF Spec

\* No new tip and no new payout is missed: whenever the coordinator goes to
\* sleep with dirty_ clear, the template extends the tip and pays the address
\* in force, for any number of workers and any restarts.
THEOREM NoTipMissed == Spec => []FreshWhenClean
<1>1. MInv => FreshWhenClean
  BY DEF MInv
<1> QED
  BY MInvInit, MInvNext, <1>1, PTL DEF Spec

---------------------------------------------------------------------------
(* The version a worker has seen.  WorkersUpToDate speaks of workers that   *)
(* grind; what it says must also hold while they check, solve or wait, and  *)
(* no worker may be ahead of the version, or an increment could make an old *)
(* header look current.                                                     *)

VersionSeen(w) == seen[w] # 0 /\ seen[w] = version /\ coord # "bump" => hdr[w] = tmpl
WInv == \A w \in Worker : seen[w] <= version /\ VersionSeen(w)

\* No worker has seen a version before the first is started.
LEMMA WInvInit == Init => WInv
  BY DEF Init, WInv, VersionSeen

\* A step that leaves what the workers know and the template alone.
LEMMA WInvQuiet ==
    ASSUME WInv, UNCHANGED <<seen, hdr, version, tmpl>>, coord' # "bump" => coord # "bump"
    PROVE  WInv'
  BY DEF WInv, VersionSeen

\* The template is replaced while coord says so, and the version grows after it.
LEMMA WInvCoordinator == MInv /\ WInv /\ Coordinator => WInv'
<1> SUFFICES ASSUME MInv, WInv, Coordinator PROVE WInv'
  OBVIOUS
<1>1. CASE CoordWake \/ CoordEnds \/ CoordClear \/ CoordPayout \/ CoordBuild
  BY <1>1, WInvQuiet DEF CoordWake, CoordEnds, CoordClear, CoordPayout, CoordBuild, miner, workers
<1>2. CASE CoordPublish
  BY <1>2 DEF CoordPublish, WInv, VersionSeen, workers
<1>3. CASE CoordBump
  BY <1>3 DEF CoordBump, WInv, VersionSeen, workers, MInv, TypeOK
<1> QED
  BY <1>1, <1>2, <1>3 DEF Coordinator

\* A worker takes version and header in one section.
LEMMA WInvWorker == ASSUME NEW w \in Worker, MInv, WInv, WorkerStep(w) PROVE WInv'
<1>1. CASE WorkerLoad(w)
  BY <1>1 DEF WorkerLoad, WInv, VersionSeen, MInv, TypeOK, miner, coordinator
<1>2. CASE ~WorkerLoad(w)
  <2>1. UNCHANGED <<seen, hdr, version, tmpl, coord>>
    BY <1>2 DEF WorkerStep, WorkerEnds, WorkerStale, WorkerCurrent, WorkerBatch, WorkerSolves,
       WorkerDrops, WorkerCopies, WorkerMarks, WorkerSubmits, WorkerResumes, miner, coordinator
  <2> QED
    BY <2>1, WInvQuiet
<1> QED
  BY <1>1, <1>2

\* A restart forgets what the workers before had seen.
LEMMA WInvStart == MInv /\ Start => WInv'
  BY DEF Start, WInv, VersionSeen, MInv, TypeOK

\* WInv is inductive relative to MInv.
LEMMA WInvNext == MInv /\ WInv /\ [Next]_vars => WInv'
<1> SUFFICES ASSUME MInv, WInv, [Next]_vars PROVE WInv'
  OBVIOUS
<1>1. CASE OtherBlock \/ Stopped \/ Done \/ UNCHANGED vars
  BY <1>1, WInvQuiet DEF OtherBlock, Stopped, Done, vars, miner, coordinator, workers
<1>2. CASE \E who \in Requests, p \in Payout \cup {NoPayout} : Call(who, p)
  BY <1>2, WInvQuiet DEF Call, coordinator, workers
<1> QED
  BY <1>1, <1>2, WInvCoordinator, WInvWorker, WInvStart DEF Next

\* A worker that has seen the version in force hashes the template in force,
\* except between the two halves of a replacement, for any number of workers and
\* restarts (miner.cpp:108, :129).  A worker in the middle of a batch that began
\* with an older version is not meant: it notices after the batch.
THEOREM NoStaleWork == Spec => []WorkersUpToDate
<1>1. WInv => WorkersUpToDate
  BY DEF WInv, VersionSeen, WorkersUpToDate
<1> QED
  BY MInvInit, MInvNext, WInvInit, WInvNext, <1>1, PTL DEF Spec

\* While the coordinator sleeps and no notification is waiting, a worker that has
\* seen the version in force hashes a block on the current tip, for the current
\* payout.
JobIsCurrent ==
    coord = "loop" /\ ~dirty =>
        \A w \in Worker : at[w] = "grind" /\ seen[w] # 0 /\ seen[w] = version => Current(hdr[w])

\* What the version counter and dirty_ promise together: a new tip or a new payout
\* reaches the hashing of every worker that has taken the newest template
\* (miner.cpp:98-108, :129-133).
THEOREM WorkOnTheTip == Spec => []JobIsCurrent
<1>1. FreshWhenClean /\ WorkersUpToDate => JobIsCurrent
  BY DEF FreshWhenClean, WorkersUpToDate, JobIsCurrent
<1> QED
  BY NoTipMissed, NoStaleWork, <1>1, PTL
=============================================================================
