-------------------------------- MODULE Miner --------------------------------
(***************************************************************************)
(* The mining threads: src/src/miner/miner.{h,cpp}, with the code that     *)
(* starts and stops them (setmining in src/src/node/rpc.cpp, Node::stop)   *)
(* and the callbacks between them and Chainstate (src/src/node/node.cpp).  *)
(*                                                                         *)
(* Threads: the coordinator, the workers, whoever calls start and stop,    *)
(* and everyone else who extends the chain.  Each action is what a thread  *)
(* does between two points where another can intervene: an access to an    *)
(* atomic, or a section under tmpl_mu_ or Chainstate::mu.                  *)
(*                                                                         *)
(* The chain is abstracted to the number of tips so far; a template to its *)
(* parent, its payout and the number of its build (its coinbase carries a  *)
(* random nonce, so no two builds are alike).                              *)
(***************************************************************************)
EXTENDS Naturals, FiniteSets

CONSTANTS
    Worker,       \* worker threads, all started together
    Payout,       \* payout addresses
    NoPayout,     \* "setmining 0": stop without starting again
    NoTemplate,   \* tmpl_ before the first build: an unminable header
    Requests,     \* who may call start and stop, see Call
    MaxTip,       \* bound: no block of another miner above this height
    MaxSolves,    \* bound on the solutions the workers find
    MaxBuilds     \* bound: no rebuild by the clock, no start, after so many builds

ASSUME MinerAssumption ==
    /\ NoPayout \notin Payout
    /\ NoTemplate \notin [prev : Nat, pay : Payout, id : Nat]
    /\ Requests \subseteq {"node-start", "setmining", "node-stop"}
    /\ MaxTip \in Nat /\ MaxSolves \in Nat /\ MaxBuilds \in Nat

Template == [prev : Nat, pay : Payout, id : Nat] \cup {NoTemplate}

VARIABLES
    tip,       \* the active tip
    running, dirty, version, tmpl, payout,   \* the members of Miner
    builds, solves,     \* templates built and solutions found so far
    coord,     \* where the coordinator stands
    pay, fresh,         \* its locals: the payout read, the template built
    at,        \* [Worker -> where it stands]
    seen, hdr, found,   \* locals of the workers
    caller,    \* who is in start or stop: "none" or a request
    want,      \* the payout to start with, or NoPayout
    life       \* "boot" before the RPC server runs, "up", or "ended"

miner == <<running, dirty, version, tmpl, payout>>
coordinator == <<coord, pay, fresh, builds>>
workers == <<at, seen, hdr, found, solves>>
control == <<caller, want, life>>
vars == <<tip, miner, coordinator, workers, control>>

\* Node::rpc holds Chainstate::mu for the whole of setmining; Node::start and
\* Node::stop call start and stop without it.
ChainFree == caller # "setmining"

TipAdvancesSilently == tip' = tip + 1 /\ UNCHANGED dirty
\* accept_block of a block extending the tip: on_tip calls notify_new_tip.
TipAdvances == tip' = tip + 1 /\ dirty' = TRUE

---------------------------------------------------------------------------
(* The coordinator *)

\* while (running_): the loop sleeps, or finds dirty_ set or 20 seconds gone.
CoordWake ==
    /\ coord = "loop" /\ running
    /\ dirty \/ builds < MaxBuilds
    /\ coord' = "clear"
    /\ UNCHANGED <<tip, miner, pay, fresh, builds, workers, control>>

CoordEnds ==
    /\ coord = "loop" /\ ~running
    /\ coord' = "ended"
    /\ UNCHANGED <<tip, miner, pay, fresh, builds, workers, control>>

\* dirty_ = false, then payout_ is read under the lock.
CoordClear ==
    /\ coord = "clear"
    /\ dirty' = FALSE
    /\ coord' = "payout"
    /\ UNCHANGED <<tip, running, version, tmpl, payout, pay, fresh, builds, workers, control>>

CoordPayoutOfRequest ==
    /\ coord = "payout"
    /\ pay' = want
    /\ coord' = "build"
    /\ UNCHANGED <<tip, miner, fresh, builds, workers, control>>
CoordPayout ==
    /\ coord = "payout"
    /\ pay' = payout
    /\ coord' = "build"
    /\ UNCHANGED <<tip, miner, fresh, builds, workers, control>>

\* create_block_template takes Chainstate::mu.
CoordBuild ==
    /\ coord = "build" /\ ChainFree
    /\ builds' = builds + 1
    /\ fresh' = [prev |-> tip, pay |-> pay, id |-> builds + 1]
    /\ coord' = "publish"
    /\ UNCHANGED <<tip, miner, pay, workers, control>>

\* tmpl_ and target_ are replaced under tmpl_mu_ ...
CoordPublish ==
    /\ coord = "publish"
    /\ tmpl' = fresh /\ fresh' = NoTemplate
    /\ coord' = "bump"
    /\ UNCHANGED <<tip, running, dirty, version, payout, pay, builds, workers, control>>

CoordBumpThenClear ==
    /\ coord = "bump"
    /\ version' = version + 1
    /\ dirty' = FALSE
    /\ coord' = "loop"
    /\ UNCHANGED <<tip, running, tmpl, payout, pay, fresh, builds, workers, control>>
CoordBumpFirstOnly ==
    /\ coord = "bump"
    /\ version' = 1
    /\ coord' = "loop"
    /\ UNCHANGED <<tip, running, dirty, tmpl, payout, pay, fresh, builds, workers, control>>
\* ... and tmpl_version_ is incremented after it is released.
CoordBump ==
    /\ coord = "bump"
    /\ version' = version + 1
    /\ coord' = "loop"
    /\ UNCHANGED <<tip, running, dirty, tmpl, payout, pay, fresh, builds, workers, control>>

Coordinator == \/ CoordWake \/ CoordEnds \/ CoordClear \/ CoordPayout
               \/ CoordBuild \/ CoordPublish \/ CoordBump

---------------------------------------------------------------------------
(* The workers *)

NothingFound == [block |-> NoTemplate, nonceFor |-> NoTemplate]
Goes(w, to) == at' = [at EXCEPT ![w] = to]

WorkerEnds(w) ==
    /\ at[w] = "top" /\ ~running
    /\ Goes(w, "ended")
    /\ UNCHANGED <<tip, miner, coordinator, seen, hdr, found, solves, control>>

\* A worker takes the template when its version has changed.
WorkerStale(w) ==
    /\ at[w] = "top" /\ running
    /\ version # seen[w] \/ seen[w] = 0
    /\ Goes(w, "load")
    /\ UNCHANGED <<tip, miner, coordinator, seen, hdr, found, solves, control>>

WorkerIgnoresStop(w) ==
    /\ at[w] = "top"
    /\ version = seen[w] /\ seen[w] # 0
    /\ Goes(w, "grind")
    /\ UNCHANGED <<tip, miner, coordinator, seen, hdr, found, solves, control>>
WorkerCurrent(w) ==
    /\ at[w] = "top" /\ running
    /\ version = seen[w] /\ seen[w] # 0
    /\ Goes(w, "grind")
    /\ UNCHANGED <<tip, miner, coordinator, seen, hdr, found, solves, control>>

\* It waits for a first template, then copies version and header under tmpl_mu_.
WorkerLoad(w) ==
    /\ at[w] = "load"
    /\ version # 0 \/ ~running
    /\ seen' = [seen EXCEPT ![w] = version]
    /\ hdr' = [hdr EXCEPT ![w] = tmpl]
    /\ Goes(w, "grind")
    /\ UNCHANGED <<tip, miner, coordinator, found, solves, control>>

\* A batch of nonces without a solution.
WorkerBatch(w) ==
    /\ at[w] = "grind"
    /\ Goes(w, "top")
    /\ UNCHANGED <<tip, miner, coordinator, seen, hdr, found, solves, control>>

WorkerSolves(w) ==
    /\ at[w] = "grind" /\ hdr[w] # NoTemplate
    /\ solves < MaxSolves /\ solves' = solves + 1
    /\ Goes(w, "solved")
    /\ UNCHANGED <<tip, miner, coordinator, seen, hdr, found, control>>

\* Under tmpl_mu_: "if (tmpl_version_ != seen) break; // stale".
WorkerDrops(w) ==
    /\ at[w] = "solved" /\ version # seen[w]
    /\ Goes(w, "top")
    /\ UNCHANGED <<tip, miner, coordinator, seen, hdr, found, solves, control>>

\* found = tmpl_, with the nonce that solves hdr.
WorkerCopies(w) ==
    /\ at[w] = "solved" /\ version = seen[w]
    /\ found' = [found EXCEPT ![w] = [block |-> tmpl, nonceFor |-> hdr[w]]]
    /\ Goes(w, "copied")
    /\ UNCHANGED <<tip, miner, coordinator, seen, hdr, solves, control>>

WorkerMarks(w) ==
    /\ at[w] = "copied"
    /\ dirty' = TRUE
    /\ Goes(w, "submit")
    /\ UNCHANGED <<tip, running, version, tmpl, payout, coordinator, seen, hdr, found, solves, control>>

\* on_found: accept_block refuses a nonce that does not fit the header, and a
\* block beside the tip does not replace it.
WorkerSubmits(w) ==
    /\ at[w] = "submit" /\ ChainFree
    /\ IF found[w].block = found[w].nonceFor /\ found[w].block.prev = tip
       THEN TipAdvances
       ELSE UNCHANGED <<tip, dirty>>
    /\ found' = [found EXCEPT ![w] = NothingFound]
    /\ Goes(w, "wait")
    /\ UNCHANGED <<running, version, tmpl, payout, coordinator, seen, hdr, solves, control>>

\* "Wait for the coordinator to build a template on top of the new block."
WorkerResumes(w) ==
    /\ at[w] = "wait"
    /\ version # seen[w] \/ ~running
    /\ Goes(w, "top")
    /\ UNCHANGED <<tip, miner, coordinator, seen, hdr, found, solves, control>>

WorkerStep(w) == \/ WorkerEnds(w) \/ WorkerStale(w) \/ WorkerCurrent(w) \/ WorkerLoad(w)
                 \/ WorkerBatch(w) \/ WorkerSolves(w) \/ WorkerDrops(w) \/ WorkerCopies(w)
                 \/ WorkerMarks(w) \/ WorkerSubmits(w) \/ WorkerResumes(w)

---------------------------------------------------------------------------
(* Everyone else: a block from a peer, or from the generate command. *)

OtherBlock ==
    /\ ChainFree
    /\ tip < MaxTip
    /\ TipAdvances
    /\ UNCHANGED <<running, version, tmpl, payout, coordinator, workers, control>>

---------------------------------------------------------------------------
(* start and stop *)

\* Node::start and quantd's main start mining before the RPC server runs;
\* setmining starts or stops it; Node::stop stops it once the RPC server has
\* stopped, so no two callers overlap.  Each begins with Miner::stop, which
\* clears running_ (if it is set) and joins the threads.
Call(who, p) ==
    /\ caller = "none"
    /\ \/ who = "node-start" /\ life = "boot" /\ p # NoPayout
       \/ who = "setmining" /\ life = "up"
       \/ who = "node-stop" /\ life = "up" /\ p = NoPayout
    /\ p # NoPayout => builds < MaxBuilds
    /\ caller' = who /\ want' = p
    /\ running' = FALSE
    /\ UNCHANGED <<tip, dirty, version, tmpl, payout, coordinator, workers, life>>

\* Every thread has been joined.
AllJoined == coord = "ended" /\ \A w \in Worker : at[w] = "ended"

\* start: after stop, the payout is set and new threads are launched; version
\* and template are those of the threads before them.
Start ==
    /\ caller # "none" /\ AllJoined /\ want # NoPayout
    /\ payout' = want /\ running' = TRUE /\ dirty' = TRUE
    /\ coord' = "loop"
    /\ at' = [w \in Worker |-> "top"]
    /\ seen' = [w \in Worker |-> 0]
    /\ hdr' = [w \in Worker |-> NoTemplate]
    /\ caller' = "none" /\ want' = NoPayout /\ life' = "up"
    /\ UNCHANGED <<tip, version, tmpl, pay, fresh, builds, found, solves>>

Stopped ==
    /\ caller # "none" /\ AllJoined /\ want = NoPayout
    /\ caller' = "none"
    /\ life' = IF caller = "node-stop" THEN "ended" ELSE life
    /\ UNCHANGED <<tip, miner, coordinator, workers, want>>

Init ==
    /\ tip = 0
    /\ running = FALSE /\ dirty = TRUE /\ version = 0 /\ tmpl = NoTemplate
    /\ payout \in Payout
    /\ builds = 0 /\ solves = 0
    /\ coord = "ended" /\ pay = payout /\ fresh = NoTemplate
    /\ at = [w \in Worker |-> "ended"]
    /\ seen = [w \in Worker |-> 0]
    /\ hdr = [w \in Worker |-> NoTemplate]
    /\ found = [w \in Worker |-> NothingFound]
    /\ caller = "none" /\ want = NoPayout /\ life \in {"boot", "up"}

\* A stopped node stays stopped.
Done == life = "ended" /\ UNCHANGED vars

Next == \/ Coordinator
        \/ \E w \in Worker : WorkerStep(w)
        \/ OtherBlock
        \/ \E who \in Requests, p \in Payout \cup {NoPayout} : Call(who, p)
        \/ Start \/ Stopped
        \/ Done

Spec == Init /\ [][Next]_vars

\* Every thread is scheduled: coordinator, workers and the caller of start and
\* stop.  Nobody is obliged to find a block or to call.
FairSpec == /\ Spec
            /\ WF_vars(Coordinator)
            /\ \A w \in Worker : WF_vars(WorkerStep(w))
            /\ WF_vars(Start \/ Stopped)

---------------------------------------------------------------------------
(* Properties *)

\* Every variable stays within the values the code can hold; in particular the
\* template in use pays an address somebody asked for.
TypeOK ==
    /\ tip \in Nat /\ version \in Nat /\ builds \in Nat /\ solves \in Nat
    /\ running \in BOOLEAN /\ dirty \in BOOLEAN
    /\ tmpl \in Template /\ fresh \in Template
    /\ payout \in Payout /\ pay \in Payout
    /\ coord \in {"loop", "clear", "payout", "build", "publish", "bump", "ended"}
    /\ at \in [Worker -> {"top", "load", "grind", "solved", "copied", "submit", "wait", "ended"}]
    /\ seen \in [Worker -> Nat] /\ hdr \in [Worker -> Template]
    /\ found \in [Worker -> [block : Template, nonceFor : Template]]
    /\ caller \in {"none", "node-start", "setmining", "node-stop"}
    /\ want \in Payout \cup {NoPayout}
    /\ life \in {"boot", "up", "ended"}

\* No new tip is missed: when the coordinator goes to sleep with dirty_ clear,
\* the template in use extends the current tip and pays the current address,
\* whenever the tip changed or mining was restarted.
Current(t) == t # NoTemplate /\ t.prev = tip /\ t.pay = payout
FreshWhenClean == coord = "loop" /\ ~dirty => Current(tmpl)

\* A worker that believes it is up to date grinds the template in use, except
\* between the two halves of its replacement.
WorkersUpToDate ==
    \A w \in Worker :
        at[w] = "grind" /\ seen[w] # 0 /\ seen[w] = version /\ coord # "bump" =>
            hdr[w] = tmpl

\* Starting and stopping the node never hangs on the mining threads, whatever
\* they wait for: a template, a verdict on a block or Chainstate::mu.
NodeStops == caller \in {"node-start", "node-stop"} ~> caller = "none"

\* A worker behind the tip gets to work on it, without waiting for the clock
\* (between two tips there is time to do so: their number is bounded), and one
\* that must "wait for the coordinator to build a template on top of the new
\* block" goes on, also when its block was refused or lost a race.
OnTip(w) == hdr[w] # NoTemplate /\ hdr[w].prev = tip
KeepsMining ==
    \A w \in Worker :
        /\ running /\ ~OnTip(w) ~> ~running \/ OnTip(w)
        /\ at[w] = "wait" ~> at[w] # "wait"
=============================================================================
