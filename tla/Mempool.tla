------------------------------- MODULE Mempool -------------------------------
(***************************************************************************)
(* chain/mempool.cpp: unconfirmed transactions in order of arrival, kept   *)
(* applicable to the chain through the callbacks of Chainstate.  The view  *)
(* over the chain with all entries applied is a function of order and tip  *)
(* whenever dirty is FALSE.                                                *)
(***************************************************************************)
EXTENDS BlockTree

CONSTANTS
    Standard,   \* transactions that pass check_tx_basic, size and fee
    MaxPool     \* MAX_BYTES, in transactions

ASSUME PoolAssumption == Standard \subseteq Tx /\ MaxPool \in Nat

VARIABLES order, readd, dirty
poolVars == <<order, readd, dirty>>

InPool(t) == t \in Range(order)
PoolSpends(ord) == UNION {Ins[ord[i]] : i \in DOMAIN ord}

\* The entries of ord that still apply, in order, to the chain to tip, and the
\* view they leave.
KeptNext(k, tip, t) ==
    IF Applies(k.view, tip, t) THEN [ord |-> Append(k.ord, t), view |-> Apply(k.view, t)] ELSE k
Kept(ord, tip) ==
    LET f[i \in 0..Len(ord)] ==
          IF i = 0 THEN [ord |-> <<>>, view |-> Coins[tip]] ELSE KeptNext(f[i - 1], tip, ord[i])
    IN f[Len(ord)]

Rebuilt(tip) == IF dirty THEN Kept(order, tip).ord ELSE order

\* accept: refused if it is there, confirmed, not standard, in conflict or not
\* applicable, or if the pool is full.
Accepts(ord, tip, t) ==
    /\ t \notin Range(ord) /\ t \in Standard /\ ~ Coinbase(t)
    /\ TxHeight(t, tip) = -1
    /\ Applies(Kept(ord, tip).view, tip, t)
    /\ Len(ord) < MaxPool

\* The pool after the transactions of a sequence have been offered in turn.
OfferedNext(ord, tip, t) == IF Accepts(ord, tip, t) THEN Append(ord, t) ELSE ord
Offered(ord, tip, ts) ==
    LET f[i \in 0..Len(ts)] == IF i = 0 THEN ord ELSE OfferedNext(f[i - 1], tip, ts[i])
    IN f[Len(ts)]

PoolConnect(b) ==
    /\ order' = Filter(order, Tx \ TxSet(b))
    /\ dirty' = TRUE
    /\ UNCHANGED readd

\* Forgets the transactions of disconnected blocks.
PoolDisconnectForgets(b) == dirty' = TRUE /\ UNCHANGED <<order, readd>>

PoolDisconnect(b) ==
    /\ readd' = readd \o Tail(TxsOf[b])
    /\ dirty' = TRUE
    /\ UNCHANGED order

\* Forgets to look at the entries again.
PoolTipUnchecked(tip) ==
    /\ order' = Offered(order, tip, readd)
    /\ readd' = <<>> /\ dirty' = FALSE

PoolTip(tip) ==
    /\ order' = Offered(Rebuilt(tip), tip, readd)
    /\ readd' = <<>> /\ dirty' = FALSE

\* The outcome of accept(t); the rebuilding is done also for one refused.
PoolAccept(tip, t) ==
    /\ order' = Offered(Rebuilt(tip), tip, <<t>>)
    /\ dirty' = FALSE
    /\ UNCHANGED readd

\* select_for_block: what applies on a scratch view, in order of arrival (the
\* block has room for the pool).
select_for_block(tip) == Kept(order, tip).ord

PoolInit == order = <<>> /\ readd = <<>> /\ dirty = FALSE
====
