---------------------------- MODULE MCBlockSync ----------------------------
(* Peers for the model checker: an archive node that is ahead, and a        *)
(* pruning node that itself began from a snapshot.                          *)
EXTENDS BlockSync
CONSTANTS a, b
MixedHeights == [p \in Peers |-> IF p = a THEN 4 ELSE 2]
BootstrappedB == [p \in Peers |-> IF p = b THEN 2 ELSE 0]
====
