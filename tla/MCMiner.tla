------------------------------- MODULE MCMiner -------------------------------
(* The instance of Miner for TLC: two workers and one payout address. *)
EXTENDS Miner
=============================================================================
