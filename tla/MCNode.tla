------------------------------- MODULE MCNode --------------------------------
(* Two branches that hold the same payment p and a swap with a message s, at *)
(* different heights, one also p's child c; they can be equally high when    *)
(* the node is started.  The longer one ends in an invalid block; q spends   *)
(* p's coin.                                                                 *)
EXTENDS Node
MCParent == [b \in Block |-> CASE b = "a2" -> "a1" [] b = "b2" -> "b1" [] b = "b3" -> "b2" [] OTHER -> "g"]
MCTxsOf == [b \in Block |-> CASE b = "a1" -> <<"cb-a1", "p", "s">> [] b = "a2" -> <<"cb-a2", "c">>
                              [] b = "b2" -> <<"cb-b2", "p", "s">> [] b = "g" -> <<"cb-g">>
                              [] b = "b1" -> <<"cb-b1">> [] b = "b3" -> <<"cb-b3">>]
Coinbases == {MCTxsOf[b][1] : b \in Block}
Pending == {"p", "c", "q", "s"}
AllTx == Coinbases \union Pending
MCIns == [t \in Tx |-> CASE t \in {"p", "q"} -> {<<"cb-g", 1>>} [] t = "s" -> {<<"cb-g", 2>>}
                          [] t = "c" -> {<<"p", 2>>} [] OTHER -> {}]
Own(v) == [mine |-> TRUE, value |-> v]
Foreign(v) == [mine |-> FALSE, value |-> v]
MCOuts == [t \in Tx |-> CASE t = "cb-g" -> <<Own(5), Foreign(1)>> [] t = "p" -> <<Foreign(2), Own(3)>>
                           [] t = "c" -> <<Foreign(3)>> [] t = "q" -> <<Foreign(5)>> [] t = "s" -> <<Own(1)>>
                           [] t \in {"cb-a1", "cb-b1"} -> <<Own(4)>> [] OTHER -> <<Foreign(4)>>]
====
