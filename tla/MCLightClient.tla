--------------------------- MODULE MCLightClient ---------------------------
(* Headers for the model checker: the chain g-h1-h2-h3, and a branch       *)
(* h1-b2-b3-b4 that seems heavier and whose last header is invalid.  The   *)
(* payment to the wallet is in a block of both; a transaction that spends  *)
(* it is in h3, or pending.  One peer stays at h2, the other may change    *)
(* its branch.                                                             *)
EXTENDS LightClient
CONSTANTS g, h1, h2, h3, b2, b3, b4, moving, lagging, coin, change, pay, spend
MCParent == [h \in Headers |->
    CASE h = g -> NoHeader [] h = h1 -> g [] h = h2 -> h1 [] h = h3 -> h2
      [] h = b2 -> h1 [] h = b3 -> b2 [] h = b4 -> b3]
MCWork == [h \in Headers |-> CASE h \in {h2, b4} -> 2 [] h \in {h3, b3} -> 3 [] OTHER -> 1]
MCIns == [t \in Txs |-> IF t = spend THEN {coin} ELSE {}]
MCOuts == [t \in Txs |-> IF t = pay THEN {coin} ELSE {change}]
MCIncludes == [h \in Headers |-> IF h \in {h2, b3} THEN {pay} ELSE IF h = h3 THEN {spend} ELSE {}]
MCViews == [p \in Peers |-> IF p = moving THEN {h3, b4} ELSE {h2}]
====
