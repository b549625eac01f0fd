--------------------------- MODULE MCConnections ---------------------------
(* Two nodes that know each other, one of which has heard of itself, and an *)
(* address that it has banned and where nobody answers.                     *)
EXTENDS Connections
CONSTANTS a, b, d
EachOther == [n \in Nodes |-> IF n = a THEN {b} ELSE {a, b}]
BannedAD == [n \in Nodes |-> IF n = a THEN {} ELSE {a, d}]
BannedD == [n \in Nodes |-> IF n = a THEN {} ELSE {d}]
DialsOnceTwice == [n \in Nodes |-> IF n = a THEN 1 ELSE 2]
====
