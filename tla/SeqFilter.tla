------------------------------ MODULE SeqFilter ------------------------------
(***************************************************************************)
(* The entries of a sequence that lie in a set, in order: what the erasing *)
(* and collecting loops of the source leave of their container.            *)
(***************************************************************************)
EXTENDS Integers, Sequences

FilterNext(kept, x, S) == IF x \in S THEN Append(kept, x) ELSE kept
Filter(s, S) ==
    LET f[i \in 0..Len(s)] == IF i = 0 THEN <<>> ELSE FilterNext(f[i - 1], s[i], S)
    IN f[Len(s)]
====
