------------------------------ MODULE Emission -------------------------------
(***************************************************************************)
(* consensus/params.cpp, the emission: issued_through steps the curve of   *)
(* limits.h from the nearest checkpoint, extends the checkpoints as far as *)
(* it is asked, and is linear once the tail has been found.                *)
(***************************************************************************)
EXTENDS Integers, Sequences

CONSTANTS EMISSION_CURVE, EMISSION_SPEED, TAIL_SUBSIDY, STEP

ASSUME EmissionAssumption ==
    /\ EMISSION_CURVE \in Nat /\ TAIL_SUBSIDY \in Nat \ {0} /\ STEP \in Nat \ {0}
    /\ EMISSION_SPEED \in Nat /\ 2 ^ EMISSION_SPEED \in Nat \ {0}

VARIABLE emission   \* [at: checkpoints, tail: its height or 0, base]

subsidy_after(issued) ==
    LET r == IF issued >= EMISSION_CURVE THEN 0 ELSE (EMISSION_CURVE - issued) \div 2 ^ EMISSION_SPEED
    IN IF r < TAIL_SUBSIDY THEN TAIL_SUBSIDY ELSE r

\* The amount issued counts the first block of the tail.
IssueLate(c, height) ==
    LET s == subsidy_after(c.iss)
        first == s = TAIL_SUBSIDY /\ c.tail = 0
    IN [iss |-> c.iss + s, tail |-> IF first THEN height ELSE c.tail,
        base |-> IF first THEN c.iss + s ELSE c.base]

\* The block at a height: what it pays, and the tail if it begins there.
Issue(c, height) ==
    LET s == subsidy_after(c.iss)
        first == s = TAIL_SUBSIDY /\ c.tail = 0
    IN [iss |-> c.iss + s, tail |-> IF first THEN height ELSE c.tail,
        base |-> IF first THEN c.iss ELSE c.base]

\* One more checkpoint, STEP blocks later.
Checkpoint(e) == (Len(e.at) - 1) * STEP
Checkpointed(e) ==
    LET f[i \in 0..STEP] ==
          IF i = 0 THEN [iss |-> e.at[Len(e.at)], tail |-> e.tail, base |-> e.base]
          ELSE Issue(f[i - 1], Checkpoint(e) + i)
    IN [at |-> Append(e.at, f[STEP].iss), tail |-> f[STEP].tail, base |-> f[STEP].base]

Extended(e, height) == IF Checkpoint(e) < height /\ e.tail = 0 THEN Checkpointed(e) ELSE e

\* The cache after a call of issued_through(height) ...
Reached(e, height) ==
    LET g[k \in 0..height] == IF k = 0 THEN e ELSE Extended(g[k - 1], height)
    IN g[height]

\* ... and what the call returns.
Paid(issued) == issued + subsidy_after(issued)
issued_through(e, height) ==
    LET c == Reached(e, height)
        f[i \in 0..height % STEP] == IF i = 0 THEN c.at[height \div STEP + 1] ELSE Paid(f[i - 1])
    IN IF c.tail # 0 /\ height >= c.tail
       THEN c.base + (height - c.tail + 1) * TAIL_SUBSIDY ELSE f[height % STEP]

block_subsidy(e, height) == IF height = 0 THEN 0 ELSE subsidy_after(issued_through(e, height - 1))

EmissionInit == emission = [at |-> <<0>>, tail |-> 0, base |-> 0]

\* The emission without a cache.
IssuedBy[h \in Nat] == IF h = 0 THEN 0 ELSE Paid(IssuedBy[h - 1])
====
