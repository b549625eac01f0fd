------------------------------ MODULE ChainView ------------------------------
(***************************************************************************)
(* What a node promises those who watch its chain (on_tip, RPC, wallet):   *)
(* the chain shown is replaced as a whole, by one that is valid and that   *)
(* no chain the node still holds a candidate outweighs, unless a file      *)
(* failed it on the way.  It gives a candidate up for being lighter than   *)
(* the chain it settles on, for being invalid, or because its undo file    *)
(* could not be written, and remembers all of them after a restart.  How   *)
(* blocks are undone and connected is not part of it.                      *)
(***************************************************************************)
EXTENDS BlockTree

CONSTANT None
VARIABLES
    known,    \* blocks stored
    shown,    \* the tip shown, None while down
    live,     \* candidates
    cut,      \* the last attempt at a heavier chain ended in a failure
    faults    \* failures to read or write what a block needs

Sound == {b \in known : Ancestors(b) \subseteq known \ Bad}
Settled(b) == b \in Sound /\ (cut \/ \A x \in live : Height(x) <= Height(b))

Init == known = {Genesis} /\ shown = Genesis /\ live = {Genesis} /\ cut = FALSE /\ faults = 0

Learn(b) ==
    /\ shown # None /\ known' = known \union {b} /\ live' = live \union {b} /\ cut' = FALSE
    /\ UNCHANGED <<shown, faults>>

TryAgain == shown # None /\ cut' = FALSE /\ UNCHANGED <<known, shown, live, faults>>

Condemn(b) ==
    /\ live' = {x \in live : ~ IsAncestor(b, x)}
    /\ faults' = IF b \in Bad THEN faults ELSE faults + 1
    /\ UNCHANGED <<known, shown, cut>>

CutShort == cut' = TRUE /\ faults' = faults + 1 /\ UNCHANGED <<known, shown, live>>

\* The node may still be starting, and shows nothing then.
Settle(b) ==
    /\ Settled(b)
    /\ live' = {x \in live : Height(x) >= Height(b)}
    /\ shown' = IF shown = None THEN None ELSE b
    /\ UNCHANGED <<known, cut, faults>>

GoDown == shown' = None /\ live' = {} /\ cut' = FALSE /\ UNCHANGED <<known, faults>>
Load == shown = None /\ live' = known /\ UNCHANGED <<known, shown, cut, faults>>
ComeUp(b) ==
    /\ shown = None /\ Settled(b) /\ b \in live /\ shown' = b
    /\ UNCHANGED <<known, live, cut, faults>>

Next ==
    \/ \E b \in Block : Learn(b) \/ Condemn(b) \/ Settle(b) \/ ComeUp(b)
    \/ TryAgain \/ CutShort \/ GoDown \/ Load
Spec == Init /\ [][Next]_<<known, shown, live, cut, faults>>
====
