--------------------------- MODULE MCInputEvents ---------------------------
(***************************************************************************)
(* Instance of InputEvents for TLC: the left control key, two keys that    *)
(* are one to the game, and one it does not know; queues of three buffers, *)
(* a group and no more, so that groups are cut; reads of two events, so    *)
(* that they cut groups as well.                                           *)
(***************************************************************************)
EXTENDS InputEvents

LeftCtrl == 29
Up == 103
W == 17
B == 48
MCKeys == {LeftCtrl, Up, W, B}
\* Both are KEY_UPARROW of the game, which has no key for B.
MCTable == [k \in {Up, W} |-> 173]
=============================================================================
