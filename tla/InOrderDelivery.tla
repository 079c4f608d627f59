-------------------------- MODULE InOrderDelivery --------------------------
(***************************************************************************)
(* What a chain listener promises to the rest of the back end: the blocks  *)
(* from First on are delivered to its handler one after another, none is   *)
(* left out, and a block may be delivered again only until the listener    *)
(* moves to the next one (at-least-once, in order).                        *)
(***************************************************************************)
EXTENDS Naturals

CONSTANT First   \* the first block the listener is responsible for

VARIABLES
    next,        \* the block the listener delivers now
    delivered    \* the blocks whose handler has run to its end

vars == <<next, delivered>>

Init == next = First /\ delivered = {}

(* The handler of the current block runs to its end, perhaps once more.    *)
Deliver == delivered' = delivered \cup {next} /\ UNCHANGED next

(* Only a delivered block is left behind.                                  *)
Advance == next \in delivered /\ next' = next + 1 /\ UNCHANGED delivered

Next == Deliver \/ Advance

Spec == Init /\ [][Next]_vars
=============================================================================
