---------------------------- MODULE MCCardStore ----------------------------
(* One card, held at first by two of the users.                            *)
EXTENDS CardStore, TLC

CONSTANTS
    c1, u1, u2, u3,
    MaxVersion,   \* bound: no read of a document beyond this version
    MaxAmount,    \* bound: no balance grows beyond this
    MinTotal,     \* bound: no totalSupply falls below this
    MaxPending    \* bound: saves under way at once

(* No further read once one of the bounds is reached.                      *)
MCWithin(doc, upd, underWay) ==
    /\ doc.v < MaxVersion
    /\ Cardinality(underWay) < MaxPending
    /\ \A i \in DOMAIN upd.bal : upd.bal[i].amount <= MaxAmount
    /\ upd.supply => upd.total >= MinTotal

Held(u, n) == [user |-> u, amount |-> n]

(* Closed under permutation of the users, so that they are interchangeable.*)
MCNewCards ==
    {doc \in {[v |-> 0, total |-> 3, bal |-> <<Held(u, 1), Held(w, 2)>>] :
                 u \in Users, w \in Users} :
        OneEntryEach(doc.bal)}

MCSymmetry == Permutations(Users)
=============================================================================
