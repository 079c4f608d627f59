----------------------------- MODULE CardStore -----------------------------
(***************************************************************************)
(* The `cards` collection under any number of writers.  Every writer of    *)
(* balances (the tasks of the sell listener, the transfer listener, the    *)
(* burn listener, in as many lambdas) reads a document, computes a save    *)
(* from it and sends that save later, with nothing locked in between.      *)
(* `pending` holds the saves that are computed and not yet sent; a save    *)
(* may be sent, rejected or lost with its process at any time.             *)
(***************************************************************************)
EXTENDS CardDocument

CONSTANTS
    Cards,
    Users,
    Amounts,      \* token counts of the chain's events
    NewCards,     \* the documents the collection may start with
    Within(_, _, _)
                  \* bound: the documents that are still read, given the save
                  \* a read leads to and the saves under way

ASSUME StoreAssumption == Amounts \subseteq Nat \ {0}

Balances == Seq([user : Users, amount : Nat \ {0}])

Docs == [v : Nat, total : Int, bal : Balances]

Updates ==
    [card : Cards, v : Nat, kind : {"set", "replace", "delete"},
     bal : Balances, at : SUBSET Nat, supply : BOOLEAN, total : Int]

ASSUME NewCardsAssumption ==
    /\ NewCards \subseteq Docs
    /\ \A doc \in NewCards : OneEntryEach(doc.bal)
    /\ NoCard \notin Docs

VARIABLES
    cards,     \* the collection
    pending    \* saves computed from a read and not yet sent

vars == <<cards, pending>>

(* No entry is ever empty or negative: that is part of the type.            *)
TypeOK ==
    /\ cards \in [Cards -> Docs \cup {NoCard}]
    /\ pending \subseteq Updates

Init ==
    /\ cards \in [Cards -> NewCards]
    /\ pending = {}

ReadForTransfer(c, n, maker, taker) ==
    /\ cards[c] # NoCard
    /\ maker \in Holders(cards[c].bal)
    /\ LET upd == ChangeOwnerships(c, cards[c], n, maker, taker)
       IN  Within(cards[c], upd, pending) /\ pending' = pending \cup {upd}
    /\ UNCHANGED cards

ReadForBurn(c, n, owner) ==
    /\ cards[c] # NoCard
    /\ owner \in Holders(cards[c].bal)
    /\ LET upd == BurnCard(c, cards[c], n, owner)
       IN  Within(cards[c], upd, pending) /\ pending' = pending \cup {upd}
    /\ UNCHANGED cards

(* Mutant: a save creates the document it does not find.                   *)
SaveUpserts(upd) ==
    /\ upd.kind # "delete"
    /\ cards[upd.card] = NoCard \/ Accepts(cards[upd.card], upd)
    /\ cards' = [cards EXCEPT ![upd.card] =
                   IF @ = NoCard THEN [v |-> 0, total |-> upd.total, bal |-> upd.bal]
                   ELSE Saved(@, upd)]
    /\ pending' \in {pending, pending \ {upd}}

(* Two writers may have computed the same save: it may stay pending.       *)
Save(upd) ==
    /\ upd.kind # "delete"
    /\ Accepts(cards[upd.card], upd)
    /\ cards' = [cards EXCEPT ![upd.card] = Saved(@, upd)]
    /\ pending' \in {pending, pending \ {upd}}

Delete(upd) ==
    /\ upd.kind = "delete"
    /\ cards' = [cards EXCEPT ![upd.card] = NoCard]
    /\ pending' \in {pending, pending \ {upd}}

(* A VersionError, an exception of the writer, a killed lambda.            *)
Lose == \E lost \in SUBSET pending : pending' = pending \ lost /\ UNCHANGED cards

Next ==
    \/ \E c \in Cards, n \in Amounts, maker, taker \in Users :
         ReadForTransfer(c, n, maker, taker)
    \/ \E c \in Cards, n \in Amounts, owner \in Users : ReadForBurn(c, n, owner)
    \/ \E upd \in pending : Save(upd) \/ Delete(upd)
    \/ Lose

Spec == Init /\ [][Next]_vars

-----------------------------------------------------------------------------
(* However the saves of the writers are interleaved, a holder keeps one    *)
(* entry: lookups (`balances.find`, $elemMatch) read the first only.       *)
OneEntryPerHolder ==
    \A c \in Cards : cards[c] # NoCard => OneEntryEach(cards[c].bal)

HoldersByPosition(bal) == [i \in DOMAIN bal |-> bal[i].user]

(* What a conditional save relies on when it addresses entries by their    *)
(* position: at an unchanged __v the document still has the entries the    *)
(* save was computed from, in the same places.                             *)
VersionFixesPositions ==
    \A upd \in pending :
        (Accepts(cards[upd.card], upd) /\ upd.kind = "set")
            => HoldersByPosition(upd.bal) = HoldersByPosition(cards[upd.card].bal)

(* A step that lets an entry come, go or move also counts __v up by one,   *)
(* and no step counts it down: an old save can never be accepted again     *)
(* after the entries changed.                                              *)
PositionsChangeWithVersion ==
    [][\A c \in Cards : (cards[c] # NoCard /\ cards'[c] # NoCard) =>
          /\ cards'[c].v \in {cards[c].v, cards[c].v + 1}
          /\ HoldersByPosition(cards'[c].bal) # HoldersByPosition(cards[c].bal)
               => cards'[c].v = cards[c].v + 1]_vars

(* A card that was removed stays removed: no late save brings it back.     *)
NoResurrection == [][\A c \in Cards : cards[c] = NoCard => cards'[c] = NoCard]_vars
=============================================================================
