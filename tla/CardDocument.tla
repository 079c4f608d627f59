---------------------------- MODULE CardDocument ----------------------------
(***************************************************************************)
(* The balances of a card document and what the card DAO does to them      *)
(* between a read and a save.  A document is read whole, changed in memory *)
(* and saved; `card.save()` sends only what changed:                       *)
(*   "set"      amounts of entries that keep their position,               *)
(*   "replace"  the whole balances array, when an entry came or went,      *)
(*   "delete"   the document itself.                                       *)
(* The first two are conditional on the __v the document had when it was   *)
(* read, and only the second one increments it (mongoose).                 *)
(***************************************************************************)
EXTENDS Integers, SequencesExt

CONSTANT NoCard   \* what a find returns when the document does not exist

Holders(bal) == {bal[i].user : i \in DOMAIN bal}

(* The entry of a user; balances hold one entry per user.                  *)
Entry(bal, u) == CHOOSE i \in DOMAIN bal : bal[i].user = u

AmountOf(bal, u) == IF u \in Holders(bal) THEN bal[Entry(bal, u)].amount ELSE 0

OneEntryEach(bal) ==
    \A i, j \in DOMAIN bal : bal[i].user = bal[j].user => i = j

WithAmount(bal, i, n) ==
    [bal EXCEPT ![i] = [user |-> bal[i].user, amount |-> n]]

TotalOf(bal) == MapThenSumSet(LAMBDA i : bal[i].amount, DOMAIN bal)

(* Mutant: only an overdrawn entry is spliced out.                         *)
DebitedKeepsEmpty(bal, u, n) ==
    LET i    == Entry(bal, u)
        rest == bal[i].amount - n
    IN  IF rest < 0 THEN RemoveAt(bal, i)
                    ELSE WithAmount(bal, i, rest)

(* `tokenAmount -= n`, and the entry is spliced out once it is not         *)
(* positive.                                                               *)
Debited(bal, u, n) ==
    LET i    == Entry(bal, u)
        rest == bal[i].amount - n
    IN  IF rest <= 0 THEN RemoveAt(bal, i)
                     ELSE WithAmount(bal, i, rest)

(* Mutant: the taker always gets a new entry.                              *)
CreditedAlwaysPush(bal, had, u, n) == Append(bal, [user |-> u, amount |-> n])

(* `tokenAmount += n` on the entry the user had, else a new entry.  An     *)
(* entry that was just spliced out (maker = taker) is credited in memory   *)
(* only.                                                                   *)
Credited(bal, had, u, n) ==
    IF ~had THEN Append(bal, [user |-> u, amount |-> n])
    ELSE IF u \in Holders(bal)
         THEN WithAmount(bal, Entry(bal, u), AmountOf(bal, u) + n)
         ELSE bal

(* changeOwnerships, once the document was found and the maker holds some  *)
(* of it: the save it ends in.                                             *)
ChangeOwnerships(c, doc, n, maker, taker) ==
    LET had == taker \in Holders(doc.bal)
    IN  [card |-> c, v |-> doc.v,
         kind |-> IF AmountOf(doc.bal, maker) <= n \/ ~had THEN "replace" ELSE "set",
         bal  |-> Credited(Debited(doc.bal, maker, n), had, taker, n),
         at   |-> {i \in DOMAIN doc.bal : doc.bal[i].user \in {maker, taker}},
         supply |-> FALSE, total |-> doc.total]

(* How a burn is written: the last entry takes the document with it.       *)
BurnKind(left, gone) ==
    IF left = <<>> THEN "delete" ELSE IF gone THEN "replace" ELSE "set"

(* Mutant: totalSupply is not reduced.                                     *)
BurnTotalKept(doc, n) == doc.total

BurnTotal(doc, n) == doc.total - n

(* burnCard, once the owner's balance was found: the save it ends in.      *)
BurnCard(c, doc, n, owner) ==
    LET bal == Debited(doc.bal, owner, n)
    IN  [card |-> c, v |-> doc.v,
         kind |-> BurnKind(bal, AmountOf(doc.bal, owner) <= n),
         bal  |-> bal,
         at   |-> {i \in DOMAIN doc.bal : doc.bal[i].user = owner},
         supply |-> bal # <<>>, total |-> BurnTotal(doc, n)]

(* Mutant: saves are not conditional.                                      *)
AcceptsAnyVersion(doc, upd) == doc # NoCard

(* External (mongoose, MongoDB): a conditional save matches the document   *)
(* only at the version it was read with, otherwise it is a VersionError;   *)
(* deleteOne({ _id }) looks at no version.                                 *)
Accepts(doc, upd) == doc # NoCard /\ doc.v = upd.v

(* Mutant: replacing the array leaves __v alone.                           *)
NextVersionKept(doc, upd) == doc.v

NextVersion(doc, upd) == IF upd.kind = "replace" THEN doc.v + 1 ELSE doc.v

(* The document after an accepted "set" or "replace".  totalSupply is      *)
(* written as the absolute value computed from the read.                   *)
Saved(doc, upd) ==
    [v     |-> NextVersion(doc, upd),
     total |-> IF upd.supply THEN upd.total ELSE doc.total,
     bal   |-> IF upd.kind = "replace" THEN upd.bal
               ELSE [i \in DOMAIN doc.bal |->
                       IF i \in upd.at
                       THEN [user |-> doc.bal[i].user, amount |-> upd.bal[i].amount]
                       ELSE doc.bal[i]]]
=============================================================================
