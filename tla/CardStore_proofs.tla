-------------------------- MODULE CardStore_proofs --------------------------
(***************************************************************************)
(* Proofs about CardStore, for any collection, users, token counts and     *)
(* bounds: documents keep their type, a holder keeps one entry, and a      *)
(* conditional save always finds its entries where it expects them.        *)
(***************************************************************************)
EXTENDS CardStore, SequenceTheorems, TLAPS

(* A function on 1..n is a sequence.                                       *)
LEMMA FunctionIsSeq ==
    ASSUME NEW S, NEW n \in Nat, NEW f \in [1..n -> S]
    PROVE  f \in Seq(S) /\ Len(f) = n /\ DOMAIN f = 1..n
OBVIOUS

(* What `balances.splice(i, 1)` leaves.                                    *)
LEMMA RemoveAtProperties ==
    ASSUME NEW S, NEW s \in Seq(S), NEW i \in 1..Len(s)
    PROVE  /\ RemoveAt(s, i) \in Seq(S)
           /\ DOMAIN RemoveAt(s, i) = 1..(Len(s) - 1)
           /\ \A j \in 1..(Len(s) - 1) :
                RemoveAt(s, i)[j] = s[IF j < i THEN j ELSE j + 1]
<1> DEFINE front == SubSeq(s, 1, i - 1)
           back  == SubSeq(s, i + 1, Len(s))
<1>1. Len(s) \in Nat /\ \A j \in 1..Len(s) : s[j] \in S
  BY LenProperties, ElementOfSeq
<1>2. /\ front \in Seq(S) /\ Len(front) = i - 1
      /\ \A j \in 1..(i - 1) : front[j] = s[j]
  <2>1. \A j \in 1..(i - 1) : s[j] \in S
    BY <1>1
  <2> QED BY <2>1, <1>1, SubSeqProperties, SMT
<1>3. /\ back \in Seq(S) /\ Len(back) = Len(s) - i
      /\ \A j \in 1..(Len(s) - i) : back[j] = s[j + i]
  <2>1. \A j \in (i + 1)..Len(s) : s[j] \in S
    BY <1>1
  <2> QED BY <2>1, <1>1, SubSeqProperties, SMT
<1>4. RemoveAt(s, i) = front \o back
  BY DEF RemoveAt
<1>5. /\ front \o back \in Seq(S)
      /\ Len(front \o back) = Len(s) - 1
      /\ \A j \in 1..(Len(s) - 1) :
           (front \o back)[j] = IF j <= i - 1 THEN front[j] ELSE back[j - (i - 1)]
  <2> HIDE DEF front, back
  <2>1. /\ front \o back \in Seq(S)
        /\ Len(front \o back) = Len(front) + Len(back)
        /\ \A j \in 1..(Len(front) + Len(back)) :
             (front \o back)[j] = IF j <= Len(front) THEN front[j] ELSE back[j - Len(front)]
    BY <1>2, <1>3, ConcatProperties, Zenon
  <2>2. Len(front) + Len(back) = Len(s) - 1
    BY <1>1, <1>2, <1>3
  <2> QED BY <2>1, <2>2, <1>2
<1>6. ASSUME NEW j \in 1..(Len(s) - 1)
      PROVE  (front \o back)[j] = s[IF j < i THEN j ELSE j + 1]
  <2> HIDE DEF front, back
  <2>1. CASE j < i
    BY <2>1, <1>1, <1>2, <1>5, SMT
  <2>2. CASE ~(j < i)
    <3>1. j - (i - 1) \in 1..(Len(s) - i) /\ (j - (i - 1)) + i = j + 1
      BY <2>2, <1>1
    <3>2. back[j - (i - 1)] = s[j + 1]
      BY <3>1, <1>3
    <3> QED BY <2>2, <3>2, <1>1, <1>5, SMT
  <2> QED BY <2>1, <2>2
<1> HIDE DEF front, back
<1> QED BY <1>1, <1>4, <1>5, <1>6, LenProperties

-----------------------------------------------------------------------------
Entries == [user : Users, amount : Nat \ {0}]

LEMMA BalancesTyping ==
    ASSUME NEW bal \in Balances
    PROVE  /\ Len(bal) \in Nat /\ DOMAIN bal = 1..Len(bal)
           /\ \A i \in DOMAIN bal : bal[i] \in Entries
           /\ \A i \in DOMAIN bal :
                bal[i].user \in Users /\ bal[i].amount \in Nat \ {0}
<1>1. Len(bal) \in Nat /\ DOMAIN bal = 1..Len(bal)
  BY LenProperties DEF Balances
<1>2. \A i \in DOMAIN bal : bal[i] \in Entries
  BY <1>1, ElementOfSeq DEF Balances, Entries
<1> QED BY <1>1, <1>2 DEF Entries

(* Entry finds an entry of the user whenever there is one.                 *)
LEMMA EntryFinds ==
    ASSUME NEW bal, NEW u \in Holders(bal)
    PROVE  Entry(bal, u) \in DOMAIN bal /\ bal[Entry(bal, u)].user = u
BY DEF Holders, Entry

(* Changing the amount of one entry moves no holder.                       *)
LEMMA ChangedAmount ==
    ASSUME NEW bal \in Balances, NEW i \in DOMAIN bal, NEW m \in Nat \ {0}
    PROVE  /\ WithAmount(bal, i, m) \in Balances
           /\ HoldersByPosition(WithAmount(bal, i, m)) = HoldersByPosition(bal)
<1> DEFINE new == WithAmount(bal, i, m)
<1>1. /\ Len(bal) \in Nat /\ DOMAIN bal = 1..Len(bal)
      /\ \A j \in DOMAIN bal : bal[j] \in Entries
  BY BalancesTyping
<1>2. DOMAIN new = DOMAIN bal
  BY DEF WithAmount
<1>3. ASSUME NEW j \in DOMAIN bal
      PROVE  new[j] \in Entries /\ new[j].user = bal[j].user
  <2>1. CASE j = i
    <3>1. new[j] = [user |-> bal[i].user, amount |-> m]
      BY <2>1 DEF WithAmount
    <3> QED BY <3>1, <2>1, <1>1 DEF Entries
  <2>2. CASE j # i
    BY <2>2, <1>1 DEF WithAmount
  <2> QED BY <2>1, <2>2
<1>4. new \in [1..Len(bal) -> Entries]
  <2>1. new = [j \in DOMAIN bal |-> new[j]]
    BY DEF WithAmount
  <2> QED BY <2>1, <1>1, <1>3
<1>5. new \in Seq(Entries)
  BY <1>1, <1>4, FunctionIsSeq
<1> HIDE DEF new
<1>6. HoldersByPosition(new) = HoldersByPosition(bal)
  BY <1>2, <1>3 DEF HoldersByPosition
<1> QED BY <1>5, <1>6 DEF new, Balances, Entries

(* The holders in their places decide whether each has one entry.          *)
LEMMA SamePlaces ==
    ASSUME NEW a, NEW b, HoldersByPosition(a) = HoldersByPosition(b)
    PROVE  /\ DOMAIN a = DOMAIN b
           /\ \A i \in DOMAIN a : a[i].user = b[i].user
           /\ Holders(a) = Holders(b)
           /\ OneEntryEach(b) => OneEntryEach(a)
<1>1. DOMAIN a = DOMAIN b
  BY DEF HoldersByPosition
<1>2. \A i \in DOMAIN a : a[i].user = b[i].user
  <2>1. \A i \in DOMAIN a : HoldersByPosition(a)[i] = a[i].user
    BY DEF HoldersByPosition
  <2>2. \A i \in DOMAIN b : HoldersByPosition(b)[i] = b[i].user
    BY DEF HoldersByPosition
  <2> QED BY <1>1, <2>1, <2>2
<1> QED BY <1>1, <1>2 DEF Holders, OneEntryEach

(* The debit keeps a list of balances well formed, adds no holder, and     *)
(* keeps every holder in place when something is left.                     *)
LEMMA DebitedProperties ==
    ASSUME NEW bal \in Balances, OneEntryEach(bal),
           NEW u \in Holders(bal), NEW n \in Nat \ {0}
    PROVE  /\ Debited(bal, u, n) \in Balances
           /\ OneEntryEach(Debited(bal, u, n))
           /\ Holders(Debited(bal, u, n)) \subseteq Holders(bal)
           /\ AmountOf(bal, u) > n =>
                HoldersByPosition(Debited(bal, u, n)) = HoldersByPosition(bal)
<1> DEFINE i    == Entry(bal, u)
           rest == bal[i].amount - n
<1>1. i \in DOMAIN bal /\ AmountOf(bal, u) = bal[i].amount
  BY EntryFinds DEF AmountOf
<1>2. /\ Len(bal) \in Nat /\ DOMAIN bal = 1..Len(bal)
      /\ \A j \in DOMAIN bal : bal[j].amount \in Nat \ {0}
  BY BalancesTyping
<1>3. rest \in Int /\ (AmountOf(bal, u) > n <=> rest > 0)
  BY <1>1, <1>2
<1> HIDE DEF i
<1>4. CASE rest <= 0
  <2> DEFINE less == RemoveAt(bal, i)
  <2>1. Debited(bal, u, n) = less
    BY <1>4 DEF Debited, i
  <2>2. /\ less \in Balances
        /\ DOMAIN less = 1..(Len(bal) - 1)
        /\ \A j \in 1..(Len(bal) - 1) : less[j] = bal[IF j < i THEN j ELSE j + 1]
    <3>1. i \in 1..Len(bal) /\ bal \in Seq(Entries)
      BY <1>1, <1>2 DEF Balances, Entries
    <3>2. /\ less \in Seq(Entries)
          /\ DOMAIN less = 1..(Len(bal) - 1)
          /\ \A j \in 1..(Len(bal) - 1) : less[j] = bal[IF j < i THEN j ELSE j + 1]
      BY <3>1, RemoveAtProperties
    <3> QED BY <3>2 DEF Balances, Entries
  <2> HIDE DEF less
  <2>3. \A j \in DOMAIN less : (IF j < i THEN j ELSE j + 1) \in DOMAIN bal
    BY <2>2, <1>1, <1>2
  <2>4. Holders(less) \subseteq Holders(bal)
    BY <2>2, <2>3 DEF Holders
  <2>5. ASSUME NEW j \in DOMAIN less, NEW k \in DOMAIN less,
               less[j].user = less[k].user
        PROVE  j = k
    <3> DEFINE old(p) == IF p < i THEN p ELSE p + 1
    <3>1. old(j) \in DOMAIN bal /\ old(k) \in DOMAIN bal
      BY <2>3
    <3>2. bal[old(j)].user = bal[old(k)].user
      BY <2>2, <2>5
    <3>3. old(j) = old(k)
      <4> HIDE DEF old
      <4> QED BY <3>1, <3>2 DEF OneEntryEach
    <3> QED BY <3>3, <2>2, <1>1, <1>2
  <2>6. OneEntryEach(less)
    BY <2>5 DEF OneEntryEach
  <2> QED BY <2>1, <2>2, <2>4, <2>6, <1>3, <1>4
<1>5. CASE ~(rest <= 0)
  <2>1. Debited(bal, u, n) = WithAmount(bal, i, rest)
    BY <1>5 DEF Debited, i
  <2>2. rest \in Nat \ {0}
    BY <1>3, <1>5
  <2> HIDE DEF rest
  <2>3. /\ Debited(bal, u, n) \in Balances
        /\ HoldersByPosition(Debited(bal, u, n)) = HoldersByPosition(bal)
    BY <2>1, <2>2, <1>1, ChangedAmount
  <2> QED BY <2>3, SamePlaces
<1> QED BY <1>4, <1>5

(* So does the credit, when a user without an entry is not said to have    *)
(* had one.                                                                *)
LEMMA CreditedProperties ==
    ASSUME NEW bal \in Balances, OneEntryEach(bal),
           NEW u \in Users, NEW n \in Nat \ {0}, NEW had \in BOOLEAN,
           ~had => u \notin Holders(bal)
    PROVE  /\ Credited(bal, had, u, n) \in Balances
           /\ OneEntryEach(Credited(bal, had, u, n))
           /\ had => HoldersByPosition(Credited(bal, had, u, n)) = HoldersByPosition(bal)
<1>1. /\ Len(bal) \in Nat /\ DOMAIN bal = 1..Len(bal)
      /\ \A j \in DOMAIN bal : bal[j].amount \in Nat \ {0}
  BY BalancesTyping
<1>2. CASE ~had
  <2> DEFINE e    == [user |-> u, amount |-> n]
             more == Append(bal, e)
  <2>1. Credited(bal, had, u, n) = more
    BY <1>2 DEF Credited
  <2>2. /\ more \in Balances /\ Len(more) = Len(bal) + 1
        /\ \A j \in 1..Len(bal) : more[j] = bal[j]
        /\ more[Len(bal) + 1] = e
    <3>1. e \in [user : Users, amount : Nat \ {0}]
      OBVIOUS
    <3> HIDE DEF e
    <3> QED BY <3>1, AppendProperties DEF Balances
  <2>3. DOMAIN more = 1..(Len(bal) + 1)
    <3> HIDE DEF more
    <3> QED BY <2>2, BalancesTyping
  <2>4. e.user = u
    OBVIOUS
  <2> HIDE DEF more, e
  <2>5. \A j \in 1..Len(bal) : more[j].user # u
    BY <1>1, <1>2, <2>2 DEF Holders
  <2>6. ASSUME NEW j \in DOMAIN more, NEW k \in DOMAIN more,
               more[j].user = more[k].user
        PROVE  j = k
    <3>1. CASE j \in 1..Len(bal) /\ k \in 1..Len(bal)
      BY <3>1, <2>2, <2>6, <1>1 DEF OneEntryEach
    <3>2. CASE j = Len(bal) + 1 \/ k = Len(bal) + 1
      <4>1. j \notin 1..Len(bal) /\ k \notin 1..Len(bal)
        BY <3>2, <2>2, <2>4, <2>5, <2>6
      <4> QED BY <4>1, <2>3, <1>1
    <3> QED BY <3>1, <3>2, <2>3, <1>1
  <2> QED BY <1>2, <2>1, <2>2, <2>6 DEF OneEntryEach
<1>3. CASE had /\ u \in Holders(bal)
  <2> DEFINE i == Entry(bal, u)
             m == AmountOf(bal, u) + n
  <2>1. Credited(bal, had, u, n) = WithAmount(bal, i, m)
    BY <1>3 DEF Credited
  <2>2. i \in DOMAIN bal /\ m \in Nat \ {0}
    BY <1>1, <1>3, EntryFinds DEF AmountOf
  <2> HIDE DEF i, m
  <2>3. /\ Credited(bal, had, u, n) \in Balances
        /\ HoldersByPosition(Credited(bal, had, u, n)) = HoldersByPosition(bal)
    BY <2>1, <2>2, ChangedAmount
  <2> QED BY <2>3, SamePlaces
<1>4. CASE had /\ u \notin Holders(bal)
  BY <1>4 DEF Credited
<1> QED BY <1>2, <1>3, <1>4

-----------------------------------------------------------------------------
(* What a computed save carries: one entry per holder, and, when it        *)
(* addresses entries by position, the holders where the document had them. *)
GoodFor(upd, doc) ==
    /\ OneEntryEach(upd.bal)
    /\ upd.v = doc.v
    /\ upd.kind = "set" => HoldersByPosition(upd.bal) = HoldersByPosition(doc.bal)

LEMMA TransferComputes ==
    ASSUME NEW c \in Cards, NEW doc \in Docs, OneEntryEach(doc.bal),
           NEW n \in Nat \ {0}, NEW taker \in Users, NEW maker \in Holders(doc.bal)
    PROVE  /\ ChangeOwnerships(c, doc, n, maker, taker) \in Updates
           /\ ChangeOwnerships(c, doc, n, maker, taker).card = c
           /\ GoodFor(ChangeOwnerships(c, doc, n, maker, taker), doc)
<1> DEFINE had  == taker \in Holders(doc.bal)
           less == Debited(doc.bal, maker, n)
           new  == Credited(less, had, taker, n)
           upd  == ChangeOwnerships(c, doc, n, maker, taker)
           kind == IF AmountOf(doc.bal, maker) <= n \/ ~had THEN "replace" ELSE "set"
           at   == {i \in DOMAIN doc.bal : doc.bal[i].user \in {maker, taker}}
<1>1. doc.v \in Nat /\ doc.total \in Int /\ doc.bal \in Balances
  BY DEF Docs
<1>2. /\ less \in Balances /\ OneEntryEach(less)
      /\ Holders(less) \subseteq Holders(doc.bal)
      /\ AmountOf(doc.bal, maker) > n =>
           HoldersByPosition(less) = HoldersByPosition(doc.bal)
  BY <1>1, DebitedProperties
<1>3. /\ new \in Balances /\ OneEntryEach(new)
      /\ had => HoldersByPosition(new) = HoldersByPosition(less)
  <2>1. had \in BOOLEAN /\ (~had => taker \notin Holders(less))
    BY <1>2
  <2> HIDE DEF had, less
  <2> QED BY <1>2, <2>1, CreditedProperties
<1>4. AmountOf(doc.bal, maker) \in Int
  <2>1. AmountOf(doc.bal, maker) = doc.bal[Entry(doc.bal, maker)].amount
    BY DEF AmountOf
  <2> QED BY <1>1, <2>1, EntryFinds, BalancesTyping
<1>5. kind = "set" => HoldersByPosition(new) = HoldersByPosition(doc.bal)
  <2> HIDE DEF new, less, had
  <2> QED BY <1>2, <1>3, <1>4
<1>6. at \in SUBSET Nat
  BY <1>1, BalancesTyping
<1>7. upd = [card |-> c, v |-> doc.v, kind |-> kind, bal |-> new, at |-> at,
             supply |-> FALSE, total |-> doc.total]
  BY DEF ChangeOwnerships
<1>8. kind \in {"set", "replace", "delete"}
  OBVIOUS
<1> HIDE DEF upd, kind, new, at
<1> QED BY <1>1, <1>3, <1>5, <1>6, <1>7, <1>8 DEF Updates, GoodFor, upd

LEMMA BurnComputes ==
    ASSUME NEW c \in Cards, NEW doc \in Docs, OneEntryEach(doc.bal),
           NEW n \in Nat \ {0}, NEW owner \in Holders(doc.bal)
    PROVE  /\ BurnCard(c, doc, n, owner) \in Updates
           /\ BurnCard(c, doc, n, owner).card = c
           /\ GoodFor(BurnCard(c, doc, n, owner), doc)
<1> DEFINE less == Debited(doc.bal, owner, n)
           upd  == BurnCard(c, doc, n, owner)
           kind == BurnKind(less, AmountOf(doc.bal, owner) <= n)
           at   == {i \in DOMAIN doc.bal : doc.bal[i].user = owner}
<1>1. doc.v \in Nat /\ doc.total \in Int /\ doc.bal \in Balances
  BY DEF Docs
<1>2. /\ less \in Balances /\ OneEntryEach(less)
      /\ AmountOf(doc.bal, owner) > n =>
           HoldersByPosition(less) = HoldersByPosition(doc.bal)
  BY <1>1, DebitedProperties
<1>3. AmountOf(doc.bal, owner) \in Int
  <2>1. AmountOf(doc.bal, owner) = doc.bal[Entry(doc.bal, owner)].amount
    BY DEF AmountOf
  <2> QED BY <1>1, <2>1, EntryFinds, BalancesTyping
<1>4. /\ kind \in {"set", "replace", "delete"}
      /\ kind = "set" => HoldersByPosition(less) = HoldersByPosition(doc.bal)
  <2> HIDE DEF less
  <2>1. CASE AmountOf(doc.bal, owner) <= n
    BY <2>1 DEF BurnKind
  <2>2. CASE ~(AmountOf(doc.bal, owner) <= n)
    <3>1. HoldersByPosition(less) = HoldersByPosition(doc.bal)
      BY <2>2, <1>2, <1>3
    <3> QED BY <3>1 DEF BurnKind
  <2> QED BY <2>1, <2>2
<1>5. at \in SUBSET Nat
  BY <1>1, BalancesTyping
<1>6. BurnTotal(doc, n) \in Int
  BY <1>1 DEF BurnTotal
<1>7. upd = [card |-> c, v |-> doc.v, kind |-> kind, bal |-> less, at |-> at,
             supply |-> less # <<>>, total |-> BurnTotal(doc, n)]
  BY DEF BurnCard
<1> HIDE DEF upd, kind, less, at
<1> QED BY <1>1, <1>2, <1>4, <1>5, <1>6, <1>7 DEF Updates, GoodFor, upd

LEMMA SavedProperties ==
    ASSUME NEW doc \in Docs, OneEntryEach(doc.bal), NEW upd \in Updates,
           OneEntryEach(upd.bal), upd.kind # "delete",
           upd.kind = "set" => HoldersByPosition(upd.bal) = HoldersByPosition(doc.bal)
    PROVE  /\ Saved(doc, upd) \in Docs
           /\ OneEntryEach(Saved(doc, upd).bal)
           /\ upd.kind = "replace" => Saved(doc, upd).v = doc.v + 1
           /\ upd.kind # "replace" =>
                /\ Saved(doc, upd).v = doc.v
                /\ HoldersByPosition(Saved(doc, upd).bal) = HoldersByPosition(doc.bal)
<1> DEFINE mix   == [i \in DOMAIN doc.bal |->
                       IF i \in upd.at
                       THEN [user |-> doc.bal[i].user, amount |-> upd.bal[i].amount]
                       ELSE doc.bal[i]]
           total == IF upd.supply THEN upd.total ELSE doc.total
           v     == NextVersion(doc, upd)
           bal   == IF upd.kind = "replace" THEN upd.bal ELSE mix
           new   == Saved(doc, upd)
<1>1. /\ doc.v \in Nat /\ doc.total \in Int /\ doc.bal \in Balances
      /\ upd.total \in Int /\ upd.bal \in Balances
  BY DEF Docs, Updates
<1>2. new = [v |-> v, total |-> total, bal |-> bal]
  BY DEF Saved
<1>3. /\ v \in Nat /\ total \in Int
      /\ upd.kind = "replace" => v = doc.v + 1
      /\ upd.kind # "replace" => v = doc.v
  BY <1>1 DEF NextVersion
<1>4. CASE upd.kind = "replace"
  <2>1. bal = upd.bal
    BY <1>4
  <2> HIDE DEF new, v, total, bal
  <2> QED BY <2>1, <1>1, <1>2, <1>3, <1>4 DEF Docs, new
<1>5. CASE upd.kind # "replace"
  <2>1. HoldersByPosition(upd.bal) = HoldersByPosition(doc.bal)
    BY <1>5 DEF Updates
  <2>2. /\ Len(doc.bal) \in Nat /\ DOMAIN doc.bal = 1..Len(doc.bal)
        /\ DOMAIN upd.bal = DOMAIN doc.bal
        /\ \A i \in DOMAIN doc.bal :
             /\ doc.bal[i] \in Entries /\ doc.bal[i].user \in Users
             /\ upd.bal[i].amount \in Nat \ {0}
    BY <1>1, <2>1, SamePlaces, BalancesTyping
  <2>3. ASSUME NEW i \in DOMAIN doc.bal
        PROVE  mix[i] \in Entries /\ mix[i].user = doc.bal[i].user
    BY <2>2 DEF Entries
  <2>4. DOMAIN mix = DOMAIN doc.bal /\ mix \in [1..Len(doc.bal) -> Entries]
    BY <2>2, <2>3
  <2>5. bal = mix
    BY <1>5
  <2> HIDE DEF mix, new, v, total, bal
  <2>6. mix \in Balances
    BY <2>2, <2>4, FunctionIsSeq DEF Balances, Entries
  <2>7. HoldersByPosition(mix) = HoldersByPosition(doc.bal)
    BY <2>3, <2>4 DEF HoldersByPosition
  <2>8. OneEntryEach(mix)
    BY <2>7, SamePlaces
  <2> QED BY <2>5, <2>6, <2>7, <2>8, <1>2, <1>3, <1>5 DEF Docs, new
<1> QED BY <1>4, <1>5

-----------------------------------------------------------------------------
(* Saves that are under way were computed from a version the document has  *)
(* now or had before.                                                      *)
PendingFromThePast ==
    \A upd \in pending :
        /\ OneEntryEach(upd.bal)
        /\ cards[upd.card] # NoCard => upd.v <= cards[upd.card].v

(* The inductive invariant.  VersionFixesPositions alone is not inductive: *)
(* a save read in the future of the document could be waiting for it.      *)
IInv == TypeOK /\ OneEntryPerHolder /\ PendingFromThePast /\ VersionFixesPositions

LEMMA InitInv == Init => IInv
<1> SUFFICES ASSUME Init PROVE IInv
  OBVIOUS
<1>1. \A c \in Cards : cards[c] \in Docs /\ OneEntryEach(cards[c].bal)
  BY NewCardsAssumption DEF Init
<1>2. TypeOK
  BY <1>1, NewCardsAssumption DEF Init, TypeOK
<1> QED BY <1>1, <1>2
        DEF Init, IInv, OneEntryPerHolder, PendingFromThePast, VersionFixesPositions

(* A read adds a save that is good for the document as it is.              *)
LEMMA ReadStep ==
    ASSUME IInv, NEW c \in Cards, NEW upd, upd \in Updates, upd.card = c,
           cards[c] # NoCard, GoodFor(upd, cards[c]),
           pending' = pending \cup {upd}, UNCHANGED cards
    PROVE  IInv'
<1>1. cards[c].v \in Nat
  BY DEF IInv, TypeOK, Docs
<1>2. TypeOK'
  BY DEF IInv, TypeOK
<1>3. OneEntryPerHolder'
  BY DEF IInv, OneEntryPerHolder
<1>4. PendingFromThePast'
  BY <1>1 DEF IInv, PendingFromThePast, GoodFor
<1>5. VersionFixesPositions'
  BY DEF IInv, VersionFixesPositions, GoodFor
<1> QED BY <1>2, <1>3, <1>4, <1>5 DEF IInv

LEMMA TransferStep ==
    ASSUME IInv, NEW c \in Cards, NEW n \in Amounts, NEW maker \in Users, NEW taker \in Users,
           ReadForTransfer(c, n, maker, taker)
    PROVE  IInv'
<1> DEFINE upd == ChangeOwnerships(c, cards[c], n, maker, taker)
<1>1. /\ cards[c] # NoCard /\ maker \in Holders(cards[c].bal)
      /\ pending' = pending \cup {upd} /\ UNCHANGED cards
  BY DEF ReadForTransfer
<1>2. cards[c] \in Docs /\ OneEntryEach(cards[c].bal) /\ n \in Nat \ {0}
  BY <1>1, StoreAssumption DEF IInv, TypeOK, OneEntryPerHolder
<1>3. upd \in Updates /\ upd.card = c /\ GoodFor(upd, cards[c])
  BY <1>1, <1>2, TransferComputes
<1> HIDE DEF upd
<1> QED BY <1>1, <1>3, ReadStep

LEMMA BurnStep ==
    ASSUME IInv, NEW c \in Cards, NEW n \in Amounts, NEW owner \in Users,
           ReadForBurn(c, n, owner)
    PROVE  IInv'
<1> DEFINE upd == BurnCard(c, cards[c], n, owner)
<1>1. /\ cards[c] # NoCard /\ owner \in Holders(cards[c].bal)
      /\ pending' = pending \cup {upd} /\ UNCHANGED cards
  BY DEF ReadForBurn
<1>2. cards[c] \in Docs /\ OneEntryEach(cards[c].bal) /\ n \in Nat \ {0}
  BY <1>1, StoreAssumption DEF IInv, TypeOK, OneEntryPerHolder
<1>3. upd \in Updates /\ upd.card = c /\ GoodFor(upd, cards[c])
  BY <1>1, <1>2, BurnComputes
<1> HIDE DEF upd
<1> QED BY <1>1, <1>3, ReadStep

(* What an accepted save does to the one document it addresses.            *)
LEMMA SaveEffect ==
    ASSUME IInv, NEW upd \in pending, Save(upd)
    PROVE  /\ upd \in Updates /\ upd.card \in Cards
           /\ cards[upd.card] # NoCard /\ upd.v = cards[upd.card].v
           /\ cards[upd.card] \in Docs /\ OneEntryEach(cards[upd.card].bal)
           /\ cards'[upd.card] = Saved(cards[upd.card], upd)
           /\ cards'[upd.card] \in Docs /\ OneEntryEach(cards'[upd.card].bal)
           /\ upd.kind = "replace" => cards'[upd.card].v = cards[upd.card].v + 1
           /\ upd.kind # "replace" =>
                /\ cards'[upd.card].v = cards[upd.card].v
                /\ HoldersByPosition(cards'[upd.card].bal)
                     = HoldersByPosition(cards[upd.card].bal)
           /\ \A c \in Cards \ {upd.card} : cards'[c] = cards[c]
           /\ DOMAIN cards' = Cards
           /\ pending' \subseteq pending
<1> DEFINE doc == cards[upd.card]
<1>1. upd \in Updates /\ upd.card \in Cards
  BY DEF IInv, TypeOK, Updates
<1>2. /\ doc # NoCard /\ upd.v = doc.v /\ upd.kind # "delete"
      /\ cards' = [cards EXCEPT ![upd.card] = Saved(doc, upd)]
      /\ pending' \subseteq pending
  BY DEF Save, Accepts
<1>3. doc \in Docs /\ OneEntryEach(doc.bal) /\ DOMAIN cards = Cards
  BY <1>1, <1>2 DEF IInv, TypeOK, OneEntryPerHolder
<1>4. /\ OneEntryEach(upd.bal)
      /\ upd.kind = "set" => HoldersByPosition(upd.bal) = HoldersByPosition(doc.bal)
  BY <1>2 DEF IInv, PendingFromThePast, VersionFixesPositions, Accepts
<1>5. /\ cards'[upd.card] = Saved(doc, upd) /\ DOMAIN cards' = Cards
      /\ \A c \in Cards \ {upd.card} : cards'[c] = cards[c]
  BY <1>1, <1>2, <1>3
<1> HIDE DEF doc
<1>6. /\ Saved(doc, upd) \in Docs /\ OneEntryEach(Saved(doc, upd).bal)
      /\ upd.kind = "replace" => Saved(doc, upd).v = doc.v + 1
      /\ upd.kind # "replace" =>
           /\ Saved(doc, upd).v = doc.v
           /\ HoldersByPosition(Saved(doc, upd).bal) = HoldersByPosition(doc.bal)
  BY <1>1, <1>2, <1>3, <1>4, SavedProperties
<1> QED BY <1>1, <1>2, <1>3, <1>5, <1>6 DEF doc

LEMMA SaveStep ==
    ASSUME IInv, NEW upd \in pending, Save(upd)
    PROVE  IInv'
<1> DEFINE d == upd.card
<1>1. /\ d \in Cards /\ cards[d] # NoCard /\ cards[d].v \in Nat
      /\ cards'[d] \in Docs /\ OneEntryEach(cards'[d].bal)
      /\ upd.kind = "replace" => cards'[d].v = cards[d].v + 1
      /\ upd.kind # "replace" =>
           /\ cards'[d].v = cards[d].v
           /\ HoldersByPosition(cards'[d].bal) = HoldersByPosition(cards[d].bal)
      /\ \A c \in Cards \ {d} : cards'[c] = cards[c]
      /\ DOMAIN cards' = Cards
      /\ pending' \subseteq pending
  BY SaveEffect DEF Docs
<1>2. pending \subseteq Updates /\ \A u \in pending : u.card \in Cards /\ u.v \in Nat
  BY DEF IInv, TypeOK, Updates
<1> HIDE DEF d
<1>3. TypeOK'
  <2>1. \A c \in Cards : cards'[c] \in Docs \cup {NoCard}
    BY <1>1 DEF IInv, TypeOK
  <2>2. cards' = [c \in Cards |-> cards'[c]]
    BY DEF IInv, TypeOK, Save
  <2> QED BY <2>1, <2>2, <1>1, <1>2 DEF TypeOK
<1>4. OneEntryPerHolder'
  BY <1>1 DEF IInv, OneEntryPerHolder
<1>5. ASSUME NEW u \in pending'
      PROVE  /\ OneEntryEach(u.bal)
             /\ cards'[u.card] # NoCard => u.v <= cards'[u.card].v
             /\ (Accepts(cards'[u.card], u) /\ u.kind = "set")
                  => HoldersByPosition(u.bal) = HoldersByPosition(cards'[u.card].bal)
  <2>1. /\ u \in pending /\ u.card \in Cards /\ u.v \in Nat
        /\ OneEntryEach(u.bal)
        /\ cards[u.card] # NoCard => u.v <= cards[u.card].v
        /\ (Accepts(cards[u.card], u) /\ u.kind = "set")
             => HoldersByPosition(u.bal) = HoldersByPosition(cards[u.card].bal)
    BY <1>1, <1>2 DEF IInv, PendingFromThePast, VersionFixesPositions
  <2>2. CASE u.card # d
    BY <2>1, <2>2, <1>1
  <2>3. CASE u.card = d /\ upd.kind = "replace"
    <3>1. u.v < cards'[d].v
      BY <2>1, <2>3, <1>1
    <3> QED BY <3>1, <2>1, <2>3, <1>1 DEF Accepts
  <2>4. CASE u.card = d /\ upd.kind # "replace"
    BY <2>1, <2>4, <1>1 DEF Accepts
  <2> QED BY <2>2, <2>3, <2>4
<1>6. PendingFromThePast' /\ VersionFixesPositions'
  BY <1>5 DEF PendingFromThePast, VersionFixesPositions
<1> QED BY <1>3, <1>4, <1>6 DEF IInv

LEMMA DeleteStep ==
    ASSUME IInv, NEW upd \in pending, Delete(upd)
    PROVE  IInv'
<1>1. upd.card \in Cards /\ pending' \subseteq pending
  BY DEF IInv, TypeOK, Updates, Delete
<1>2. \A c \in Cards : cards'[c] \in {NoCard, cards[c]}
  BY DEF Delete, IInv, TypeOK
<1>3. TypeOK'
  BY <1>1 DEF Delete, IInv, TypeOK
<1>4. OneEntryPerHolder'
  BY <1>2 DEF IInv, OneEntryPerHolder
<1>5. \A u \in pending : u.card \in Cards
  BY DEF IInv, TypeOK, Updates
<1>6. PendingFromThePast'
  BY <1>1, <1>2, <1>5 DEF IInv, PendingFromThePast
<1>7. VersionFixesPositions'
  BY <1>1, <1>2, <1>5 DEF IInv, VersionFixesPositions, Accepts
<1> QED BY <1>3, <1>4, <1>6, <1>7 DEF IInv

LEMMA FewerPending ==
    ASSUME IInv, pending' \subseteq pending, UNCHANGED cards
    PROVE  IInv'
BY DEF IInv, TypeOK, OneEntryPerHolder, PendingFromThePast, VersionFixesPositions

LEMMA NextInv == IInv /\ [Next]_vars => IInv'
<1> SUFFICES ASSUME IInv, [Next]_vars PROVE IInv'
  OBVIOUS
<1>1. CASE \E c \in Cards, n \in Amounts, maker, taker \in Users :
             ReadForTransfer(c, n, maker, taker)
  BY <1>1, TransferStep
<1>2. CASE \E c \in Cards, n \in Amounts, owner \in Users : ReadForBurn(c, n, owner)
  BY <1>2, BurnStep
<1>3. CASE \E upd \in pending : Save(upd) \/ Delete(upd)
  BY <1>3, SaveStep, DeleteStep
<1>4. CASE Lose
  BY <1>4, FewerPending DEF Lose
<1>5. CASE UNCHANGED vars
  BY <1>5, FewerPending DEF vars
<1> QED BY <1>1, <1>2, <1>3, <1>4, <1>5 DEF Next

LEMMA Inductive == Spec => []IInv
<1> QED BY InitInv, NextInv, PTL DEF Spec

-----------------------------------------------------------------------------
(* Documents and computed saves keep their type; in particular no writer   *)
(* ever leaves an entry with nothing or less in it.                        *)
THEOREM StoreTyped == Spec => []TypeOK
<1>1. IInv => TypeOK
  BY DEF IInv
<1> QED BY <1>1, Inductive, PTL

(* A holder keeps one entry however the writers of a card interleave.      *)
THEOREM OneEntry == Spec => []OneEntryPerHolder
<1>1. IInv => OneEntryPerHolder
  BY DEF IInv
<1> QED BY <1>1, Inductive, PTL

(* A conditional save that is accepted finds every holder at the position  *)
(* it was read at: the version alone protects positional writes.           *)
THEOREM PositionsFixed == Spec => []VersionFixesPositions
<1>1. IInv => VersionFixesPositions
  BY DEF IInv
<1> QED BY <1>1, Inductive, PTL

-----------------------------------------------------------------------------
(* What a step may do to one document.                                     *)
StepOf(c) ==
    \/ cards'[c] = cards[c]
    \/ cards[c] # NoCard /\ cards'[c] = NoCard
    \/ /\ cards[c] # NoCard
       /\ \/ cards'[c].v = cards[c].v + 1
          \/ /\ cards'[c].v = cards[c].v
             /\ HoldersByPosition(cards'[c].bal) = HoldersByPosition(cards[c].bal)

LEMMA EveryStep ==
    ASSUME IInv, [Next]_vars, NEW c \in Cards
    PROVE  StepOf(c)
<1>1. CASE \E d \in Cards, n \in Amounts, maker, taker \in Users :
             ReadForTransfer(d, n, maker, taker)
  BY <1>1 DEF ReadForTransfer, StepOf
<1>2. CASE \E d \in Cards, n \in Amounts, owner \in Users : ReadForBurn(d, n, owner)
  BY <1>2 DEF ReadForBurn, StepOf
<1>3. ASSUME NEW upd \in pending, Save(upd)
      PROVE  StepOf(c)
  <2>1. CASE c # upd.card
    BY <2>1, <1>3, SaveEffect DEF StepOf
  <2>2. CASE c = upd.card
    BY <2>2, <1>3, SaveEffect DEF StepOf
  <2> QED BY <2>1, <2>2
<1>4. ASSUME NEW upd \in pending, Delete(upd)
      PROVE  StepOf(c)
  BY <1>4 DEF Delete, StepOf, IInv, TypeOK
<1>5. CASE Lose \/ UNCHANGED vars
  BY <1>5 DEF Lose, vars, StepOf
<1> QED BY <1>1, <1>2, <1>3, <1>4, <1>5 DEF Next

(* Entries come, go and move only together with the version, and the       *)
(* version only counts up: a save that lost the race stays rejected.       *)
THEOREM VersionedPositions == Spec => PositionsChangeWithVersion
<1> DEFINE Kept(c) ==
      (cards[c] # NoCard /\ cards'[c] # NoCard) =>
          /\ cards'[c].v \in {cards[c].v, cards[c].v + 1}
          /\ HoldersByPosition(cards'[c].bal) # HoldersByPosition(cards[c].bal)
               => cards'[c].v = cards[c].v + 1
<1>1. IInv /\ [Next]_vars => [\A c \in Cards : Kept(c)]_vars
  <2> SUFFICES ASSUME IInv, [Next]_vars, NEW c \in Cards PROVE Kept(c)
    OBVIOUS
  <2>1. StepOf(c)
    BY EveryStep
  <2> QED BY <2>1 DEF StepOf
<1> QED BY <1>1, Inductive, PTL DEF Spec, PositionsChangeWithVersion

(* A removed card never comes back: neither a conditional save nor an      *)
(* unconditional delete that was computed before the removal creates it.   *)
THEOREM NothingResurrected == Spec => NoResurrection
<1>1. IInv /\ [Next]_vars => [\A c \in Cards : cards[c] = NoCard => cards'[c] = NoCard]_vars
  <2> SUFFICES ASSUME IInv, [Next]_vars, NEW c \in Cards, cards[c] = NoCard
               PROVE  cards'[c] = NoCard
    OBVIOUS
  <2>1. StepOf(c)
    BY EveryStep
  <2> QED BY <2>1 DEF StepOf
<1> QED BY <1>1, Inductive, PTL DEF Spec, NoResurrection
=============================================================================
