------------------------- MODULE Marketplace_proofs -------------------------
(***************************************************************************)
(* Three things about Marketplace, for any cards, users, orders and chains.*)
(*                                                                         *)
(* It implements CardStore, for any number of requests and of handlers at  *)
(* once: the listeners' reads and saves are reads and saves of independent *)
(* writers, a listener that ends loses its save, and every other step      *)
(* leaves the collection alone.                                            *)
(*                                                                         *)
(* And with the handlers one after another (Serial), nobody oversells and  *)
(* hasSale is right at rest.  SerialInv is what every step leaves: whose   *)
(* turn it is, and that what the handler carries from one call to the next *)
(* is still so; CoverInv is that live sales are covered, but for those of  *)
(* the owner whom a listener is about to look at.                          *)
(*                                                                         *)
(* And where a chain is for one listener only (Apart), the listeners keep  *)
(* the books.  LedgerInv is what every step leaves: the balances are those *)
(* of the consumed blocks, with what is applied so far of the block a      *)
(* listener is in, and that block takes from nobody more than they have.   *)
(***************************************************************************)
EXTENDS Marketplace, SequenceTheorems, FiniteSetTheorems, WellFoundedInduction, TLAPS

(* The operators of CardDocument are the same ones in both modules.        *)
LEMMA SameTransfer ==
    ASSUME NEW c, NEW doc, NEW n, NEW maker, NEW taker
    PROVE  Store!ChangeOwnerships(c, doc, n, maker, taker)
             = ChangeOwnerships(c, doc, n, maker, taker)
BY DEF ChangeOwnerships, Store!ChangeOwnerships, AmountOf, Store!AmountOf,
       Entry, Store!Entry, Holders, Store!Holders, Credited, Store!Credited,
       Debited, Store!Debited, WithAmount, Store!WithAmount, RemoveAt, Store!RemoveAt

LEMMA SameBurn ==
    ASSUME NEW c, NEW doc, NEW n, NEW owner
    PROVE  Store!BurnCard(c, doc, n, owner) = BurnCard(c, doc, n, owner)
BY DEF BurnCard, Store!BurnCard, BurnKind, Store!BurnKind, BurnTotal, Store!BurnTotal,
       AmountOf, Store!AmountOf, Entry, Store!Entry, Holders, Store!Holders,
       Debited, Store!Debited, WithAmount, Store!WithAmount, RemoveAt, Store!RemoveAt

LEMMA SameSave ==
    ASSUME NEW doc, NEW upd
    PROVE  /\ Store!Accepts(doc, upd) <=> Accepts(doc, upd)
           /\ Store!Saved(doc, upd) = Saved(doc, upd)
BY DEF Accepts, Store!Accepts, Saved, Store!Saved, NextVersion, Store!NextVersion

LEMMA SameHolders ==
    ASSUME NEW bal
    PROVE  Store!Holders(bal) = Holders(bal)
BY DEF Holders, Store!Holders

-----------------------------------------------------------------------------
(* The saves under way, by who holds them.                                 *)
LEMMA PendingMembers ==
    /\ \A x : x \in Pending <=> \/ \E l \in Walkers : x \in walk[l].upd
                                \/ \E t \in sell.tasks \cup strays : x \in t.upd
    /\ \A x : x \in Pending' <=> \/ \E l \in Walkers : x \in walk'[l].upd
                                 \/ \E t \in sell'.tasks \cup strays' : x \in t.upd
BY DEF Pending

(* The steps of a writer, as steps of CardStore.                           *)
LEMMA LoseMaps ==
    ASSUME Pending' \subseteq Pending, UNCHANGED cards
    PROVE  Store!Next
<1>1. /\ Pending \ Pending' \in SUBSET Pending
      /\ Pending' = Pending \ (Pending \ Pending')
  OBVIOUS
<1> QED BY <1>1 DEF Store!Next, Store!Lose

LEMMA TransferMaps ==
    ASSUME NEW c \in Cards, NEW n \in EventAmounts, NEW maker \in Users, NEW taker \in Users,
           cards[c] # NoCard, maker \in Holders(cards[c].bal), UNCHANGED cards,
           Pending' = Pending \cup {ChangeOwnerships(c, cards[c], n, maker, taker)}
    PROVE  Store!Next
<1>1. Store!ReadForTransfer(c, n, maker, taker)
  BY SameTransfer, SameHolders DEF Store!ReadForTransfer, Unhindered
<1> QED BY <1>1 DEF Store!Next

LEMMA BurnMaps ==
    ASSUME NEW c \in Cards, NEW n \in EventAmounts, NEW owner \in Users,
           cards[c] # NoCard, owner \in Holders(cards[c].bal), UNCHANGED cards,
           Pending' = Pending \cup {BurnCard(c, cards[c], n, owner)}
    PROVE  Store!Next
<1>1. Store!ReadForBurn(c, n, owner)
  BY SameBurn, SameHolders DEF Store!ReadForBurn, Unhindered
<1> QED BY <1>1 DEF Store!Next

LEMMA SaveMaps ==
    ASSUME NEW upd \in Pending, upd.kind # "delete", Accepts(cards[upd.card], upd),
           cards' = [cards EXCEPT ![upd.card] = Saved(@, upd)],
           Pending' \in {Pending, Pending \ {upd}}
    PROVE  Store!Next
<1>1. Store!Save(upd)
  BY SameSave DEF Store!Save
<1> QED BY <1>1 DEF Store!Next

LEMMA DeleteMaps ==
    ASSUME NEW upd \in Pending, upd.kind = "delete",
           cards' = [cards EXCEPT ![upd.card] = NoCard],
           Pending' \in {Pending, Pending \ {upd}}
    PROVE  Store!Next
<1>1. Store!Delete(upd)
  BY DEF Store!Delete
<1> QED BY <1>1 DEF Store!Next

-----------------------------------------------------------------------------
TransferEvents == [card : Cards, from : Users, to : Users, n : EventAmounts]
BurnEvents     == [card : Cards, from : Users, n : EventAmounts]

EventsOf(l) == IF l = "transfer" THEN TransferEvents ELSE BurnEvents

(* The events of a block and the orders move amounts CardStore knows.      *)
LEMMA BlocksTyped ==
    ASSUME NEW blk \in Blocks
    PROVE  /\ blk.transfer \in Seq(TransferEvents)
           /\ blk.burn \in Seq(BurnEvents)
           /\ blk.sale \subseteq [order : Orders, taker : Users]
<1>1. /\ blk.transfer \in Seq([card : Cards, from : Users, to : Users, n : Tokens])
      /\ blk.burn \in Seq([card : Cards, from : Users, n : Tokens])
      /\ blk.sale \subseteq [order : Orders, taker : Users]
  BY MarketAssumption
<1>2. ASSUME NEW i \in 1..Len(blk.transfer)
      PROVE  blk.transfer[i] \in TransferEvents
  <2>1. blk.transfer[i] \in [card : Cards, from : Users, to : Users, n : Tokens]
    BY <1>1, ElementOfSeq
  <2>2. i \in DOMAIN blk.transfer
    BY <1>1
  <2> DEFINE amounts(b) == {b.transfer[j].n : j \in DOMAIN b.transfer}
  <2>3. blk.transfer[i].n \in amounts(blk) /\ amounts(blk) \in {amounts(b) : b \in Blocks}
    BY <2>2
  <2>4. blk.transfer[i].n \in EventAmounts
    <3>1. blk.transfer[i].n \in UNION {amounts(b) : b \in Blocks}
      BY <2>3
    <3> QED BY <3>1 DEF EventAmounts
  <2> QED BY <2>1, <2>4 DEF TransferEvents
<1>3. ASSUME NEW i \in 1..Len(blk.burn)
      PROVE  blk.burn[i] \in BurnEvents
  <2>1. blk.burn[i] \in [card : Cards, from : Users, n : Tokens]
    BY <1>1, ElementOfSeq
  <2>2. i \in DOMAIN blk.burn
    BY <1>1
  <2> DEFINE amounts(b) == {b.burn[j].n : j \in DOMAIN b.burn}
  <2>3. blk.burn[i].n \in amounts(blk) /\ amounts(blk) \in {amounts(b) : b \in Blocks}
    BY <2>2
  <2>4. blk.burn[i].n \in EventAmounts
    <3>1. blk.burn[i].n \in UNION {amounts(b) : b \in Blocks}
      BY <2>3
    <3> QED BY <3>1 DEF EventAmounts
  <2> QED BY <2>1, <2>4 DEF BurnEvents
<1>4. /\ Len(blk.transfer) \in Nat /\ blk.transfer = [i \in 1..Len(blk.transfer) |-> blk.transfer[i]]
      /\ Len(blk.burn) \in Nat /\ blk.burn = [i \in 1..Len(blk.burn) |-> blk.burn[i]]
  BY <1>1
<1>5. blk.transfer \in [1..Len(blk.transfer) -> TransferEvents]
  BY <1>2, <1>4
<1>6. blk.burn \in [1..Len(blk.burn) -> BurnEvents]
  BY <1>3, <1>4
<1> QED BY <1>1, <1>4, <1>5, <1>6, SeqDef

LEMMA OrdersTyped ==
    ASSUME NEW o \in Orders
    PROVE  /\ OrderData[o].card \in Cards
           /\ OrderData[o].user \in Users
           /\ OrderData[o].n \in EventAmounts
BY MarketAssumption DEF EventAmounts

-----------------------------------------------------------------------------
(* The inductive invariant: a listener or a task that is not about to save *)
(* holds no save, one that is holds one, and what they work on are events  *)
(* of the chain and orders.                                                *)
WalkerOK(w, events) ==
    /\ DOMAIN w = {"pc", "todo", "upd", "onSale", "hs"}
    /\ w.todo \in Seq(events)
    /\ w.pc \notin {"idle", "increase"} => w.todo # <<>>
    /\ w.pc # "save" => w.upd = {}
    /\ \A x \in w.upd : w.upd = {x}

TaskOK(t) ==
    /\ DOMAIN t = {"id", "order", "taker", "pc", "upd"}
    /\ t.order \in Orders /\ t.taker \in Users
    /\ t.pc # "save" => t.upd = {}
    /\ \A x \in t.upd : t.upd = {x} /\ x.kind # "delete"

RequestOK(q) ==
    /\ DOMAIN q = {"pc", "order", "id", "amount", "hs"}
    /\ q.order \in Orders

ChainInv == chain \in Seq(Blocks) /\ cursor \in [Listeners -> Nat \ {0}]

SalesInv ==
    /\ sales \subseteq [id : Nat, order : Orders, status : Statuses]
    /\ created \in Nat

WalkInv ==
    /\ DOMAIN walk = Walkers
    /\ \A l \in Walkers : WalkerOK(walk[l], EventsOf(l))

TaskInv ==
    /\ DOMAIN sell = {"pc", "tasks", "flags"}
    /\ \A t \in sell.tasks \cup strays : TaskOK(t)

RequestInv ==
    /\ DOMAIN req = Requests
    /\ \A r \in Requests : RequestOK(req[r])

Inv == ChainInv /\ SalesInv /\ WalkInv /\ TaskInv /\ RequestInv

LEMMA RestingOK ==
    ASSUME NEW events
    PROVE  WalkerOK(Resting, events)
BY EmptySeq DEF WalkerOK, Resting

LEMMA NoReqOK == RequestOK(NoReq)
<1>1. (CHOOSE o \in Orders : TRUE) \in Orders
  BY MarketAssumption
<1> QED BY <1>1 DEF RequestOK, NoReq

LEMMA InitInv == Init => Inv /\ Store!Init
<1> SUFFICES ASSUME Init PROVE Inv /\ Store!Init
  OBVIOUS
<1>1. ChainInv
  BY EmptySeq DEF Init, ChainInv, Listeners
<1>2. SalesInv
  <2>1. \A i \in DOMAIN Listed : i \in Nat /\ Listed[i] \in Orders
    BY MarketAssumption
  <2>2. Len(Listed) \in Nat
    BY MarketAssumption
  <2> QED BY <2>1, <2>2 DEF Init, SalesInv, Sale, Statuses
<1>3. WalkInv
  BY RestingOK DEF Init, WalkInv
<1>4. TaskInv
  BY DEF Init, TaskInv, NoSell
<1>5. RequestInv
  BY NoReqOK DEF Init, RequestInv
<1>6. cards \in [Cards -> {Genesis[c] : c \in Cards}]
  BY MarketAssumption DEF Init
<1>7. Pending = {}
  BY DEF Init, Pending, Resting, NoSell
<1> QED BY <1>1, <1>2, <1>3, <1>4, <1>5, <1>6, <1>7 DEF Inv, Store!Init

-----------------------------------------------------------------------------
(* The step of one listener, all others at rest.                           *)
LEMMA WalkerStep ==
    ASSUME Inv, NEW l \in Walkers, DOMAIN walk' = Walkers,
           \A k \in Walkers \ {l} : walk'[k] = walk[k],
           WalkerOK(walk'[l], EventsOf(l)),
           sales' \subseteq sales, ChainInv',
           UNCHANGED <<created, sell, strays, req>>
    PROVE  /\ Inv'
           /\ walk'[l].upd = {} => Pending' \subseteq Pending
           /\ walk[l].upd = {} => Pending' = Pending \cup walk'[l].upd
           /\ walk'[l].upd = {} =>
                \A x \in walk[l].upd : x \in Pending /\ Pending' \in {Pending, Pending \ {x}}
<1>1. WalkInv'
  BY DEF WalkInv, Inv
<1>2. SalesInv' /\ TaskInv' /\ RequestInv'
  BY DEF Inv, SalesInv, TaskInv, RequestInv
<1>3. walk'[l].upd = {} => Pending' \subseteq Pending
  BY PendingMembers
<1>4. walk[l].upd = {} => Pending' = Pending \cup walk'[l].upd
  <2>1. ASSUME walk[l].upd = {}, NEW x
        PROVE  x \in Pending' <=> x \in Pending \/ x \in walk'[l].upd
    BY <2>1, PendingMembers
  <2> QED BY <2>1
<1>5. ASSUME walk'[l].upd = {}, NEW x \in walk[l].upd
      PROVE  x \in Pending /\ Pending' \in {Pending, Pending \ {x}}
  <2>1. walk[l].upd = {x}
    BY DEF Inv, WalkInv, WalkerOK
  <2>2. x \in Pending
    BY PendingMembers
  <2>3. \A y \in Pending : y # x => y \in Pending'
    BY <2>1, PendingMembers
  <2>4. Pending' \subseteq Pending
    BY <1>3, <1>5
  <2> QED BY <2>2, <2>3, <2>4
<1> QED BY <1>1, <1>2, <1>3, <1>4, <1>5 DEF Inv

-----------------------------------------------------------------------------
StoreStep == Store!Next \/ UNCHANGED <<cards, Pending>>

(* A listener that holds no save after its step, and wrote no card.        *)
LEMMA WalkerWithoutSave ==
    ASSUME Inv, NEW l \in Walkers, NEW w, walk' = [walk EXCEPT ![l] = w],
           WalkerOK(w, EventsOf(l)), w.upd = {},
           sales' \subseteq sales, ChainInv',
           UNCHANGED <<cards, created, sell, strays, req>>
    PROVE  Inv' /\ StoreStep
<1>1. /\ DOMAIN walk' = Walkers /\ walk'[l] = w
      /\ \A k \in Walkers \ {l} : walk'[k] = walk[k]
  BY DEF Inv, WalkInv
<1>2. Inv' /\ Pending' \subseteq Pending
  BY <1>1, WalkerStep
<1> QED BY <1>2, LoseMaps DEF StoreStep

(* What the events of a walker look like.                                  *)
LEMMA WalkerFacts ==
    ASSUME Inv, NEW l \in Walkers, walk[l].pc \notin {"idle", "increase"}
    PROVE  /\ DOMAIN walk[l] = {"pc", "todo", "upd", "onSale", "hs"}
           /\ walk[l].todo \in Seq(EventsOf(l)) /\ walk[l].todo # <<>>
           /\ Event(l) \in EventsOf(l)
           /\ Tail(walk[l].todo) \in Seq(EventsOf(l))
<1>1. WalkerOK(walk[l], EventsOf(l))
  BY DEF Inv, WalkInv
<1>2. walk[l].todo \in Seq(EventsOf(l)) /\ walk[l].todo # <<>>
  BY <1>1 DEF WalkerOK
<1> QED BY <1>1, <1>2, HeadTailProperties DEF WalkerOK, Event

LEMMA NextEventStep ==
    ASSUME Inv, NEW l \in Walkers, walk[l].pc \notin {"idle", "increase"}, NextEvent(l),
           sales' \subseteq sales, UNCHANGED <<chain, cursor, cards, created, sell, strays, req>>
    PROVE  Inv' /\ StoreStep
<1> DEFINE rest == Tail(walk[l].todo)
           w    == [Resting EXCEPT !.pc = IF rest = <<>> THEN "increase" ELSE "find",
                                   !.todo = rest]
<1>1. walk' = [walk EXCEPT ![l] = w]
  BY DEF NextEvent
<1>2. rest \in Seq(EventsOf(l))
  BY WalkerFacts
<1>3. WalkerOK(w, EventsOf(l)) /\ w.upd = {}
  BY <1>2 DEF WalkerOK, Resting
<1>4. ChainInv'
  BY DEF Inv, ChainInv
<1> HIDE DEF w
<1> QED BY <1>1, <1>3, <1>4, WalkerWithoutSave

LEMMA LeaveStep ==
    ASSUME Inv, NEW l \in Walkers, Leave(l), sales' \subseteq sales, ChainInv',
           UNCHANGED <<cards, created, sell, strays, req>>
    PROVE  Inv' /\ StoreStep
<1>1. walk' = [walk EXCEPT ![l] = Resting]
  BY DEF Leave
<1>2. WalkerOK(Resting, EventsOf(l)) /\ Resting.upd = {}
  BY RestingOK DEF Resting
<1> QED BY <1>1, <1>2, WalkerWithoutSave

(* A listener that goes on to its next call, with the same event.          *)
LEMMA GoesOnStep ==
    ASSUME Inv, NEW l \in Walkers, walk[l].pc \notin {"idle", "increase", "save"},
           NEW w, walk' = [walk EXCEPT ![l] = w],
           DOMAIN w = DOMAIN walk[l], w.todo = walk[l].todo, w.upd = walk[l].upd,
           sales' \subseteq sales, UNCHANGED <<chain, cursor, cards, created, sell, strays, req>>
    PROVE  Inv' /\ StoreStep
<1>1. WalkerOK(walk[l], EventsOf(l)) /\ walk[l].upd = {}
  BY DEF Inv, WalkInv, WalkerOK
<1>2. WalkerOK(w, EventsOf(l)) /\ w.upd = {}
  BY <1>1 DEF WalkerOK
<1>3. ChainInv'
  BY DEF Inv, ChainInv
<1> QED BY <1>2, <1>3, WalkerWithoutSave

LEMMA StartWalkStep ==
    ASSUME Inv, NEW l \in Walkers, StartWalk(l)
    PROVE  Inv' /\ StoreStep
<1> DEFINE events == IF l = "transfer" THEN chain[cursor[l]].transfer
                                       ELSE chain[cursor[l]].burn
           w      == [walk[l] EXCEPT !.pc = IF events = <<>> THEN "increase" ELSE "find",
                                     !.todo = events]
<1>1. walk' = [walk EXCEPT ![l] = w]
  BY DEF StartWalk
<1>2. chain[cursor[l]] \in Blocks
  <2>1. cursor[l] \in Nat \ {0} /\ cursor[l] <= Len(chain) /\ chain \in Seq(Blocks)
    BY DEF Inv, ChainInv, Listeners, StartWalk
  <2>2. cursor[l] \in 1..Len(chain)
    BY <2>1
  <2> QED BY <2>1, <2>2, ElementOfSeq
<1>3. events \in Seq(EventsOf(l))
  BY <1>2, BlocksTyped DEF EventsOf, Walkers
<1>4. WalkerOK(walk[l], EventsOf(l)) /\ walk[l].upd = {}
  BY DEF Inv, WalkInv, WalkerOK, StartWalk
<1> HIDE DEF events
<1>5. WalkerOK(w, EventsOf(l)) /\ w.upd = {}
  BY <1>3, <1>4 DEF WalkerOK
<1>6. ChainInv' /\ sales' \subseteq sales /\ UNCHANGED <<cards, created, sell, strays, req>>
  BY DEF Inv, ChainInv, StartWalk, db
<1> HIDE DEF w
<1> QED BY <1>1, <1>5, <1>6, WalkerWithoutSave

(* A listener that read a document and computed a save from it.            *)
LEMMA ComputedStep ==
    ASSUME Inv, NEW l \in Walkers, NEW upd, walk[l].pc = "find",
           walk' = [walk EXCEPT ![l] = [walk[l] EXCEPT !.pc = "save", !.upd = {upd}]],
           UNCHANGED <<chain, cursor, cards, sales, created, sell, strays, req>>
    PROVE  Inv' /\ Pending' = Pending \cup {upd}
<1> DEFINE w == [walk[l] EXCEPT !.pc = "save", !.upd = {upd}]
<1>1. WalkerOK(walk[l], EventsOf(l)) /\ walk[l].upd = {} /\ DOMAIN walk = Walkers
  BY DEF Inv, WalkInv, WalkerOK
<1>2. WalkerOK(w, EventsOf(l)) /\ w.upd = {upd}
  BY <1>1 DEF WalkerOK
<1>3. /\ DOMAIN walk' = Walkers /\ walk'[l] = w
      /\ \A k \in Walkers \ {l} : walk'[k] = walk[k]
  BY <1>1
<1>4. ChainInv'
  BY DEF Inv, ChainInv
<1> HIDE DEF w
<1> QED BY <1>1, <1>2, <1>3, <1>4, WalkerStep

LEMMA FindTransferredStep ==
    ASSUME Inv, FindTransferred
    PROVE  Inv' /\ StoreStep
<1> DEFINE e   == Event("transfer")
           doc == cards[e.card]
<1>1. /\ "transfer" \in Walkers /\ walk["transfer"].pc = "find"
      /\ UNCHANGED <<chain, cursor, cards, sales, created, sell, strays, req>>
  BY DEF FindTransferred, Walkers, db
<1>2. e \in TransferEvents /\ DOMAIN walk["transfer"] = {"pc", "todo", "upd", "onSale", "hs"}
  BY <1>1, WalkerFacts DEF EventsOf
<1>3. /\ e.card \in Cards /\ e.n \in EventAmounts
      /\ e.from \in Users /\ e.to \in Users
  BY <1>2 DEF TransferEvents
<1>4. CASE Leave("transfer")
  BY <1>1, <1>4, LeaveStep DEF Inv, ChainInv
<1>5. CASE GoTo("transfer", "sum")
  <2> DEFINE w == [walk["transfer"] EXCEPT !.pc = "sum"]
  <2>1. walk' = [walk EXCEPT !["transfer"] = w]
    BY <1>5 DEF GoTo
  <2>2. /\ DOMAIN w = DOMAIN walk["transfer"] /\ w.todo = walk["transfer"].todo
        /\ w.upd = walk["transfer"].upd
    BY <1>2
  <2> HIDE DEF w
  <2> QED BY <2>1, <2>2, <1>1, GoesOnStep
<1>6. CASE /\ doc # NoCard /\ e.from \in Holders(doc.bal)
           /\ walk' = [walk EXCEPT
                         !["transfer"].pc = "save",
                         !["transfer"].upd =
                            {ChangeOwnerships(e.card, doc, e.n, e.from, e.to)}]
  <2> DEFINE upd == ChangeOwnerships(e.card, doc, e.n, e.from, e.to)
  <2>1. walk' = [walk EXCEPT !["transfer"] =
                   [walk["transfer"] EXCEPT !.pc = "save", !.upd = {upd}]]
    BY <1>6
  <2>2. Inv' /\ Pending' = Pending \cup {upd}
    <3> HIDE DEF upd
    <3> QED BY <2>1, <1>1, ComputedStep
  <2> QED BY <2>2, <1>1, <1>3, <1>6, TransferMaps DEF StoreStep
<1> QED BY <1>4, <1>5, <1>6 DEF FindTransferred

LEMMA FindBurnedStep ==
    ASSUME Inv, FindBurned
    PROVE  Inv' /\ StoreStep
<1> DEFINE e   == Event("burn")
           doc == cards[e.card]
           upd == BurnCard(e.card, doc, e.n, e.from)
<1>1. /\ "burn" \in Walkers /\ walk["burn"].pc = "find"
      /\ UNCHANGED <<chain, cursor, cards, sales, created, sell, strays, req>>
  BY DEF FindBurned, Walkers, db
<1>2. e \in BurnEvents
  BY <1>1, WalkerFacts DEF EventsOf
<1>3. e.card \in Cards /\ e.n \in EventAmounts /\ e.from \in Users
  BY <1>2 DEF BurnEvents
<1>4. CASE doc # NoCard /\ e.from \in Holders(doc.bal)
  <2>1. walk' = [walk EXCEPT !["burn"] =
                   [walk["burn"] EXCEPT !.pc = "save", !.upd = {upd}]]
    BY <1>4 DEF FindBurned
  <2>2. Inv' /\ Pending' = Pending \cup {upd}
    <3> HIDE DEF upd
    <3> QED BY <2>1, <1>1, ComputedStep
  <2> QED BY <2>2, <1>1, <1>3, <1>4, BurnMaps DEF StoreStep
<1>5. CASE ~(doc # NoCard /\ e.from \in Holders(doc.bal))
  <2>1. NextEvent("burn")
    BY <1>5 DEF FindBurned
  <2> QED BY <2>1, <1>1, NextEventStep
<1> QED BY <1>4, <1>5

LEMMA SaveCardStep ==
    ASSUME Inv, NEW l \in Walkers, SaveCard(l)
    PROVE  Inv' /\ StoreStep
<1>1. /\ walk[l].pc = "save"
      /\ UNCHANGED <<chain, cursor, sales, created, sell, strays, req>>
  BY DEF SaveCard
<1>2. PICK upd \in walk[l].upd :
         \/ /\ upd.kind = "delete"
            /\ cards' = [cards EXCEPT ![upd.card] = NoCard]
            /\ walk' = [walk EXCEPT ![l].pc = "sum", ![l].upd = {}]
         \/ /\ upd.kind # "delete" /\ Accepts(cards[upd.card], upd)
            /\ cards' = [cards EXCEPT ![upd.card] = Saved(@, upd)]
            /\ walk' = [walk EXCEPT ![l].pc = "sum", ![l].upd = {}]
         \/ Leave(l) /\ UNCHANGED cards
  BY DEF SaveCard
<1>3. CASE walk' = [walk EXCEPT ![l].pc = "sum", ![l].upd = {}]
  <2> DEFINE w == [walk[l] EXCEPT !.pc = "sum", !.upd = {}]
  <2>1. WalkerOK(walk[l], EventsOf(l)) /\ DOMAIN walk = Walkers
    BY DEF Inv, WalkInv
  <2>2. WalkerOK(w, EventsOf(l)) /\ w.upd = {}
    BY <1>1, <2>1 DEF WalkerOK
  <2>3. /\ DOMAIN walk' = Walkers /\ walk'[l] = w
        /\ \A k \in Walkers \ {l} : walk'[k] = walk[k]
    BY <1>3, <2>1
  <2>4. ChainInv'
    BY <1>1 DEF Inv, ChainInv
  <2> HIDE DEF w
  <2>5. Inv' /\ upd \in Pending /\ Pending' \in {Pending, Pending \ {upd}}
    BY <1>1, <1>2, <2>2, <2>3, <2>4, WalkerStep
  <2>6. CASE Leave(l) /\ UNCHANGED cards
    BY <1>1, <2>4, <2>6, LeaveStep
  <2> QED BY <1>2, <2>5, <2>6, SaveMaps, DeleteMaps DEF StoreStep
<1>4. CASE Leave(l) /\ UNCHANGED cards
  BY <1>1, <1>4, LeaveStep DEF Inv, ChainInv
<1> QED BY <1>2, <1>3, <1>4

LEMMA GoToStep ==
    ASSUME Inv, NEW l \in Walkers, walk[l].pc \notin {"idle", "increase", "save"},
           NEW pc, GoTo(l, pc),
           sales' \subseteq sales, UNCHANGED <<chain, cursor, cards, created, sell, strays, req>>
    PROVE  Inv' /\ StoreStep
<1> DEFINE w == [walk[l] EXCEPT !.pc = pc]
<1>1. walk' = [walk EXCEPT ![l] = w]
  BY DEF GoTo
<1>2. DOMAIN w = DOMAIN walk[l] /\ w.todo = walk[l].todo /\ w.upd = walk[l].upd
  BY WalkerFacts
<1> HIDE DEF w
<1> QED BY <1>1, <1>2, GoesOnStep

LEMMA SumOnSaleStep ==
    ASSUME Inv, NEW l \in Walkers, SumOnSale(l)
    PROVE  Inv' /\ StoreStep
<1> DEFINE total == OnSale(Event(l).card, Event(l).from)
           w     == [walk[l] EXCEPT !.pc = "load", !.onSale = total]
<1>1. /\ walk[l].pc = "sum"
      /\ UNCHANGED <<chain, cursor, cards, sales, created, sell, strays, req>>
  BY DEF SumOnSale, db
<1>2. CASE total = 0
  BY <1>1, <1>2, NextEventStep DEF SumOnSale
<1>3. CASE total # 0
  <2>1. walk' = [walk EXCEPT ![l] = w]
    BY <1>3 DEF SumOnSale
  <2>2. DOMAIN w = DOMAIN walk[l] /\ w.todo = walk[l].todo /\ w.upd = walk[l].upd
    BY <1>1, WalkerFacts
  <2> HIDE DEF w
  <2> QED BY <2>1, <2>2, <1>1, GoesOnStep
<1> QED BY <1>2, <1>3

LEMMA LoadCardStep ==
    ASSUME Inv, NEW l \in Walkers, LoadCard(l)
    PROVE  Inv' /\ StoreStep
<1>1. /\ walk[l].pc = "load"
      /\ UNCHANGED <<chain, cursor, cards, sales, created, sell, strays, req>>
  BY DEF LoadCard, db
<1>2. PICK pc : GoTo(l, pc)
  BY DEF LoadCard
<1> QED BY <1>1, <1>2, GoToStep

LEMMA DropStep ==
    ASSUME Inv, NEW l \in Walkers, DropSalesOfCard(l) \/ DropSalesOfOwner(l)
    PROVE  Inv' /\ StoreStep
<1>1. CASE DropSalesOfCard(l)
  <2>1. /\ walk[l].pc = "dropCard" /\ NextEvent(l) /\ sales' \subseteq sales
        /\ UNCHANGED <<chain, cursor, cards, created, sell, strays, req>>
    BY <1>1 DEF DropSalesOfCard
  <2> QED BY <2>1, NextEventStep
<1>2. CASE DropSalesOfOwner(l)
  <2>1. /\ walk[l].pc = "drop" /\ GoTo(l, "exists") /\ sales' \subseteq sales
        /\ UNCHANGED <<chain, cursor, cards, created, sell, strays, req>>
    BY <1>2 DEF DropSalesOfOwner
  <2> QED BY <2>1, GoToStep
<1> QED BY <1>1, <1>2

LEMMA FlagStep ==
    ASSUME Inv, NEW l \in Walkers, WalkExists(l) \/ WalkFlag(l)
    PROVE  Inv' /\ StoreStep
<1>1. CASE WalkExists(l)
  <2> DEFINE w == [walk[l] EXCEPT !.pc = "flag", !.hs = ExistsSale(Event(l).card)]
  <2>1. /\ walk[l].pc = "exists" /\ walk' = [walk EXCEPT ![l] = w]
        /\ UNCHANGED <<chain, cursor, cards, sales, created, sell, strays, req>>
    BY <1>1 DEF WalkExists, db
  <2>2. DOMAIN w = DOMAIN walk[l] /\ w.todo = walk[l].todo /\ w.upd = walk[l].upd
    BY <2>1, WalkerFacts
  <2> HIDE DEF w
  <2> QED BY <2>1, <2>2, GoesOnStep
<1>2. CASE WalkFlag(l)
  <2>1. /\ walk[l].pc = "flag" /\ NextEvent(l)
        /\ UNCHANGED <<chain, cursor, cards, sales, created, sell, strays, req>>
    BY <1>2 DEF WalkFlag
  <2> QED BY <2>1, NextEventStep
<1> QED BY <1>1, <1>2

LEMMA WalkIncreaseStep ==
    ASSUME Inv, NEW l \in Walkers, WalkIncrease(l)
    PROVE  Inv' /\ StoreStep
<1>1. /\ Leave(l) /\ cursor' = [cursor EXCEPT ![l] = @ + 1]
      /\ UNCHANGED <<chain, cards, sales, created, sell, strays, req>>
  BY DEF WalkIncrease, db
<1>2. /\ cursor \in [Listeners -> Nat \ {0}] /\ l \in Listeners
      /\ cursor[l] + 1 \in Nat \ {0}
  BY DEF Inv, ChainInv, Listeners
<1>3. ChainInv'
  BY <1>1, <1>2 DEF Inv, ChainInv
<1> QED BY <1>1, <1>3, LeaveStep

LEMMA WalkStep ==
    ASSUME Inv, NEW l \in Walkers, Walk(l)
    PROVE  Inv' /\ StoreStep
BY StartWalkStep, SaveCardStep, SumOnSaleStep, LoadCardStep, DropStep, FlagStep, WalkIncreaseStep
   DEF Walk

-----------------------------------------------------------------------------
(* The step of the sell listener and its tasks, the walkers at rest.       *)
LEMMA TaskStep ==
    ASSUME Inv, ChainInv', SalesInv', DOMAIN sell' = {"pc", "tasks", "flags"},
           \A t \in sell'.tasks \cup strays' : TaskOK(t),
           UNCHANGED <<walk, req>>
    PROVE  Inv'
BY DEF Inv, WalkInv, TaskInv, RequestInv

(* No task holds more saves than before: the others are lost.              *)
LEMMA FewerTasksStep ==
    ASSUME Inv, ChainInv', SalesInv', DOMAIN sell' = {"pc", "tasks", "flags"},
           \A t \in sell'.tasks \cup strays' :
             t \in sell.tasks \cup strays \/ (TaskOK(t) /\ t.upd = {}),
           UNCHANGED <<walk, req, cards>>
    PROVE  Inv' /\ StoreStep
<1>1. Inv'
  BY TaskStep DEF Inv, TaskInv
<1>2. Pending' \subseteq Pending
  BY PendingMembers
<1> QED BY <1>1, <1>2, LoseMaps DEF StoreStep

(* A task that reads: what it computes is the one save that comes.         *)
LEMMA TaskReads ==
    ASSUME Inv, ChainInv', SalesInv', DOMAIN sell' = {"pc", "tasks", "flags"},
           NEW t \in sell.tasks \cup strays, t.pc = "read",
           sell'.tasks \cup strays' \subseteq (sell.tasks \cup strays) \cup AfterRead(t),
           ((sell.tasks \cup strays) \ {t}) \cup AfterRead(t) \subseteq sell'.tasks \cup strays',
           UNCHANGED <<walk, req, cards>>
    PROVE  Inv' /\ StoreStep
<1> DEFINE o   == OrderData[t.order]
           doc == cards[o.card]
           upd == ChangeOwnerships(o.card, doc, o.n, o.user, t.taker)
           u   == [t EXCEPT !.pc = "save", !.upd = {upd}]
<1>1. TaskOK(t) /\ t.upd = {}
  BY DEF Inv, TaskInv, TaskOK
<1>2. CASE ~(doc # NoCard /\ o.user \in Holders(doc.bal))
  <2>1. AfterRead(t) = {}
    BY <1>2 DEF AfterRead
  <2> QED BY <2>1, FewerTasksStep
<1>3. CASE doc # NoCard /\ o.user \in Holders(doc.bal)
  <2>1. AfterRead(t) = {u}
    BY <1>3 DEF AfterRead
  <2>2. upd.kind # "delete"
    BY DEF ChangeOwnerships
  <2>3. /\ o.card \in Cards /\ o.n \in EventAmounts
        /\ o.user \in Users /\ t.taker \in Users
    BY <1>1, OrdersTyped DEF TaskOK
  <2>4. Inv' /\ Pending' = Pending \cup {upd}
    <3> HIDE DEF upd
    <3>1. TaskOK(u) /\ u.upd = {upd}
      BY <1>1, <2>2 DEF TaskOK
    <3> HIDE DEF u
    <3>2. Inv'
      BY <2>1, <3>1, TaskStep DEF Inv, TaskInv
    <3>3. ASSUME NEW x PROVE x \in Pending' <=> x \in Pending \/ x = upd
      BY <1>1, <2>1, <3>1, PendingMembers
    <3> QED BY <3>2, <3>3
  <2> QED BY <1>3, <2>3, <2>4, TransferMaps DEF StoreStep
<1> QED BY <1>2, <1>3

(* A task whose save is accepted.                                          *)
LEMMA TaskSaves ==
    ASSUME Inv, ChainInv', SalesInv', DOMAIN sell' = {"pc", "tasks", "flags"},
           NEW t \in sell.tasks \cup strays, NEW upd \in t.upd,
           Accepts(cards[upd.card], upd),
           cards' = [cards EXCEPT ![upd.card] = Saved(@, upd)],
           sell'.tasks \cup strays' \subseteq sell.tasks \cup strays,
           (sell.tasks \cup strays) \ {t} \subseteq sell'.tasks \cup strays',
           UNCHANGED <<walk, req>>
    PROVE  Inv' /\ StoreStep
<1>1. t.upd = {upd} /\ upd.kind # "delete"
  BY DEF Inv, TaskInv, TaskOK
<1>2. Inv'
  BY TaskStep DEF Inv, TaskInv
<1>3. upd \in Pending /\ Pending' \subseteq Pending
  BY PendingMembers
<1>4. \A x \in Pending : x # upd => x \in Pending'
  BY <1>1, PendingMembers
<1>5. Pending' \in {Pending, Pending \ {upd}}
  BY <1>3, <1>4
<1> QED BY <1>1, <1>2, <1>3, <1>5, SaveMaps DEF StoreStep

LEMMA StartSellStep ==
    ASSUME Inv, StartSell
    PROVE  Inv' /\ StoreStep
<1> DEFINE fills == chain[cursor["sale"]].sale
           found == {x \in sales \X fills : x[1].order = x[2].order}
           tasks == {[id |-> x[1].id, order |-> x[1].order,
                      taker |-> x[2].taker, pc |-> "read", upd |-> {}] : x \in found}
<1>1. chain[cursor["sale"]] \in Blocks
  <2>1. /\ cursor["sale"] \in Nat \ {0} /\ cursor["sale"] <= Len(chain)
        /\ chain \in Seq(Blocks)
    BY DEF Inv, ChainInv, Listeners, StartSell, AllSellData
  <2>2. cursor["sale"] \in 1..Len(chain)
    BY <2>1
  <2> QED BY <2>1, <2>2, ElementOfSeq
<1>2. fills \subseteq [order : Orders, taker : Users]
  BY <1>1, BlocksTyped
<1>3. ASSUME NEW t \in tasks PROVE TaskOK(t) /\ t.upd = {}
  <2> HIDE DEF fills
  <2>1. PICK x \in sales \X fills :
          t = [id |-> x[1].id, order |-> x[1].order,
               taker |-> x[2].taker, pc |-> "read", upd |-> {}]
    OBVIOUS
  <2>2. x[1] \in sales /\ x[2] \in fills
    BY <2>1
  <2>3. x[1].order \in Orders /\ x[2].taker \in Users
    BY <1>2, <2>2 DEF Inv, SalesInv
  <2> QED BY <2>1, <2>3 DEF TaskOK
<1>4. DOMAIN sell' = {"pc", "tasks", "flags"} /\ sell'.tasks \subseteq tasks
  BY DEF StartSell, AllSellData, NoSell
<1>5. UNCHANGED <<chain, cursor, cards, sales, created, walk, strays, req>>
  BY DEF StartSell, AllSellData, db
<1>6. ChainInv' /\ SalesInv'
  BY <1>5 DEF Inv, ChainInv, SalesInv
<1> HIDE DEF tasks
<1> QED BY <1>3, <1>4, <1>5, <1>6, FewerTasksStep

LEMMA MarkSoldStep ==
    ASSUME Inv, MarkSold
    PROVE  Inv' /\ StoreStep
<1>1. /\ sell' = [sell EXCEPT !.pc = "apply"]
      /\ UNCHANGED <<chain, cursor, cards, created, walk, strays, req>>
  BY DEF MarkSold
<1>2. DOMAIN sell' = {"pc", "tasks", "flags"} /\ sell'.tasks = sell.tasks
  BY <1>1 DEF Inv, TaskInv
<1>3. SalesInv'
  <2>1. ASSUME NEW s \in sales
        PROVE  /\ s \in [id : Nat, order : Orders, status : Statuses]
               /\ [s EXCEPT !.status = "sold"] \in [id : Nat, order : Orders, status : Statuses]
    BY DEF Inv, SalesInv, Statuses
  <2>2. \A s \in sales' : \E r \in sales : s \in {r, [r EXCEPT !.status = "sold"]}
    BY DEF MarkSold
  <2> QED BY <1>1, <2>1, <2>2 DEF Inv, SalesInv
<1>4. ChainInv'
  BY <1>1 DEF Inv, ChainInv
<1> QED BY <1>1, <1>2, <1>3, <1>4, FewerTasksStep

LEMMA RemainingTasks ==
    ASSUME Inv, NEW tasks, Remaining(tasks)
    PROVE  DOMAIN sell' = {"pc", "tasks", "flags"} /\ sell'.tasks = tasks
BY DEF Inv, TaskInv, Remaining

LEMMA ReadSoldStep ==
    ASSUME Inv, NEW t \in sell.tasks, ReadSold(t)
    PROVE  Inv' /\ StoreStep
<1>1. /\ t.pc = "read" /\ Remaining((sell.tasks \ {t}) \cup AfterRead(t))
      /\ UNCHANGED <<chain, cursor, cards, sales, created, walk, strays, req>>
  BY DEF ReadSold, db
<1>2. /\ DOMAIN sell' = {"pc", "tasks", "flags"}
      /\ sell'.tasks = (sell.tasks \ {t}) \cup AfterRead(t)
  BY <1>1, RemainingTasks
<1>3. ChainInv' /\ SalesInv'
  BY <1>1 DEF Inv, ChainInv, SalesInv
<1>4. /\ sell'.tasks \cup strays' \subseteq (sell.tasks \cup strays) \cup AfterRead(t)
      /\ ((sell.tasks \cup strays) \ {t}) \cup AfterRead(t) \subseteq sell'.tasks \cup strays'
  BY <1>1, <1>2
<1> QED BY <1>1, <1>2, <1>3, <1>4, TaskReads

LEMMA StrayReadStep ==
    ASSUME Inv, NEW t \in strays, StrayRead(t)
    PROVE  Inv' /\ StoreStep
<1>1. /\ t.pc = "read" /\ strays' = (strays \ {t}) \cup AfterRead(t)
      /\ UNCHANGED <<chain, cursor, cards, sales, created, walk, sell, req>>
  BY DEF StrayRead, db
<1>2. ChainInv' /\ SalesInv' /\ DOMAIN sell' = {"pc", "tasks", "flags"}
  BY <1>1 DEF Inv, ChainInv, SalesInv, TaskInv
<1>3. /\ sell'.tasks \cup strays' \subseteq (sell.tasks \cup strays) \cup AfterRead(t)
      /\ ((sell.tasks \cup strays) \ {t}) \cup AfterRead(t) \subseteq sell'.tasks \cup strays'
  BY <1>1
<1> QED BY <1>1, <1>2, <1>3, TaskReads

LEMMA SaveSoldStep ==
    ASSUME Inv, NEW t \in sell.tasks, SaveSold(t)
    PROVE  Inv' /\ StoreStep
<1>1. UNCHANGED <<chain, cursor, sales, created, walk, req>>
  BY DEF SaveSold
<1>2. ChainInv' /\ SalesInv'
  BY <1>1 DEF Inv, ChainInv, SalesInv
<1>3. PICK upd \in t.upd :
         \/ /\ Accepts(cards[upd.card], upd)
            /\ cards' = [cards EXCEPT ![upd.card] = Saved(@, upd)]
            /\ Remaining(sell.tasks \ {t})
            /\ UNCHANGED strays
         \/ /\ sell' = NoSell
            /\ strays' \in {strays, strays \cup (sell.tasks \ {t})}
            /\ UNCHANGED cards
  BY DEF SaveSold
<1>4. CASE /\ Accepts(cards[upd.card], upd)
           /\ cards' = [cards EXCEPT ![upd.card] = Saved(@, upd)]
           /\ Remaining(sell.tasks \ {t})
           /\ UNCHANGED strays
  <2>1. DOMAIN sell' = {"pc", "tasks", "flags"} /\ sell'.tasks = sell.tasks \ {t}
    BY <1>4, RemainingTasks
  <2>2. /\ sell'.tasks \cup strays' \subseteq sell.tasks \cup strays
        /\ (sell.tasks \cup strays) \ {t} \subseteq sell'.tasks \cup strays'
    BY <1>4, <2>1
  <2> QED BY <1>1, <1>2, <1>4, <2>1, <2>2, TaskSaves
<1>5. CASE /\ sell' = NoSell
           /\ strays' \in {strays, strays \cup (sell.tasks \ {t})}
           /\ UNCHANGED cards
  <2>1. DOMAIN sell' = {"pc", "tasks", "flags"} /\ sell'.tasks = {}
    BY <1>5 DEF NoSell
  <2>2. \A u \in sell'.tasks \cup strays' : u \in sell.tasks \cup strays
    BY <1>5, <2>1
  <2> QED BY <1>1, <1>2, <1>5, <2>1, <2>2, FewerTasksStep
<1> QED BY <1>3, <1>4, <1>5

LEMMA StraySaveStep ==
    ASSUME Inv, NEW t \in strays, StraySave(t)
    PROVE  Inv' /\ StoreStep
<1>1. /\ strays' = strays \ {t}
      /\ UNCHANGED <<chain, cursor, sales, created, walk, sell, req>>
  BY DEF StraySave
<1>2. ChainInv' /\ SalesInv' /\ DOMAIN sell' = {"pc", "tasks", "flags"}
  BY <1>1 DEF Inv, ChainInv, SalesInv, TaskInv
<1>3. PICK upd \in t.upd :
         cards' = IF Accepts(cards[upd.card], upd)
                    THEN [cards EXCEPT ![upd.card] = Saved(@, upd)] ELSE cards
  BY DEF StraySave
<1>4. /\ sell'.tasks \cup strays' \subseteq sell.tasks \cup strays
      /\ (sell.tasks \cup strays) \ {t} \subseteq sell'.tasks \cup strays'
  BY <1>1
<1>5. CASE Accepts(cards[upd.card], upd)
  BY <1>1, <1>2, <1>3, <1>4, <1>5, TaskSaves
<1>6. CASE ~Accepts(cards[upd.card], upd)
  BY <1>1, <1>2, <1>3, <1>4, <1>6, FewerTasksStep
<1> QED BY <1>5, <1>6

(* What follows the saves changes neither a task nor a card.               *)
LEMMA SellFlagsStep ==
    ASSUME Inv, NEW f \in sell.flags, SellExists(f) \/ SellFlag(f)
    PROVE  Inv' /\ StoreStep
<1>1. UNCHANGED <<chain, cursor, cards, sales, created, walk, strays, req>>
  BY DEF SellExists, SellFlag, db
<1>2. ChainInv' /\ SalesInv'
  BY <1>1 DEF Inv, ChainInv, SalesInv
<1>3. DOMAIN sell' = {"pc", "tasks", "flags"} /\ sell'.tasks \subseteq sell.tasks
  BY DEF Inv, TaskInv, SellExists, SellFlag, NoSell
<1> QED BY <1>1, <1>2, <1>3, FewerTasksStep

LEMMA SellIncreaseStep ==
    ASSUME Inv, SellIncrease
    PROVE  Inv' /\ StoreStep
<1>1. /\ sell' = NoSell /\ cursor' = [cursor EXCEPT !["sale"] = @ + 1]
      /\ UNCHANGED <<chain, cards, sales, created, walk, strays, req>>
  BY DEF SellIncrease, db
<1>2. /\ cursor \in [Listeners -> Nat \ {0}] /\ "sale" \in Listeners
      /\ cursor["sale"] + 1 \in Nat \ {0}
  BY DEF Inv, ChainInv, Listeners
<1>3. ChainInv' /\ SalesInv'
  BY <1>1, <1>2 DEF Inv, ChainInv, SalesInv
<1>4. DOMAIN sell' = {"pc", "tasks", "flags"} /\ sell'.tasks = {}
  BY <1>1 DEF NoSell
<1> QED BY <1>1, <1>3, <1>4, FewerTasksStep

LEMMA SellStep ==
    ASSUME Inv, Sell \/ Strays
    PROVE  Inv' /\ StoreStep
BY StartSellStep, MarkSoldStep, ReadSoldStep, SaveSoldStep, StrayReadStep, StraySaveStep,
   SellFlagsStep, SellIncreaseStep
   DEF Sell, Strays

-----------------------------------------------------------------------------
(* The requests work on the sales; they only read the cards.               *)
LEMMA RequestStep ==
    ASSUME Inv, NEW r \in Requests, Request(r)
    PROVE  Inv' /\ StoreStep
<1>1. RequestOK(req[r]) /\ RequestOK(NoReq) /\ DOMAIN req = Requests
  BY NoReqOK DEF Inv, RequestInv
<1>2. /\ UNCHANGED <<chain, cursor, cards, walk, sell, strays>>
      /\ SalesInv'
      /\ \E q : RequestOK(q) /\ req' = [req EXCEPT ![r] = q]
  <2>1. ASSUME NEW o \in Orders, CreateRead(r, o)
        PROVE  <1>2!:
    <3> DEFINE q == [NoReq EXCEPT
                       !.pc = "sum", !.order = o,
                       !.amount = AmountOf(cards[OrderData[o].card].bal, OrderData[o].user)]
    <3>1. RequestOK(q) /\ req' = [req EXCEPT ![r] = q]
      BY <1>1, <2>1 DEF CreateRead, RequestOK
    <3> HIDE DEF q
    <3> QED BY <3>1, <2>1 DEF CreateRead, db, Inv, SalesInv
  <2>2. ASSUME NEW s \in sales, DeleteRead(r, s)
        PROVE  <1>2!:
    <3> DEFINE q == [NoReq EXCEPT !.pc = "delete", !.order = s.order, !.id = s.id]
    <3>1. s.order \in Orders
      BY DEF Inv, SalesInv
    <3>2. RequestOK(q) /\ req' = [req EXCEPT ![r] = q]
      BY <1>1, <2>2, <3>1 DEF DeleteRead, RequestOK
    <3> HIDE DEF q
    <3> QED BY <3>2, <2>2 DEF DeleteRead, db, Inv, SalesInv
  <2>3. CASE CreateSum(r)
    <3> DEFINE q == [req[r] EXCEPT !.pc = "store", !.amount = 0]
    <3>1. RequestOK(q)
      BY <1>1 DEF RequestOK
    <3>2. req' = [req EXCEPT ![r] = NoReq] \/ req' = [req EXCEPT ![r] = q]
      BY <2>3 DEF CreateSum
    <3> HIDE DEF q
    <3> QED BY <1>1, <3>1, <3>2, <2>3 DEF CreateSum, db, Inv, SalesInv
  <2>4. CASE CreateStore(r)
    <3> DEFINE q == [req[r] EXCEPT !.pc = "exists"]
    <3>1. RequestOK(q) /\ req' = [req EXCEPT ![r] = q]
      BY <1>1, <2>4 DEF CreateStore, RequestOK
    <3>2. /\ created + 1 \in Nat
          /\ Sale(created + 1, req[r].order) \in [id : Nat, order : Orders, status : Statuses]
      BY <1>1 DEF RequestOK, Sale, Statuses, Inv, SalesInv
    <3> HIDE DEF q
    <3> QED BY <3>1, <3>2, <2>4 DEF CreateStore, Inv, SalesInv
  <2>5. CASE DeleteStore(r)
    <3> DEFINE q == [req[r] EXCEPT !.pc = "exists", !.id = 0]
    <3>1. RequestOK(q) /\ req' = [req EXCEPT ![r] = q]
      BY <1>1, <2>5 DEF DeleteStore, RequestOK
    <3> HIDE DEF q
    <3> QED BY <3>1, <2>5 DEF DeleteStore, Inv, SalesInv
  <2>6. CASE RequestExists(r)
    <3> DEFINE q == [req[r] EXCEPT !.pc = "flag",
                                   !.hs = ExistsSale(OrderData[req[r].order].card)]
    <3>1. RequestOK(q) /\ req' = [req EXCEPT ![r] = q]
      BY <1>1, <2>6 DEF RequestExists, RequestOK
    <3> HIDE DEF q
    <3> QED BY <3>1, <2>6 DEF RequestExists, db, Inv, SalesInv
  <2>7. CASE RequestFlag(r)
    BY <1>1, <2>7 DEF RequestFlag, Inv, SalesInv
  <2> QED BY <2>1, <2>2, <2>3, <2>4, <2>5, <2>6, <2>7 DEF Request
<1>3. RequestInv'
  BY <1>1, <1>2 DEF Inv, RequestInv
<1>4. ChainInv' /\ WalkInv' /\ TaskInv'
  BY <1>2 DEF Inv, ChainInv, WalkInv, TaskInv
<1>5. UNCHANGED <<cards, Pending>>
  BY <1>2 DEF Pending
<1> QED BY <1>2, <1>3, <1>4, <1>5 DEF Inv, StoreStep

(* A handler that is killed takes its save with it, or leaves its tasks.   *)
LEMMA CrashStep ==
    ASSUME Inv, Crash
    PROVE  Inv' /\ StoreStep
<1>1. UNCHANGED <<chain, cursor, cards, sales, created>>
  BY DEF Crash, db
<1>2. ChainInv' /\ SalesInv'
  BY <1>1 DEF Inv, ChainInv, SalesInv
<1>3. ASSUME NEW l \in Walkers, Killed(l)
      PROVE  Inv' /\ StoreStep
  BY <1>1, <1>2, <1>3, LeaveStep DEF Killed
<1>4. CASE SellKilled
  <2>1. DOMAIN sell' = {"pc", "tasks", "flags"} /\ sell'.tasks = {} /\ UNCHANGED <<walk, req>>
    BY <1>4 DEF SellKilled, NoSell
  <2>2. strays' \subseteq sell.tasks \cup strays
    BY <1>4 DEF SellKilled
  <2> QED BY <1>1, <1>2, <2>1, <2>2, FewerTasksStep
<1>5. ASSUME NEW r \in Requests, Abandoned(r)
      PROVE  Inv' /\ StoreStep
  <2>1. req' = [req EXCEPT ![r] = NoReq] /\ UNCHANGED <<walk, sell, strays>>
    BY <1>5 DEF Abandoned
  <2>2. RequestInv'
    BY <2>1, NoReqOK DEF Inv, RequestInv
  <2>3. WalkInv' /\ TaskInv' /\ UNCHANGED <<cards, Pending>>
    BY <1>1, <2>1 DEF Inv, WalkInv, TaskInv, Pending
  <2> QED BY <1>2, <2>2, <2>3 DEF Inv, StoreStep
<1> QED BY <1>3, <1>4, <1>5 DEF Crash

LEMMA NewBlockStep ==
    ASSUME Inv, NEW full \in ChainChoices, NewBlock(full)
    PROVE  Inv' /\ StoreStep
<1> DEFINE blk == full[Len(chain) + 1]
<1>1. /\ Len(chain) < MaxBlocks /\ chain' = Append(chain, blk)
      /\ UNCHANGED <<cursor, cards, sales, created, walk, sell, strays, req>>
  BY DEF NewBlock, db
<1>2. Len(chain) + 1 \in 1..MaxBlocks
  BY <1>1, MarketAssumption, LenProperties DEF Inv, ChainInv
<1>3. blk \in Blocks
  BY <1>2 DEF Blocks
<1>4. ChainInv'
  <2> HIDE DEF blk
  <2> QED BY <1>1, <1>3, AppendProperties DEF Inv, ChainInv
<1>5. SalesInv' /\ WalkInv' /\ TaskInv' /\ RequestInv' /\ UNCHANGED <<cards, Pending>>
  BY <1>1 DEF Inv, SalesInv, WalkInv, TaskInv, RequestInv, Pending
<1> QED BY <1>4, <1>5 DEF Inv, StoreStep

-----------------------------------------------------------------------------
LEMMA NextStep == Inv /\ [Next]_vars => Inv' /\ StoreStep
<1> SUFFICES ASSUME Inv, [Next]_vars PROVE Inv' /\ StoreStep
  OBVIOUS
<1>1. CASE Next
  BY <1>1, NewBlockStep, FindTransferredStep, FindBurnedStep, WalkStep, SellStep,
     RequestStep, CrashStep DEF Next
<1>2. CASE UNCHANGED vars
  BY <1>2 DEF vars, db, StoreStep, Pending, Inv, ChainInv, SalesInv, WalkInv, TaskInv, RequestInv
<1> QED BY <1>1, <1>2

(* Whatever the chain, the requests, the failures and the number of        *)
(* handlers at once, the handlers together do to the collection what       *)
(* CardStore allows its writers.                                           *)
THEOREM MarketplaceIsAStore == Spec => ImplementsStore
<1>1. StoreStep => [Store!Next]_(Store!vars)
  BY DEF StoreStep, Store!vars
<1> QED BY <1>1, InitInv, NextStep, PTL DEF Spec, ImplementsStore, Store!Spec

-----------------------------------------------------------------------------
(* So the theorems of CardStore_proofs hold of the handlers.  Their own    *)
(* instance of CardStore is the one Marketplace names.                     *)
Proved == INSTANCE CardStore_proofs WITH
    pending  <- Pending,
    Amounts  <- EventAmounts,
    NewCards <- {Genesis[c] : c \in Cards},
    Within   <- Unhindered

LEMMA StoreConstants ==
    /\ EventAmounts \subseteq Nat \ {0}
    /\ {Genesis[c] : c \in Cards} \subseteq Proved!Docs
    /\ \A doc \in {Genesis[c] : c \in Cards} : Proved!OneEntryEach(doc.bal)
    /\ NoCard \notin Proved!Docs
<1>1. \A o \in Orders : OrderData[o].n \in Nat \ {0}
  BY MarketAssumption DEF Tokens
<1>2. ASSUME NEW blk \in Blocks, NEW i \in DOMAIN blk.transfer
      PROVE  blk.transfer[i].n \in Nat \ {0}
  <2>1. blk.transfer \in Seq([card : Cards, from : Users, to : Users, n : Tokens])
    BY MarketAssumption
  <2>2. i \in 1..Len(blk.transfer)
    BY <2>1
  <2>3. blk.transfer[i] \in [card : Cards, from : Users, to : Users, n : Tokens]
    BY <2>1, <2>2, ElementOfSeq
  <2> QED BY <2>3 DEF Tokens
<1>3. ASSUME NEW blk \in Blocks, NEW i \in DOMAIN blk.burn
      PROVE  blk.burn[i].n \in Nat \ {0}
  <2>1. blk.burn \in Seq([card : Cards, from : Users, n : Tokens])
    BY MarketAssumption
  <2>2. i \in 1..Len(blk.burn)
    BY <2>1
  <2>3. blk.burn[i] \in [card : Cards, from : Users, n : Tokens]
    BY <2>1, <2>2, ElementOfSeq
  <2> QED BY <2>3 DEF Tokens
<1>4. EventAmounts \subseteq Nat \ {0}
  <2>1. {OrderData[o].n : o \in Orders} \subseteq Nat \ {0}
    BY <1>1
  <2>2. UNION {{blk.transfer[i].n : i \in DOMAIN blk.transfer} : blk \in Blocks} \subseteq Nat \ {0}
    BY <1>2
  <2>3. UNION {{blk.burn[i].n : i \in DOMAIN blk.burn} : blk \in Blocks} \subseteq Nat \ {0}
    BY <1>3
  <2> QED BY <2>1, <2>2, <2>3 DEF EventAmounts
<1>5. Proved!Docs = [v : Nat, total : Int, bal : Seq([user : Users, amount : Tokens])]
  BY DEF Proved!Docs, Proved!Balances, Tokens
<1>6. /\ \A c \in Cards : Genesis[c] \in Proved!Docs /\ Proved!OneEntryEach(Genesis[c].bal)
      /\ NoCard \notin Proved!Docs
  BY <1>5, MarketAssumption DEF OneEntryEach, Proved!OneEntryEach
<1> QED BY <1>4, <1>6

LEMMA SameStore == Store!Spec => Proved!Spec
<1>1. Store!Init => Proved!Init
  BY DEF Store!Init, Proved!Init
<1>2. Store!Next => Proved!Next
  <2> SUFFICES ASSUME Store!Next PROVE Proved!Next
    OBVIOUS
  <2>1. ASSUME NEW c \in Cards, NEW n \in EventAmounts, NEW maker \in Users, NEW taker \in Users,
               Store!ReadForTransfer(c, n, maker, taker)
        PROVE  Proved!ReadForTransfer(c, n, maker, taker)
    <3>1. Store!ChangeOwnerships(c, cards[c], n, maker, taker)
            = Proved!ChangeOwnerships(c, cards[c], n, maker, taker)
      BY DEF Proved!ChangeOwnerships, Store!ChangeOwnerships, Proved!AmountOf, Store!AmountOf,
             Proved!Entry, Store!Entry, Proved!Holders, Store!Holders,
             Proved!Credited, Store!Credited, Proved!Debited, Store!Debited,
             Proved!WithAmount, Store!WithAmount, Proved!RemoveAt, Store!RemoveAt
    <3> QED BY <2>1, <3>1 DEF Store!ReadForTransfer, Proved!ReadForTransfer,
                              Store!Holders, Proved!Holders
  <2>2. ASSUME NEW c \in Cards, NEW n \in EventAmounts, NEW owner \in Users,
               Store!ReadForBurn(c, n, owner)
        PROVE  Proved!ReadForBurn(c, n, owner)
    <3>1. Store!BurnCard(c, cards[c], n, owner) = Proved!BurnCard(c, cards[c], n, owner)
      BY DEF Proved!BurnCard, Store!BurnCard, Proved!BurnKind, Store!BurnKind,
             Proved!BurnTotal, Store!BurnTotal, Proved!AmountOf, Store!AmountOf,
             Proved!Entry, Store!Entry, Proved!Holders, Store!Holders,
             Proved!Debited, Store!Debited,
             Proved!WithAmount, Store!WithAmount, Proved!RemoveAt, Store!RemoveAt
    <3> QED BY <2>2, <3>1 DEF Store!ReadForBurn, Proved!ReadForBurn,
                              Store!Holders, Proved!Holders
  <2>3. ASSUME NEW upd \in Pending, Store!Save(upd) \/ Store!Delete(upd)
        PROVE  Proved!Save(upd) \/ Proved!Delete(upd)
    BY <2>3 DEF Store!Save, Proved!Save, Store!Delete, Proved!Delete, Store!Accepts,
                Proved!Accepts, Store!Saved, Proved!Saved, Store!NextVersion, Proved!NextVersion
  <2>4. Store!Lose => Proved!Lose
    BY DEF Store!Lose, Proved!Lose
  <2> QED BY <2>1, <2>2, <2>3, <2>4 DEF Store!Next, Proved!Next
<1>3. Store!vars = Proved!vars
  BY DEF Store!vars, Proved!vars
<1>4. [Store!Next]_(Store!vars) => [Proved!Next]_(Proved!vars)
  BY <1>2 DEF Store!vars, Proved!vars
<1> QED BY <1>1, <1>4, PTL DEF Store!Spec, Proved!Spec

(* Beside each other the listeners and the requests keep the documents     *)
(* typed, a holder has one entry, positional saves find their entries, and *)
(* a card that was burned away stays away.                                 *)
THEOREM HandlersKeepTheStore ==
    Spec => /\ [](Proved!TypeOK /\ Proved!OneEntryPerHolder /\ Proved!VersionFixesPositions)
            /\ Proved!PositionsChangeWithVersion
            /\ Proved!NoResurrection
<1>1. Spec => Proved!Spec
  BY MarketplaceIsAStore, SameStore DEF ImplementsStore
<1>2. Proved!Spec => []Proved!TypeOK
  BY StoreConstants, Proved!StoreTyped
<1>3. Proved!Spec => []Proved!OneEntryPerHolder
  BY StoreConstants, Proved!OneEntry
<1>4. Proved!Spec => []Proved!VersionFixesPositions
  BY StoreConstants, Proved!PositionsFixed
<1>5. Proved!Spec => Proved!PositionsChangeWithVersion
  BY StoreConstants, Proved!VersionedPositions
<1>6. Proved!Spec => Proved!NoResurrection
  BY StoreConstants, Proved!NothingResurrected
<1> QED BY <1>1, <1>2, <1>3, <1>4, <1>5, <1>6, PTL

-----------------------------------------------------------------------------
(* What holds of a subset of a finite set whenever it holds of the smaller *)
(* ones holds of all: the subsets it holds of are given as a set.          *)
LEMMA SubsetsBySize ==
    ASSUME NEW S, IsFiniteSet(S), NEW Q,
           \A T \in SUBSET S : (\A U \in SUBSET T : U # T => U \in Q) => T \in Q
    PROVE  \A T \in SUBSET S : T \in Q
<1> SUFFICES ASSUME NEW W \in SUBSET S, W \notin Q PROVE FALSE
  OBVIOUS
<1> DEFINE Bad == {T \in SUBSET S : T \notin Q}
<1>1. IsWellFoundedOn(StrictSubsetOrdering(S), FiniteSubsetsOf(S))
  BY FS_StrictSubsetOrderingWellFounded
<1>2. Bad \subseteq FiniteSubsetsOf(S) /\ Bad # {}
  <2>1. \A T \in SUBSET S : IsFiniteSet(T)
    BY FS_Subset
  <2> QED BY <2>1 DEF FiniteSubsetsOf
<1>3. PICK T \in Bad : \A U \in Bad : <<U, T>> \notin StrictSubsetOrdering(S)
  <2> HIDE DEF Bad
  <2> QED BY <1>1, <1>2, WFMin
<1>4. \A U \in SUBSET T : U # T => U \in Q
  BY <1>3 DEF StrictSubsetOrdering
<1> QED BY <1>3, <1>4

-----------------------------------------------------------------------------
(* The sums of the model are folds over the subsets of a set: g is the fold *)
(* that adds up the numbers v.                                              *)
Adds(g, v, S) ==
    g = [s \in SUBSET S |-> IF s = {} THEN 0
                            ELSE v[CHOOSE x \in s : TRUE] + g[s \ {CHOOSE x \in s : TRUE}]]

LEMMA AddsSame ==
    ASSUME NEW v, NEW S, IsFiniteSet(S), NEW g, Adds(g, v, S),
           NEW T, NEW h, Adds(h, v, T)
    PROVE  \A s \in SUBSET S : s \in SUBSET T => g[s] = h[s]
<1> DEFINE Q == {s \in SUBSET S : s \in SUBSET T => g[s] = h[s]}
<1>1. ASSUME NEW s \in SUBSET S, \A r \in SUBSET s : r # s => r \in Q
      PROVE  s \in Q
  <2> SUFFICES ASSUME s \in SUBSET T PROVE g[s] = h[s]
    OBVIOUS
  <2>1. CASE s = {}
    BY <2>1 DEF Adds
  <2>2. CASE s # {}
    <3> DEFINE x == CHOOSE y \in s : TRUE
    <3>1. x \in s
      BY <2>2
    <3>2. g[s] = v[x] + g[s \ {x}] /\ h[s] = v[x] + h[s \ {x}]
      BY <2>2 DEF Adds
    <3> HIDE DEF x
    <3>3. s \ {x} \in Q /\ s \ {x} \in SUBSET T
      BY <1>1, <3>1
    <3> QED BY <3>2, <3>3
  <2> QED BY <2>1, <2>2
<1> HIDE DEF Q
<1>2. \A s \in SUBSET S : s \in Q
  BY <1>1, SubsetsBySize
<1> QED BY <1>2 DEF Q

LEMMA AddsExists ==
    ASSUME NEW v, NEW S, IsFiniteSet(S)
    PROVE  \E g : Adds(g, v, S)
<1> DEFINE Q == {s \in SUBSET S : \E g : Adds(g, v, s)}
<1>1. ASSUME NEW T \in SUBSET S, \A r \in SUBSET T : r # T => r \in Q
      PROVE  T \in Q
  <2> DEFINE fold(r) == CHOOSE h : Adds(h, v, r)
             g == [s \in SUBSET T |->
                     IF s = {} THEN 0
                     ELSE v[CHOOSE x \in s : TRUE]
                            + fold(s \ {CHOOSE x \in s : TRUE})[s \ {CHOOSE x \in s : TRUE}]]
  <2>1. ASSUME NEW r \in SUBSET T, r # T
        PROVE  g[r] = fold(r)[r]
    <3>1. Adds(fold(r), v, r)
      BY <1>1, <2>1
    <3>2. CASE r = {}
      BY <3>1, <3>2 DEF Adds
    <3>3. CASE r # {}
      <4> DEFINE x == CHOOSE y \in r : TRUE
                 q == r \ {x}
      <4>1. x \in r
        BY <3>3
      <4>2. g[r] = v[x] + fold(q)[q]
        BY <3>3
      <4>3. fold(r)[r] = v[x] + fold(r)[q]
        <5> HIDE DEF fold
        <5> QED BY <3>1, <3>3 DEF Adds
      <4> HIDE DEF x
      <4>4. q \in SUBSET T /\ q # T /\ q \in SUBSET r
        BY <4>1
      <4>5. Adds(fold(q), v, q)
        BY <1>1, <4>4
      <4>6. IsFiniteSet(q)
        BY <4>4, FS_Subset
      <4> HIDE DEF fold, q, g
      <4>7. fold(q)[q] = fold(r)[q]
        BY <3>1, <4>4, <4>5, <4>6, AddsSame
      <4> QED BY <4>2, <4>3, <4>7
    <3> QED BY <3>2, <3>3
  <2>2. ASSUME NEW s \in SUBSET T, s # {}
        PROVE  LET x == CHOOSE y \in s : TRUE
               IN  fold(s \ {x})[s \ {x}] = g[s \ {x}]
    <3> DEFINE x == CHOOSE y \in s : TRUE
    <3>1. x \in s
      BY <2>2
    <3> HIDE DEF x, g, fold
    <3>2. s \ {x} \in SUBSET T /\ s \ {x} # T
      BY <3>1
    <3>3. fold(s \ {x})[s \ {x}] = g[s \ {x}]
      BY <2>1, <3>2
    <3> QED BY <3>3 DEF x
  <2>3. Adds(g, v, T)
    <3> DEFINE w(s) == IF s = {} THEN 0
                       ELSE v[CHOOSE x \in s : TRUE] + g[s \ {CHOOSE x \in s : TRUE}]
    <3>1. \A s \in SUBSET T : g[s] = w(s)
      <4> SUFFICES ASSUME NEW s \in SUBSET T PROVE g[s] = w(s)
        OBVIOUS
      <4>1. CASE s = {}
        BY <4>1
      <4>2. CASE s # {}
        <5>1. g[s] = v[CHOOSE x \in s : TRUE]
                       + fold(s \ {CHOOSE x \in s : TRUE})[s \ {CHOOSE x \in s : TRUE}]
          BY <4>2
        <5> HIDE DEF g, fold
        <5> QED BY <4>2, <5>1, <2>2
      <4> QED BY <4>1, <4>2
    <3>2. g = [s \in SUBSET T |-> g[s]]
      OBVIOUS
    <3> HIDE DEF g, fold
    <3> QED BY <3>1, <3>2 DEF Adds
  <2> QED BY <2>3
<1> HIDE DEF Q
<1>2. \A s \in SUBSET S : s \in Q
  BY <1>1, SubsetsBySize
<1> QED BY <1>2 DEF Q

LEMMA AddsNat ==
    ASSUME NEW S, IsFiniteSet(S), NEW v, \A x \in S : v[x] \in Nat, NEW g, Adds(g, v, S)
    PROVE  \A s \in SUBSET S : g[s] \in Nat
<1> DEFINE Q == {s \in SUBSET S : g[s] \in Nat}
<1>1. ASSUME NEW s \in SUBSET S, \A r \in SUBSET s : r # s => r \in Q
      PROVE  s \in Q
  <2>1. CASE s = {}
    BY <2>1 DEF Adds
  <2>2. CASE s # {}
    <3> DEFINE x == CHOOSE y \in s : TRUE
    <3>1. x \in s
      BY <2>2
    <3>2. g[s] = v[x] + g[s \ {x}]
      BY <2>2 DEF Adds
    <3> HIDE DEF x
    <3>3. s \ {x} \in Q /\ v[x] \in Nat
      BY <1>1, <3>1
    <3> QED BY <3>2, <3>3
  <2> QED BY <2>1, <2>2
<1> HIDE DEF Q
<1>2. \A s \in SUBSET S : s \in Q
  BY <1>1, SubsetsBySize
<1> QED BY <1>2 DEF Q

LEMMA AddsInt ==
    ASSUME NEW S, IsFiniteSet(S), NEW v, \A x \in S : v[x] \in Int, NEW g, Adds(g, v, S)
    PROVE  \A s \in SUBSET S : g[s] \in Int
<1> DEFINE Q == {s \in SUBSET S : g[s] \in Int}
<1>1. ASSUME NEW s \in SUBSET S, \A r \in SUBSET s : r # s => r \in Q
      PROVE  s \in Q
  <2>1. CASE s = {}
    BY <2>1 DEF Adds
  <2>2. CASE s # {}
    <3> DEFINE x == CHOOSE y \in s : TRUE
    <3>1. x \in s
      BY <2>2
    <3>2. g[s] = v[x] + g[s \ {x}]
      BY <2>2 DEF Adds
    <3> HIDE DEF x
    <3>3. s \ {x} \in Q /\ v[x] \in Int
      BY <1>1, <3>1
    <3> QED BY <3>2, <3>3
  <2> QED BY <2>1, <2>2
<1> HIDE DEF Q
<1>2. \A s \in SUBSET S : s \in Q
  BY <1>1, SubsetsBySize
<1> QED BY <1>2 DEF Q

(* Whichever element the fold chose, any can be taken out of the sum.      *)
LEMMA AddsRemove ==
    ASSUME NEW S, IsFiniteSet(S), NEW v, \A x \in S : v[x] \in Int, NEW g, Adds(g, v, S)
    PROVE  \A s \in SUBSET S : \A x \in s : g[s] = v[x] + g[s \ {x}]
<1> DEFINE Q == {s \in SUBSET S : \A x \in s : g[s] = v[x] + g[s \ {x}]}
<1>1. ASSUME NEW s \in SUBSET S, \A r \in SUBSET s : r # s => r \in Q
      PROVE  s \in Q
  <2> SUFFICES ASSUME NEW x \in s PROVE g[s] = v[x] + g[s \ {x}]
    OBVIOUS
  <2> DEFINE c == CHOOSE y \in s : TRUE
  <2>1. c \in s /\ g[s] = v[c] + g[s \ {c}]
    BY DEF Adds
  <2> HIDE DEF c
  <2>2. CASE c = x
    BY <2>1, <2>2
  <2>3. CASE c # x
    <3>1. g[s \ {c}] = v[x] + g[(s \ {c}) \ {x}]
      <4>1. s \ {c} \in SUBSET s /\ s \ {c} # s /\ x \in s \ {c}
        BY <2>1, <2>3
      <4> QED BY <1>1, <4>1
    <3>2. g[s \ {x}] = v[c] + g[(s \ {x}) \ {c}]
      <4>1. s \ {x} \in SUBSET s /\ s \ {x} # s /\ c \in s \ {x}
        BY <2>1, <2>3
      <4> QED BY <1>1, <4>1
    <3>3. (s \ {c}) \ {x} = (s \ {x}) \ {c}
      OBVIOUS
    <3>4. v[c] \in Int /\ v[x] \in Int /\ g[(s \ {c}) \ {x}] \in Int
      <4>1. (s \ {c}) \ {x} \in SUBSET S
        OBVIOUS
      <4> QED BY <2>1, <4>1, AddsInt
    <3> DEFINE m == g[(s \ {c}) \ {x}]
    <3>5. g[s \ {x}] = v[c] + m
      BY <3>2, <3>3
    <3>6. g[s] = v[c] + (v[x] + m) /\ m \in Int
      BY <2>1, <3>1, <3>4
    <3> HIDE DEF m
    <3> QED BY <3>4, <3>5, <3>6
  <2> QED BY <2>2, <2>3
<1> HIDE DEF Q
<1>2. \A s \in SUBSET S : s \in Q
  BY <1>1, SubsetsBySize
<1> QED BY <1>2 DEF Q

LEMMA AddsMonotone ==
    ASSUME NEW S, IsFiniteSet(S), NEW v, \A x \in S : v[x] \in Nat, NEW g, Adds(g, v, S)
    PROVE  \A s \in SUBSET S : \A r \in SUBSET s : g[r] <= g[s]
<1> DEFINE Q == {s \in SUBSET S : \A r \in SUBSET s : g[r] <= g[s]}
<1>1. ASSUME NEW s \in SUBSET S, \A q \in SUBSET s : q # s => q \in Q
      PROVE  s \in Q
  <2> SUFFICES ASSUME NEW r \in SUBSET s PROVE g[r] <= g[s]
    OBVIOUS
  <2>1. g[r] \in Nat /\ g[s] \in Nat
    BY AddsNat
  <2>2. CASE r = s
    BY <2>1, <2>2
  <2>3. CASE r # s
    <3>1. PICK x \in s : x \notin r
      BY <2>3
    <3>2. s \ {x} \in Q /\ r \in SUBSET (s \ {x}) /\ s \ {x} \in SUBSET S
      BY <1>1, <3>1
    <3>3. g[r] <= g[s \ {x}] /\ g[s \ {x}] \in Nat /\ v[x] \in Nat
      BY <3>2, AddsNat
    <3>4. g[s] = v[x] + g[s \ {x}]
      BY AddsRemove
    <3> QED BY <2>1, <3>3, <3>4
  <2> QED BY <2>2, <2>3
<1> HIDE DEF Q
<1>2. \A s \in SUBSET S : s \in Q
  BY <1>1, SubsetsBySize
<1> QED BY <1>2 DEF Q

-----------------------------------------------------------------------------
(* The tokens of a set of sales.                                           *)
Total(S) == MapThenSumSet(LAMBDA s : OrderData[s.order].n, S)

SaleDocs == [id : Nat, order : Orders, status : Statuses]

LEMMA TotalIsFold ==
    ASSUME NEW S, IsFiniteSet(S), S \subseteq SaleDocs
    PROVE  \E g : Adds(g, [s \in S |-> OrderData[s.order].n], S) /\ Total(S) = g[S]
<1> DEFINE v == [s \in S |-> OrderData[s.order].n]
           F(g) == g = [s \in SUBSET S |->
                          IF s = {} THEN 0
                          ELSE OrderData[(CHOOSE x \in s : TRUE).order].n
                                 + g[s \ {CHOOSE x \in s : TRUE}]]
<1>1. \A g : Adds(g, v, S) <=> F(g)
  <2> SUFFICES ASSUME NEW g PROVE Adds(g, v, S) <=> F(g)
    OBVIOUS
  <2>1. \A s \in SUBSET S : s # {} =>
          v[CHOOSE x \in s : TRUE] = OrderData[(CHOOSE x \in s : TRUE).order].n
    OBVIOUS
  <2> HIDE DEF v
  <2> QED BY <2>1 DEF Adds
<1>2. \E g : F(g)
  <2> HIDE DEF v, F
  <2> QED BY <1>1, AddsExists
<1>3. Total(S) = (CHOOSE g : F(g))[S]
  BY DEF Total, MapThenSumSet, MapThenFoldSet
<1> HIDE DEF v, F
<1>4. F(CHOOSE g : F(g))
  BY <1>2
<1> QED BY <1>1, <1>3, <1>4 DEF v

LEMMA SaleWorth ==
    ASSUME NEW s \in SaleDocs
    PROVE  OrderData[s.order].n \in Nat \ {0}
BY MarketAssumption DEF SaleDocs, Tokens

LEMMA TotalNat ==
    ASSUME NEW S, IsFiniteSet(S), S \subseteq SaleDocs
    PROVE  Total(S) \in Nat
<1> DEFINE v == [s \in S |-> OrderData[s.order].n]
<1>1. \A x \in S : v[x] \in Nat
  BY SaleWorth
<1>2. PICK g : Adds(g, v, S) /\ Total(S) = g[S]
  BY TotalIsFold
<1> HIDE DEF v
<1> QED BY <1>1, <1>2, AddsNat

LEMMA TotalEmpty == Total({}) = 0
<1>1. PICK g : Adds(g, [s \in {} |-> OrderData[s.order].n], {}) /\ Total({}) = g[{}]
  BY TotalIsFold, FS_EmptySet
<1> QED BY <1>1 DEF Adds

LEMMA TotalParts ==
    ASSUME NEW S, IsFiniteSet(S), S \subseteq SaleDocs,
           NEW v, \A s \in S : v[s] = OrderData[s.order].n,
           NEW g, Adds(g, v, S)
    PROVE  \A U \in SUBSET S : Total(U) = g[U]
<1> SUFFICES ASSUME NEW U \in SUBSET S PROVE Total(U) = g[U]
  OBVIOUS
<1> DEFINE w == [s \in U |-> OrderData[s.order].n]
<1>1. IsFiniteSet(U) /\ U \subseteq SaleDocs
  BY FS_Subset
<1>2. PICK h : Adds(h, w, U) /\ Total(U) = h[U]
  BY <1>1, TotalIsFold
<1>3. Adds(h, v, U)
  <2>1. \A s \in SUBSET U : s # {} => w[CHOOSE x \in s : TRUE] = v[CHOOSE x \in s : TRUE]
    OBVIOUS
  <2> HIDE DEF w
  <2> QED BY <1>2, <2>1 DEF Adds
<1> HIDE DEF w
<1>4. \A s \in SUBSET U : s \in SUBSET S => h[s] = g[s]
  BY <1>1, <1>3, AddsSame
<1> QED BY <1>2, <1>4

LEMMA TotalSubset ==
    ASSUME NEW S, IsFiniteSet(S), S \subseteq SaleDocs, NEW T \in SUBSET S
    PROVE  /\ Total(T) <= Total(S)
           /\ \A x \in S : Total(S \ {x}) + OrderData[x.order].n = Total(S)
<1> SUFFICES ASSUME NEW v, \A s \in S : v[s] = OrderData[s.order].n,
                    NEW g, Adds(g, v, S)
             PROVE  /\ Total(T) <= Total(S)
                    /\ \A x \in S : Total(S \ {x}) + OrderData[x.order].n = Total(S)
  <2> DEFINE v == [s \in S |-> OrderData[s.order].n]
  <2>1. \A s \in S : v[s] = OrderData[s.order].n
    OBVIOUS
  <2>2. \E g : Adds(g, v, S)
    BY TotalIsFold
  <2> HIDE DEF v
  <2> QED BY <2>1, <2>2
<1>1. \A x \in S : v[x] \in Nat
  BY SaleWorth
<1>2. \A U \in SUBSET S : Total(U) = g[U]
  BY TotalParts
<1>3. Total(T) <= Total(S)
  <2>1. g[T] <= g[S]
    BY <1>1, AddsMonotone
  <2> QED BY <2>1, <1>2
<1>4. ASSUME NEW x \in S
      PROVE  Total(S \ {x}) + OrderData[x.order].n = Total(S)
  <2>1. g[S] = v[x] + g[S \ {x}]
    BY <1>1, AddsRemove
  <2>2. \A s \in SUBSET S : g[s] \in Nat
    BY <1>1, AddsNat
  <2>3. S \in SUBSET S /\ S \ {x} \in SUBSET S
    OBVIOUS
  <2>4. Total(S) = OrderData[x.order].n + Total(S \ {x})
    BY <1>2, <2>1, <2>3
  <2>5. Total(S \ {x}) \in Nat /\ OrderData[x.order].n \in Nat
    BY <1>2, <2>2, <2>3, SaleWorth
  <2> QED BY <2>4, <2>5
<1> QED BY <1>3, <1>4

(* What one more sale adds.                                                *)
LEMMA TotalInsert ==
    ASSUME NEW S, IsFiniteSet(S), S \subseteq SaleDocs, NEW x \in SaleDocs
    PROVE  Total(S \cup {x}) <= Total(S) + OrderData[x.order].n
<1>1. IsFiniteSet(S \cup {x}) /\ S \cup {x} \subseteq SaleDocs
  BY FS_AddElement
<1>2. Total((S \cup {x}) \ {x}) + OrderData[x.order].n = Total(S \cup {x})
  BY <1>1, TotalSubset
<1>3. Total((S \cup {x}) \ {x}) <= Total(S)
  BY TotalSubset
<1>4. IsFiniteSet((S \cup {x}) \ {x}) /\ (S \cup {x}) \ {x} \subseteq SaleDocs
  BY FS_Subset
<1>5. Total(S) \in Nat /\ Total((S \cup {x}) \ {x}) \in Nat
  BY <1>4, TotalNat
<1> QED BY <1>2, <1>3, <1>5, SaleWorth

LEMMA TotalPositive ==
    ASSUME NEW S, IsFiniteSet(S), S \subseteq SaleDocs
    PROVE  Total(S) > 0 <=> S # {}
<1>1. CASE S = {}
  BY <1>1, TotalEmpty
<1>2. ASSUME NEW x \in S PROVE Total(S) > 0
  <2>1. Total(S \ {x}) + OrderData[x.order].n = Total(S)
    BY TotalSubset
  <2>2. Total(S \ {x}) \in Nat /\ OrderData[x.order].n \in Nat \ {0}
    BY FS_Subset, TotalNat, SaleWorth
  <2> QED BY <2>1, <2>2
<1> QED BY <1>1, <1>2

-----------------------------------------------------------------------------
(* What each user holds after a save: the operators of CardDocument on     *)
(* documents of the type CardStore_proofs established.                     *)
LEMMA SameDocument ==
    ASSUME NEW bal, NEW u, NEW n
    PROVE  /\ Proved!Holders(bal) = Holders(bal)
           /\ Proved!Entry(bal, u) = Entry(bal, u)
           /\ Proved!AmountOf(bal, u) = AmountOf(bal, u)
           /\ Proved!OneEntryEach(bal) <=> OneEntryEach(bal)
           /\ Proved!Debited(bal, u, n) = Debited(bal, u, n)
           /\ \A had : Proved!Credited(bal, had, u, n) = Credited(bal, had, u, n)
BY DEF Proved!Holders, Holders, Proved!Entry, Entry, Proved!AmountOf, AmountOf,
       Proved!OneEntryEach, OneEntryEach, Proved!Debited, Debited, Proved!Credited, Credited,
       Proved!WithAmount, WithAmount, Proved!RemoveAt, RemoveAt

(* One entry each: the entry of a user is the one that names them.         *)
LEMMA AmountAt ==
    ASSUME NEW bal, OneEntryEach(bal)
    PROVE  /\ \A i \in DOMAIN bal : /\ Entry(bal, bal[i].user) = i
                                    /\ AmountOf(bal, bal[i].user) = bal[i].amount
           /\ \A u : u \notin Holders(bal) => AmountOf(bal, u) = 0
           /\ \A u : u \in Holders(bal) =>
                /\ Entry(bal, u) \in DOMAIN bal /\ bal[Entry(bal, u)].user = u
                /\ AmountOf(bal, u) = bal[Entry(bal, u)].amount
<1>1. ASSUME NEW i \in DOMAIN bal
      PROVE  Entry(bal, bal[i].user) = i
  BY DEF Entry, OneEntryEach
<1>2. \A i \in DOMAIN bal : bal[i].user \in Holders(bal)
  BY DEF Holders
<1> QED BY <1>1, <1>2 DEF AmountOf, Holders, Entry

Accounts == Proved!Balances

LEMMA AccountsTyped ==
    ASSUME NEW bal \in Accounts
    PROVE  /\ Len(bal) \in Nat /\ DOMAIN bal = 1..Len(bal)
           /\ \A i \in DOMAIN bal : /\ bal[i] = [user |-> bal[i].user, amount |-> bal[i].amount]
                                    /\ bal[i].user \in Users /\ bal[i].amount \in Nat \ {0}
<1>1. Len(bal) \in Nat /\ DOMAIN bal = 1..Len(bal)
  BY LenProperties DEF Accounts, Proved!Balances
<1>2. \A i \in DOMAIN bal : bal[i] \in [user : Users, amount : Nat \ {0}]
  BY <1>1, ElementOfSeq DEF Accounts, Proved!Balances
<1> QED BY <1>1, <1>2

LEMMA AmountNat ==
    ASSUME NEW bal \in Accounts, NEW u
    PROVE  AmountOf(bal, u) \in Nat /\ (u \in Holders(bal) <=> AmountOf(bal, u) > 0)
<1>1. u \in Holders(bal) => Entry(bal, u) \in DOMAIN bal
  BY DEF Entry, Holders
<1> QED BY <1>1, AccountsTyped DEF AmountOf

LEMMA WithAmountAt ==
    ASSUME NEW bal \in Accounts, NEW i \in DOMAIN bal, NEW m \in Nat \ {0}
    PROVE  /\ DOMAIN WithAmount(bal, i, m) = DOMAIN bal
           /\ \A j \in DOMAIN bal : WithAmount(bal, i, m)[j]
                = IF j = i THEN [user |-> bal[i].user, amount |-> m] ELSE bal[j]
           /\ \A j \in DOMAIN bal : WithAmount(bal, i, m)[j].user = bal[j].user
BY DEF WithAmount

LEMMA DebitedAmounts ==
    ASSUME NEW bal \in Accounts, OneEntryEach(bal), NEW u \in Holders(bal), NEW n \in Nat \ {0}
    PROVE  /\ Debited(bal, u, n) \in Accounts /\ OneEntryEach(Debited(bal, u, n))
           /\ AmountOf(Debited(bal, u, n), u)
                = IF AmountOf(bal, u) > n THEN AmountOf(bal, u) - n ELSE 0
           /\ \A w : w # u => AmountOf(Debited(bal, u, n), w) = AmountOf(bal, w)
<1> DEFINE new == Debited(bal, u, n)
           i   == Entry(bal, u)
<1>1. new \in Accounts /\ OneEntryEach(new)
  <2>1. bal \in Proved!Balances /\ Proved!OneEntryEach(bal) /\ u \in Proved!Holders(bal)
    BY SameDocument DEF Accounts
  <2>2. /\ Proved!Debited(bal, u, n) \in Proved!Balances
        /\ Proved!OneEntryEach(Proved!Debited(bal, u, n))
    BY <2>1, StoreConstants, Proved!DebitedProperties
  <2> QED BY <2>2, SameDocument DEF Accounts
<1>2. i \in DOMAIN bal /\ bal[i].user = u /\ AmountOf(bal, u) = bal[i].amount
  BY AmountAt
<1>3. /\ Len(bal) \in Nat /\ DOMAIN bal = 1..Len(bal)
      /\ \A j \in DOMAIN bal : bal[j].amount \in Nat \ {0}
  BY AccountsTyped
<1>4. CASE AmountOf(bal, u) > n
  <2> DEFINE m == bal[i].amount - n
  <2>1. m \in Nat \ {0}
    BY <1>2, <1>3, <1>4
  <2>2. new = WithAmount(bal, i, m)
    BY <2>1 DEF Debited
  <2> HIDE DEF i, m, new
  <2>3. /\ DOMAIN new = DOMAIN bal
        /\ \A j \in DOMAIN bal : new[j].user = bal[j].user
        /\ \A j \in DOMAIN bal : new[j] = IF j = i THEN [user |-> bal[i].user, amount |-> m]
                                                   ELSE bal[j]
    BY <1>2, <2>1, <2>2, WithAmountAt
  <2>4. AmountOf(new, u) = m
    <3>1. new[i].user = u /\ new[i].amount = m /\ i \in DOMAIN new
      BY <1>2, <2>3
    <3> QED BY <3>1, <1>1, AmountAt
  <2>5. ASSUME NEW w, w # u PROVE AmountOf(new, w) = AmountOf(bal, w)
    <3>1. CASE w \in Holders(bal)
      <4>1. PICK j \in DOMAIN bal : bal[j].user = w
        BY <3>1 DEF Holders
      <4>2. j \in DOMAIN new /\ new[j] = bal[j]
        BY <4>1, <1>2, <2>3, <2>5
      <4> QED BY <4>1, <4>2, <1>1, AmountAt
    <3>2. CASE w \notin Holders(bal)
      <4>1. w \notin Holders(new)
        BY <3>2, <2>3 DEF Holders
      <4> QED BY <3>2, <4>1 DEF AmountOf
    <3> QED BY <3>1, <3>2
  <2>6. AmountOf(bal, u) - n = m
    BY <1>2 DEF m
  <2> QED BY <1>1, <1>4, <2>4, <2>5, <2>6 DEF new
<1>5. CASE ~(AmountOf(bal, u) > n)
  <2>1. new = RemoveAt(bal, i)
    BY <1>2, <1>3, <1>5 DEF Debited
  <2> HIDE DEF i, new
  <2>2. /\ DOMAIN new = 1..(Len(bal) - 1)
        /\ \A j \in 1..(Len(bal) - 1) : new[j] = bal[IF j < i THEN j ELSE j + 1]
    <3>1. Proved!RemoveAt(bal, i) = RemoveAt(bal, i)
      BY DEF Proved!RemoveAt, RemoveAt
    <3>2. bal \in Seq([user : Users, amount : Nat \ {0}]) /\ i \in 1..Len(bal)
      BY <1>2, <1>3 DEF Accounts, Proved!Balances
    <3> QED BY <2>1, <3>1, <3>2, StoreConstants, Proved!RemoveAtProperties
  <2>3. ASSUME NEW j \in DOMAIN bal, j # i
        PROVE  \E k \in DOMAIN new : new[k] = bal[j]
    <3>1. CASE j < i
      <4>1. j \in 1..(Len(bal) - 1)
        BY <3>1, <1>2, <1>3
      <4> QED BY <3>1, <4>1, <2>2
    <3>2. CASE ~(j < i)
      <4>1. j - 1 \in 1..(Len(bal) - 1) /\ ~(j - 1 < i) /\ (j - 1) + 1 = j
        BY <3>2, <2>3, <1>2, <1>3
      <4> QED BY <4>1, <2>2
    <3> QED BY <3>1, <3>2
  <2>4. ASSUME NEW k \in DOMAIN new
        PROVE  \E j \in DOMAIN bal : j # i /\ new[k] = bal[j]
    <3> DEFINE j == IF k < i THEN k ELSE k + 1
    <3>1. k \in 1..(Len(bal) - 1)
      BY <2>2
    <3>2. j \in DOMAIN bal /\ j # i
      BY <3>1, <1>2, <1>3
    <3> QED BY <2>2, <3>1, <3>2
  <2>5. AmountOf(new, u) = 0
    <3>1. u \notin Holders(new)
      BY <1>2, <2>4 DEF Holders, OneEntryEach
    <3> QED BY <3>1 DEF AmountOf
  <2>6. ASSUME NEW w, w # u PROVE AmountOf(new, w) = AmountOf(bal, w)
    <3>1. CASE w \in Holders(bal)
      <4>1. PICK j \in DOMAIN bal : bal[j].user = w
        BY <3>1 DEF Holders
      <4>2. PICK k \in DOMAIN new : new[k] = bal[j]
        BY <4>1, <1>2, <2>3, <2>6
      <4> QED BY <4>1, <4>2, <1>1, AmountAt
    <3>2. CASE w \notin Holders(bal)
      <4>1. w \notin Holders(new)
        BY <3>2, <2>4 DEF Holders
      <4> QED BY <3>2, <4>1 DEF AmountOf
    <3> QED BY <3>1, <3>2
  <2> QED BY <1>1, <1>5, <2>5, <2>6 DEF new
<1> QED BY <1>4, <1>5

LEMMA CreditedAmounts ==
    ASSUME NEW bal \in Accounts, OneEntryEach(bal), NEW u \in Users, NEW n \in Nat \ {0},
           NEW had \in BOOLEAN, ~had => u \notin Holders(bal)
    PROVE  /\ Credited(bal, had, u, n) \in Accounts /\ OneEntryEach(Credited(bal, had, u, n))
           /\ AmountOf(Credited(bal, had, u, n), u)
                = IF had /\ u \notin Holders(bal) THEN 0 ELSE AmountOf(bal, u) + n
           /\ \A w : w # u => AmountOf(Credited(bal, had, u, n), w) = AmountOf(bal, w)
<1> DEFINE new == Credited(bal, had, u, n)
           i   == Entry(bal, u)
<1>1. new \in Accounts /\ OneEntryEach(new)
  <2>1. /\ bal \in Proved!Balances /\ Proved!OneEntryEach(bal)
        /\ ~had => u \notin Proved!Holders(bal)
    BY SameDocument DEF Accounts
  <2>2. /\ Proved!Credited(bal, had, u, n) \in Proved!Balances
        /\ Proved!OneEntryEach(Proved!Credited(bal, had, u, n))
    BY <2>1, StoreConstants, Proved!CreditedProperties
  <2> QED BY <2>2, SameDocument DEF Accounts
<1>2. /\ Len(bal) \in Nat /\ DOMAIN bal = 1..Len(bal)
      /\ \A j \in DOMAIN bal : bal[j].amount \in Nat \ {0}
  BY AccountsTyped
<1>3. CASE ~had
  <2> DEFINE e == [user |-> u, amount |-> n]
  <2>1. new = Append(bal, e)
    BY <1>3 DEF Credited
  <2>2. e.user = u /\ e.amount = n
    OBVIOUS
  <2>3. e \in [user : Users, amount : Nat \ {0}]
    OBVIOUS
  <2> HIDE DEF e, new
  <2>4. /\ DOMAIN new = 1..(Len(bal) + 1)
        /\ \A j \in DOMAIN bal : new[j] = bal[j]
        /\ new[Len(bal) + 1] = e
    <3>1. bal \in Seq([user : Users, amount : Nat \ {0}])
      BY DEF Accounts, Proved!Balances
    <3> QED BY <2>1, <2>3, <3>1, <1>2, AppendProperties
  <2>5. AmountOf(new, u) = n /\ AmountOf(bal, u) = 0
    <3>1. Len(bal) + 1 \in DOMAIN new /\ new[Len(bal) + 1].user = u
      BY <2>2, <2>4, <1>2
    <3>2. AmountOf(new, u) = n
      BY <3>1, <2>2, <2>4, <1>1, AmountAt
    <3> QED BY <3>2, <1>3 DEF AmountOf
  <2>6. ASSUME NEW w, w # u PROVE AmountOf(new, w) = AmountOf(bal, w)
    <3>1. CASE w \in Holders(bal)
      <4>1. PICK j \in DOMAIN bal : bal[j].user = w
        BY <3>1 DEF Holders
      <4>2. j \in DOMAIN new /\ new[j] = bal[j]
        BY <4>1, <1>2, <2>4
      <4> QED BY <4>1, <4>2, <1>1, AmountAt
    <3>2. CASE w \notin Holders(bal)
      <4>1. \A j \in DOMAIN new : j \in DOMAIN bal \/ j = Len(bal) + 1
        BY <2>4, <1>2
      <4>2. w \notin Holders(new)
        BY <3>2, <4>1, <2>2, <2>4, <2>6 DEF Holders
      <4> QED BY <3>2, <4>2 DEF AmountOf
    <3> QED BY <3>1, <3>2
  <2> QED BY <1>1, <1>3, <2>5, <2>6 DEF new
<1>4. CASE had /\ u \in Holders(bal)
  <2> DEFINE m == AmountOf(bal, u) + n
  <2>1. i \in DOMAIN bal /\ bal[i].user = u /\ AmountOf(bal, u) = bal[i].amount
    BY <1>4, AmountAt
  <2>2. m \in Nat \ {0}
    BY <2>1, <1>2
  <2>3. new = WithAmount(bal, i, m)
    BY <1>4 DEF Credited
  <2> HIDE DEF i, m, new
  <2>4. /\ DOMAIN new = DOMAIN bal
        /\ \A j \in DOMAIN bal : new[j].user = bal[j].user
        /\ \A j \in DOMAIN bal : new[j] = IF j = i THEN [user |-> bal[i].user, amount |-> m]
                                                   ELSE bal[j]
    BY <2>1, <2>2, <2>3, WithAmountAt
  <2>5. AmountOf(new, u) = m
    <3>1. new[i].user = u /\ new[i].amount = m /\ i \in DOMAIN new
      BY <2>1, <2>4
    <3> QED BY <3>1, <1>1, AmountAt
  <2>6. ASSUME NEW w, w # u PROVE AmountOf(new, w) = AmountOf(bal, w)
    <3>1. CASE w \in Holders(bal)
      <4>1. PICK j \in DOMAIN bal : bal[j].user = w
        BY <3>1 DEF Holders
      <4>2. j \in DOMAIN new /\ new[j] = bal[j]
        BY <4>1, <2>1, <2>4, <2>6
      <4> QED BY <4>1, <4>2, <1>1, AmountAt
    <3>2. CASE w \notin Holders(bal)
      <4>1. w \notin Holders(new)
        BY <3>2, <2>4 DEF Holders
      <4> QED BY <3>2, <4>1 DEF AmountOf
    <3> QED BY <3>1, <3>2
  <2> QED BY <1>1, <1>4, <2>5, <2>6 DEF new, m
<1>5. CASE had /\ u \notin Holders(bal)
  BY <1>1, <1>5 DEF Credited, AmountOf
<1> QED BY <1>3, <1>4, <1>5

(* An amount that changes in place changes nothing else.                   *)
LEMMA DebitedInPlace ==
    ASSUME NEW bal \in Accounts, OneEntryEach(bal), NEW u \in Holders(bal), NEW n \in Nat \ {0},
           AmountOf(bal, u) > n
    PROVE  /\ DOMAIN Debited(bal, u, n) = DOMAIN bal
           /\ Holders(Debited(bal, u, n)) = Holders(bal)
           /\ \A j \in DOMAIN bal :
                /\ Debited(bal, u, n)[j].user = bal[j].user
                /\ bal[j].user # u => Debited(bal, u, n)[j] = bal[j]
<1> DEFINE i == Entry(bal, u)
           m == bal[i].amount - n
<1>1. i \in DOMAIN bal /\ bal[i].user = u /\ AmountOf(bal, u) = bal[i].amount
  BY AmountAt
<1>2. bal[i].amount \in Nat \ {0}
  BY <1>1, AccountsTyped
<1>3. m \in Nat \ {0}
  BY <1>1, <1>2
<1>4. Debited(bal, u, n) = WithAmount(bal, i, m)
  BY <1>3 DEF Debited
<1> HIDE DEF i, m
<1> DEFINE new == Debited(bal, u, n)
<1> HIDE DEF new
<1>5. /\ DOMAIN new = DOMAIN bal
      /\ \A j \in DOMAIN bal : new[j] = IF j = i THEN [user |-> bal[i].user, amount |-> m]
                                                 ELSE bal[j]
      /\ \A j \in DOMAIN bal : new[j].user = bal[j].user
  BY <1>1, <1>3, <1>4, WithAmountAt DEF new
<1>6. \A j \in DOMAIN bal : bal[j].user # u => new[j] = bal[j]
  BY <1>1, <1>5
<1> QED BY <1>5, <1>6 DEF Holders, new

LEMMA CreditedInPlace ==
    ASSUME NEW bal \in Accounts, OneEntryEach(bal), NEW u \in Holders(bal), NEW n \in Nat \ {0}
    PROVE  /\ DOMAIN Credited(bal, TRUE, u, n) = DOMAIN bal
           /\ \A j \in DOMAIN bal :
                /\ Credited(bal, TRUE, u, n)[j].user = bal[j].user
                /\ bal[j].user # u => Credited(bal, TRUE, u, n)[j] = bal[j]
<1> DEFINE i == Entry(bal, u)
           m == AmountOf(bal, u) + n
<1>1. i \in DOMAIN bal /\ bal[i].user = u /\ AmountOf(bal, u) = bal[i].amount
  BY AmountAt
<1>2. bal[i].amount \in Nat \ {0}
  BY <1>1, AccountsTyped
<1>3. m \in Nat \ {0}
  BY <1>1, <1>2
<1> DEFINE new == Credited(bal, TRUE, u, n)
<1>4. new = WithAmount(bal, i, m)
  BY DEF Credited
<1> HIDE DEF i, m, new
<1>5. /\ DOMAIN new = DOMAIN bal
      /\ \A j \in DOMAIN bal : new[j] = IF j = i THEN [user |-> bal[i].user, amount |-> m]
                                                 ELSE bal[j]
      /\ \A j \in DOMAIN bal : new[j].user = bal[j].user
  BY <1>1, <1>3, <1>4, WithAmountAt
<1>6. \A j \in DOMAIN bal : bal[j].user # u => new[j] = bal[j]
  BY <1>1, <1>5
<1> QED BY <1>5, <1>6 DEF new

(* A positional save leaves what was computed, when what was computed      *)
(* differs only in the entries it addresses.                               *)
LEMMA PositionalSave ==
    ASSUME NEW doc, NEW upd, doc.bal \in Accounts, upd.bal \in Accounts,
           DOMAIN upd.bal = DOMAIN doc.bal,
           \A j \in DOMAIN doc.bal : /\ upd.bal[j].user = doc.bal[j].user
                                     /\ j \notin upd.at => upd.bal[j] = doc.bal[j]
    PROVE  Saved(doc, upd).bal = upd.bal
<1>1. CASE upd.kind = "replace"
  BY <1>1 DEF Saved
<1>2. CASE upd.kind # "replace"
  <2> DEFINE mix == [i \in DOMAIN doc.bal |->
                       IF i \in upd.at
                       THEN [user |-> doc.bal[i].user, amount |-> upd.bal[i].amount]
                       ELSE doc.bal[i]]
  <2>1. Saved(doc, upd).bal = mix
    BY <1>2 DEF Saved
  <2>2. \A j \in DOMAIN doc.bal : mix[j] = upd.bal[j]
    BY AccountsTyped
  <2>3. upd.bal = [j \in DOMAIN doc.bal |-> upd.bal[j]]
    <3>1. upd.bal \in Seq([user : Users, amount : Nat \ {0}])
      BY DEF Accounts, Proved!Balances
    <3>2. upd.bal = [j \in DOMAIN upd.bal |-> upd.bal[j]]
      BY <3>1
    <3> QED BY <3>2
  <2>4. mix = [j \in DOMAIN doc.bal |-> mix[j]]
    OBVIOUS
  <2> HIDE DEF mix
  <2> QED BY <2>1, <2>2, <2>3, <2>4
<1> QED BY <1>1, <1>2

(* What changeOwnerships and its save do to what each user holds.  A user  *)
(* who transfers all they have to themselves loses it.                     *)
Transferred(bal, new, n, maker, taker) ==
    \A w : AmountOf(new, w) =
             IF w = maker
               THEN IF AmountOf(bal, w) <= n THEN 0
                    ELSE IF taker = maker THEN AmountOf(bal, w)
                    ELSE AmountOf(bal, w) - n
               ELSE IF w = taker THEN AmountOf(bal, w) + n
               ELSE AmountOf(bal, w)

LEMMA TransferAmounts ==
    ASSUME NEW c, NEW doc, doc.bal \in Accounts, OneEntryEach(doc.bal),
           NEW n \in Nat \ {0}, NEW maker \in Holders(doc.bal), NEW taker \in Users
    PROVE  LET upd == ChangeOwnerships(c, doc, n, maker, taker)
           IN  upd.kind # "delete" /\ Transferred(doc.bal, Saved(doc, upd).bal, n, maker, taker)
<1> SUFFICES ASSUME NEW upd, upd = ChangeOwnerships(c, doc, n, maker, taker)
             PROVE  upd.kind # "delete" /\ Transferred(doc.bal, Saved(doc, upd).bal, n, maker, taker)
  OBVIOUS
<1> DEFINE had  == taker \in Holders(doc.bal)
           less == Debited(doc.bal, maker, n)
           new  == Credited(less, had, taker, n)
           gone == AmountOf(doc.bal, maker) <= n
<1>1. /\ upd.card = c /\ upd.v = doc.v /\ upd.bal = new /\ ~upd.supply
      /\ upd.kind = IF gone \/ ~had THEN "replace" ELSE "set"
      /\ upd.at = {i \in DOMAIN doc.bal : doc.bal[i].user \in {maker, taker}}
  BY DEF ChangeOwnerships
<1>2. \A w : AmountOf(doc.bal, w) \in Nat
  BY AmountNat
<1>3. /\ less \in Accounts /\ OneEntryEach(less)
      /\ AmountOf(less, maker) = IF AmountOf(doc.bal, maker) > n
                                 THEN AmountOf(doc.bal, maker) - n ELSE 0
      /\ \A w : w # maker => AmountOf(less, w) = AmountOf(doc.bal, w)
  BY DebitedAmounts
<1>4. ~had => taker \notin Holders(less)
  <2> HIDE DEF less
  <2>1. \A w : w \in Holders(less) <=> AmountOf(less, w) > 0
    BY <1>3, AmountNat
  <2>2. \A w : w \in Holders(doc.bal) <=> AmountOf(doc.bal, w) > 0
    BY AmountNat
  <2> QED BY <2>1, <2>2, <1>3
<1>5. had \in BOOLEAN
  OBVIOUS
<1>6. /\ new \in Accounts /\ OneEntryEach(new)
      /\ AmountOf(new, taker) = IF had /\ taker \notin Holders(less) THEN 0
                                ELSE AmountOf(less, taker) + n
      /\ \A w : w # taker => AmountOf(new, w) = AmountOf(less, w)
  <2> HIDE DEF had, less
  <2> QED BY <1>3, <1>4, <1>5, CreditedAmounts
<1>7. Saved(doc, upd).bal = new
  <2>1. CASE gone \/ ~had
    BY <1>1, <2>1 DEF Saved
  <2>2. CASE ~gone /\ had
    <3>1. AmountOf(doc.bal, maker) > n
      BY <1>2, <2>2
    <3>2. /\ DOMAIN less = DOMAIN doc.bal
          /\ Holders(less) = Holders(doc.bal)
          /\ \A j \in DOMAIN doc.bal :
               /\ less[j].user = doc.bal[j].user
               /\ doc.bal[j].user # maker => less[j] = doc.bal[j]
      BY <3>1, DebitedInPlace
    <3>3. new = Credited(less, TRUE, taker, n) /\ taker \in Holders(less)
      <4>1. had = TRUE
        BY <2>2
      <4> QED BY <4>1, <3>2, <2>2
    <3> HIDE DEF less, new
    <3>4. /\ DOMAIN new = DOMAIN less
          /\ \A j \in DOMAIN less :
               /\ new[j].user = less[j].user
               /\ less[j].user # taker => new[j] = less[j]
      BY <3>3, <1>3, CreditedInPlace
    <3>5. /\ DOMAIN upd.bal = DOMAIN doc.bal /\ upd.bal \in Accounts
          /\ \A j \in DOMAIN doc.bal : /\ upd.bal[j].user = doc.bal[j].user
                                       /\ j \notin upd.at => upd.bal[j] = doc.bal[j]
      BY <3>2, <3>4, <1>1, <1>6
    <3> QED BY <3>5, <1>1, PositionalSave
  <2> QED BY <2>1, <2>2
<1>8. AmountOf(doc.bal, maker) > 0
  BY AmountNat
<1>9. maker = taker => (had /\ (taker \in Holders(less) <=> AmountOf(less, taker) > 0))
  <2> HIDE DEF less
  <2> QED BY <1>3, AmountNat
<1>10. maker # taker /\ had => taker \in Holders(less)
  <2> HIDE DEF less
  <2>1. taker \in Holders(less) <=> AmountOf(less, taker) > 0
    BY <1>3, AmountNat
  <2>2. had => AmountOf(doc.bal, taker) > 0
    BY AmountNat
  <2> QED BY <1>3, <2>1, <2>2
<1> HIDE DEF less, new, had
<1>11. ASSUME NEW w
       PROVE  AmountOf(new, w) =
                IF w = maker
                  THEN IF AmountOf(doc.bal, w) <= n THEN 0
                       ELSE IF taker = maker THEN AmountOf(doc.bal, w)
                       ELSE AmountOf(doc.bal, w) - n
                  ELSE IF w = taker THEN AmountOf(doc.bal, w) + n
                  ELSE AmountOf(doc.bal, w)
  <2>1. AmountOf(doc.bal, w) \in Nat /\ AmountOf(doc.bal, maker) \in Nat
    BY <1>2
  <2>2. CASE w = maker /\ taker = maker
    BY <2>1, <2>2, <1>3, <1>6, <1>8, <1>9
  <2>3. CASE w = maker /\ taker # maker
    BY <2>1, <2>3, <1>3, <1>6
  <2>4. CASE w # maker /\ w = taker
    BY <2>1, <2>4, <1>3, <1>6, <1>10
  <2>5. CASE w # maker /\ w # taker
    BY <2>1, <2>5, <1>3, <1>6
  <2> QED BY <2>2, <2>3, <2>4, <2>5
<1> QED BY <1>1, <1>7, <1>11 DEF Transferred

(* What burnCard and its save do; the last entry takes the card with it.   *)
Burned(bal, new, n, owner) ==
    \A w : AmountOf(new, w) = IF w # owner THEN AmountOf(bal, w)
                              ELSE IF AmountOf(bal, w) > n THEN AmountOf(bal, w) - n ELSE 0

BurnedAway(bal, n, owner) ==
    AmountOf(bal, owner) <= n /\ \A w : w # owner => AmountOf(bal, w) = 0

LEMMA BurnAmounts ==
    ASSUME NEW c, NEW doc, doc.bal \in Accounts, OneEntryEach(doc.bal),
           NEW n \in Nat \ {0}, NEW owner \in Holders(doc.bal)
    PROVE  LET upd == BurnCard(c, doc, n, owner)
           IN  /\ upd.kind = "delete" => BurnedAway(doc.bal, n, owner)
               /\ upd.kind # "delete" => Burned(doc.bal, Saved(doc, upd).bal, n, owner)
<1> SUFFICES ASSUME NEW upd, upd = BurnCard(c, doc, n, owner)
             PROVE  /\ upd.kind = "delete" => BurnedAway(doc.bal, n, owner)
                    /\ upd.kind # "delete" => Burned(doc.bal, Saved(doc, upd).bal, n, owner)
  OBVIOUS
<1> DEFINE less == Debited(doc.bal, owner, n)
           gone == AmountOf(doc.bal, owner) <= n
<1>1. /\ upd.card = c /\ upd.v = doc.v /\ upd.bal = less
      /\ upd.kind = BurnKind(less, gone)
      /\ upd.at = {i \in DOMAIN doc.bal : doc.bal[i].user = owner}
  BY DEF BurnCard
<1>2. \A w : AmountOf(doc.bal, w) \in Nat
  BY AmountNat
<1>3. /\ less \in Accounts /\ OneEntryEach(less)
      /\ AmountOf(less, owner) = IF AmountOf(doc.bal, owner) > n
                                 THEN AmountOf(doc.bal, owner) - n ELSE 0
      /\ \A w : w # owner => AmountOf(less, w) = AmountOf(doc.bal, w)
  BY DebitedAmounts
<1>4. CASE upd.kind = "delete"
  <2>1. less = <<>>
    BY <1>1, <1>4 DEF BurnKind
  <2>2. \A w : AmountOf(less, w) = 0
    <3>1. \A w : w \notin Holders(less)
      BY <2>1 DEF Holders
    <3> QED BY <3>1 DEF AmountOf
  <2> HIDE DEF less
  <2> QED BY <2>2, <1>1, <1>2, <1>3, <1>4 DEF BurnedAway
<1>5. CASE upd.kind # "delete"
  <2>1. Saved(doc, upd).bal = less
    <3>1. CASE gone
      <4>1. upd.kind = "replace"
        BY <1>1, <1>5, <3>1 DEF BurnKind
      <4> QED BY <4>1, <1>1 DEF Saved
    <3>2. CASE ~gone
      <4>1. AmountOf(doc.bal, owner) > n
        BY <1>2, <3>2
      <4>2. /\ DOMAIN less = DOMAIN doc.bal
            /\ \A j \in DOMAIN doc.bal :
                 /\ less[j].user = doc.bal[j].user
                 /\ doc.bal[j].user # owner => less[j] = doc.bal[j]
        BY <4>1, DebitedInPlace
      <4> HIDE DEF less
      <4>3. /\ DOMAIN upd.bal = DOMAIN doc.bal /\ upd.bal \in Accounts
            /\ \A j \in DOMAIN doc.bal : /\ upd.bal[j].user = doc.bal[j].user
                                         /\ j \notin upd.at => upd.bal[j] = doc.bal[j]
        BY <4>2, <1>1, <1>3
      <4> QED BY <4>3, <1>1, PositionalSave
    <3> QED BY <3>1, <3>2
  <2> HIDE DEF less
  <2> QED BY <2>1, <1>1, <1>3, <1>5 DEF Burned
<1> HIDE DEF less
<1> QED BY <1>1, <1>4, <1>5

-----------------------------------------------------------------------------
(* One handler after another, none killed, no order listed twice and no    *)
(* two fills of one card in a block: what the theorems below assume.       *)
OneFillPerCard ==
    \A blk \in Blocks : \A f, g \in blk.sale :
        OrderData[f.order].card = OrderData[g.order].card => f = g

Serial ==
    /\ MaxInFlight = 1 /\ MaxCrashes = 0 /\ ~Resubmits
    /\ OneFillPerCard
    /\ \A i, j \in DOMAIN Listed : Listed[i] = Listed[j] => i = j

(* Whose turn it is: everybody else is at rest.                            *)
WalkersRest(but)  == \A l \in Walkers : l # but => walk[l].pc = "idle"
RequestsRest(but) == \A r \in Requests : r # but => req[r].pc = "idle"

WalkerTurn(l)  == WalkersRest(l) /\ sell.pc = "idle" /\ \A r \in Requests : req[r].pc = "idle"
SellTurn       == (\A l \in Walkers : walk[l].pc = "idle") /\ \A r \in Requests : req[r].pc = "idle"
RequestTurn(r) == (\A l \in Walkers : walk[l].pc = "idle") /\ sell.pc = "idle" /\ RequestsRest(r)

Alone ==
    /\ strays = {} /\ crashes = 0
    /\ SellTurn \/ (\E l \in Walkers : WalkerTurn(l)) \/ (\E r \in Requests : RequestTurn(r))

(* Orders and sales: one sale per order, and an order that is about to be  *)
(* stored was never listed.                                                *)
OrdersInv ==
    /\ IsFiniteSet(sales)
    /\ \A s, t \in sales : s.order = t.order \/ s.id = t.id => s = t
    /\ \A s \in sales : s.id <= created
    /\ \A s \in sales : s.order \in signed
    /\ \A r \in Requests : req[r].pc \in {"sum", "store"} => req[r].order \notin signed

FilledIn(k) == {f.order : f \in chain[k].sale}

(* An order is filled in one block, and a sold sale was filled in a block  *)
(* the sell listener is done with, or has marked.                          *)
Marked(k) ==
    \/ k < cursor["sale"]
    \/ k = cursor["sale"] /\ sell.pc \in {"apply", "flags", "increase"}

FillsInv ==
    /\ \A j, k \in DOMAIN chain : \A o \in FilledIn(j) : o \in FilledIn(k) => j = k
    /\ \A s \in sales : s.status = "sold" =>
         \E k \in DOMAIN chain : s.order \in FilledIn(k) /\ Marked(k)

(* The tasks of a block, one per card, and the cards to look at afterwards.*)
TaskSave(t) ==
    LET o == OrderData[t.order]
    IN  /\ cards[o.card] # NoCard /\ o.user \in Holders(cards[o.card].bal)
        /\ t.upd = {ChangeOwnerships(o.card, cards[o.card], o.n, o.user, t.taker)}

SellInv ==
    /\ sell.pc \in {"idle", "mark", "apply", "flags", "increase"}
    /\ sell.pc \notin {"mark", "apply"} => sell.tasks = {}
    /\ sell.pc \notin {"mark", "apply", "flags"} => sell.flags = {}
    /\ \A t, u \in sell.tasks : OrderData[t.order].card = OrderData[u.order].card => t = u
    /\ \A t \in sell.tasks : t.pc \in {"read", "save"} /\ (t.pc = "save" => TaskSave(t))
    /\ sell.pc = "mark" =>
         /\ cursor["sale"] \in DOMAIN chain
         /\ \A s \in sales : s.order \in FilledIn(cursor["sale"]) =>
              s.status = "sale" /\ \E f \in sell.flags : f.card = CardOf(s)
         /\ \A t \in sell.tasks : /\ t.pc = "read"
                                  /\ t.order \in FilledIn(cursor["sale"])
                                  /\ \E s \in sales : s.order = t.order
    /\ \A f \in sell.flags :
         /\ DOMAIN f = {"id", "card", "pc", "hs"} /\ f.card \in Cards
         /\ f.pc \in {"exists", "flag"}
         /\ f.pc = "flag" => sell.pc = "flags" /\ f.hs = ExistsSale(f.card)

(* What a listener carries from one call to the next.                      *)
Computed(l, e) ==
    IF l = "transfer" THEN ChangeOwnerships(e.card, cards[e.card], e.n, e.from, e.to)
                      ELSE BurnCard(e.card, cards[e.card], e.n, e.from)

Carries(l) ==
    LET e == Event(l)
    IN  /\ walk[l].pc = "save" => /\ cards[e.card] # NoCard
                                  /\ e.from \in Holders(cards[e.card].bal)
                                  /\ walk[l].upd = {Computed(l, e)}
        /\ walk[l].pc = "load" => walk[l].onSale = Total(SalesOf(e.card, e.from))
        /\ walk[l].pc = "dropCard" => cards[e.card] = NoCard
        /\ walk[l].pc = "drop" => Total(SalesOf(e.card, e.from)) > HeldBy(e.card, e.from)
        /\ walk[l].pc = "flag" => walk[l].hs = ExistsSale(e.card)

WalksInv == \A l \in Walkers : Carries(l)

Asks(r) ==
    LET o == OrderData[req[r].order]
    IN  /\ req[r].pc = "sum" => req[r].amount = HeldBy(o.card, o.user)
        /\ req[r].pc = "store" => Total(SalesOf(o.card, o.user)) + o.n <= HeldBy(o.card, o.user)
        /\ req[r].pc = "flag" => req[r].hs = ExistsSale(o.card)
        /\ req[r].pc = "delete" =>
             \A s \in sales : s.id = req[r].id => s.order = req[r].order

RequestsInv == \A r \in Requests : Asks(r)

(* hasSale is right of every card nobody is about to look at again.        *)
ToFlag(c) ==
    \/ \E f \in sell.flags : f.card = c
    \/ \E l \in Walkers : walk[l].pc \in {"exists", "flag"} /\ Event(l).card = c
    \/ \E r \in Requests : req[r].pc \in {"exists", "flag"} /\ OrderData[req[r].order].card = c

Accurate(c) == cards[c] = NoCard \/ hasSale[c] = ExistsSale(c)

FlagsInv == DOMAIN hasSale = Cards /\ \A c \in Cards : ToFlag(c) \/ Accurate(c)

SerialInv == Alone /\ OrdersInv /\ FillsInv /\ SellInv /\ WalksInv /\ RequestsInv /\ FlagsInv

(* Sales are covered, but for those of the owner a listener is about to    *)
(* look at; a sold order not yet applied is covered on top.                *)
LiveSales(c, u) == {s \in SalesOf(c, u) : s.status = "sale"}

Unchecked(c, u) ==
    \E l \in Walkers : /\ walk[l].pc \in {"sum", "load", "dropCard", "drop"}
                       /\ Event(l).card = c /\ Event(l).from = u

CoverInv ==
    /\ \A c \in Cards, u \in Users : Unchecked(c, u) \/ Total(LiveSales(c, u)) <= HeldBy(c, u)
    /\ sell.pc = "apply" => \A t \in sell.tasks :
         LET o == OrderData[t.order]
         IN  Total(LiveSales(o.card, o.user)) + o.n <= HeldBy(o.card, o.user)

-----------------------------------------------------------------------------
LEMMA TurnOf ==
    ASSUME Alone
    PROVE  /\ \A l \in Walkers : walk[l].pc # "idle" => WalkerTurn(l)
           /\ sell.pc # "idle" => SellTurn
           /\ \A r \in Requests : req[r].pc # "idle" => RequestTurn(r)
BY DEF Alone, SellTurn, WalkerTurn, RequestTurn, WalkersRest, RequestsRest

(* A handler may start when all are at rest.                               *)
LEMMA AllAtRest ==
    ASSUME Alone, InFlight < 1
    PROVE  /\ \A l \in Walkers : walk[l].pc = "idle"
           /\ \A r \in Requests : req[r].pc = "idle"
           /\ sell.pc = "idle"
<1> DEFINE W == {l \in Walkers : walk[l].pc # "idle"}
           R == {r \in Requests : req[r].pc # "idle"}
           S == IF sell.pc = "idle" THEN 0 ELSE 1
<1>1. IsFiniteSet(W) /\ IsFiniteSet(R)
  <2>1. (\E x : W \subseteq {x}) /\ (\E x : R \subseteq {x})
    <3>1. CASE SellTurn
      BY <3>1 DEF SellTurn
    <3>2. ASSUME NEW l \in Walkers, WalkerTurn(l)
          PROVE  W \subseteq {l} /\ R \subseteq {l}
      BY <3>2 DEF WalkerTurn, WalkersRest
    <3>3. ASSUME NEW r \in Requests, RequestTurn(r)
          PROVE  W \subseteq {r} /\ R \subseteq {r}
      BY <3>3 DEF RequestTurn, RequestsRest
    <3> QED BY <3>1, <3>2, <3>3 DEF Alone
  <2>2. \A x : IsFiniteSet({x})
    BY FS_Singleton
  <2> HIDE DEF W, R
  <2>3. ASSUME NEW x, NEW T, T \subseteq {x} PROVE IsFiniteSet(T)
    BY <2>2, <2>3, FS_Subset
  <2> QED BY <2>1, <2>3
<1>2. Cardinality(strays) = 0
  BY FS_EmptySet DEF Alone
<1>3. InFlight = Cardinality(W) + Cardinality(R) + S + Cardinality(strays)
  BY DEF InFlight
<1>4. S \in {0, 1} /\ (S = 0 => sell.pc = "idle")
  OBVIOUS
<1> HIDE DEF W, R, S
<1>5. Cardinality(W) \in Nat /\ Cardinality(R) \in Nat
  BY <1>1, FS_CardinalityType
<1>6. Cardinality(W) = 0 /\ Cardinality(R) = 0 /\ S = 0
  BY <1>2, <1>3, <1>4, <1>5
<1>7. W = {} /\ R = {}
  BY <1>1, <1>6, FS_EmptySet
<1> QED BY <1>4, <1>6, <1>7 DEF W, R

-----------------------------------------------------------------------------
(* The turn of a listener of transfers or burns.                           *)
LEMMA WalkerFlags ==
    ASSUME SerialInv, NEW l \in Walkers, WalkerTurn(l), NEW c \in Cards
    PROVE  Accurate(c) \/ (walk[l].pc \in {"exists", "flag"} /\ Event(l).card = c)
<1>1. sell.flags = {}
  BY DEF SerialInv, SellInv, WalkerTurn
<1> QED BY <1>1 DEF SerialInv, FlagsInv, ToFlag, WalkerTurn, WalkersRest

LEMMA WalkerAlone ==
    ASSUME SerialInv, NEW l \in Walkers, WalkerTurn(l),
           \A k \in Walkers \ {l} : walk'[k] = walk[k],
           sales' \subseteq sales, cursor'["sale"] = cursor["sale"],
           UNCHANGED <<chain, created, signed, sell, strays, req, crashes>>,
           Carries(l)', DOMAIN hasSale' = Cards,
           \A c \in Cards :
             Accurate(c)' \/ (walk'[l].pc \in {"exists", "flag"} /\ Event(l)'.card = c)
    PROVE  SerialInv'
<1>1. \A k \in Walkers : k # l => walk'[k].pc = "idle"
  BY DEF WalkerTurn, WalkersRest
<1>2. sell.pc = "idle" /\ sell.tasks = {} /\ sell.flags = {}
  BY DEF SerialInv, SellInv, WalkerTurn
<1>3. \A r \in Requests : req'[r].pc = "idle"
  BY DEF WalkerTurn
<1>4. Alone'
  <2>1. WalkerTurn(l)'
    BY <1>1, <1>2, <1>3 DEF WalkerTurn, WalkersRest
  <2> QED BY <2>1 DEF Alone, SerialInv
<1>5. OrdersInv'
  <2>1. IsFiniteSet(sales')
    BY FS_Subset DEF SerialInv, OrdersInv
  <2> QED BY <2>1 DEF SerialInv, OrdersInv
<1>6. FillsInv'
  <2>1. \A k : Marked(k)' <=> Marked(k)
    BY DEF Marked
  <2>2. \A k : FilledIn(k)' = FilledIn(k)
    BY DEF FilledIn
  <2> QED BY <2>1, <2>2 DEF SerialInv, FillsInv
<1>7. SellInv'
  BY <1>2 DEF SellInv
<1>8. WalksInv'
  BY <1>1 DEF WalksInv, Carries
<1>9. RequestsInv'
  BY <1>3 DEF RequestsInv, Asks
<1>10. FlagsInv'
  BY DEF FlagsInv, ToFlag
<1> QED BY <1>4, <1>5, <1>6, <1>7, <1>8, <1>9, <1>10 DEF SerialInv

(* What the theorems of CardStore_proofs say of the collection.            *)
StoreSound == Proved!TypeOK /\ Proved!OneEntryPerHolder

LEMMA DocsSound ==
    ASSUME StoreSound
    PROVE  /\ DOMAIN cards = Cards
           /\ \A c \in Cards : cards[c] # NoCard =>
                /\ cards[c] \in Proved!Docs
                /\ cards[c].bal \in Accounts /\ OneEntryEach(cards[c].bal)
<1>1. cards \in [Cards -> Proved!Docs \cup {NoCard}]
  BY DEF StoreSound, Proved!TypeOK
<1>2. \A c \in Cards : cards[c] # NoCard => OneEntryEach(cards[c].bal)
  BY SameDocument DEF StoreSound, Proved!OneEntryPerHolder
<1>3. \A doc \in Proved!Docs : doc.bal \in Accounts
  BY DEF Proved!Docs, Accounts
<1> QED BY <1>1, <1>2, <1>3

LEMMA WalkEvents ==
    ASSUME Inv, NEW l \in Walkers, walk[l].pc \notin {"idle", "increase"}
    PROVE  /\ Event(l).card \in Cards /\ Event(l).from \in Users /\ Event(l).n \in Nat \ {0}
           /\ l = "transfer" => Event(l).to \in Users
<1>1. Event(l) \in EventsOf(l)
  BY WalkerFacts
<1>2. EventAmounts \subseteq Nat \ {0}
  BY StoreConstants
<1> QED BY <1>1, <1>2 DEF EventsOf, TransferEvents, BurnEvents

LEMMA AccurateKept ==
    ASSUME UNCHANGED <<cards, hasSale, sales>>, NEW c
    PROVE  Accurate(c)' <=> Accurate(c)
BY DEF Accurate, ExistsSale, CardOf

(* A step that only moves the listener to another call or event.           *)
LEMMA WalkerMoves ==
    ASSUME SerialInv, NEW l \in Walkers, WalkerTurn(l), DOMAIN walk = Walkers,
           NEW w, walk' = [walk EXCEPT ![l] = w],
           cursor'["sale"] = cursor["sale"],
           UNCHANGED <<chain, db, sell, strays, req, crashes>>,
           Carries(l)',
           walk[l].pc \in {"exists", "flag"} =>
             w.pc \in {"exists", "flag"} /\ w.todo = walk[l].todo
    PROVE  SerialInv'
<1>1. /\ \A k \in Walkers \ {l} : walk'[k] = walk[k]
      /\ walk'[l] = w
  OBVIOUS
<1>2. ASSUME NEW c \in Cards
      PROVE  Accurate(c)' \/ (walk'[l].pc \in {"exists", "flag"} /\ Event(l)'.card = c)
  <2>1. Accurate(c)' <=> Accurate(c)
    BY AccurateKept DEF db
  <2>2. CASE walk[l].pc \in {"exists", "flag"}
    <3>1. Event(l)' = Event(l)
      BY <1>1, <2>2 DEF Event
    <3> QED BY <1>1, <2>1, <2>2, <3>1, WalkerFlags
  <2>3. CASE walk[l].pc \notin {"exists", "flag"}
    BY <2>1, <2>3, WalkerFlags
  <2> QED BY <2>2, <2>3
<1>3. DOMAIN hasSale' = Cards
  BY DEF SerialInv, FlagsInv, db
<1> QED BY <1>1, <1>2, <1>3, WalkerAlone DEF db

LEMMA SerialNextEvent ==
    ASSUME SerialInv, Inv, NEW l \in Walkers, WalkerTurn(l), NextEvent(l),
           sales' \subseteq sales,
           UNCHANGED <<chain, cursor, created, signed, sell, strays, req, crashes>>,
           DOMAIN hasSale' = Cards, \A c \in Cards : Accurate(c)'
    PROVE  SerialInv' /\ walk'[l].pc \in {"find", "increase"}
<1> DEFINE rest == Tail(walk[l].todo)
           w    == [Resting EXCEPT !.pc = IF rest = <<>> THEN "increase" ELSE "find",
                                   !.todo = rest]
<1>1. walk' = [walk EXCEPT ![l] = w] /\ DOMAIN walk = Walkers
  BY DEF NextEvent, Inv, WalkInv
<1>2. w.pc \in {"find", "increase"}
  BY DEF Resting
<1> HIDE DEF w
<1>3. walk'[l] = w /\ \A k \in Walkers \ {l} : walk'[k] = walk[k]
  BY <1>1
<1>4. Carries(l)'
  BY <1>2, <1>3 DEF Carries
<1> QED BY <1>2, <1>3, <1>4, WalkerAlone

LEMMA SerialStartWalk ==
    ASSUME SerialInv, Inv, Serial, NEW l \in Walkers, StartWalk(l)
    PROVE  SerialInv' /\ WalkerTurn(l)
<1> DEFINE events == IF l = "transfer" THEN chain[cursor[l]].transfer
                                       ELSE chain[cursor[l]].burn
           w      == [walk[l] EXCEPT !.pc = IF events = <<>> THEN "increase" ELSE "find",
                                     !.todo = events]
<1>1. WalkerTurn(l)
  BY AllAtRest DEF StartWalk, Serial, SerialInv, WalkerTurn, WalkersRest
<1>2. /\ walk' = [walk EXCEPT ![l] = w] /\ DOMAIN walk = Walkers
      /\ UNCHANGED <<chain, cursor, db, sell, strays, req, crashes>>
  BY DEF StartWalk, Inv, WalkInv
<1>3. DOMAIN walk[l] = {"pc", "todo", "upd", "onSale", "hs"} /\ walk[l].pc = "idle"
  BY DEF Inv, WalkInv, WalkerOK, StartWalk
<1>4. w.pc \in {"find", "increase"}
  BY <1>3
<1> HIDE DEF w
<1>5. walk'[l] = w
  BY <1>2
<1>6. Carries(l)'
  BY <1>4, <1>5 DEF Carries
<1> QED BY <1>1, <1>2, <1>3, <1>6, WalkerMoves

LEMMA SerialFindTransferred ==
    ASSUME SerialInv, Inv, FindTransferred
    PROVE  SerialInv' /\ WalkerTurn("transfer")
<1> DEFINE l   == "transfer"
           e   == Event(l)
           doc == cards[e.card]
<1>1. /\ l \in Walkers /\ walk[l].pc = "find" /\ DOMAIN walk = Walkers
      /\ UNCHANGED <<chain, cursor, db, sell, strays, req, crashes>>
  BY DEF FindTransferred, Walkers, Inv, WalkInv
<1>2. WalkerTurn(l)
  BY <1>1, TurnOf DEF SerialInv
<1>3. DOMAIN walk[l] = {"pc", "todo", "upd", "onSale", "hs"}
  BY <1>1, WalkerFacts
<1>4. CASE Leave(l)
  <2>1. walk'[l] = Resting
    BY <1>1, <1>4 DEF Leave
  <2>2. Carries(l)'
    BY <2>1 DEF Carries, Resting
  <2> QED BY <1>1, <1>2, <1>4, <2>2, WalkerMoves DEF Leave
<1>5. CASE GoTo(l, "sum")
  <2> DEFINE w == [walk[l] EXCEPT !.pc = "sum"]
  <2>1. walk' = [walk EXCEPT ![l] = w]
    BY <1>5 DEF GoTo
  <2>2. w.pc = "sum"
    BY <1>3
  <2> HIDE DEF w
  <2>3. Carries(l)'
    BY <1>1, <2>1, <2>2 DEF Carries
  <2> QED BY <1>1, <1>2, <2>1, <2>3, WalkerMoves
<1>6. CASE /\ doc # NoCard /\ e.from \in Holders(doc.bal)
           /\ walk' = [walk EXCEPT
                         !["transfer"].pc = "save",
                         !["transfer"].upd =
                            {ChangeOwnerships(e.card, doc, e.n, e.from, e.to)}]
  <2> DEFINE upd == ChangeOwnerships(e.card, doc, e.n, e.from, e.to)
             w   == [walk[l] EXCEPT !.pc = "save", !.upd = {upd}]
  <2>1. walk' = [walk EXCEPT ![l] = w]
    BY <1>6
  <2>2. w.pc = "save" /\ w.upd = {upd} /\ w.todo = walk[l].todo
    BY <1>3
  <2> HIDE DEF w
  <2>3. walk'[l] = w
    BY <1>1, <2>1
  <2>4. Event(l)' = e /\ UNCHANGED cards
    BY <1>1, <2>2, <2>3 DEF Event, db
  <2>5. Carries(l)'
    BY <1>6, <2>2, <2>3, <2>4 DEF Carries, Computed
  <2> QED BY <1>1, <1>2, <2>1, <2>5, WalkerMoves
<1> QED BY <1>2, <1>4, <1>5, <1>6 DEF FindTransferred

LEMMA SerialFindBurned ==
    ASSUME SerialInv, Inv, FindBurned
    PROVE  SerialInv' /\ WalkerTurn("burn")
<1> DEFINE l   == "burn"
           e   == Event(l)
           doc == cards[e.card]
<1>1. /\ l \in Walkers /\ walk[l].pc = "find" /\ DOMAIN walk = Walkers
      /\ UNCHANGED <<chain, cursor, db, sell, strays, req, crashes>>
  BY DEF FindBurned, Walkers, Inv, WalkInv
<1>2. WalkerTurn(l)
  BY <1>1, TurnOf DEF SerialInv
<1>3. DOMAIN walk[l] = {"pc", "todo", "upd", "onSale", "hs"}
  BY <1>1, WalkerFacts
<1>4. CASE NextEvent(l)
  <2>1. DOMAIN hasSale' = Cards /\ sales' \subseteq sales
    BY <1>1 DEF SerialInv, FlagsInv, db
  <2>2. \A c \in Cards : Accurate(c)'
    <3>1. \A c \in Cards : Accurate(c)
      BY <1>1, <1>2, WalkerFlags
    <3>2. UNCHANGED <<cards, hasSale, sales>>
      BY <1>1 DEF db
    <3> QED BY <3>1, <3>2, AccurateKept
  <2> QED BY <1>1, <1>2, <1>4, <2>1, <2>2, SerialNextEvent DEF db
<1>5. CASE /\ doc # NoCard /\ e.from \in Holders(doc.bal)
           /\ walk' = [walk EXCEPT !["burn"].pc = "save",
                                   !["burn"].upd = {BurnCard(e.card, doc, e.n, e.from)}]
  <2> DEFINE upd == BurnCard(e.card, doc, e.n, e.from)
             w   == [walk[l] EXCEPT !.pc = "save", !.upd = {upd}]
  <2>1. walk' = [walk EXCEPT ![l] = w]
    BY <1>5
  <2>2. w.pc = "save" /\ w.upd = {upd} /\ w.todo = walk[l].todo
    BY <1>3
  <2> HIDE DEF w
  <2>3. walk'[l] = w
    BY <1>1, <2>1
  <2>4. Event(l)' = e /\ UNCHANGED cards
    BY <1>1, <2>2, <2>3 DEF Event, db
  <2>5. Carries(l)'
    BY <1>5, <2>2, <2>3, <2>4 DEF Carries, Computed
  <2> QED BY <1>1, <1>2, <2>1, <2>5, WalkerMoves
<1> QED BY <1>2, <1>4, <1>5 DEF FindBurned

(* The save a listener is about to send is accepted: nothing changed since *)
(* it read the document.                                                   *)
LEMMA ComputedAccepted ==
    ASSUME SerialInv, Inv, NEW l \in Walkers, walk[l].pc = "save"
    PROVE  /\ Event(l).card \in Cards /\ cards[Event(l).card] # NoCard
           /\ Event(l).from \in Holders(cards[Event(l).card].bal)
           /\ walk[l].upd = {Computed(l, Event(l))}
           /\ Computed(l, Event(l)).card = Event(l).card
           /\ Accepts(cards[Event(l).card], Computed(l, Event(l)))
<1>1. Carries(l)
  BY DEF SerialInv, WalksInv
<1>2. \A e : Computed(l, e).card = e.card /\ Computed(l, e).v = cards[e.card].v
  BY DEF Computed, ChangeOwnerships, BurnCard
<1> QED BY <1>1, <1>2, WalkEvents DEF Carries, Accepts

LEMMA SerialSaveCard ==
    ASSUME SerialInv, Inv, StoreSound, NEW l \in Walkers, SaveCard(l)
    PROVE  /\ SerialInv' /\ WalkerTurn(l)
           /\ walk'[l].pc = "sum" /\ Event(l)' = Event(l)
           /\ LET upd == Computed(l, Event(l))
              IN  cards' = [cards EXCEPT ![Event(l).card] =
                              IF upd.kind = "delete" THEN NoCard ELSE Saved(@, upd)]
<1> DEFINE e   == Event(l)
           upd == Computed(l, e)
           w   == [walk[l] EXCEPT !.pc = "sum", !.upd = {}]
           new == IF upd.kind = "delete" THEN NoCard ELSE Saved(cards[e.card], upd)
<1>1. /\ walk[l].pc = "save" /\ DOMAIN walk = Walkers
      /\ UNCHANGED <<chain, cursor, hasSale, sales, created, signed, sell, strays, req, crashes>>
  BY DEF SaveCard, Inv, WalkInv
<1>2. WalkerTurn(l)
  BY <1>1, TurnOf DEF SerialInv
<1>3. /\ e.card \in Cards /\ cards[e.card] # NoCard
      /\ walk[l].upd = {upd} /\ upd.card = e.card /\ Accepts(cards[e.card], upd)
  BY <1>1, ComputedAccepted
<1>4. DOMAIN walk[l] = {"pc", "todo", "upd", "onSale", "hs"}
  BY <1>1, WalkerFacts
<1>5. /\ walk' = [walk EXCEPT ![l] = w]
      /\ cards' = [cards EXCEPT ![e.card] = new]
  <2> HIDE DEF upd, e
  <2> QED BY <1>3 DEF SaveCard
<1>6. w.pc = "sum" /\ w.todo = walk[l].todo
  BY <1>4
<1> HIDE DEF w, new
<1>7. walk'[l] = w /\ \A k \in Walkers \ {l} : walk'[k] = walk[k]
  BY <1>1, <1>5
<1>8. Carries(l)'
  BY <1>6, <1>7 DEF Carries
<1>9. DOMAIN hasSale' = Cards
  BY <1>1 DEF SerialInv, FlagsInv
<1>10. ASSUME NEW c \in Cards PROVE Accurate(c)'
  <2>1. Accurate(c)
    BY <1>1, <1>2, WalkerFlags
  <2>2. cards[c] = NoCard => cards'[c] = NoCard
    BY <1>3, <1>5, DocsSound
  <2> QED BY <2>1, <2>2, <1>1 DEF Accurate, ExistsSale, CardOf
<1>11. SerialInv'
  BY <1>1, <1>2, <1>7, <1>8, <1>9, <1>10, WalkerAlone
<1>12. Event(l)' = e
  BY <1>6, <1>7 DEF Event
<1> QED BY <1>2, <1>5, <1>6, <1>7, <1>11, <1>12 DEF new

LEMMA OnSaleIsTotal ==
    ASSUME NEW c, NEW u
    PROVE  OnSale(c, u) = Total(SalesOf(c, u)) /\ LiveOn(c, u) = Total(LiveSales(c, u))
BY DEF OnSale, LiveOn, Total, LiveSales

LEMMA SerialSumOnSale ==
    ASSUME SerialInv, Inv, NEW l \in Walkers, SumOnSale(l)
    PROVE  SerialInv' /\ WalkerTurn(l)
<1> DEFINE e     == Event(l)
           total == OnSale(e.card, e.from)
           w     == [walk[l] EXCEPT !.pc = "load", !.onSale = total]
<1>1. /\ walk[l].pc = "sum" /\ DOMAIN walk = Walkers
      /\ UNCHANGED <<chain, cursor, db, sell, strays, req, crashes>>
  BY DEF SumOnSale, Inv, WalkInv
<1>2. WalkerTurn(l)
  BY <1>1, TurnOf DEF SerialInv
<1>3. CASE NextEvent(l)
  <2>1. DOMAIN hasSale' = Cards /\ sales' \subseteq sales
    BY <1>1 DEF SerialInv, FlagsInv, db
  <2>2. \A c \in Cards : Accurate(c)'
    <3>1. \A c \in Cards : Accurate(c)
      BY <1>1, <1>2, WalkerFlags
    <3>2. UNCHANGED <<cards, hasSale, sales>>
      BY <1>1 DEF db
    <3> QED BY <3>1, <3>2, AccurateKept
  <2> QED BY <1>1, <1>2, <1>3, <2>1, <2>2, SerialNextEvent DEF db
<1>4. CASE walk' = [walk EXCEPT ![l].pc = "load", ![l].onSale = total]
  <2>1. walk' = [walk EXCEPT ![l] = w]
    BY <1>4
  <2>2. DOMAIN walk[l] = {"pc", "todo", "upd", "onSale", "hs"}
    BY <1>1, WalkerFacts
  <2>3. w.pc = "load" /\ w.onSale = total /\ w.todo = walk[l].todo
    BY <2>2
  <2> HIDE DEF w
  <2>4. walk'[l] = w
    BY <1>1, <2>1
  <2>5. Event(l)' = e /\ UNCHANGED sales
    BY <1>1, <2>3, <2>4 DEF Event, db
  <2>6. total = Total(SalesOf(e.card, e.from))
    BY OnSaleIsTotal
  <2> HIDE DEF total, e
  <2>7. Carries(l)'
    BY <2>3, <2>4, <2>5, <2>6 DEF Carries, SalesOf, CardOf, MakerOf
  <2> QED BY <1>1, <1>2, <2>1, <2>7, WalkerMoves
<1> QED BY <1>2, <1>3, <1>4 DEF SumOnSale

LEMMA SerialLoadCard ==
    ASSUME SerialInv, Inv, StoreSound, NEW l \in Walkers, LoadCard(l)
    PROVE  SerialInv' /\ WalkerTurn(l)
<1> DEFINE e   == Event(l)
           doc == cards[e.card]
           pc  == IF doc = NoCard THEN "dropCard"
                  ELSE IF walk[l].onSale > AmountOf(doc.bal, e.from) THEN "drop"
                  ELSE "exists"
           w   == [walk[l] EXCEPT !.pc = pc]
<1>1. /\ walk[l].pc = "load" /\ DOMAIN walk = Walkers
      /\ UNCHANGED <<chain, cursor, db, sell, strays, req, crashes>>
  BY DEF LoadCard, Inv, WalkInv
<1>2. WalkerTurn(l)
  BY <1>1, TurnOf DEF SerialInv
<1>3. walk' = [walk EXCEPT ![l] = w]
  BY DEF LoadCard, GoTo
<1>4. DOMAIN walk[l] = {"pc", "todo", "upd", "onSale", "hs"}
  BY <1>1, WalkerFacts
<1>5. walk[l].onSale = Total(SalesOf(e.card, e.from))
  BY <1>1 DEF SerialInv, WalksInv, Carries
<1>6. w.pc = pc /\ w.todo = walk[l].todo
  BY <1>4
<1>7. pc = "dropCard" => doc = NoCard
  OBVIOUS
<1>8. pc = "drop" => Total(SalesOf(e.card, e.from)) > HeldBy(e.card, e.from)
  BY <1>5 DEF HeldBy
<1>9. pc \in {"dropCard", "drop", "exists"}
  OBVIOUS
<1> HIDE DEF w, pc
<1>10. walk'[l] = w
  BY <1>1, <1>3
<1>11. Event(l)' = e /\ UNCHANGED <<sales, cards>>
  BY <1>1, <1>6, <1>10 DEF Event, db
<1> HIDE DEF e
<1>12. Carries(l)'
  BY <1>6, <1>7, <1>8, <1>9, <1>10, <1>11
     DEF Carries, SalesOf, CardOf, MakerOf, HeldBy
<1> QED BY <1>1, <1>2, <1>3, <1>12, WalkerMoves

LEMMA SerialDropSalesOfCard ==
    ASSUME SerialInv, Inv, NEW l \in Walkers, DropSalesOfCard(l)
    PROVE  SerialInv' /\ WalkerTurn(l)
<1> DEFINE e == Event(l)
<1>1. /\ walk[l].pc = "dropCard" /\ DOMAIN walk = Walkers /\ NextEvent(l)
      /\ UNCHANGED <<chain, cursor, cards, hasSale, created, signed, sell, strays, req, crashes>>
      /\ sales' = {s \in sales : CardOf(s) # e.card}
  BY DEF DropSalesOfCard, Inv, WalkInv
<1>2. WalkerTurn(l)
  BY <1>1, TurnOf DEF SerialInv
<1>3. cards[e.card] = NoCard
  BY <1>1 DEF SerialInv, WalksInv, Carries
<1>4. ASSUME NEW c \in Cards PROVE Accurate(c)'
  <2>1. Accurate(c)
    BY <1>1, <1>2, WalkerFlags
  <2>2. CASE c = e.card
    BY <2>2, <1>1, <1>3 DEF Accurate
  <2>3. CASE c # e.card
    <3> HIDE DEF e
    <3>1. ExistsSale(c)' = ExistsSale(c)
      BY <2>3, <1>1 DEF ExistsSale, CardOf
    <3> QED BY <2>1, <3>1, <1>1 DEF Accurate
  <2> QED BY <2>2, <2>3
<1>5. DOMAIN hasSale' = Cards /\ sales' \subseteq sales
  BY <1>1 DEF SerialInv, FlagsInv
<1> QED BY <1>1, <1>2, <1>4, <1>5, SerialNextEvent

LEMMA SerialDropSalesOfOwner ==
    ASSUME SerialInv, Inv, NEW l \in Walkers, DropSalesOfOwner(l)
    PROVE  SerialInv' /\ WalkerTurn(l)
<1> DEFINE e == Event(l)
           w == [walk[l] EXCEPT !.pc = "exists"]
<1>1. /\ walk[l].pc = "drop" /\ DOMAIN walk = Walkers
      /\ UNCHANGED <<chain, cursor, cards, hasSale, created, signed, sell, strays, req, crashes>>
      /\ sales' = sales \ SalesOf(e.card, e.from)
      /\ walk' = [walk EXCEPT ![l] = w]
  BY DEF DropSalesOfOwner, GoTo, Inv, WalkInv
<1>2. WalkerTurn(l)
  BY <1>1, TurnOf DEF SerialInv
<1>3. DOMAIN walk[l] = {"pc", "todo", "upd", "onSale", "hs"}
  BY <1>1, WalkerFacts
<1>4. w.pc = "exists" /\ w.todo = walk[l].todo
  BY <1>3
<1> HIDE DEF w
<1>5. walk'[l] = w /\ \A k \in Walkers \ {l} : walk'[k] = walk[k]
  BY <1>1
<1>6. Event(l)' = e
  BY <1>4, <1>5 DEF Event
<1>7. Carries(l)'
  BY <1>4, <1>5 DEF Carries
<1>8. ASSUME NEW c \in Cards, c # e.card PROVE Accurate(c)'
  <2>1. Accurate(c)
    BY <1>1, <1>2, WalkerFlags
  <2> HIDE DEF e
  <2>2. ExistsSale(c)' = ExistsSale(c)
    BY <1>8, <1>1 DEF ExistsSale, CardOf, SalesOf
  <2> QED BY <2>1, <2>2, <1>1 DEF Accurate
<1>9. DOMAIN hasSale' = Cards /\ sales' \subseteq sales
  BY <1>1 DEF SerialInv, FlagsInv
<1> HIDE DEF e
<1>10. \A c \in Cards :
         Accurate(c)' \/ (walk'[l].pc \in {"exists", "flag"} /\ Event(l)'.card = c)
  BY <1>4, <1>5, <1>6, <1>8
<1> QED BY <1>1, <1>2, <1>5, <1>7, <1>9, <1>10, WalkerAlone

LEMMA SerialWalkExists ==
    ASSUME SerialInv, Inv, NEW l \in Walkers, WalkExists(l)
    PROVE  SerialInv' /\ WalkerTurn(l)
<1> DEFINE e == Event(l)
           w == [walk[l] EXCEPT !.pc = "flag", !.hs = ExistsSale(e.card)]
<1>1. /\ walk[l].pc = "exists" /\ DOMAIN walk = Walkers
      /\ UNCHANGED <<chain, cursor, db, sell, strays, req, crashes>>
      /\ walk' = [walk EXCEPT ![l] = w]
  BY DEF WalkExists, Inv, WalkInv
<1>2. WalkerTurn(l)
  BY <1>1, TurnOf DEF SerialInv
<1>3. DOMAIN walk[l] = {"pc", "todo", "upd", "onSale", "hs"}
  BY <1>1, WalkerFacts
<1>4. w.pc = "flag" /\ w.todo = walk[l].todo /\ w.hs = ExistsSale(e.card)
  BY <1>3
<1> HIDE DEF w
<1>5. walk'[l] = w
  BY <1>1
<1>6. Event(l)' = e /\ UNCHANGED sales
  BY <1>1, <1>4, <1>5 DEF Event, db
<1> HIDE DEF e
<1>7. Carries(l)'
  BY <1>4, <1>5, <1>6 DEF Carries, ExistsSale, CardOf
<1> QED BY <1>1, <1>2, <1>4, <1>7, WalkerMoves

(* The update leaves the field right of the card, whether it is there or not. *)
LEMMA FlagSet ==
    ASSUME NEW c \in Cards, NEW hs, hs = ExistsSale(c), UpdateHasSale(c, hs),
           DOMAIN hasSale = Cards, UNCHANGED <<cards, sales>>
    PROVE  /\ DOMAIN hasSale' = Cards
           /\ \A d \in Cards : Accurate(d) \/ d = c => Accurate(d)'
<1>1. ASSUME NEW d \in Cards PROVE ExistsSale(d)' = ExistsSale(d)
  BY DEF ExistsSale, CardOf
<1>2. CASE cards[c] = NoCard
  BY <1>1, <1>2 DEF UpdateHasSale, Accurate
<1>3. CASE cards[c] # NoCard
  <2>1. hasSale' = [hasSale EXCEPT ![c] = hs]
    BY <1>3 DEF UpdateHasSale
  <2>2. hasSale'[c] = hs /\ DOMAIN hasSale' = Cards
    BY <2>1
  <2>3. \A d \in Cards \ {c} : hasSale'[d] = hasSale[d]
    BY <2>1
  <2>4. Accurate(c)'
    BY <1>1, <2>2 DEF Accurate
  <2>5. \A d \in Cards \ {c} : Accurate(d) => Accurate(d)'
    BY <1>1, <2>3 DEF Accurate
  <2> QED BY <2>2, <2>4, <2>5
<1> QED BY <1>2, <1>3

LEMMA SerialWalkFlag ==
    ASSUME SerialInv, Inv, NEW l \in Walkers, WalkFlag(l)
    PROVE  SerialInv' /\ WalkerTurn(l)
<1> DEFINE e == Event(l)
<1>1. /\ walk[l].pc = "flag" /\ NextEvent(l) /\ UpdateHasSale(e.card, walk[l].hs)
      /\ UNCHANGED <<chain, cursor, cards, sales, created, signed, sell, strays, req, crashes>>
  BY DEF WalkFlag
<1>2. WalkerTurn(l)
  BY <1>1, TurnOf DEF SerialInv
<1>3. walk[l].hs = ExistsSale(e.card)
  BY <1>1 DEF SerialInv, WalksInv, Carries
<1>4. e.card \in Cards
  BY <1>1, WalkEvents
<1>5. DOMAIN hasSale = Cards
  BY DEF SerialInv, FlagsInv
<1>6. \A c \in Cards : Accurate(c) \/ c = e.card
  BY <1>2, WalkerFlags
<1> HIDE DEF e
<1>7. /\ DOMAIN hasSale' = Cards
      /\ \A d \in Cards : Accurate(d) \/ d = e.card => Accurate(d)'
  BY <1>1, <1>3, <1>4, <1>5, FlagSet
<1>8. \A c \in Cards : Accurate(c)'
  BY <1>6, <1>7
<1> QED BY <1>1, <1>2, <1>7, <1>8, SerialNextEvent

LEMMA SerialWalkIncrease ==
    ASSUME SerialInv, Inv, NEW l \in Walkers, WalkIncrease(l)
    PROVE  SerialInv' /\ WalkerTurn(l)
<1>1. /\ walk[l].pc = "increase" /\ DOMAIN walk = Walkers
      /\ UNCHANGED <<chain, db, sell, strays, req, crashes>>
      /\ walk' = [walk EXCEPT ![l] = Resting]
      /\ cursor' = [cursor EXCEPT ![l] = @ + 1]
  BY DEF WalkIncrease, Leave, Inv, WalkInv
<1>2. WalkerTurn(l)
  BY <1>1, TurnOf DEF SerialInv
<1>3. cursor'["sale"] = cursor["sale"]
  <2>1. "sale" \in DOMAIN cursor /\ l # "sale"
    BY DEF Inv, ChainInv, Listeners, Walkers
  <2> QED BY <1>1, <2>1
<1>4. Carries(l)'
  <2>1. walk'[l] = Resting
    BY <1>1
  <2> QED BY <2>1 DEF Carries, Resting
<1> QED BY <1>1, <1>2, <1>3, <1>4, WalkerMoves

LEMMA SerialWalk ==
    ASSUME SerialInv, Inv, StoreSound, Serial, NEW l \in Walkers, Walk(l)
    PROVE  SerialInv' /\ WalkerTurn(l)
BY SerialStartWalk, SerialSaveCard, SerialSumOnSale, SerialLoadCard, SerialDropSalesOfCard,
   SerialDropSalesOfOwner, SerialWalkExists, SerialWalkFlag, SerialWalkIncrease DEF Walk

-----------------------------------------------------------------------------
(* The turn of the sell listener.                                          *)
LEMMA SellFlags ==
    ASSUME SerialInv, SellTurn, NEW c \in Cards
    PROVE  Accurate(c) \/ \E f \in sell.flags : f.card = c
BY DEF SerialInv, FlagsInv, ToFlag, SellTurn

LEMMA SellAlone ==
    ASSUME SerialInv, SellTurn,
           UNCHANGED <<walk, req, strays, crashes>>,
           OrdersInv', FillsInv', SellInv', DOMAIN hasSale' = Cards,
           \A c \in Cards : Accurate(c)' \/ \E f \in sell'.flags : f.card = c
    PROVE  SerialInv'
<1>1. SellTurn'
  BY DEF SellTurn
<1>2. Alone'
  BY <1>1 DEF SerialInv, Alone
<1>3. WalksInv'
  BY DEF WalksInv, Carries, SellTurn
<1>4. RequestsInv'
  BY DEF RequestsInv, Asks, SellTurn
<1>5. FlagsInv'
  BY DEF FlagsInv, ToFlag
<1> QED BY <1>2, <1>3, <1>4, <1>5 DEF SerialInv

(* A step that writes no sale.                                             *)
LEMMA SellKeepsOrders ==
    ASSUME SerialInv, SellTurn, UNCHANGED <<sales, created, signed, req>>
    PROVE  OrdersInv'
BY DEF SerialInv, OrdersInv

LEMMA SellKeepsFills ==
    ASSUME SerialInv, UNCHANGED <<sales, chain>>, \A k \in DOMAIN chain : Marked(k) => Marked(k)'
    PROVE  FillsInv'
<1>1. \A k : FilledIn(k)' = FilledIn(k)
  BY DEF FilledIn
<1> QED BY <1>1 DEF SerialInv, FillsInv

LEMMA SerialStartSell ==
    ASSUME SerialInv, Inv, Serial, StartSell
    PROVE  SerialInv' /\ SellTurn
<1> DEFINE k     == cursor["sale"]
           fills == chain[k].sale
           found == {x \in sales \X fills : x[1].order = x[2].order}
           task(x) == [id |-> x[1].id, order |-> x[1].order,
                       taker |-> x[2].taker, pc |-> "read", upd |-> {}]
           flag(x) == [id |-> x[1].id, card |-> CardOf(x[1]), pc |-> "exists", hs |-> FALSE]
<1>1. /\ sell.pc = "idle" /\ k <= Len(chain) /\ InFlight < 1
      /\ sell' = IF found = {}
                   THEN [NoSell EXCEPT !.pc = "increase"]
                   ELSE [pc |-> "mark", tasks |-> {task(x) : x \in found},
                         flags |-> {flag(x) : x \in found}]
      /\ UNCHANGED <<chain, cursor, db, walk, strays, req, crashes>>
  BY DEF StartSell, AllSellData, Serial
<1>2. SellTurn
  BY <1>1, AllAtRest DEF SerialInv, SellTurn
<1>3. k \in DOMAIN chain /\ chain[k] \in Blocks
  <2>1. "sale" \in Listeners
    BY DEF Listeners
  <2>2. k \in Nat \ {0} /\ chain \in Seq(Blocks)
    BY <2>1 DEF Inv, ChainInv
  <2> QED BY <1>1, <2>2
<1>4. FilledIn(k) = {f.order : f \in fills}
  BY DEF FilledIn
<1>5. ASSUME NEW s \in sales, s.order \in FilledIn(k)
      PROVE  s.status = "sale" /\ \E x \in found : x[1] = s
  <2>1. \E x \in found : x[1] = s
    <3>1. PICK f \in fills : f.order = s.order
      BY <1>4, <1>5
    <3>2. <<s, f>> \in found
      BY <3>1
    <3> QED BY <3>2
  <2>2. s.status \in {"sale", "sold"}
    BY DEF Inv, SalesInv, Statuses
  <2>3. s.status # "sold"
    <3>1. SUFFICES ASSUME s.status = "sold" PROVE FALSE
      OBVIOUS
    <3>2. PICK j \in DOMAIN chain : s.order \in FilledIn(j) /\ Marked(j)
      BY <3>1 DEF SerialInv, FillsInv
    <3>3. j = k
      BY <1>3, <1>5, <3>2 DEF SerialInv, FillsInv
    <3> QED BY <1>1, <3>2, <3>3 DEF Marked
  <2> QED BY <2>1, <2>2, <2>3
<1>6. \A x \in found : /\ x[1] \in sales /\ x[2] \in fills /\ x[1].order = x[2].order
                       /\ x[1].order \in FilledIn(k) /\ x[1].order \in Orders
  <2>1. \A s \in sales : s.order \in Orders
    BY DEF Inv, SalesInv
  <2> QED BY <1>4, <2>1
<1>7. ASSUME NEW x \in found, NEW y \in found,
             OrderData[x[1].order].card = OrderData[y[1].order].card
      PROVE  task(x) = task(y)
  <2> HIDE DEF found
  <2>1. x[2] = y[2]
    BY <1>3, <1>6, <1>7 DEF Serial, OneFillPerCard
  <2>2. x[1] = y[1]
    BY <1>6, <2>1 DEF SerialInv, OrdersInv
  <2> QED BY <2>1, <2>2
<1> HIDE DEF fills, found
<1>8. SellInv'
  <2>1. CASE found = {}
    <3>1. sell' = [NoSell EXCEPT !.pc = "increase"]
      BY <1>1, <2>1
    <3> QED BY <3>1 DEF SellInv, NoSell
  <2>2. CASE found # {}
    <3>1. /\ sell'.pc = "mark" /\ sell'.tasks = {task(x) : x \in found}
          /\ sell'.flags = {flag(x) : x \in found}
      BY <1>1, <2>2
    <3>2. /\ k' = k /\ FilledIn(k)' = FilledIn(k) /\ sales' = sales /\ chain' = chain
      BY <1>1 DEF FilledIn, db
    <3>3. \A t, u \in sell'.tasks : OrderData[t.order].card = OrderData[u.order].card => t = u
      BY <1>7, <3>1
    <3>4. \A t \in sell'.tasks : /\ t.pc = "read" /\ t.order \in FilledIn(k)
                                 /\ \E s \in sales : s.order = t.order
      BY <1>6, <3>1
    <3>5. \A s \in sales : s.order \in FilledIn(k) =>
            s.status = "sale" /\ \E f \in sell'.flags : f.card = CardOf(s)
      <4>1. SUFFICES ASSUME NEW s \in sales, s.order \in FilledIn(k)
                     PROVE  s.status = "sale" /\ \E f \in sell'.flags : f.card = CardOf(s)
        OBVIOUS
      <4>2. PICK x \in found : x[1] = s
        BY <1>5, <4>1
      <4>3. flag(x) \in sell'.flags /\ flag(x).card = CardOf(s)
        BY <3>1, <4>2
      <4> QED BY <1>5, <4>1, <4>3
    <3>6. \A f \in sell'.flags :
            DOMAIN f = {"id", "card", "pc", "hs"} /\ f.card \in Cards /\ f.pc = "exists"
      <4>1. \A x \in found : CardOf(x[1]) \in Cards
        BY <1>6, OrdersTyped DEF CardOf
      <4> QED BY <3>1, <4>1
    <3> HIDE DEF k
    <3>7. \A s : CardOf(s)' = CardOf(s)
      BY DEF CardOf
    <3> QED BY <1>3, <3>1, <3>2, <3>3, <3>4, <3>5, <3>6 DEF SellInv, CardOf, k
  <2> QED BY <2>1, <2>2
<1>9. OrdersInv'
  BY <1>1, <1>2, SellKeepsOrders DEF db
<1>10. FillsInv'
  <2>1. \A j \in DOMAIN chain : Marked(j) => Marked(j)'
    BY <1>1 DEF Marked
  <2> QED BY <1>1, <2>1, SellKeepsFills DEF db
<1>11. \A c \in Cards : Accurate(c)'
  <2>1. sell.flags = {}
    BY <1>1 DEF SerialInv, SellInv
  <2>2. UNCHANGED <<cards, hasSale, sales>>
    BY <1>1 DEF db
  <2> QED BY <1>2, <2>1, <2>2, SellFlags, AccurateKept
<1>12. DOMAIN hasSale' = Cards
  BY <1>1 DEF SerialInv, FlagsInv, db
<1> QED BY <1>1, <1>2, <1>8, <1>9, <1>10, <1>11, <1>12, SellAlone

LEMMA SerialMarkSold ==
    ASSUME SerialInv, Inv, MarkSold
    PROVE  SerialInv' /\ SellTurn
<1> DEFINE k      == cursor["sale"]
           filled == {f.order : f \in chain[k].sale}
           mark(s) == IF s.order \in filled THEN [s EXCEPT !.status = "sold"] ELSE s
<1>1. /\ sell.pc = "mark" /\ sales' = {mark(s) : s \in sales}
      /\ sell' = [sell EXCEPT !.pc = "apply"]
      /\ UNCHANGED <<chain, cursor, cards, hasSale, created, signed, walk, strays, req, crashes>>
  BY DEF MarkSold
<1>2. SellTurn
  BY <1>1, TurnOf DEF SerialInv
<1>3. FilledIn(k) = filled /\ k \in DOMAIN chain
  BY <1>1 DEF FilledIn, SerialInv, SellInv
<1>4. sell'.pc = "apply" /\ sell'.tasks = sell.tasks /\ sell'.flags = sell.flags
  BY <1>1 DEF Inv, TaskInv
<1>5. \A s \in sales : /\ mark(s).order = s.order /\ mark(s).id = s.id
                       /\ mark(s).status = IF s.order \in filled THEN "sold" ELSE s.status
  BY DEF Inv, SalesInv
<1> HIDE DEF mark, filled
<1>6. OrdersInv'
  <2>1. IsFiniteSet(sales')
    <3> DEFINE f == [s \in sales |-> mark(s)]
    <3>1. f \in Surjection(sales, sales')
      BY <1>1 DEF Surjection
    <3> QED BY <3>1, FS_Surjection DEF SerialInv, OrdersInv
  <2>2. \A s, t \in sales' : s.order = t.order \/ s.id = t.id => s = t
    BY <1>1, <1>5 DEF SerialInv, OrdersInv
  <2>3. \A s \in sales' : s.order \in signed /\ s.id <= created
    BY <1>1, <1>5 DEF SerialInv, OrdersInv
  <2> QED BY <1>1, <2>1, <2>2, <2>3 DEF SerialInv, OrdersInv
<1>7. FillsInv'
  <2>1. \A j : FilledIn(j)' = FilledIn(j)
    BY <1>1 DEF FilledIn
  <2>2. \A j \in DOMAIN chain : Marked(j) => Marked(j)'
    BY <1>1, <1>4 DEF Marked
  <2>3. \E j \in DOMAIN chain : j = k /\ Marked(j)'
    BY <1>1, <1>3, <1>4 DEF Marked
  <2>4. ASSUME NEW s \in sales, mark(s).status = "sold"
        PROVE  \E j \in DOMAIN chain : mark(s).order \in FilledIn(j) /\ Marked(j)'
    <3>1. CASE s.order \in filled
      BY <1>3, <1>5, <2>3, <3>1
    <3>2. CASE s.order \notin filled
      BY <1>5, <2>2, <2>4, <3>2 DEF SerialInv, FillsInv
    <3> QED BY <3>1, <3>2
  <2>5. chain' = chain
    BY <1>1
  <2> QED BY <1>1, <2>1, <2>4, <2>5 DEF SerialInv, FillsInv
<1>8. SellInv'
  BY <1>1, <1>4 DEF SerialInv, SellInv
<1>9. ASSUME NEW c \in Cards
      PROVE  Accurate(c)' \/ \E f \in sell'.flags : f.card = c
  <2>1. SUFFICES ASSUME ~ \E f \in sell.flags : f.card = c PROVE Accurate(c)'
    BY <1>4
  <2>2. \A s \in sales : CardOf(s) = c => s.order \notin filled
    BY <1>1, <1>3, <2>1 DEF SerialInv, SellInv
  <2>3. \A s \in sales : CardOf(s) = c => mark(s) = s
    BY <2>2 DEF mark
  <2>4. \A s \in sales : OrderData[mark(s).order].card = OrderData[s.order].card
    BY <1>5
  <2>5. ExistsSale(c)' = ExistsSale(c)
    BY <1>1, <2>3, <2>4 DEF ExistsSale, CardOf
  <2> QED BY <1>1, <1>2, <2>1, <2>5, SellFlags DEF Accurate
<1>10. DOMAIN hasSale' = Cards
  BY <1>1 DEF SerialInv, FlagsInv
<1> QED BY <1>1, <1>2, <1>6, <1>7, <1>8, <1>9, <1>10, SellAlone

LEMMA TaskShape ==
    ASSUME Inv, NEW t \in sell.tasks
    PROVE  /\ DOMAIN t = {"id", "order", "taker", "pc", "upd"}
           /\ t.order \in Orders /\ OrderData[t.order].card \in Cards
           /\ OrderData[t.order].user \in Users
BY OrdersTyped DEF Inv, TaskInv, TaskOK

LEMMA SerialReadSold ==
    ASSUME SerialInv, Inv, NEW t \in sell.tasks, ReadSold(t)
    PROVE  SerialInv' /\ SellTurn
<1> DEFINE o == OrderData[t.order]
           u == [t EXCEPT !.pc = "save",
                          !.upd = {ChangeOwnerships(o.card, cards[o.card], o.n, o.user, t.taker)}]
           tasks == (sell.tasks \ {t}) \cup AfterRead(t)
<1>1. /\ sell.pc = "apply" /\ Remaining(tasks)
      /\ UNCHANGED <<chain, cursor, db, walk, strays, req, crashes>>
  BY DEF ReadSold
<1>2. SellTurn
  BY <1>1, TurnOf DEF SerialInv
<1>3. /\ sell'.tasks = tasks /\ sell'.flags = sell.flags
      /\ sell'.pc \in {"apply", "flags"} /\ (sell'.pc = "flags" => tasks = {})
  BY <1>1 DEF Remaining, Inv, TaskInv
<1>4. u.order = t.order /\ u.pc = "save" /\ u.taker = t.taker
      /\ u.upd = {ChangeOwnerships(o.card, cards[o.card], o.n, o.user, t.taker)}
  BY TaskShape
<1>5. AfterRead(t) = IF cards[o.card] # NoCard /\ o.user \in Holders(cards[o.card].bal)
                       THEN {u} ELSE {}
  BY DEF AfterRead
<1> HIDE DEF u, tasks
<1>6. \A x \in tasks : x \in sell.tasks \ {t} \/ (x = u /\ TaskSave(u))
  <2>1. \A x \in AfterRead(t) : x = u /\ TaskSave(u)
    BY <1>4, <1>5 DEF TaskSave
  <2> QED BY <2>1 DEF tasks
<1>7. \A x \in tasks : x.pc \in {"read", "save"} /\ (x.pc = "save" => TaskSave(x))
  <2>1. \A x \in sell.tasks : x.pc \in {"read", "save"} /\ (x.pc = "save" => TaskSave(x))
    BY DEF SerialInv, SellInv
  <2> QED BY <1>4, <1>6, <2>1
<1>8. \A x, y \in tasks : OrderData[x.order].card = OrderData[y.order].card => x = y
  <2>1. \A x, y \in sell.tasks : OrderData[x.order].card = OrderData[y.order].card => x = y
    BY DEF SerialInv, SellInv
  <2> QED BY <1>4, <1>6, <2>1
<1>9. \A x : TaskSave(x) => TaskSave(x)'
  BY <1>1 DEF TaskSave, db
<1>10. \A f \in sell.flags : /\ DOMAIN f = {"id", "card", "pc", "hs"} /\ f.card \in Cards
                             /\ f.pc = "exists"
  BY <1>1 DEF SerialInv, SellInv
<1>11. SellInv'
  BY <1>3, <1>7, <1>8, <1>9, <1>10 DEF SellInv
<1>12. OrdersInv'
  BY <1>1, <1>2, SellKeepsOrders DEF db
<1>13. FillsInv'
  <2>1. \A j \in DOMAIN chain : Marked(j) => Marked(j)'
    BY <1>1, <1>3 DEF Marked
  <2> QED BY <1>1, <2>1, SellKeepsFills DEF db
<1>14. \A c \in Cards : Accurate(c)' \/ \E f \in sell'.flags : f.card = c
  BY <1>1, <1>2, <1>3, SellFlags, AccurateKept DEF db
<1>15. DOMAIN hasSale' = Cards
  <2>1. DOMAIN hasSale = Cards
    BY DEF SerialInv, FlagsInv
  <2> QED BY <1>1, <2>1 DEF db
<1> QED BY <1>1, <1>2, <1>11, <1>12, <1>13, <1>14, <1>15, SellAlone

(* A save of the sell listener is accepted: the other tasks write other    *)
(* cards.                                                                  *)
LEMMA TaskAccepted ==
    ASSUME SerialInv, NEW t \in sell.tasks, t.pc = "save"
    PROVE  LET o   == OrderData[t.order]
               upd == ChangeOwnerships(o.card, cards[o.card], o.n, o.user, t.taker)
           IN  /\ t.upd = {upd} /\ upd.card = o.card /\ Accepts(cards[o.card], upd)
               /\ cards[o.card] # NoCard /\ o.user \in Holders(cards[o.card].bal)
<1>1. TaskSave(t)
  BY DEF SerialInv, SellInv
<1> QED BY <1>1 DEF TaskSave, Accepts, ChangeOwnerships

LEMMA SerialSaveSold ==
    ASSUME SerialInv, Inv, StoreSound, NEW t \in sell.tasks, SaveSold(t)
    PROVE  /\ SerialInv' /\ SellTurn
           /\ sell'.tasks = sell.tasks \ {t} /\ t.pc = "save"
           /\ LET o   == OrderData[t.order]
                  upd == ChangeOwnerships(o.card, cards[o.card], o.n, o.user, t.taker)
              IN  cards' = [cards EXCEPT ![o.card] = Saved(@, upd)]
<1> DEFINE o   == OrderData[t.order]
           upd == ChangeOwnerships(o.card, cards[o.card], o.n, o.user, t.taker)
           new == Saved(cards[o.card], upd)
           tasks == sell.tasks \ {t}
<1>1. /\ sell.pc = "apply" /\ t.pc = "save"
      /\ UNCHANGED <<chain, cursor, hasSale, sales, created, signed, walk, req, crashes>>
  BY DEF SaveSold
<1>2. SellTurn
  BY <1>1, TurnOf DEF SerialInv
<1>3. /\ t.upd = {upd} /\ upd.card = o.card /\ Accepts(cards[o.card], upd)
      /\ cards[o.card] # NoCard /\ o.card \in Cards
  BY <1>1, TaskAccepted, TaskShape
<1>4. cards' = [cards EXCEPT ![o.card] = new] /\ Remaining(tasks) /\ UNCHANGED strays
  <2> HIDE DEF upd, o
  <2> QED BY <1>3 DEF SaveSold
<1> HIDE DEF new, upd
<1>5. /\ sell'.tasks = tasks /\ sell'.flags = sell.flags
      /\ sell'.pc \in {"apply", "flags"} /\ (sell'.pc = "flags" => tasks = {})
  BY <1>4 DEF Remaining, Inv, TaskInv
<1>6. \A c \in Cards : c # o.card => cards'[c] = cards[c]
  BY <1>4, DocsSound
<1>7. ASSUME NEW x \in tasks
      PROVE  /\ OrderData[x.order].card # o.card
             /\ x.pc \in {"read", "save"} /\ (x.pc = "save" => TaskSave(x)')
  <2>1. OrderData[x.order].card # o.card
    BY DEF SerialInv, SellInv
  <2>2. OrderData[x.order].card \in Cards
    BY TaskShape
  <2>3. cards'[OrderData[x.order].card] = cards[OrderData[x.order].card]
    BY <1>6, <2>1, <2>2
  <2>4. TaskSave(x) => TaskSave(x)'
    BY <2>3 DEF TaskSave
  <2> QED BY <2>1, <2>4 DEF SerialInv, SellInv
<1>8. \A x, y \in tasks : OrderData[x.order].card = OrderData[y.order].card => x = y
  BY DEF SerialInv, SellInv
<1>9. \A f \in sell.flags : /\ DOMAIN f = {"id", "card", "pc", "hs"} /\ f.card \in Cards
                            /\ f.pc = "exists"
  BY <1>1 DEF SerialInv, SellInv
<1> HIDE DEF tasks
<1>10. SellInv'
  BY <1>5, <1>7, <1>8, <1>9 DEF SellInv
<1>11. OrdersInv'
  BY <1>1, <1>2, SellKeepsOrders
<1>12. FillsInv'
  <2>1. \A j \in DOMAIN chain : Marked(j) => Marked(j)'
    BY <1>1, <1>5 DEF Marked
  <2> QED BY <1>1, <2>1, SellKeepsFills
<1>13. ASSUME NEW c \in Cards PROVE Accurate(c)' \/ \E f \in sell'.flags : f.card = c
  <2>1. cards[c] = NoCard => cards'[c] = NoCard
    BY <1>3, <1>6
  <2>2. ExistsSale(c)' = ExistsSale(c)
    BY <1>1 DEF ExistsSale, CardOf
  <2>3. Accurate(c) => Accurate(c)'
    BY <1>1, <2>1, <2>2 DEF Accurate
  <2> QED BY <1>2, <1>5, <2>3, SellFlags
<1>14. DOMAIN hasSale' = Cards
  BY <1>1 DEF SerialInv, FlagsInv
<1>15. SerialInv'
  BY <1>1, <1>2, <1>4, <1>10, <1>11, <1>12, <1>13, <1>14, SellAlone
<1> QED BY <1>1, <1>2, <1>4, <1>5, <1>15 DEF new, upd, tasks

LEMMA SerialSellExists ==
    ASSUME SerialInv, Inv, NEW f \in sell.flags, SellExists(f)
    PROVE  SerialInv' /\ SellTurn
<1> DEFINE g == [f EXCEPT !.pc = "flag", !.hs = ExistsSale(f.card)]
<1>1. /\ sell.pc = "flags"
      /\ sell' = [sell EXCEPT !.flags = (@ \ {f}) \cup {g}]
      /\ UNCHANGED <<chain, cursor, db, walk, strays, req, crashes>>
  BY DEF SellExists
<1>2. SellTurn
  BY <1>1, TurnOf DEF SerialInv
<1>3. /\ DOMAIN g = {"id", "card", "pc", "hs"} /\ g.card = f.card /\ g.card \in Cards
      /\ g.pc = "flag" /\ g.hs = ExistsSale(g.card)
  BY DEF SerialInv, SellInv
<1> HIDE DEF g
<1>4. /\ sell'.pc = "flags" /\ sell'.tasks = sell.tasks
      /\ sell'.flags = (sell.flags \ {f}) \cup {g}
  BY <1>1 DEF Inv, TaskInv
<1>5. \A c : ExistsSale(c)' = ExistsSale(c)
  BY <1>1 DEF ExistsSale, CardOf, db
<1>6. SellInv'
  BY <1>1, <1>3, <1>4, <1>5 DEF SerialInv, SellInv
<1>7. OrdersInv'
  BY <1>1, <1>2, SellKeepsOrders DEF db
<1>8. FillsInv'
  <2>1. \A j \in DOMAIN chain : Marked(j) => Marked(j)'
    BY <1>1, <1>4 DEF Marked
  <2> QED BY <1>1, <2>1, SellKeepsFills DEF db
<1>9. ASSUME NEW c \in Cards PROVE Accurate(c)' \/ \E h \in sell'.flags : h.card = c
  <2>1. Accurate(c)' <=> Accurate(c)
    BY <1>1, AccurateKept DEF db
  <2> QED BY <1>2, <1>3, <1>4, <2>1, SellFlags
<1>10. DOMAIN hasSale' = Cards
  BY <1>1 DEF SerialInv, FlagsInv, db
<1> QED BY <1>1, <1>2, <1>6, <1>7, <1>8, <1>9, <1>10, SellAlone

LEMMA SerialSellFlag ==
    ASSUME SerialInv, Inv, NEW f \in sell.flags, SellFlag(f)
    PROVE  SerialInv' /\ SellTurn
<1>1. /\ sell.pc = "flags" /\ f.pc = "flag" /\ UpdateHasSale(f.card, f.hs)
      /\ sell' = IF sell.flags = {f} THEN [NoSell EXCEPT !.pc = "increase"]
                 ELSE [sell EXCEPT !.flags = @ \ {f}]
      /\ UNCHANGED <<chain, cursor, cards, sales, created, signed, walk, strays, req, crashes>>
  BY DEF SellFlag
<1>2. SellTurn
  BY <1>1, TurnOf DEF SerialInv
<1>3. sell.tasks = {} /\ f.card \in Cards /\ f.hs = ExistsSale(f.card)
  BY <1>1 DEF SerialInv, SellInv
<1>4. /\ sell'.pc \in {"flags", "increase"} /\ sell'.tasks = {}
      /\ sell'.flags = sell.flags \ {f} /\ (sell'.pc = "increase" => sell'.flags = {})
  <2>1. CASE sell.flags = {f}
    BY <1>1, <2>1 DEF NoSell
  <2>2. CASE sell.flags # {f}
    BY <1>1, <1>3, <2>2 DEF Inv, TaskInv
  <2> QED BY <2>1, <2>2
<1>5. \A c : ExistsSale(c)' = ExistsSale(c)
  BY <1>1 DEF ExistsSale, CardOf
<1>6. SellInv'
  BY <1>1, <1>4, <1>5 DEF SerialInv, SellInv
<1>7. OrdersInv'
  BY <1>1, <1>2, SellKeepsOrders
<1>8. FillsInv'
  <2>1. \A j \in DOMAIN chain : Marked(j) => Marked(j)'
    BY <1>1, <1>4 DEF Marked
  <2> QED BY <1>1, <2>1, SellKeepsFills
<1>9. /\ DOMAIN hasSale' = Cards
      /\ \A d \in Cards : Accurate(d) \/ d = f.card => Accurate(d)'
  BY <1>1, <1>3, FlagSet DEF SerialInv, FlagsInv
<1>10. \A c \in Cards : Accurate(c)' \/ \E h \in sell'.flags : h.card = c
  BY <1>2, <1>4, <1>9, SellFlags
<1> QED BY <1>1, <1>2, <1>6, <1>7, <1>8, <1>9, <1>10, SellAlone

LEMMA SerialSellIncrease ==
    ASSUME SerialInv, Inv, SellIncrease
    PROVE  SerialInv' /\ SellTurn
<1>1. /\ sell.pc = "increase" /\ sell' = NoSell
      /\ cursor' = [cursor EXCEPT !["sale"] = @ + 1]
      /\ UNCHANGED <<chain, db, walk, strays, req, crashes>>
  BY DEF SellIncrease
<1>2. SellTurn
  BY <1>1, TurnOf DEF SerialInv
<1>3. cursor["sale"] \in Nat /\ cursor'["sale"] = cursor["sale"] + 1
  BY <1>1 DEF Inv, ChainInv, Listeners
<1>4. \A j \in DOMAIN chain : Marked(j) => Marked(j)'
  <2>1. DOMAIN chain \subseteq Nat
    BY DEF Inv, ChainInv
  <2> QED BY <1>3, <2>1 DEF Marked
<1>5. SellInv'
  BY <1>1 DEF SellInv, NoSell
<1>6. OrdersInv'
  BY <1>1, <1>2, SellKeepsOrders DEF db
<1>7. FillsInv'
  BY <1>1, <1>4, SellKeepsFills DEF db
<1>8. \A c \in Cards : Accurate(c)'
  <2>1. sell.flags = {}
    BY <1>1 DEF SerialInv, SellInv
  <2> QED BY <1>1, <1>2, <2>1, SellFlags, AccurateKept DEF db
<1>9. DOMAIN hasSale' = Cards
  BY <1>1 DEF SerialInv, FlagsInv, db
<1> QED BY <1>1, <1>2, <1>5, <1>6, <1>7, <1>8, <1>9, SellAlone

LEMMA SerialSell ==
    ASSUME SerialInv, Inv, StoreSound, Serial, Sell
    PROVE  SerialInv' /\ SellTurn
BY SerialStartSell, SerialMarkSold, SerialReadSold, SerialSaveSold, SerialSellExists,
   SerialSellFlag, SerialSellIncrease DEF Sell

-----------------------------------------------------------------------------
(* The turn of a request.                                                  *)
LEMMA RequestFlags ==
    ASSUME SerialInv, NEW r \in Requests, RequestTurn(r), NEW c \in Cards
    PROVE  Accurate(c) \/ (req[r].pc \in {"exists", "flag"} /\ OrderData[req[r].order].card = c)
<1>1. sell.flags = {}
  BY DEF SerialInv, SellInv, RequestTurn
<1> QED BY <1>1 DEF SerialInv, FlagsInv, ToFlag, RequestTurn, RequestsRest

LEMMA RequestAlone ==
    ASSUME SerialInv, NEW r \in Requests, RequestTurn(r),
           \A k \in Requests \ {r} : req'[k] = req[k],
           UNCHANGED <<chain, cursor, walk, sell, strays, crashes>>,
           OrdersInv', \A s \in sales' : s.status = "sale" \/ s \in sales,
           Asks(r)', DOMAIN hasSale' = Cards,
           \A c \in Cards :
             \/ Accurate(c)'
             \/ req'[r].pc \in {"exists", "flag"} /\ OrderData[req'[r].order].card = c
    PROVE  SerialInv'
<1>1. RequestTurn(r)'
  BY DEF RequestTurn, RequestsRest
<1>2. Alone'
  BY <1>1 DEF SerialInv, Alone
<1>3. FillsInv'
  <2>1. \A k : Marked(k)' <=> Marked(k)
    BY DEF Marked
  <2>2. \A k : FilledIn(k)' = FilledIn(k)
    BY DEF FilledIn
  <2> QED BY <2>1, <2>2 DEF SerialInv, FillsInv
<1>4. SellInv'
  <2>1. sell.pc = "idle" /\ sell.tasks = {} /\ sell.flags = {}
    BY DEF SerialInv, SellInv, RequestTurn
  <2> QED BY <2>1 DEF SellInv
<1>5. WalksInv'
  BY DEF WalksInv, Carries, RequestTurn
<1>6. RequestsInv'
  BY DEF RequestsInv, Asks, RequestTurn, RequestsRest
<1>7. FlagsInv'
  BY DEF FlagsInv, ToFlag
<1> QED BY <1>2, <1>3, <1>4, <1>5, <1>6, <1>7 DEF SerialInv

(* A step that only moves the request to its next call.                    *)
LEMMA RequestMoves ==
    ASSUME SerialInv, NEW r \in Requests, RequestTurn(r), DOMAIN req = Requests,
           NEW q, req' = [req EXCEPT ![r] = q],
           UNCHANGED <<chain, cursor, db, walk, sell, strays, crashes>>,
           q.pc \in {"sum", "store"} => q.order \notin signed,
           Asks(r)',
           req[r].pc \in {"exists", "flag"} =>
             q.pc \in {"exists", "flag"} /\ q.order = req[r].order
    PROVE  SerialInv'
<1>1. req'[r] = q /\ \A k \in Requests \ {r} : req'[k] = req[k]
  OBVIOUS
<1>2. OrdersInv'
  BY <1>1 DEF OrdersInv, SerialInv, db
<1>3. ASSUME NEW c \in Cards
      PROVE  \/ Accurate(c)'
             \/ req'[r].pc \in {"exists", "flag"} /\ OrderData[req'[r].order].card = c
  <2>1. Accurate(c)' <=> Accurate(c)
    BY AccurateKept DEF db
  <2> QED BY <1>1, <2>1, RequestFlags
<1>4. DOMAIN hasSale' = Cards /\ sales' = sales
  BY DEF SerialInv, FlagsInv, db
<1> QED BY <1>1, <1>2, <1>3, <1>4, RequestAlone

LEMMA SalesTyped ==
    ASSUME Inv, SerialInv, NEW S, S \subseteq sales
    PROVE  IsFiniteSet(S) /\ S \subseteq SaleDocs
BY FS_Subset DEF Inv, SalesInv, SaleDocs, SerialInv, OrdersInv

LEMMA HeldNat ==
    ASSUME StoreSound, NEW c \in Cards, NEW u
    PROVE  HeldBy(c, u) \in Nat
BY DocsSound, AmountNat DEF HeldBy

LEMMA SerialCreateRead ==
    ASSUME SerialInv, Inv, Serial, NEW r \in Requests, NEW o \in Orders, CreateRead(r, o)
    PROVE  SerialInv' /\ RequestTurn(r)
<1> DEFINE d == OrderData[o]
           q == [NoReq EXCEPT !.pc = "sum", !.order = o,
                              !.amount = AmountOf(cards[d.card].bal, d.user)]
<1>1. /\ req[r].pc = "idle" /\ MayList(o) /\ InFlight < 1 /\ cards[d.card] # NoCard
      /\ req' = [req EXCEPT ![r] = q]
      /\ UNCHANGED <<chain, cursor, db, walk, sell, strays, crashes>>
  BY DEF CreateRead, Serial
<1>2. RequestTurn(r)
  BY <1>1, AllAtRest DEF SerialInv, RequestTurn, RequestsRest
<1>3. q.pc = "sum" /\ q.order = o /\ q.amount = HeldBy(d.card, d.user)
  BY <1>1 DEF NoReq, HeldBy
<1>4. o \notin signed
  BY <1>1 DEF MayList, Serial
<1>5. DOMAIN req = Requests
  BY DEF Inv, RequestInv
<1> HIDE DEF q
<1>6. req'[r] = q
  BY <1>1, <1>5
<1>7. cards' = cards
  BY <1>1 DEF db
<1>8. Asks(r)'
  BY <1>3, <1>6, <1>7 DEF Asks, HeldBy
<1> QED BY <1>1, <1>2, <1>3, <1>4, <1>5, <1>8, RequestMoves

LEMMA SerialCreateSum ==
    ASSUME SerialInv, Inv, StoreSound, NEW r \in Requests, CreateSum(r)
    PROVE  SerialInv' /\ RequestTurn(r)
<1> DEFINE o    == OrderData[req[r].order]
           free == req[r].amount - OnSale(o.card, o.user)
           q    == [req[r] EXCEPT !.pc = "store", !.amount = 0]
<1>1. /\ req[r].pc = "sum"
      /\ req' = [req EXCEPT ![r] = IF o.n > free THEN NoReq ELSE q]
      /\ UNCHANGED <<chain, cursor, db, walk, sell, strays, crashes>>
  BY DEF CreateSum
<1>2. RequestTurn(r)
  BY <1>1, TurnOf DEF SerialInv
<1>3. DOMAIN req = Requests /\ RequestOK(req[r])
  BY DEF Inv, RequestInv
<1>4. req[r].order \notin signed /\ req[r].amount = HeldBy(o.card, o.user)
  BY <1>1 DEF SerialInv, OrdersInv, RequestsInv, Asks
<1>5. CASE o.n > free
  <2>1. req' = [req EXCEPT ![r] = NoReq]
    BY <1>1, <1>5
  <2>2. req'[r] = NoReq /\ NoReq.pc = "idle"
    BY <1>3, <2>1 DEF NoReq
  <2>3. Asks(r)'
    BY <2>2 DEF Asks
  <2> QED BY <1>1, <1>2, <1>3, <2>1, <2>2, <2>3, RequestMoves
<1>6. CASE ~(o.n > free)
  <2>1. req' = [req EXCEPT ![r] = q]
    BY <1>1, <1>6
  <2>2. q.pc = "store" /\ q.order = req[r].order
    BY <1>3 DEF RequestOK
  <2>3. o.card \in Cards /\ o.n \in Nat
    BY <1>3, OrdersTyped, StoreConstants DEF RequestOK
  <2>4. OnSale(o.card, o.user) = Total(SalesOf(o.card, o.user))
    BY OnSaleIsTotal
  <2>5. Total(SalesOf(o.card, o.user)) \in Nat
    BY SalesTyped, TotalNat DEF SalesOf
  <2>6. HeldBy(o.card, o.user) \in Nat
    BY <2>3, HeldNat
  <2>7. Total(SalesOf(o.card, o.user)) + o.n <= HeldBy(o.card, o.user)
    BY <1>4, <1>6, <2>3, <2>4, <2>5, <2>6
  <2> HIDE DEF q
  <2>8. req'[r] = q /\ UNCHANGED <<cards, sales>>
    BY <1>1, <1>3, <2>1 DEF db
  <2>9. o' = o
    BY <2>2, <2>8
  <2>10. Asks(r)'
    <3> USE DEF SalesOf, CardOf, MakerOf, HeldBy
    <3> QED BY <2>2, <2>7, <2>8 DEF Asks
  <2> QED BY <1>1, <1>2, <1>3, <1>4, <2>1, <2>2, <2>10, RequestMoves
<1> QED BY <1>5, <1>6

LEMMA SerialCreateStore ==
    ASSUME SerialInv, Inv, NEW r \in Requests, CreateStore(r)
    PROVE  SerialInv' /\ RequestTurn(r)
<1> DEFINE o == req[r].order
           n == Sale(created + 1, o)
           q == [req[r] EXCEPT !.pc = "exists"]
<1>1. /\ req[r].pc = "store" /\ sales' = sales \cup {n} /\ created' = created + 1
      /\ signed' = signed \cup {o} /\ req' = [req EXCEPT ![r] = q]
      /\ UNCHANGED <<chain, cursor, cards, hasSale, walk, sell, strays, crashes>>
  BY DEF CreateStore
<1>2. RequestTurn(r)
  BY <1>1, TurnOf DEF SerialInv
<1>3. DOMAIN req = Requests /\ RequestOK(req[r])
  BY DEF Inv, RequestInv
<1>4. q.pc = "exists" /\ q.order = o
  BY <1>3 DEF RequestOK
<1>5. n.id = created + 1 /\ n.order = o /\ n.status = "sale"
  BY DEF Sale
<1> HIDE DEF q, n
<1>6. req'[r] = q /\ \A k \in Requests \ {r} : req'[k] = req[k]
  BY <1>1, <1>3
<1>7. OrdersInv'
  <2>1. IsFiniteSet(sales')
    BY <1>1, FS_AddElement DEF SerialInv, OrdersInv
  <2>2. o \notin signed
    BY <1>1 DEF SerialInv, OrdersInv
  <2>3. created \in Nat /\ \A s \in sales : s.id \in Nat /\ s.id <= created
    BY DEF SerialInv, OrdersInv, Inv, SalesInv
  <2>4. \A s \in sales : s.order # o /\ s.id # created + 1
    BY <2>2, <2>3 DEF SerialInv, OrdersInv
  <2>5. \A s, t \in sales' : s.order = t.order \/ s.id = t.id => s = t
    BY <1>1, <1>5, <2>4 DEF SerialInv, OrdersInv
  <2>6. \A s \in sales' : s.order \in signed' /\ s.id <= created'
    BY <1>1, <1>5, <2>3 DEF SerialInv, OrdersInv
  <2>7. \A k \in Requests : req'[k].pc \in {"sum", "store"} => req'[k].order \notin signed'
    BY <1>2, <1>4, <1>6 DEF RequestTurn, RequestsRest
  <2> QED BY <2>1, <2>5, <2>6, <2>7 DEF OrdersInv
<1>8. Asks(r)'
  BY <1>4, <1>6 DEF Asks
<1>9. ASSUME NEW c \in Cards, c # OrderData[o].card PROVE Accurate(c)'
  <2>1. Accurate(c)
    BY <1>1, <1>2, RequestFlags
  <2>2. ExistsSale(c)' = ExistsSale(c)
    BY <1>1, <1>5, <1>9 DEF ExistsSale, CardOf
  <2> QED BY <1>1, <2>1, <2>2 DEF Accurate
<1>10. \A c \in Cards :
         \/ Accurate(c)'
         \/ req'[r].pc \in {"exists", "flag"} /\ OrderData[req'[r].order].card = c
  BY <1>4, <1>6, <1>9
<1>11. DOMAIN hasSale' = Cards
  BY <1>1 DEF SerialInv, FlagsInv
<1>12. \A s \in sales' : s.status = "sale" \/ s \in sales
  BY <1>1, <1>5
<1> QED BY <1>1, <1>2, <1>6, <1>7, <1>8, <1>10, <1>11, <1>12, RequestAlone

LEMMA SerialDeleteRead ==
    ASSUME SerialInv, Inv, Serial, NEW r \in Requests, NEW s \in sales, DeleteRead(r, s)
    PROVE  SerialInv' /\ RequestTurn(r)
<1> DEFINE q == [NoReq EXCEPT !.pc = "delete", !.order = s.order, !.id = s.id]
<1>1. /\ req[r].pc = "idle" /\ InFlight < 1 /\ req' = [req EXCEPT ![r] = q]
      /\ UNCHANGED <<chain, cursor, db, walk, sell, strays, crashes>>
  BY DEF DeleteRead, Serial
<1>2. RequestTurn(r)
  BY <1>1, AllAtRest DEF SerialInv, RequestTurn, RequestsRest
<1>3. q.pc = "delete" /\ q.order = s.order /\ q.id = s.id
  BY DEF NoReq
<1>4. DOMAIN req = Requests
  BY DEF Inv, RequestInv
<1> HIDE DEF q
<1>5. req'[r] = q /\ sales' = sales
  BY <1>1, <1>4 DEF db
<1>6. Asks(r)'
  BY <1>3, <1>5 DEF Asks, SerialInv, OrdersInv
<1> QED BY <1>1, <1>2, <1>3, <1>4, <1>6, RequestMoves

LEMMA SerialDeleteStore ==
    ASSUME SerialInv, Inv, NEW r \in Requests, DeleteStore(r)
    PROVE  SerialInv' /\ RequestTurn(r)
<1> DEFINE o == req[r].order
           q == [req[r] EXCEPT !.pc = "exists", !.id = 0]
<1>1. /\ req[r].pc = "delete" /\ sales' = {s \in sales : s.id # req[r].id}
      /\ req' = [req EXCEPT ![r] = q]
      /\ UNCHANGED <<chain, cursor, cards, hasSale, created, signed, walk, sell, strays, crashes>>
  BY DEF DeleteStore
<1>2. RequestTurn(r)
  BY <1>1, TurnOf DEF SerialInv
<1>3. DOMAIN req = Requests /\ RequestOK(req[r])
  BY DEF Inv, RequestInv
<1>4. q.pc = "exists" /\ q.order = o
  BY <1>3 DEF RequestOK
<1> HIDE DEF q
<1>5. req'[r] = q /\ \A k \in Requests \ {r} : req'[k] = req[k]
  BY <1>1, <1>3
<1>6. OrdersInv'
  <2>1. IsFiniteSet(sales')
    BY <1>1, FS_Subset DEF SerialInv, OrdersInv
  <2>2. \A k \in Requests : req'[k].pc \in {"sum", "store"} => req'[k].order \notin signed
    BY <1>4, <1>5 DEF SerialInv, OrdersInv
  <2> QED BY <1>1, <2>1, <2>2 DEF SerialInv, OrdersInv
<1>7. Asks(r)'
  BY <1>4, <1>5 DEF Asks
<1>8. ASSUME NEW c \in Cards, c # OrderData[o].card PROVE Accurate(c)'
  <2>1. Accurate(c)
    BY <1>1, <1>2, RequestFlags
  <2>2. \A s \in sales : s.id = req[r].id => CardOf(s) # c
    BY <1>1, <1>8 DEF SerialInv, RequestsInv, Asks, CardOf
  <2>3. ExistsSale(c)' = ExistsSale(c)
    BY <1>1, <2>2 DEF ExistsSale, CardOf
  <2> QED BY <1>1, <2>1, <2>3 DEF Accurate
<1>9. \A c \in Cards :
        \/ Accurate(c)'
        \/ req'[r].pc \in {"exists", "flag"} /\ OrderData[req'[r].order].card = c
  BY <1>4, <1>5, <1>8
<1>10. DOMAIN hasSale' = Cards
  BY <1>1 DEF SerialInv, FlagsInv
<1> QED BY <1>1, <1>2, <1>5, <1>6, <1>7, <1>9, <1>10, RequestAlone

LEMMA SerialRequestExists ==
    ASSUME SerialInv, Inv, NEW r \in Requests, RequestExists(r)
    PROVE  SerialInv' /\ RequestTurn(r)
<1> DEFINE c == OrderData[req[r].order].card
           q == [req[r] EXCEPT !.pc = "flag", !.hs = ExistsSale(c)]
<1>1. /\ req[r].pc = "exists" /\ req' = [req EXCEPT ![r] = q]
      /\ UNCHANGED <<chain, cursor, db, walk, sell, strays, crashes>>
  BY DEF RequestExists
<1>2. RequestTurn(r)
  BY <1>1, TurnOf DEF SerialInv
<1>3. DOMAIN req = Requests /\ RequestOK(req[r])
  BY DEF Inv, RequestInv
<1>4. q.pc = "flag" /\ q.order = req[r].order /\ q.hs = ExistsSale(c)
  BY <1>3 DEF RequestOK
<1> HIDE DEF q
<1>5. req'[r] = q /\ sales' = sales
  BY <1>1, <1>3 DEF db
<1>6. Asks(r)'
  BY <1>4, <1>5 DEF Asks, ExistsSale, CardOf
<1> QED BY <1>1, <1>2, <1>3, <1>4, <1>6, RequestMoves

LEMMA SerialRequestFlag ==
    ASSUME SerialInv, Inv, NEW r \in Requests, RequestFlag(r)
    PROVE  SerialInv' /\ RequestTurn(r)
<1> DEFINE c == OrderData[req[r].order].card
<1>1. /\ req[r].pc = "flag" /\ UpdateHasSale(c, req[r].hs)
      /\ req' = [req EXCEPT ![r] = NoReq]
      /\ UNCHANGED <<chain, cursor, cards, sales, created, signed, walk, sell, strays, crashes>>
  BY DEF RequestFlag
<1>2. RequestTurn(r)
  BY <1>1, TurnOf DEF SerialInv
<1>3. DOMAIN req = Requests /\ RequestOK(req[r])
  BY DEF Inv, RequestInv
<1>4. req[r].hs = ExistsSale(c) /\ c \in Cards
  BY <1>1, <1>3, OrdersTyped DEF SerialInv, RequestsInv, Asks, RequestOK
<1>5. \A d \in Cards : Accurate(d) \/ d = c
  BY <1>2, RequestFlags
<1> HIDE DEF c
<1>6. /\ DOMAIN hasSale' = Cards
      /\ \A d \in Cards : Accurate(d) \/ d = c => Accurate(d)'
  BY <1>1, <1>4, FlagSet DEF SerialInv, FlagsInv
<1>7. req'[r] = NoReq /\ NoReq.pc = "idle" /\ \A k \in Requests \ {r} : req'[k] = req[k]
  BY <1>1, <1>3 DEF NoReq
<1>8. OrdersInv'
  BY <1>1, <1>7 DEF SerialInv, OrdersInv
<1>9. Asks(r)'
  BY <1>7 DEF Asks
<1>10. \A d \in Cards : Accurate(d)'
  BY <1>5, <1>6
<1> QED BY <1>1, <1>2, <1>6, <1>7, <1>8, <1>9, <1>10, RequestAlone

LEMMA SerialRequest ==
    ASSUME SerialInv, Inv, StoreSound, Serial, NEW r \in Requests, Request(r)
    PROVE  SerialInv' /\ RequestTurn(r)
BY SerialCreateRead, SerialCreateSum, SerialCreateStore, SerialDeleteRead, SerialDeleteStore,
   SerialRequestExists, SerialRequestFlag DEF Request

-----------------------------------------------------------------------------
(* A block more: its fills are of orders no block has filled.              *)
LEMMA SerialNewBlock ==
    ASSUME SerialInv, Inv, NEW full \in ChainChoices, NewBlock(full)
    PROVE  SerialInv'
<1> DEFINE blk == full[Len(chain) + 1]
           m   == Len(chain) + 1
<1>1. /\ \A f \in blk.sale : f.order \notin FilledOrders
      /\ chain' = Append(chain, blk)
      /\ UNCHANGED <<cursor, cards, hasSale, sales, created, signed, walk, sell, strays, req, crashes>>
  BY DEF NewBlock, db
<1> HIDE DEF blk
<1>2. /\ Len(chain) \in Nat /\ DOMAIN chain = 1..Len(chain) /\ DOMAIN chain' = 1..m
      /\ \A k \in DOMAIN chain : chain'[k] = chain[k]
      /\ chain'[m] = blk
  BY <1>1, AppendProperties DEF Inv, ChainInv
<1>3. /\ \A k \in DOMAIN chain : FilledIn(k)' = FilledIn(k)
      /\ \A k : k = m => FilledIn(k)' = {f.order : f \in blk.sale}
  BY <1>2 DEF FilledIn
<1>4. FillsInv'
  <2>1. \A k \in DOMAIN chain : \A o \in FilledIn(k) : o \in FilledOrders
    BY DEF FilledIn, FilledOrders
  <2>2. \A k \in DOMAIN chain' : k \in DOMAIN chain \/ k = m
    BY <1>2
  <2>3. \A k \in DOMAIN chain : \A j : j = m => \A o \in FilledIn(k)' : o \notin FilledIn(j)'
    BY <1>1, <1>3, <2>1
  <2>4. ASSUME NEW j \in DOMAIN chain', NEW k \in DOMAIN chain',
               NEW o \in FilledIn(j)', o \in FilledIn(k)'
        PROVE  j = k
    BY <1>3, <2>2, <2>3, <2>4 DEF SerialInv, FillsInv
  <2>5. \A k : Marked(k)' <=> Marked(k)
    BY <1>1 DEF Marked
  <2>6. DOMAIN chain \subseteq DOMAIN chain'
    BY <1>2
  <2>7. \A s \in sales : s.status = "sold" =>
          \E k \in DOMAIN chain' : s.order \in FilledIn(k)' /\ Marked(k)'
    BY <1>3, <2>5, <2>6 DEF SerialInv, FillsInv
  <2> QED BY <1>1, <2>4, <2>7 DEF FillsInv
<1>5. SellInv'
  <2>1. \A t : TaskSave(t)' <=> TaskSave(t)
    BY <1>1 DEF TaskSave
  <2>2. \A c : ExistsSale(c)' = ExistsSale(c)
    BY <1>1 DEF ExistsSale, CardOf
  <2>3. ASSUME sell.pc = "mark"
        PROVE  \E k \in DOMAIN chain : k = cursor["sale"] /\ FilledIn(k)' = FilledIn(k)
    BY <1>3, <2>3 DEF SerialInv, SellInv
  <2>4. FilledIn(cursor["sale"])' = FilledIn(cursor["sale"])' /\ DOMAIN chain \subseteq DOMAIN chain'
    BY <1>2
  <2>5. ASSUME sell.pc = "mark"
        PROVE  {f.order : f \in chain'[cursor["sale"]].sale} = FilledIn(cursor["sale"])
    BY <1>2, <2>5 DEF SerialInv, SellInv, FilledIn
  <2> QED BY <1>1, <2>1, <2>2, <2>4, <2>5 DEF SerialInv, SellInv, FilledIn, CardOf
<1>6. Alone' /\ OrdersInv'
  BY <1>1 DEF SerialInv, Alone, SellTurn, WalkerTurn, WalkersRest, RequestTurn, RequestsRest,
              OrdersInv
<1>7. WalksInv'
  <2>1. \A l \in Walkers : Carries(l)' <=> Carries(l)
    BY <1>1 DEF Carries, Event, Computed, SalesOf, CardOf, MakerOf, HeldBy, ExistsSale
  <2> QED BY <2>1 DEF SerialInv, WalksInv
<1>8. RequestsInv'
  <2>1. \A r \in Requests : Asks(r)' <=> Asks(r)
    BY <1>1 DEF Asks, SalesOf, CardOf, MakerOf, HeldBy, ExistsSale
  <2> QED BY <2>1 DEF SerialInv, RequestsInv
<1>9. FlagsInv'
  <2>1. \A c \in Cards : (Accurate(c)' <=> Accurate(c)) /\ (ToFlag(c)' <=> ToFlag(c))
    BY <1>1, AccurateKept DEF ToFlag, Event
  <2> QED BY <1>1, <2>1 DEF SerialInv, FlagsInv
<1> QED BY <1>4, <1>5, <1>6, <1>7, <1>8, <1>9 DEF SerialInv

LEMMA SerialStutter ==
    ASSUME SerialInv, UNCHANGED vars
    PROVE  SerialInv'
<1>1. UNCHANGED <<chain, cursor, cards, hasSale, sales, created, signed, walk, sell, strays, req, crashes>>
  BY DEF vars, db
<1>2. Alone' /\ OrdersInv'
  BY <1>1 DEF SerialInv, Alone, SellTurn, WalkerTurn, WalkersRest, RequestTurn, RequestsRest,
              OrdersInv
<1>3. FillsInv'
  BY <1>1 DEF SerialInv, FillsInv, FilledIn, Marked
<1>4. SellInv'
  <2>1. \A x : TaskSave(x)' <=> TaskSave(x)
    BY <1>1 DEF TaskSave
  <2> QED BY <1>1, <2>1 DEF SerialInv, SellInv, FilledIn, CardOf, ExistsSale
<1>5. WalksInv'
  <2>1. \A l \in Walkers : Carries(l)' <=> Carries(l)
    BY <1>1 DEF Carries, Event, Computed, SalesOf, CardOf, MakerOf, HeldBy, ExistsSale
  <2> QED BY <2>1 DEF SerialInv, WalksInv
<1>6. RequestsInv'
  <2>1. \A r \in Requests : Asks(r)' <=> Asks(r)
    BY <1>1 DEF Asks, SalesOf, CardOf, MakerOf, HeldBy, ExistsSale
  <2> QED BY <1>1, <2>1 DEF SerialInv, RequestsInv
<1>7. FlagsInv'
  <2>1. \A c \in Cards : (Accurate(c)' <=> Accurate(c)) /\ (ToFlag(c)' <=> ToFlag(c))
    BY <1>1, AccurateKept DEF ToFlag, Event
  <2> QED BY <1>1, <2>1 DEF SerialInv, FlagsInv
<1> QED BY <1>2, <1>3, <1>4, <1>5, <1>6, <1>7 DEF SerialInv

LEMMA SerialNext ==
    ASSUME SerialInv, Inv, StoreSound, Serial, [Next]_vars
    PROVE  SerialInv'
<1>1. ~Strays
  BY DEF Strays, SerialInv, Alone
<1>2. ~Crash
  BY DEF Crash, SerialInv, Alone, Serial
<1>3. CASE Next
  BY <1>1, <1>2, <1>3, SerialNewBlock, SerialFindTransferred, SerialFindBurned, SerialWalk,
     SerialSell, SerialRequest DEF Next
<1> QED BY <1>3, SerialStutter

LEMMA SerialInit == ASSUME Init, Serial PROVE SerialInv
<1>1. /\ Len(Listed) \in Nat /\ DOMAIN Listed = 1..Len(Listed)
      /\ \A i \in DOMAIN Listed : Listed[i] \in Orders
  BY MarketAssumption
<1>2. sales = {Sale(i, Listed[i]) : i \in DOMAIN Listed}
  BY DEF Init
<1>3. \A i, j \in DOMAIN Listed : Listed[i] = Listed[j] => i = j
  BY DEF Serial
<1>4. Alone
  BY DEF Init, Alone, SellTurn, Resting, NoReq
<1>5. OrdersInv
  <2>1. IsFiniteSet(sales)
    <3> DEFINE f == [i \in DOMAIN Listed |-> Sale(i, Listed[i])]
    <3>1. f \in Surjection(DOMAIN Listed, sales)
      BY <1>2 DEF Surjection
    <3>2. IsFiniteSet(DOMAIN Listed)
      BY <1>1, FS_Interval
    <3> QED BY <3>1, <3>2, FS_Surjection
  <2>2. \A s, t \in sales : s.order = t.order \/ s.id = t.id => s = t
    BY <1>2, <1>3 DEF Sale
  <2>3. \A s \in sales : s.order \in signed /\ s.id <= created
    BY <1>1, <1>2 DEF Sale, Init
  <2>4. \A r \in Requests : req[r].pc = "idle"
    BY DEF Init, NoReq
  <2> QED BY <2>1, <2>2, <2>3, <2>4 DEF OrdersInv
<1>6. FillsInv
  BY <1>2 DEF Init, FillsInv, Sale
<1>7. SellInv
  BY DEF Init, SellInv, NoSell
<1>8. WalksInv
  BY DEF Init, WalksInv, Carries, Resting
<1>9. RequestsInv
  BY DEF Init, RequestsInv, Asks, NoReq
<1>10. FlagsInv
  <2>1. hasSale = [c \in Cards |-> \E i \in DOMAIN Listed : OrderData[Listed[i]].card = c]
    BY DEF Init
  <2>2. \A i \in DOMAIN Listed : /\ Sale(i, Listed[i]).order = Listed[i]
                                 /\ Sale(i, Listed[i]).status = "sale"
    BY DEF Sale
  <2>3. \A c : ExistsSale(c) <=> \E i \in DOMAIN Listed : OrderData[Listed[i]].card = c
    BY <1>2, <2>2 DEF ExistsSale, CardOf
  <2>4. \A c \in Cards : hasSale[c] = ExistsSale(c)
    <3>1. \A c : ExistsSale(c) \in BOOLEAN
      BY DEF ExistsSale
    <3> QED BY <2>1, <2>3, <3>1
  <2> QED BY <2>1, <2>4 DEF FlagsInv, Accurate
<1> QED BY <1>4, <1>5, <1>6, <1>7, <1>8, <1>9, <1>10 DEF SerialInv

-----------------------------------------------------------------------------
(* Who is covered.                                                         *)
LEMMA LiveTyped ==
    ASSUME Inv, SerialInv, NEW c, NEW u
    PROVE  /\ IsFiniteSet(LiveSales(c, u)) /\ LiveSales(c, u) \subseteq SaleDocs
           /\ IsFiniteSet(SalesOf(c, u)) /\ SalesOf(c, u) \subseteq SaleDocs
           /\ Total(LiveSales(c, u)) \in Nat /\ Total(SalesOf(c, u)) \in Nat
           /\ Total(LiveSales(c, u)) <= Total(SalesOf(c, u))
<1>1. LiveSales(c, u) \subseteq SalesOf(c, u) /\ SalesOf(c, u) \subseteq sales
  BY DEF LiveSales, SalesOf
<1>2. /\ IsFiniteSet(LiveSales(c, u)) /\ LiveSales(c, u) \subseteq SaleDocs
      /\ IsFiniteSet(SalesOf(c, u)) /\ SalesOf(c, u) \subseteq SaleDocs
  BY <1>1, SalesTyped
<1>3. Total(LiveSales(c, u)) <= Total(SalesOf(c, u))
  BY <1>1, <1>2, TotalSubset
<1> QED BY <1>2, <1>3, TotalNat

LEMMA LiveShrinks ==
    ASSUME Inv, SerialInv, NEW c, NEW u, LiveSales(c, u)' \subseteq LiveSales(c, u)
    PROVE  Total(LiveSales(c, u))' <= Total(LiveSales(c, u)) /\ Total(LiveSales(c, u))' \in Nat
<1> DEFINE S == LiveSales(c, u)
<1>1. IsFiniteSet(S) /\ S \subseteq SaleDocs
  BY LiveTyped
<1> SUFFICES ASSUME NEW T, T = LiveSales(c, u)'
             PROVE  Total(T) <= Total(S) /\ Total(T) \in Nat
  OBVIOUS
<1>2. T \in SUBSET S
  OBVIOUS
<1> HIDE DEF S
<1>3. IsFiniteSet(T) /\ T \subseteq SaleDocs
  BY <1>1, <1>2, FS_Subset
<1> QED BY <1>1, <1>2, <1>3, TotalSubset, TotalNat

(* A step that lets no balance go and adds no live sale.                   *)
LEMMA CoverKept ==
    ASSUME CoverInv, Inv, SerialInv, StoreSound, cards' = cards,
           \A c \in Cards, u \in Users : LiveSales(c, u)' \subseteq LiveSales(c, u),
           \A c \in Cards, u \in Users :
             Unchecked(c, u) =>
               Unchecked(c, u)' \/ Total(LiveSales(c, u))' <= HeldBy(c, u),
           sell'.pc = "apply" =>
             sell.pc = "apply" /\ \A t \in sell'.tasks : \E x \in sell.tasks : x.order = t.order
    PROVE  CoverInv'
<1>1. \A c, u : HeldBy(c, u)' = HeldBy(c, u)
  BY DEF HeldBy
<1>2. ASSUME NEW c \in Cards, NEW u \in Users
      PROVE  /\ Total(LiveSales(c, u))' <= Total(LiveSales(c, u))
             /\ Total(LiveSales(c, u)) \in Nat /\ Total(LiveSales(c, u))' \in Nat
             /\ HeldBy(c, u) \in Nat
  BY LiveTyped, LiveShrinks, HeldNat
<1>3. ASSUME NEW c \in Cards, NEW u \in Users
      PROVE  Unchecked(c, u)' \/ Total(LiveSales(c, u))' <= HeldBy(c, u)'
  <2>1. Unchecked(c, u) \/ Total(LiveSales(c, u)) <= HeldBy(c, u)
    BY DEF CoverInv
  <2>2. CASE Unchecked(c, u)
    BY <1>1, <2>2
  <2>3. CASE Total(LiveSales(c, u)) <= HeldBy(c, u)
    <3>1. Total(LiveSales(c, u))' <= HeldBy(c, u)
      BY <1>2, <2>3
    <3> QED BY <1>1, <3>1
  <2> QED BY <2>1, <2>2, <2>3
<1>4. ASSUME sell'.pc = "apply", NEW t \in sell'.tasks
      PROVE  LET o == OrderData[t.order]
             IN  Total(LiveSales(o.card, o.user))' + o.n <= HeldBy(o.card, o.user)'
  <2>1. PICK x \in sell.tasks : x.order = t.order
    BY <1>4
  <2> DEFINE o == OrderData[x.order]
  <2>2. Total(LiveSales(o.card, o.user)) + o.n <= HeldBy(o.card, o.user)
    BY <1>4 DEF CoverInv
  <2>3. x.order \in Orders
    BY TaskShape
  <2>4. o.card \in Cards /\ o.user \in Users /\ o.n \in Nat
    BY <2>3, OrdersTyped, StoreConstants
  <2>5. ASSUME NEW c \in Cards, NEW u \in Users, NEW n \in Nat,
               Total(LiveSales(c, u)) + n <= HeldBy(c, u)
        PROVE  Total(LiveSales(c, u))' + n <= HeldBy(c, u)'
    <3>1. Total(LiveSales(c, u))' + n <= HeldBy(c, u)
      BY <1>2, <2>5
    <3> QED BY <1>1, <3>1
  <2>6. Total(LiveSales(OrderData[t.order].card, OrderData[t.order].user)) + OrderData[t.order].n
          <= HeldBy(OrderData[t.order].card, OrderData[t.order].user)
    BY <2>1, <2>2
  <2> QED BY <2>1, <2>4, <2>5, <2>6
<1> QED BY <1>3, <1>4 DEF CoverInv

Checking == {"sum", "load", "dropCard", "drop"}

LEMMA LiveOfFewer ==
    ASSUME sales' \subseteq sales, NEW c, NEW u
    PROVE  LiveSales(c, u)' \subseteq LiveSales(c, u)
BY DEF LiveSales, SalesOf, CardOf, MakerOf

LEMMA WalkerCover ==
    ASSUME CoverInv, Inv, SerialInv, StoreSound, NEW l \in Walkers, WalkerTurn(l),
           cards' = cards, sales' \subseteq sales, sell' = sell,
           NEW e, e = Event(l),
           walk[l].pc \in Checking =>
             \/ walk'[l].pc \in Checking /\ Event(l)' = e
             \/ Total(LiveSales(e.card, e.from))' <= HeldBy(e.card, e.from)
    PROVE  CoverInv'
<1>1. sell.pc = "idle"
  BY DEF WalkerTurn
<1>2. ASSUME NEW c \in Cards, NEW u \in Users, Unchecked(c, u)
      PROVE  Unchecked(c, u)' \/ Total(LiveSales(c, u))' <= HeldBy(c, u)
  <2>1. walk[l].pc \in Checking /\ e.card = c /\ e.from = u
    BY <1>2 DEF Unchecked, WalkerTurn, WalkersRest, Checking
  <2>2. CASE walk'[l].pc \in Checking /\ Event(l)' = e
    BY <2>1, <2>2 DEF Unchecked, Checking
  <2>3. CASE Total(LiveSales(e.card, e.from))' <= HeldBy(e.card, e.from)
    BY <2>1, <2>3
  <2> QED BY <2>1, <2>2, <2>3
<1>3. \A c \in Cards, u \in Users : LiveSales(c, u)' \subseteq LiveSales(c, u)
  BY LiveOfFewer
<1> QED BY <1>1, <1>2, <1>3, CoverKept

(* The owner's sales are summed: none, and they are covered.               *)
LEMMA CoverSumOnSale ==
    ASSUME CoverInv, Inv, SerialInv, StoreSound, NEW l \in Walkers, SumOnSale(l)
    PROVE  CoverInv'
<1> DEFINE total == OnSale(Event(l).card, Event(l).from)
           w == [walk[l] EXCEPT !.pc = "load", !.onSale = total]
<1> SUFFICES ASSUME NEW e, e = Event(l) PROVE CoverInv'
  OBVIOUS
<1>1. /\ walk[l].pc = "sum" /\ DOMAIN walk = Walkers
      /\ UNCHANGED <<cards, sales, sell>>
  BY DEF SumOnSale, db, Inv, WalkInv
<1>2. WalkerTurn(l) /\ e.card \in Cards
  BY <1>1, TurnOf, WalkEvents DEF SerialInv
<1>3. CASE total = 0
  <2>1. Total(SalesOf(e.card, e.from)) = 0
    BY <1>3, OnSaleIsTotal
  <2>2. Total(LiveSales(e.card, e.from)) = 0
    BY <2>1, LiveTyped
  <2>3. LiveSales(e.card, e.from)' \subseteq LiveSales(e.card, e.from)
    BY <1>1, LiveOfFewer
  <2>4. /\ Total(LiveSales(e.card, e.from))' <= Total(LiveSales(e.card, e.from))
        /\ Total(LiveSales(e.card, e.from))' \in Nat
    BY <2>3, LiveShrinks
  <2>5. HeldBy(e.card, e.from) \in Nat
    BY <1>2, HeldNat
  <2>6. Total(LiveSales(e.card, e.from))' <= HeldBy(e.card, e.from)
    BY <2>2, <2>4, <2>5
  <2> QED BY <1>1, <1>2, <2>6, WalkerCover
<1>4. CASE total # 0
  <2>1. walk' = [walk EXCEPT ![l] = w]
    BY <1>4 DEF SumOnSale
  <2>2. DOMAIN walk[l] = {"pc", "todo", "upd", "onSale", "hs"}
    BY <1>1, WalkerFacts
  <2>3. w.pc = "load" /\ w.todo = walk[l].todo
    BY <2>2
  <2> HIDE DEF w
  <2>4. walk'[l].pc \in Checking /\ Event(l)' = e
    BY <1>1, <2>1, <2>3 DEF Event, Checking
  <2> QED BY <1>1, <1>2, <2>4, WalkerCover
<1> QED BY <1>3, <1>4

(* The card is loaded: what the owner holds covers the sum, or they go.    *)
LEMMA CoverLoadCard ==
    ASSUME CoverInv, Inv, SerialInv, StoreSound, NEW l \in Walkers, LoadCard(l)
    PROVE  CoverInv'
<1> SUFFICES ASSUME NEW e, e = Event(l) PROVE CoverInv'
  OBVIOUS
<1> DEFINE doc == cards[e.card]
           pc  == IF doc = NoCard THEN "dropCard"
                  ELSE IF walk[l].onSale > AmountOf(doc.bal, e.from) THEN "drop"
                  ELSE "exists"
           w   == [walk[l] EXCEPT !.pc = pc]
<1>1. /\ walk[l].pc = "load" /\ DOMAIN walk = Walkers
      /\ UNCHANGED <<cards, sales, sell>>
      /\ walk' = [walk EXCEPT ![l] = w]
  BY DEF LoadCard, GoTo, db, Inv, WalkInv
<1>2. WalkerTurn(l) /\ e.card \in Cards
  BY <1>1, TurnOf, WalkEvents DEF SerialInv
<1>3. DOMAIN walk[l] = {"pc", "todo", "upd", "onSale", "hs"}
  BY <1>1, WalkerFacts
<1>4. w.pc = pc /\ w.todo = walk[l].todo
  BY <1>3
<1>5. walk'[l].pc = pc /\ Event(l)' = e
  <2> HIDE DEF w, pc
  <2> QED BY <1>1, <1>4 DEF Event
<1>6. CASE pc \in Checking
  BY <1>1, <1>2, <1>5, <1>6, WalkerCover
<1>7. CASE pc \notin Checking
  <2>1. doc # NoCard /\ ~(walk[l].onSale > AmountOf(doc.bal, e.from))
    BY <1>7 DEF Checking
  <2>2. walk[l].onSale = Total(SalesOf(e.card, e.from))
    BY <1>1 DEF SerialInv, WalksInv, Carries
  <2>3. HeldBy(e.card, e.from) = AmountOf(doc.bal, e.from) /\ HeldBy(e.card, e.from) \in Nat
    BY <1>2, <2>1, HeldNat DEF HeldBy
  <2> HIDE DEF doc
  <2>4. Total(LiveSales(e.card, e.from)) <= HeldBy(e.card, e.from)
        /\ Total(LiveSales(e.card, e.from)) \in Nat
    BY <2>1, <2>2, <2>3, LiveTyped
  <2>5. LiveSales(e.card, e.from)' \subseteq LiveSales(e.card, e.from)
    BY <1>1, LiveOfFewer
  <2>6. /\ Total(LiveSales(e.card, e.from))' <= Total(LiveSales(e.card, e.from))
        /\ Total(LiveSales(e.card, e.from))' \in Nat
    BY <2>5, LiveShrinks
  <2>7. Total(LiveSales(e.card, e.from))' <= HeldBy(e.card, e.from)
    BY <2>3, <2>4, <2>6
  <2> QED BY <1>1, <1>2, <2>7, WalkerCover
<1> QED BY <1>6, <1>7

(* The sales of the owner, or of the card, are gone.                       *)
LEMMA CoverDrops ==
    ASSUME CoverInv, Inv, SerialInv, StoreSound, NEW l \in Walkers,
           DropSalesOfCard(l) \/ DropSalesOfOwner(l)
    PROVE  CoverInv'
<1> SUFFICES ASSUME NEW e, e = Event(l) PROVE CoverInv'
  OBVIOUS
<1>1. /\ walk[l].pc \in {"dropCard", "drop"}
      /\ UNCHANGED <<cards, sell>>
      /\ \/ sales' = {s \in sales : CardOf(s) # e.card}
         \/ sales' = sales \ SalesOf(e.card, e.from)
  BY DEF DropSalesOfCard, DropSalesOfOwner
<1>2. WalkerTurn(l) /\ e.card \in Cards
  BY <1>1, TurnOf, WalkEvents DEF SerialInv
<1>3. LiveSales(e.card, e.from)' = {}
  BY <1>1 DEF LiveSales, SalesOf, CardOf, MakerOf
<1>4. Total(LiveSales(e.card, e.from))' = 0
  BY <1>3, TotalEmpty
<1>5. HeldBy(e.card, e.from) \in Nat
  BY <1>2, HeldNat
<1>6. Total(LiveSales(e.card, e.from))' <= HeldBy(e.card, e.from)
  BY <1>4, <1>5
<1>7. sales' \subseteq sales
  BY <1>1
<1> QED BY <1>1, <1>2, <1>6, <1>7, WalkerCover

(* The other steps of a listener do not touch cards and sales, but for the *)
(* save, which leaves its card and owner to be looked at.                  *)
LEMMA CoverOtherWalks ==
    ASSUME CoverInv, Inv, SerialInv, StoreSound, Serial, NEW l \in Walkers,
           \/ StartWalk(l) \/ WalkExists(l) \/ WalkFlag(l) \/ WalkIncrease(l)
           \/ l = "transfer" /\ FindTransferred
           \/ l = "burn" /\ FindBurned
    PROVE  CoverInv'
<1> SUFFICES ASSUME NEW e, e = Event(l) PROVE CoverInv'
  OBVIOUS
<1>1. /\ walk[l].pc \notin Checking
      /\ UNCHANGED <<cards, sales, sell>>
  BY DEF StartWalk, WalkExists, WalkFlag, WalkIncrease, FindTransferred, FindBurned, db, Checking
<1>2. WalkerTurn(l)
  BY SerialStartWalk, SerialWalkExists, SerialWalkFlag, SerialWalkIncrease,
     SerialFindTransferred, SerialFindBurned
<1> QED BY <1>1, <1>2, WalkerCover

(* What a computed save leaves is a document.                              *)
LEMMA SavedThere ==
    ASSUME NEW c \in Cards, NEW doc \in Proved!Docs, OneEntryEach(doc.bal),
           NEW n \in Nat \ {0}, NEW maker \in Holders(doc.bal)
    PROVE  /\ \A taker \in Users : Saved(doc, ChangeOwnerships(c, doc, n, maker, taker)) # NoCard
           /\ BurnCard(c, doc, n, maker).kind # "delete" =>
                Saved(doc, BurnCard(c, doc, n, maker)) # NoCard
<1>1. Proved!OneEntryEach(doc.bal) /\ maker \in Proved!Holders(doc.bal)
  BY SameDocument
<1>2. ASSUME NEW upd, upd \in Proved!Updates, Proved!GoodFor(upd, doc), upd.kind # "delete"
      PROVE  Saved(doc, upd) # NoCard
  <2>1. Proved!Saved(doc, upd) \in Proved!Docs
    BY <1>1, <1>2, StoreConstants, Proved!SavedProperties DEF Proved!GoodFor
  <2>2. Proved!Saved(doc, upd) = Saved(doc, upd)
    BY DEF Proved!Saved, Saved, Proved!NextVersion, NextVersion
  <2> QED BY <2>1, <2>2, StoreConstants
<1>3. ASSUME NEW taker \in Users
      PROVE  Saved(doc, ChangeOwnerships(c, doc, n, maker, taker)) # NoCard
  <2> DEFINE upd == ChangeOwnerships(c, doc, n, maker, taker)
  <2>1. Proved!ChangeOwnerships(c, doc, n, maker, taker) = upd
    BY DEF Proved!ChangeOwnerships, ChangeOwnerships, Proved!AmountOf, AmountOf,
           Proved!Entry, Entry, Proved!Holders, Holders, Proved!Credited, Credited,
           Proved!Debited, Debited, Proved!WithAmount, WithAmount, Proved!RemoveAt, RemoveAt
  <2>2. upd.kind # "delete"
    BY DEF ChangeOwnerships
  <2> HIDE DEF upd
  <2>3. upd \in Proved!Updates /\ Proved!GoodFor(upd, doc)
    BY <1>1, <2>1, StoreConstants, Proved!TransferComputes
  <2>4. Saved(doc, upd) # NoCard
    BY <1>2, <2>2, <2>3
  <2> QED BY <2>4 DEF upd
<1>4. ASSUME BurnCard(c, doc, n, maker).kind # "delete"
      PROVE  Saved(doc, BurnCard(c, doc, n, maker)) # NoCard
  <2> DEFINE upd == BurnCard(c, doc, n, maker)
  <2>1. Proved!BurnCard(c, doc, n, maker) = upd
    BY DEF Proved!BurnCard, BurnCard, Proved!BurnKind, BurnKind, Proved!BurnTotal, BurnTotal,
           Proved!AmountOf, AmountOf, Proved!Entry, Entry, Proved!Holders, Holders,
           Proved!Debited, Debited, Proved!WithAmount, WithAmount, Proved!RemoveAt, RemoveAt
  <2> HIDE DEF upd
  <2>2. upd \in Proved!Updates /\ Proved!GoodFor(upd, doc)
    BY <1>1, <2>1, StoreConstants, Proved!BurnComputes
  <2>3. upd.kind # "delete"
    BY <1>4 DEF upd
  <2>4. Saved(doc, upd) # NoCard
    BY <1>2, <2>2, <2>3
  <2> QED BY <2>4 DEF upd
<1> QED BY <1>3, <1>4

(* Nobody but the owner who lets tokens go has fewer after the save.       *)
LEMMA TransferLeavesOthers ==
    ASSUME NEW c \in Cards, NEW doc \in Proved!Docs, doc.bal \in Accounts, OneEntryEach(doc.bal),
           NEW n \in Nat \ {0}, NEW maker \in Holders(doc.bal), NEW taker \in Users,
           NEW u, u # maker
    PROVE  LET upd == ChangeOwnerships(c, doc, n, maker, taker)
           IN  /\ upd.kind # "delete" /\ Saved(doc, upd) # NoCard
               /\ AmountOf(doc.bal, u) <= AmountOf(Saved(doc, upd).bal, u)
               /\ AmountOf(Saved(doc, upd).bal, u) \in Nat
<1> DEFINE upd == ChangeOwnerships(c, doc, n, maker, taker)
<1>1. Saved(doc, upd) # NoCard
  BY SavedThere
<1>2. upd.kind # "delete" /\ Transferred(doc.bal, Saved(doc, upd).bal, n, maker, taker)
  BY TransferAmounts
<1>3. AmountOf(doc.bal, u) \in Nat
  BY AmountNat
<1> HIDE DEF upd
<1> QED BY <1>1, <1>2, <1>3 DEF upd, Transferred

LEMMA BurnLeavesOthers ==
    ASSUME NEW c \in Cards, NEW doc \in Proved!Docs, doc.bal \in Accounts, OneEntryEach(doc.bal),
           NEW n \in Nat \ {0}, NEW owner \in Holders(doc.bal), NEW u, u # owner
    PROVE  LET upd == BurnCard(c, doc, n, owner)
           IN  /\ upd.kind = "delete" => AmountOf(doc.bal, u) = 0
               /\ upd.kind # "delete" =>
                    /\ Saved(doc, upd) # NoCard
                    /\ AmountOf(doc.bal, u) <= AmountOf(Saved(doc, upd).bal, u)
                    /\ AmountOf(Saved(doc, upd).bal, u) \in Nat
<1> DEFINE upd == BurnCard(c, doc, n, owner)
<1>1. upd.kind # "delete" => Saved(doc, upd) # NoCard
  BY SavedThere
<1>2. /\ upd.kind = "delete" => BurnedAway(doc.bal, n, owner)
      /\ upd.kind # "delete" => Burned(doc.bal, Saved(doc, upd).bal, n, owner)
  BY BurnAmounts
<1>3. AmountOf(doc.bal, u) \in Nat
  BY AmountNat
<1> HIDE DEF upd
<1> QED BY <1>1, <1>2, <1>3 DEF upd, Burned, BurnedAway

LEMMA CoverSaveCard ==
    ASSUME CoverInv, Inv, SerialInv, StoreSound, NEW l \in Walkers, SaveCard(l)
    PROVE  CoverInv'
<1> SUFFICES ASSUME NEW e, e = Event(l) PROVE CoverInv'
  OBVIOUS
<1> DEFINE doc == cards[e.card]
           upd == Computed(l, e)
           new == IF upd.kind = "delete" THEN NoCard ELSE Saved(doc, upd)
<1>1. walk[l].pc = "save" /\ UNCHANGED <<sales, sell>>
  BY DEF SaveCard
<1>2. /\ WalkerTurn(l) /\ walk'[l].pc = "sum" /\ Event(l)' = e
      /\ cards' = [cards EXCEPT ![e.card] = new]
  BY SerialSaveCard
<1>3. /\ e.card \in Cards /\ doc # NoCard /\ e.from \in Holders(doc.bal)
      /\ e.from \in Users /\ e.n \in Nat \ {0} /\ (l = "transfer" => e.to \in Users)
      /\ doc.bal \in Accounts /\ OneEntryEach(doc.bal)
      /\ DOMAIN cards = Cards
  <2>1. walk[l].pc \notin {"idle", "increase"}
    BY <1>1
  <2>2. e.card \in Cards /\ doc # NoCard /\ e.from \in Holders(doc.bal)
    BY <1>1, ComputedAccepted
  <2>3. e.from \in Users /\ e.n \in Nat \ {0} /\ (l = "transfer" => e.to \in Users)
    BY <2>1, WalkEvents
  <2> QED BY <2>2, <2>3, DocsSound
<1>4. ASSUME NEW u, u # e.from
      PROVE  /\ AmountOf(doc.bal, u) <= IF new = NoCard THEN 0 ELSE AmountOf(new.bal, u)
             /\ (IF new = NoCard THEN 0 ELSE AmountOf(new.bal, u)) \in Nat
  <2>1. AmountOf(doc.bal, u) \in Nat /\ doc \in Proved!Docs
    BY <1>3, AmountNat, DocsSound
  <2>2. CASE l = "transfer"
    <3>1. upd = ChangeOwnerships(e.card, doc, e.n, e.from, e.to) /\ e.to \in Users
      BY <1>3, <2>2 DEF Computed
    <3> HIDE DEF doc
    <3>2. /\ upd.kind # "delete" /\ Saved(doc, upd) # NoCard
          /\ AmountOf(doc.bal, u) <= AmountOf(Saved(doc, upd).bal, u)
          /\ AmountOf(Saved(doc, upd).bal, u) \in Nat
      <4> DEFINE x == ChangeOwnerships(e.card, doc, e.n, e.from, e.to)
      <4>1. /\ x.kind # "delete" /\ Saved(doc, x) # NoCard
            /\ AmountOf(doc.bal, u) <= AmountOf(Saved(doc, x).bal, u)
            /\ AmountOf(Saved(doc, x).bal, u) \in Nat
        BY <1>3, <1>4, <2>1, <3>1, TransferLeavesOthers
      <4> HIDE DEF x, upd
      <4>2. upd = x
        BY <3>1 DEF x
      <4> QED BY <4>1, <4>2
    <3> HIDE DEF upd
    <3> QED BY <3>2
  <2>3. CASE l # "transfer"
    <3>1. upd = BurnCard(e.card, doc, e.n, e.from)
      BY <2>3 DEF Computed
    <3> HIDE DEF upd, doc
    <3>2. /\ upd.kind = "delete" => AmountOf(doc.bal, u) = 0
          /\ upd.kind # "delete" =>
               /\ Saved(doc, upd) # NoCard
               /\ AmountOf(doc.bal, u) <= AmountOf(Saved(doc, upd).bal, u)
               /\ AmountOf(Saved(doc, upd).bal, u) \in Nat
      <4> DEFINE x == BurnCard(e.card, doc, e.n, e.from)
      <4>1. /\ x.kind = "delete" => AmountOf(doc.bal, u) = 0
            /\ x.kind # "delete" =>
                 /\ Saved(doc, x) # NoCard
                 /\ AmountOf(doc.bal, u) <= AmountOf(Saved(doc, x).bal, u)
                 /\ AmountOf(Saved(doc, x).bal, u) \in Nat
        BY <1>3, <1>4, <2>1, BurnLeavesOthers
      <4> HIDE DEF x
      <4>2. upd = x
        BY <3>1 DEF x
      <4> QED BY <4>1, <4>2
    <3> QED BY <2>1, <3>2
  <2> QED BY <2>2, <2>3
<1> HIDE DEF new, upd
<1>5. ASSUME NEW c \in Cards, NEW u \in Users
      PROVE  Unchecked(c, u)' \/ Total(LiveSales(c, u))' <= HeldBy(c, u)'
  <2>1. CASE c = e.card /\ u = e.from
    BY <1>2, <2>1 DEF Unchecked
  <2>2. CASE c # e.card \/ u # e.from
    <3>1. ~Unchecked(c, u)
      BY <1>1, <1>2, <2>2 DEF Unchecked, WalkerTurn, WalkersRest
    <3>2. Total(LiveSales(c, u)) <= HeldBy(c, u)
      BY <3>1 DEF CoverInv
    <3>3. HeldBy(c, u) <= HeldBy(c, u)' /\ HeldBy(c, u)' \in Nat
      <4>1. HeldBy(c, u) \in Nat
        BY HeldNat
      <4>2. CASE c = e.card
        <5>1. cards'[c] = new
          BY <1>2, <1>3, <4>2
        <5>2. u # e.from
          BY <2>2, <4>2
        <5>3. /\ AmountOf(doc.bal, u) <= IF new = NoCard THEN 0 ELSE AmountOf(new.bal, u)
              /\ (IF new = NoCard THEN 0 ELSE AmountOf(new.bal, u)) \in Nat
          BY <1>4, <5>2
        <5>4. HeldBy(c, u) = AmountOf(doc.bal, u)
          BY <1>3, <4>2 DEF HeldBy
        <5>5. HeldBy(c, u)' = IF new = NoCard THEN 0 ELSE AmountOf(new.bal, u)
          BY <5>1 DEF HeldBy
        <5> QED BY <5>3, <5>4, <5>5
      <4>3. CASE c # e.card
        <5>1. cards'[c] = cards[c]
          BY <1>2, <1>3, <4>3
        <5> QED BY <4>1, <5>1 DEF HeldBy
      <4> QED BY <4>2, <4>3
    <3>4. LiveSales(c, u)' = LiveSales(c, u)
      BY <1>1 DEF LiveSales, SalesOf, CardOf, MakerOf
    <3>5. Total(LiveSales(c, u))' = Total(LiveSales(c, u))
      BY <3>4
    <3>6. Total(LiveSales(c, u)) \in Nat /\ HeldBy(c, u) \in Nat
      BY LiveTyped, HeldNat
    <3> QED BY <3>2, <3>3, <3>5, <3>6
  <2> QED BY <2>1, <2>2
<1>6. sell'.pc = "idle"
  BY <1>1, <1>2 DEF WalkerTurn
<1> QED BY <1>5, <1>6 DEF CoverInv

(* A step of the sell listener that touches neither cards nor sales.       *)
LEMMA SellCover ==
    ASSUME CoverInv, Inv, SerialInv, StoreSound, SellTurn, UNCHANGED <<cards, sales, walk>>,
           sell'.pc = "apply" =>
             sell.pc = "apply" /\ \A t \in sell'.tasks : \E x \in sell.tasks : x.order = t.order
    PROVE  CoverInv'
<1>1. \A c \in Cards, u \in Users : LiveSales(c, u)' \subseteq LiveSales(c, u)
  BY LiveOfFewer
<1>2. \A c \in Cards, u \in Users : ~Unchecked(c, u)
  BY DEF Unchecked, SellTurn
<1> QED BY <1>1, <1>2, CoverKept

LEMMA CoverOtherSells ==
    ASSUME CoverInv, Inv, SerialInv, StoreSound, Serial,
           \/ StartSell \/ SellIncrease
           \/ \E t \in sell.tasks : ReadSold(t)
           \/ \E f \in sell.flags : SellExists(f) \/ SellFlag(f)
    PROVE  CoverInv'
<1>1. UNCHANGED <<cards, sales, walk>>
  BY DEF StartSell, AllSellData, SellIncrease, ReadSold, SellExists, SellFlag, db
<1>2. SellTurn
  BY SerialStartSell, SerialSellIncrease, SerialReadSold, SerialSellExists, SerialSellFlag
<1>3. CASE StartSell \/ SellIncrease
  <2>1. sell'.pc # "apply"
    BY <1>3 DEF StartSell, AllSellData, SellIncrease, NoSell
  <2> QED BY <1>1, <1>2, <2>1, SellCover
<1>4. ASSUME NEW t \in sell.tasks, ReadSold(t) PROVE CoverInv'
  <2>1. /\ sell.pc = "apply"
        /\ Remaining((sell.tasks \ {t}) \cup AfterRead(t))
    BY <1>4 DEF ReadSold
  <2>2. sell'.tasks = (sell.tasks \ {t}) \cup AfterRead(t)
    BY <2>1, RemainingTasks
  <2>3. \A x \in AfterRead(t) : x.order = t.order
    BY TaskShape DEF AfterRead
  <2> QED BY <1>1, <1>2, <2>1, <2>2, <2>3, SellCover
<1>5. ASSUME NEW f \in sell.flags, SellExists(f) \/ SellFlag(f) PROVE CoverInv'
  <2>1. sell.pc = "flags" /\ DOMAIN sell = {"pc", "tasks", "flags"}
    BY <1>5 DEF SellExists, SellFlag, Inv, TaskInv
  <2>2. sell'.pc # "apply"
    <3>1. CASE SellExists(f)
      BY <2>1, <3>1 DEF SellExists
    <3>2. CASE SellFlag(f)
      BY <2>1, <3>2 DEF SellFlag, NoSell
    <3> QED BY <1>5, <3>1, <3>2
  <2>3. sell'.pc = "apply" =>
          sell.pc = "apply" /\ \A t \in sell'.tasks : \E x \in sell.tasks : x.order = t.order
    BY <2>2
  <2> QED BY <1>1, <1>2, <2>3, SellCover
<1> QED BY <1>3, <1>4, <1>5

(* The filled sales stop being live, so their owners have those tokens to  *)
(* spare.                                                                  *)
LEMMA CoverMarkSold ==
    ASSUME CoverInv, Inv, SerialInv, StoreSound, MarkSold
    PROVE  CoverInv'
<1> DEFINE k       == cursor["sale"]
           filled  == {f.order : f \in chain[k].sale}
           mark(s) == IF s.order \in filled THEN [s EXCEPT !.status = "sold"] ELSE s
<1>1. /\ sell.pc = "mark" /\ sales' = {mark(s) : s \in sales}
      /\ sell' = [sell EXCEPT !.pc = "apply"] /\ UNCHANGED <<cards, walk>>
  BY DEF MarkSold
<1>2. SellTurn
  BY <1>1, TurnOf DEF SerialInv
<1>3. sell'.pc = "apply" /\ sell'.tasks = sell.tasks
  BY <1>1 DEF Inv, TaskInv
<1>4. FilledIn(k) = filled
  BY DEF FilledIn
<1>5. ASSUME NEW c, NEW u
      PROVE  LiveSales(c, u)' = {s \in LiveSales(c, u) : s.order \notin filled}
  <2>1. \A s \in sales : s.order \notin filled => mark(s) = s
    OBVIOUS
  <2>2. \A s \in sales : s.order \in filled => mark(s).status = "sold"
    BY DEF Inv, SalesInv
  <2> HIDE DEF mark, filled
  <2>3. ASSUME NEW s, s \in LiveSales(c, u)'
        PROVE  s \in LiveSales(c, u) /\ s.order \notin filled
    <3>1. PICK x \in sales : s = mark(x)
      BY <1>1, <2>3 DEF LiveSales, SalesOf
    <3>2. s.status = "sale"
      BY <2>3 DEF LiveSales
    <3>3. s = x /\ x.order \notin filled
      BY <2>1, <2>2, <3>1, <3>2
    <3> QED BY <2>3, <3>3 DEF LiveSales, SalesOf, CardOf, MakerOf
  <2>4. ASSUME NEW s \in LiveSales(c, u), s.order \notin filled
        PROVE  s \in LiveSales(c, u)'
    <3>1. s \in sales /\ mark(s) = s
      BY <2>1, <2>4 DEF LiveSales, SalesOf
    <3>2. s \in sales'
      BY <1>1, <3>1
    <3> QED BY <2>4, <3>2 DEF LiveSales, SalesOf, CardOf, MakerOf
  <2> QED BY <2>3, <2>4
<1> HIDE DEF mark, filled
<1>6. ASSUME NEW c \in Cards, NEW u \in Users
      PROVE  /\ Total(LiveSales(c, u))' <= HeldBy(c, u)
             /\ HeldBy(c, u)' = HeldBy(c, u)
  <2>1. ~Unchecked(c, u)
    BY <1>2 DEF Unchecked, SellTurn
  <2>2. Total(LiveSales(c, u)) <= HeldBy(c, u)
    BY <2>1 DEF CoverInv
  <2>3. LiveSales(c, u)' \subseteq LiveSales(c, u)
    BY <1>5
  <2>4. /\ Total(LiveSales(c, u))' <= Total(LiveSales(c, u))
        /\ Total(LiveSales(c, u))' \in Nat
    BY <2>3, LiveShrinks
  <2>5. HeldBy(c, u) \in Nat /\ Total(LiveSales(c, u)) \in Nat
    BY HeldNat, LiveTyped
  <2> QED BY <1>1, <2>2, <2>4, <2>5 DEF HeldBy
<1>7. ASSUME NEW t \in sell.tasks, NEW c, NEW u, NEW n,
             c = OrderData[t.order].card, u = OrderData[t.order].user, n = OrderData[t.order].n
      PROVE  Total(LiveSales(c, u))' + n <= HeldBy(c, u)'
  <2>1. c \in Cards /\ u \in Users /\ n \in Nat
    BY <1>7, TaskShape, OrdersTyped, StoreConstants
  <2>2. PICK s \in sales : s.order = t.order /\ t.order \in filled
    BY <1>1, <1>4 DEF SerialInv, SellInv
  <2>3. s.status = "sale"
    BY <1>1, <1>4, <2>2 DEF SerialInv, SellInv
  <2>4. s \in LiveSales(c, u)
    BY <1>7, <2>2, <2>3 DEF LiveSales, SalesOf, CardOf, MakerOf
  <2>5. Total(LiveSales(c, u) \ {s}) + n = Total(LiveSales(c, u))
    BY <1>7, <2>2, <2>4, LiveTyped, TotalSubset
  <2>6. LiveSales(c, u)' \subseteq LiveSales(c, u) \ {s}
    BY <1>5, <2>2
  <2> DEFINE S == LiveSales(c, u) \ {s}
  <2>7. IsFiniteSet(S) /\ S \subseteq SaleDocs
    BY LiveTyped, FS_Subset
  <2>8. \A T \in SUBSET S : Total(T) <= Total(S) /\ Total(T) \in Nat
    <3> HIDE DEF S
    <3> QED BY <2>7, TotalSubset, TotalNat, FS_Subset
  <2>9. Total(LiveSales(c, u))' <= Total(S) /\ Total(LiveSales(c, u))' \in Nat
    BY <2>6, <2>8
  <2>10. Total(S) \in Nat /\ Total(LiveSales(c, u)) \in Nat /\ HeldBy(c, u) \in Nat
    BY <2>1, <2>7, TotalNat, LiveTyped, HeldNat
  <2>11. Total(LiveSales(c, u)) <= HeldBy(c, u)
    <3>1. ~Unchecked(c, u)
      BY <1>2 DEF Unchecked, SellTurn
    <3> QED BY <2>1, <3>1 DEF CoverInv
  <2>12. HeldBy(c, u)' = HeldBy(c, u)
    BY <1>6, <2>1
  <2> QED BY <2>1, <2>5, <2>9, <2>10, <2>11, <2>12
<1>8. \A c \in Cards, u \in Users :
        Unchecked(c, u)' \/ Total(LiveSales(c, u))' <= HeldBy(c, u)'
  BY <1>6
<1> QED BY <1>3, <1>7, <1>8 DEF CoverInv

(* The tokens of a sold order leave the owner, who has them to spare.      *)
LEMMA CoverSaveSold ==
    ASSUME CoverInv, Inv, SerialInv, StoreSound, NEW t \in sell.tasks, SaveSold(t)
    PROVE  CoverInv'
<1> DEFINE o   == OrderData[t.order]
           doc == cards[o.card]
           upd == ChangeOwnerships(o.card, doc, o.n, o.user, t.taker)
           new == Saved(doc, upd)
<1>1. /\ sell.pc = "apply" /\ UNCHANGED <<sales, walk>>
  BY DEF SaveSold
<1>2. /\ SellTurn /\ sell'.tasks = sell.tasks \ {t}
      /\ cards' = [cards EXCEPT ![o.card] = new]
  BY SerialSaveSold
<1>3. /\ o.card \in Cards /\ doc # NoCard /\ o.user \in Holders(doc.bal) /\ o.user \in Users
      /\ o.n \in Nat \ {0} /\ t.taker \in Users
      /\ doc \in Proved!Docs /\ doc.bal \in Accounts /\ OneEntryEach(doc.bal)
      /\ DOMAIN cards = Cards
  <2>1. t.pc = "save"
    BY DEF SaveSold
  <2>2. doc # NoCard /\ o.user \in Holders(doc.bal)
    BY <2>1, TaskAccepted
  <2>3. t.taker \in Users
    BY DEF Inv, TaskInv, TaskOK
  <2> QED BY <2>2, <2>3, TaskShape, OrdersTyped, StoreConstants, DocsSound
<1>4. /\ Transferred(doc.bal, new.bal, o.n, o.user, t.taker) /\ new # NoCard
  <2>1. Saved(doc, upd) # NoCard
    <3> HIDE DEF doc, o
    <3> QED BY <1>3, SavedThere
  <2>2. Transferred(doc.bal, Saved(doc, upd).bal, o.n, o.user, t.taker)
    <3> HIDE DEF doc, o
    <3> QED BY <1>3, TransferAmounts
  <2> QED BY <2>1, <2>2
<1> HIDE DEF new
<1>5. ASSUME NEW c \in Cards, NEW u \in Users
      PROVE  /\ Total(LiveSales(c, u))' = Total(LiveSales(c, u))
             /\ Total(LiveSales(c, u)) \in Nat /\ HeldBy(c, u) \in Nat
             /\ Total(LiveSales(c, u)) <= HeldBy(c, u)
             /\ c # o.card => HeldBy(c, u)' = HeldBy(c, u)
  <2>1. LiveSales(c, u)' = LiveSales(c, u)
    BY <1>1 DEF LiveSales, SalesOf, CardOf, MakerOf
  <2>2. ~Unchecked(c, u)
    BY <1>2 DEF Unchecked, SellTurn
  <2>3. Total(LiveSales(c, u)) <= HeldBy(c, u)
    BY <2>2 DEF CoverInv
  <2>4. c # o.card => cards'[c] = cards[c]
    BY <1>2, <1>3
  <2> QED BY <2>1, <2>3, <2>4, LiveTyped, HeldNat DEF HeldBy
<1>6. ASSUME NEW u \in Users
      PROVE  \A c \in Cards : c = o.card => Total(LiveSales(c, u))' <= HeldBy(c, u)'
  <2>1. SUFFICES ASSUME NEW c \in Cards, c = o.card
                 PROVE  Total(LiveSales(c, u))' <= HeldBy(c, u)'
    OBVIOUS
  <2>2. HeldBy(c, u)' = AmountOf(new.bal, u) /\ HeldBy(c, u) = AmountOf(doc.bal, u)
    <3>1. cards'[c] = new
      BY <1>2, <1>3, <2>1
    <3> QED BY <1>3, <1>4, <2>1, <3>1 DEF HeldBy
  <2>3. AmountOf(doc.bal, u) \in Nat
    BY <1>3, AmountNat
  <2>4. CASE u = o.user
    <3>1. Total(LiveSales(c, u)) + o.n <= HeldBy(c, u)
      BY <1>1, <2>1, <2>4 DEF CoverInv
    <3>2. AmountOf(new.bal, u) =
            IF AmountOf(doc.bal, u) <= o.n THEN 0
            ELSE IF t.taker = o.user THEN AmountOf(doc.bal, u)
            ELSE AmountOf(doc.bal, u) - o.n
      BY <1>4, <2>4 DEF Transferred
    <3>3. /\ Total(LiveSales(c, u))' = Total(LiveSales(c, u))
          /\ Total(LiveSales(c, u)) \in Nat
      BY <1>5
    <3> HIDE DEF doc, o
    <3> QED BY <1>3, <2>2, <2>3, <3>1, <3>2, <3>3
  <2>5. CASE u # o.user
    <3>1. AmountOf(new.bal, u) = IF u = t.taker THEN AmountOf(doc.bal, u) + o.n
                                 ELSE AmountOf(doc.bal, u)
      BY <1>4, <2>5 DEF Transferred
    <3>2. /\ Total(LiveSales(c, u))' = Total(LiveSales(c, u))
          /\ Total(LiveSales(c, u)) \in Nat /\ Total(LiveSales(c, u)) <= HeldBy(c, u)
      BY <1>5
    <3> HIDE DEF doc, o
    <3> QED BY <1>3, <2>2, <2>3, <3>1, <3>2
  <2> QED BY <2>4, <2>5
<1>7. ASSUME NEW x \in sell'.tasks, NEW c, NEW u, NEW n,
             c = OrderData[x.order].card, u = OrderData[x.order].user, n = OrderData[x.order].n
      PROVE  Total(LiveSales(c, u))' + n <= HeldBy(c, u)'
  <2>1. x \in sell.tasks /\ x # t
    BY <1>2
  <2>2. c \in Cards /\ u \in Users
    BY <1>7, <2>1, TaskShape
  <2>3. c # o.card
    BY <1>7, <2>1 DEF SerialInv, SellInv
  <2>4. Total(LiveSales(c, u)) + n <= HeldBy(c, u)
    BY <1>1, <1>7, <2>1 DEF CoverInv
  <2>5. Total(LiveSales(c, u))' = Total(LiveSales(c, u)) /\ HeldBy(c, u)' = HeldBy(c, u)
    BY <1>5, <2>2, <2>3
  <2> QED BY <2>4, <2>5
<1>8. ASSUME NEW c \in Cards, NEW u \in Users
      PROVE  Total(LiveSales(c, u))' <= HeldBy(c, u)'
  <2>1. CASE c = o.card
    BY <1>6, <2>1
  <2>2. CASE c # o.card
    BY <1>5, <2>2
  <2> QED BY <2>1, <2>2
<1> QED BY <1>7, <1>8 DEF CoverInv

LEMMA CoverSell ==
    ASSUME CoverInv, Inv, SerialInv, StoreSound, Serial, Sell
    PROVE  CoverInv'
BY CoverOtherSells, CoverMarkSold, CoverSaveSold DEF Sell

-----------------------------------------------------------------------------
(* A request that touches no card and adds no live sale.                   *)
LEMMA RequestCover ==
    ASSUME CoverInv, Inv, SerialInv, StoreSound, NEW r \in Requests, RequestTurn(r),
           cards' = cards, sales' \subseteq sales, sell' = sell
    PROVE  CoverInv'
<1>1. \A c \in Cards, u \in Users : ~Unchecked(c, u)
  BY DEF Unchecked, RequestTurn
<1>2. \A c \in Cards, u \in Users : LiveSales(c, u)' \subseteq LiveSales(c, u)
  BY LiveOfFewer
<1>3. sell'.pc # "apply"
  BY DEF RequestTurn
<1> QED BY <1>1, <1>2, <1>3, CoverKept

(* A sale is stored: the tokens not on sale covered it.                    *)
LEMMA CoverCreateStore ==
    ASSUME CoverInv, Inv, SerialInv, StoreSound, NEW r \in Requests, CreateStore(r)
    PROVE  CoverInv'
<1> DEFINE o == OrderData[req[r].order]
           n == Sale(created + 1, req[r].order)
<1>1. /\ req[r].pc = "store" /\ sales' = sales \cup {n}
      /\ UNCHANGED <<cards, walk, sell>>
  BY DEF CreateStore
<1>2. RequestTurn(r)
  BY <1>1, TurnOf DEF SerialInv
<1>3. Total(SalesOf(o.card, o.user)) + o.n <= HeldBy(o.card, o.user)
  BY <1>1 DEF SerialInv, RequestsInv, Asks
<1>4. n \in SaleDocs /\ n.order = req[r].order
  BY DEF Sale, SaleDocs, Statuses, Inv, SalesInv, RequestInv, RequestOK
<1>5. o.card \in Cards /\ o.user \in Users /\ o.n \in Nat
  BY OrdersTyped, StoreConstants DEF Inv, RequestInv, RequestOK
<1> HIDE DEF n
<1>6. ASSUME NEW c \in Cards, NEW u \in Users
      PROVE  Total(LiveSales(c, u))' <= HeldBy(c, u)'
  <2>1. HeldBy(c, u)' = HeldBy(c, u) /\ HeldBy(c, u) \in Nat
    BY <1>1, HeldNat DEF HeldBy
  <2>2. CASE c = o.card /\ u = o.user
    <3> DEFINE S == SalesOf(c, u)
    <3>1. LiveSales(c, u)' \subseteq S \cup {n}
      BY <1>1 DEF LiveSales, SalesOf, CardOf, MakerOf
    <3>2. IsFiniteSet(S) /\ S \subseteq SaleDocs
      BY LiveTyped
    <3> HIDE DEF S
    <3>3. Total(S \cup {n}) <= Total(S) + o.n
      BY <1>4, <3>2, TotalInsert
    <3>4. IsFiniteSet(S \cup {n}) /\ S \cup {n} \subseteq SaleDocs
      BY <1>4, <3>2, FS_AddElement
    <3>5. \A T \in SUBSET (S \cup {n}) : Total(T) <= Total(S \cup {n}) /\ Total(T) \in Nat
      BY <3>4, TotalSubset, TotalNat, FS_Subset
    <3>6. Total(LiveSales(c, u))' <= Total(S \cup {n}) /\ Total(LiveSales(c, u))' \in Nat
      BY <3>1, <3>5
    <3>7. Total(S \cup {n}) \in Nat /\ Total(S) \in Nat
      BY <3>2, <3>4, TotalNat
    <3>8. Total(S) + o.n <= HeldBy(c, u)
      BY <1>3, <2>2 DEF S
    <3> HIDE DEF o
    <3> QED BY <1>5, <2>1, <3>3, <3>6, <3>7, <3>8
  <2>3. CASE ~(c = o.card /\ u = o.user)
    <3>1. LiveSales(c, u)' \subseteq LiveSales(c, u)
      BY <1>1, <1>4, <2>3 DEF LiveSales, SalesOf, CardOf, MakerOf
    <3>2. Total(LiveSales(c, u))' <= Total(LiveSales(c, u)) /\ Total(LiveSales(c, u))' \in Nat
      BY <3>1, LiveShrinks
    <3>3. Total(LiveSales(c, u)) <= HeldBy(c, u)
      BY <1>2 DEF CoverInv, Unchecked, RequestTurn
    <3>4. Total(LiveSales(c, u)) \in Nat
      BY LiveTyped
    <3> QED BY <2>1, <3>2, <3>3, <3>4
  <2> QED BY <2>2, <2>3
<1>7. sell'.pc # "apply"
  BY <1>1, <1>2 DEF RequestTurn
<1> QED BY <1>6, <1>7 DEF CoverInv

LEMMA CoverRequest ==
    ASSUME CoverInv, Inv, SerialInv, StoreSound, Serial, NEW r \in Requests, Request(r)
    PROVE  CoverInv'
<1>1. CASE CreateStore(r)
  BY <1>1, CoverCreateStore
<1>2. CASE DeleteStore(r)
  <2>1. RequestTurn(r)
    BY <1>2, SerialDeleteStore
  <2>2. sales' \subseteq sales /\ cards' = cards /\ sell' = sell
    BY <1>2 DEF DeleteStore
  <2> QED BY <2>1, <2>2, RequestCover
<1>3. ASSUME NEW o \in Orders, CreateRead(r, o) PROVE CoverInv'
  <2>1. RequestTurn(r)
    BY <1>3, SerialCreateRead
  <2> QED BY <1>3, <2>1, RequestCover DEF CreateRead, db
<1>4. ASSUME NEW s \in sales, DeleteRead(r, s) PROVE CoverInv'
  <2>1. RequestTurn(r)
    BY <1>4, SerialDeleteRead
  <2> QED BY <1>4, <2>1, RequestCover DEF DeleteRead, db
<1>5. CASE CreateSum(r) \/ RequestExists(r) \/ RequestFlag(r)
  <2>1. RequestTurn(r)
    BY <1>5, SerialCreateSum, SerialRequestExists, SerialRequestFlag
  <2> QED BY <1>5, <2>1, RequestCover DEF CreateSum, RequestExists, RequestFlag, db
<1> QED BY <1>1, <1>2, <1>3, <1>4, <1>5 DEF Request

-----------------------------------------------------------------------------
(* A step that leaves the collections and the listeners alone.             *)
LEMMA CoverStays ==
    ASSUME CoverInv, UNCHANGED <<cards, sales, walk, sell>>
    PROVE  CoverInv'
<1>1. \A c, u : /\ LiveSales(c, u)' = LiveSales(c, u)
                /\ HeldBy(c, u)' = HeldBy(c, u)
                /\ Unchecked(c, u)' <=> Unchecked(c, u)
  BY DEF LiveSales, SalesOf, CardOf, MakerOf, HeldBy, Unchecked, Event
<1> QED BY <1>1 DEF CoverInv

LEMMA CoverWalk ==
    ASSUME CoverInv, Inv, SerialInv, StoreSound, Serial, NEW l \in Walkers, Walk(l)
    PROVE  CoverInv'
BY CoverOtherWalks, CoverSaveCard, CoverSumOnSale, CoverLoadCard, CoverDrops DEF Walk

LEMMA CoverNext ==
    ASSUME CoverInv, Inv, SerialInv, StoreSound, Serial, [Next]_vars
    PROVE  CoverInv'
<1>1. ~Strays /\ ~Crash
  BY DEF Strays, Crash, SerialInv, Alone, Serial
<1>2. ASSUME NEW full \in ChainChoices, NewBlock(full) PROVE CoverInv'
  BY <1>2, CoverStays DEF NewBlock, db
<1>3. CASE FindTransferred \/ FindBurned
  <2>1. "transfer" \in Walkers /\ "burn" \in Walkers
    BY DEF Walkers
  <2>2. CASE FindTransferred
    <3>1. \E l \in Walkers : l = "transfer" /\ FindTransferred
      BY <2>1, <2>2
    <3> QED BY <3>1, CoverOtherWalks
  <2>3. CASE FindBurned
    <3>1. \E l \in Walkers : l = "burn" /\ FindBurned
      BY <2>1, <2>3
    <3> QED BY <3>1, CoverOtherWalks
  <2> QED BY <1>3, <2>2, <2>3
<1>4. CASE UNCHANGED vars
  BY <1>4, CoverStays DEF vars, db
<1> QED BY <1>1, <1>2, <1>3, <1>4, CoverWalk, CoverSell, CoverRequest DEF Next

(* Nobody is half-way: nothing is left to look at.                         *)
LEMMA NobodyBusy ==
    ASSUME SerialInv, InFlight = 0
    PROVE  /\ \A l \in Walkers : walk[l].pc = "idle"
           /\ \A r \in Requests : req[r].pc = "idle"
           /\ sell.pc = "idle"
<1>1. InFlight < 1
  OBVIOUS
<1> QED BY <1>1, AllAtRest DEF SerialInv

LEMMA CoverInit == ASSUME Init, Inv, SerialInv, NoOversell PROVE CoverInv
<1>1. InFlight = 0
  <2>1. {l \in Walkers : walk[l].pc # "idle"} = {} /\ {r \in Requests : req[r].pc # "idle"} = {}
    BY DEF Init, Resting, NoReq
  <2>2. sell.pc = "idle" /\ strays = {}
    BY DEF Init, NoSell
  <2>3. Cardinality({}) = 0
    BY FS_EmptySet
  <2>4. InFlight = Cardinality({}) + Cardinality({}) + 0 + Cardinality({})
    BY <2>1, <2>2, Zenon DEF InFlight
  <2> QED BY <2>3, <2>4
<1>2. \A c \in Cards, u \in Users : Total(LiveSales(c, u)) <= HeldBy(c, u)
  BY <1>1, OnSaleIsTotal DEF NoOversell
<1>3. sell.pc # "apply"
  BY DEF Init, NoSell
<1> QED BY <1>2, <1>3 DEF CoverInv

LEMMA CoverImplies == ASSUME CoverInv, SerialInv PROVE NoOversell
<1> SUFFICES ASSUME InFlight = 0, NEW c \in Cards, NEW u \in Users
             PROVE  LiveOn(c, u) <= HeldBy(c, u)
  BY DEF NoOversell
<1>1. ~Unchecked(c, u)
  BY NobodyBusy DEF Unchecked
<1> QED BY <1>1, OnSaleIsTotal DEF CoverInv

LEMMA FlagsImply == ASSUME Inv, SerialInv PROVE HasSaleAccurate
<1> SUFFICES ASSUME InFlight = 0, NEW c \in Cards, cards[c] # NoCard
             PROVE  hasSale[c] <=> \E u \in Users : LiveOn(c, u) > 0
  BY DEF HasSaleAccurate
<1>1. sell.flags = {}
  BY NobodyBusy DEF SerialInv, SellInv
<1>2. hasSale[c] = ExistsSale(c)
  BY <1>1, NobodyBusy DEF SerialInv, FlagsInv, ToFlag, Accurate
<1>3. ASSUME NEW u PROVE LiveOn(c, u) > 0 <=> LiveSales(c, u) # {}
  BY LiveTyped, TotalPositive, OnSaleIsTotal
<1>4. \A s \in sales : MakerOf(s) \in Users
  BY OrdersTyped, StoreConstants DEF MakerOf, Inv, SalesInv
<1>5. ExistsSale(c) <=> \E u \in Users : LiveSales(c, u) # {}
  BY <1>4 DEF ExistsSale, LiveSales, SalesOf
<1> QED BY <1>2, <1>3, <1>5

LEMMA DropsImply == ASSUME Inv, SerialInv PROVE CoveredDropsFollowSold
<1> SUFFICES ASSUME NEW l \in Walkers, walk[l].pc = "drop", NEW e, e = Event(l)
             PROVE  \/ LiveOn(e.card, e.from) = 0 \/ LiveOn(e.card, e.from) > HeldBy(e.card, e.from)
                    \/ \E s \in SalesOf(e.card, e.from) : s.status = "sold"
  BY DEF CoveredDropsFollowSold
<1>1. Total(SalesOf(e.card, e.from)) > HeldBy(e.card, e.from)
  BY DEF SerialInv, WalksInv, Carries
<1>2. CASE \A s \in SalesOf(e.card, e.from) : s.status # "sold"
  <2>1. \A s \in SalesOf(e.card, e.from) : s.status = "sale"
    BY <1>2 DEF SalesOf, Inv, SalesInv, Statuses
  <2>2. LiveSales(e.card, e.from) = SalesOf(e.card, e.from)
    BY <2>1 DEF LiveSales
  <2> QED BY <1>1, <2>2, OnSaleIsTotal
<1> QED BY <1>2

-----------------------------------------------------------------------------
LEMMA SoundStore == Spec => []StoreSound
BY HandlersKeepTheStore, PTL DEF StoreSound

(* One handler after another: what every state satisfies.                  *)
LEMMA SerialAlways == Serial => (Spec => [](Inv /\ StoreSound /\ SerialInv))
<1> SUFFICES ASSUME Serial PROVE Spec => [](Inv /\ StoreSound /\ SerialInv)
  OBVIOUS
<1>1. Init => Inv /\ SerialInv
  BY InitInv, SerialInit
<1>2. Inv /\ StoreSound /\ SerialInv /\ [Next]_vars => Inv' /\ SerialInv'
  BY NextStep, SerialNext
<1> QED BY <1>1, <1>2, SoundStore, PTL DEF Spec

(* While the handlers run one after another, none killed half-way, no      *)
(* signed order is sent twice and a block fills one order of a card at     *)
(* most: whenever nobody is half-way, hasSale tells of every card whether  *)
(* it has a sale one can buy.  Two at once may leave it wrong              *)
(* (Marketplace_staleHasSale.cfg).                                         *)
THEOREM HasSaleStaysAccurate == Serial => (Spec => []HasSaleAccurate)
<1> SUFFICES ASSUME Serial PROVE Spec => []HasSaleAccurate
  OBVIOUS
<1>1. Inv /\ StoreSound /\ SerialInv => HasSaleAccurate
  BY FlagsImply
<1> QED BY <1>1, SerialAlways, PTL

(* And a transfer or a burn drops live sales that the remaining tokens     *)
(* cover only of an owner who has sold some of the card before.            *)
THEOREM DropsFollowSold == Serial => (Spec => []CoveredDropsFollowSold)
<1> SUFFICES ASSUME Serial PROVE Spec => []CoveredDropsFollowSold
  OBVIOUS
<1>1. Inv /\ StoreSound /\ SerialInv => CoveredDropsFollowSold
  BY DropsImply
<1> QED BY <1>1, SerialAlways, PTL

(* And, if nobody oversells at the start, nobody ever has more tokens of a *)
(* card on sale than they hold, whatever is bought, transferred, burned,   *)
(* listed and withdrawn.  Two requests at once may                         *)
(* (Marketplace_oversell.cfg).                                             *)
THEOREM NobodyOversells == Serial => (Spec /\ NoOversell => []NoOversell)
<1> SUFFICES ASSUME Serial PROVE Spec /\ NoOversell => []NoOversell
  OBVIOUS
<1>1. Init /\ Inv /\ SerialInv /\ NoOversell => CoverInv
  BY CoverInit
<1>2. Inv /\ StoreSound /\ SerialInv /\ CoverInv /\ [Next]_vars => CoverInv'
  BY CoverNext
<1>3. CoverInv /\ SerialInv => NoOversell
  BY CoverImplies
<1> QED BY <1>1, <1>2, <1>3, SerialAlways, PTL DEF Spec

-----------------------------------------------------------------------------
(* The sum of the numbers v over a finite set: what the model's sums are.  *)
SumOf(v, S) == (CHOOSE g : Adds(g, v, S))[S]

LEMMA SumAny ==
    ASSUME NEW S, IsFiniteSet(S), NEW v, NEW g, Adds(g, v, S), NEW T \in SUBSET S
    PROVE  SumOf(v, T) = g[T]
<1> DEFINE h == CHOOSE f : Adds(f, v, T)
<1>1. IsFiniteSet(T)
  BY FS_Subset
<1>2. \E f : Adds(f, v, T)
  BY <1>1, AddsExists
<1>3. Adds(h, v, T)
  <2> HIDE DEF Adds
  <2> QED BY <1>2
<1>4. SumOf(v, T) = h[T]
  BY DEF SumOf
<1> HIDE DEF h
<1>5. \A s \in SUBSET T : s \in SUBSET S => h[s] = g[s]
  BY <1>1, <1>3, AddsSame
<1> QED BY <1>4, <1>5

LEMMA SumEmpty == ASSUME NEW v PROVE SumOf(v, {}) = 0
<1>1. IsFiniteSet({})
  BY FS_EmptySet
<1>2. PICK g : Adds(g, v, {})
  BY <1>1, AddsExists
<1>3. g[{}] = 0
  BY <1>2 DEF Adds
<1>4. {} \in SUBSET {}
  OBVIOUS
<1> QED BY <1>1, <1>2, <1>3, <1>4, SumAny

LEMMA SumInt ==
    ASSUME NEW S, IsFiniteSet(S), NEW v, \A x \in S : v[x] \in Int
    PROVE  SumOf(v, S) \in Int
<1>1. PICK g : Adds(g, v, S)
  BY AddsExists
<1>2. S \in SUBSET S
  OBVIOUS
<1>3. SumOf(v, S) = g[S]
  BY <1>1, <1>2, SumAny
<1>4. \A s \in SUBSET S : g[s] \in Int
  BY <1>1, AddsInt
<1> QED BY <1>2, <1>3, <1>4

(* Any element can be taken out.                                           *)
LEMMA SumTake ==
    ASSUME NEW S, IsFiniteSet(S), NEW v, \A x \in S : v[x] \in Int, NEW x \in S
    PROVE  SumOf(v, S) = v[x] + SumOf(v, S \ {x})
<1>1. PICK g : Adds(g, v, S)
  BY AddsExists
<1>2. S \in SUBSET S /\ S \ {x} \in SUBSET S
  OBVIOUS
<1>3. SumOf(v, S) = g[S] /\ SumOf(v, S \ {x}) = g[S \ {x}]
  BY <1>1, <1>2, SumAny
<1>4. g[S] = v[x] + g[S \ {x}]
  BY <1>1, <1>2, AddsRemove
<1> QED BY <1>3, <1>4

LEMMA SumNat ==
    ASSUME NEW S, IsFiniteSet(S), NEW v, \A x \in S : v[x] \in Nat, NEW T \in SUBSET S
    PROVE  SumOf(v, T) \in Nat /\ SumOf(v, S) \in Nat /\ SumOf(v, T) <= SumOf(v, S)
<1>1. PICK g : Adds(g, v, S)
  BY AddsExists
<1>2. S \in SUBSET S
  OBVIOUS
<1>3. SumOf(v, S) = g[S] /\ SumOf(v, T) = g[T]
  BY <1>1, <1>2, SumAny
<1>4. \A s \in SUBSET S : g[s] \in Nat
  BY <1>1, AddsNat
<1>5. \A s \in SUBSET S : \A r \in SUBSET s : g[r] <= g[s]
  BY <1>1, AddsMonotone
<1> QED BY <1>2, <1>3, <1>4, <1>5

(* What adds nothing can be left out.                                      *)
LEMMA SumOver ==
    ASSUME NEW S, IsFiniteSet(S), NEW T \in SUBSET S, NEW v, NEW w,
           \A x \in T : w[x] = v[x], \A x \in T : v[x] \in Int,
           \A x \in S \ T : w[x] = 0
    PROVE  SumOf(w, S) = SumOf(v, T)
<1> DEFINE Q == {s \in SUBSET S : SumOf(w, s) = SumOf(v, s \cap T)}
<1>1. ASSUME NEW s \in SUBSET S, \A r \in SUBSET s : r # s => r \in Q
      PROVE  s \in Q
  <2>1. IsFiniteSet(s) /\ IsFiniteSet(s \cap T)
    <3>1. s \cap T \in SUBSET S
      OBVIOUS
    <3> QED BY <3>1, FS_Subset
  <2>2. CASE s = {}
    <3>1. s \cap T = {}
      BY <2>2
    <3> QED BY <2>2, <3>1, SumEmpty
  <2>3. ASSUME NEW x \in s
        PROVE  SumOf(w, s) = SumOf(v, s \cap T)
    <3>1. SumOf(w, s \ {x}) = SumOf(v, (s \ {x}) \cap T)
      <4>1. s \ {x} \in SUBSET s /\ s \ {x} # s
        OBVIOUS
      <4> QED BY <1>1, <4>1
    <3>2. SumOf(w, s) = w[x] + SumOf(w, s \ {x})
      <4>1. \A y \in s : w[y] \in Int
        OBVIOUS
      <4> QED BY <2>1, <4>1, SumTake
    <3>3. CASE x \in T
      <4>1. x \in s \cap T /\ (s \ {x}) \cap T = (s \cap T) \ {x}
        BY <3>3
      <4>2. \A y \in s \cap T : v[y] \in Int
        OBVIOUS
      <4>3. SumOf(v, s \cap T) = v[x] + SumOf(v, (s \cap T) \ {x})
        BY <2>1, <4>1, <4>2, SumTake
      <4> QED BY <3>1, <3>2, <3>3, <4>1, <4>3
    <3>4. CASE x \notin T
      <4>1. (s \ {x}) \cap T = s \cap T /\ w[x] = 0
        BY <3>4
      <4>2. \A y \in s \cap T : v[y] \in Int
        OBVIOUS
      <4>3. SumOf(v, s \cap T) \in Int
        BY <2>1, <4>2, SumInt
      <4>4. SumOf(w, s) = 0 + SumOf(v, s \cap T)
        BY <3>1, <3>2, <4>1, Zenon
      <4>5. \A a \in Int : 0 + a = a
        OBVIOUS
      <4> QED BY <4>3, <4>4, <4>5, Zenon
    <3> QED BY <3>3, <3>4
  <2> QED BY <2>2, <2>3
<1>2. \A s \in SUBSET S : s \in Q
  <2> HIDE DEF Q
  <2> QED BY <1>1, SubsetsBySize
<1>3. S \in Q /\ S \cap T = T
  BY <1>2
<1> QED BY <1>3

LEMMA SumSame ==
    ASSUME NEW S, IsFiniteSet(S), NEW v, NEW w,
           \A x \in S : w[x] = v[x] /\ v[x] \in Int
    PROVE  SumOf(w, S) = SumOf(v, S)
<1>1. S \in SUBSET S
  OBVIOUS
<1> QED BY <1>1, SumOver

(* A sum over a set is a sum over what a one-to-one function makes of it.  *)
LEMMA SumMoved ==
    ASSUME NEW S, IsFiniteSet(S), NEW v, \A x \in S : v[x] \in Int,
           NEW f, \A x, y \in S : f[x] = f[y] => x = y,
           NEW w, \A x \in S : w[f[x]] = v[x]
    PROVE  SumOf(w, {f[x] : x \in S}) = SumOf(v, S)
<1> DEFINE Image(s) == {f[x] : x \in s}
           Q == {s \in SUBSET S : SumOf(w, Image(s)) = SumOf(v, s)}
<1>1. ASSUME NEW s \in SUBSET S, \A r \in SUBSET s : r # s => r \in Q
      PROVE  s \in Q
  <2>1. IsFiniteSet(s) /\ IsFiniteSet(Image(s))
    <3>1. IsFiniteSet(s)
      BY FS_Subset
    <3> DEFINE F == [x \in s |-> f[x]]
    <3>2. F \in Surjection(s, Image(s))
      BY DEF Surjection
    <3> QED BY <3>1, <3>2, FS_Surjection DEF ExistsSurjection
  <2>2. CASE s = {}
    <3>1. Image(s) = {}
      BY <2>2
    <3> QED BY <2>2, <3>1, SumEmpty
  <2>3. ASSUME NEW x \in s
        PROVE  SumOf(w, Image(s)) = SumOf(v, s)
    <3>1. SumOf(w, Image(s \ {x})) = SumOf(v, s \ {x})
      <4>1. s \ {x} \in SUBSET s /\ s \ {x} # s
        OBVIOUS
      <4> QED BY <1>1, <4>1
    <3>2. SumOf(v, s) = v[x] + SumOf(v, s \ {x})
      <4>1. \A y \in s : v[y] \in Int
        OBVIOUS
      <4> QED BY <2>1, <4>1, SumTake
    <3>3. Image(s \ {x}) = Image(s) \ {f[x]} /\ f[x] \in Image(s)
      OBVIOUS
    <3>4. \A y \in Image(s) : w[y] \in Int
      OBVIOUS
    <3>5. SumOf(w, Image(s)) = w[f[x]] + SumOf(w, Image(s) \ {f[x]})
      <4> HIDE DEF Image
      <4> QED BY <2>1, <3>3, <3>4, SumTake
    <3> HIDE DEF Image
    <3> QED BY <3>1, <3>2, <3>3, <3>5
  <2> QED BY <2>2, <2>3
<1>2. \A s \in SUBSET S : s \in Q
  <2> HIDE DEF Q
  <2> QED BY <1>1, SubsetsBySize
<1> QED BY <1>2

-----------------------------------------------------------------------------
(* The sums of the model, each as a SumOf.                                   *)
Amounts(events) == [i \in DOMAIN events |-> events[i].n]

FromOf(events, c, u) == {i \in DOMAIN events : events[i].card = c /\ events[i].from = u}
ToOf(events, c, u)   == {i \in DOMAIN events : events[i].card = c /\ events[i].to = u}

LEMMA NetIsSum ==
    ASSUME NEW events, IsFiniteSet(DOMAIN events), NEW c, NEW u
    PROVE  NetOf(events, c, u) = SumOf(Amounts(events), FromOf(events, c, u))
<1> DEFINE S == FromOf(events, c, u)
           v == Amounts(events)
           F(g) == g = [s \in SUBSET S |->
                          IF s = {} THEN 0
                          ELSE events[CHOOSE x \in s : TRUE].n + g[s \ {CHOOSE x \in s : TRUE}]]
<1>1. \A g : Adds(g, v, S) <=> F(g)
  <2> SUFFICES ASSUME NEW g PROVE Adds(g, v, S) <=> F(g)
    OBVIOUS
  <2>1. \A s \in SUBSET S : s # {} =>
          v[CHOOSE x \in s : TRUE] = events[CHOOSE x \in s : TRUE].n
    BY DEF Amounts, FromOf
  <2> HIDE DEF v, S
  <2> QED BY <2>1 DEF Adds
<1>2. IsFiniteSet(S)
  <2>1. S \in SUBSET DOMAIN events
    BY DEF FromOf
  <2> QED BY <2>1, FS_Subset
<1>3. \E g : F(g)
  <2> HIDE DEF v, F, S
  <2> QED BY <1>1, <1>2, AddsExists
<1>4. NetOf(events, c, u) = (CHOOSE g : F(g))[S]
  BY DEF NetOf, MapThenSumSet, MapThenFoldSet, FromOf
<1> HIDE DEF v, F, S
<1>5. F(CHOOSE g : F(g))
  BY <1>3
<1>6. S \in SUBSET S
  OBVIOUS
<1>7. SumOf(v, S) = (CHOOSE g : F(g))[S]
  BY <1>1, <1>2, <1>5, <1>6, SumAny
<1> QED BY <1>4, <1>7 DEF v, S

LEMMA GotIsSum ==
    ASSUME NEW events, IsFiniteSet(DOMAIN events), NEW c, NEW u
    PROVE  GotOf(events, c, u) = SumOf(Amounts(events), ToOf(events, c, u))
<1> DEFINE S == ToOf(events, c, u)
           v == Amounts(events)
           F(g) == g = [s \in SUBSET S |->
                          IF s = {} THEN 0
                          ELSE events[CHOOSE x \in s : TRUE].n + g[s \ {CHOOSE x \in s : TRUE}]]
<1>1. \A g : Adds(g, v, S) <=> F(g)
  <2> SUFFICES ASSUME NEW g PROVE Adds(g, v, S) <=> F(g)
    OBVIOUS
  <2>1. \A s \in SUBSET S : s # {} =>
          v[CHOOSE x \in s : TRUE] = events[CHOOSE x \in s : TRUE].n
    BY DEF Amounts, ToOf
  <2> HIDE DEF v, S
  <2> QED BY <2>1 DEF Adds
<1>2. IsFiniteSet(S)
  <2>1. S \in SUBSET DOMAIN events
    BY DEF ToOf
  <2> QED BY <2>1, FS_Subset
<1>3. \E g : F(g)
  <2> HIDE DEF v, F, S
  <2> QED BY <1>1, <1>2, AddsExists
<1>4. GotOf(events, c, u) = (CHOOSE g : F(g))[S]
  BY DEF GotOf, MapThenSumSet, MapThenFoldSet, ToOf
<1> HIDE DEF v, F, S
<1>5. F(CHOOSE g : F(g))
  BY <1>3
<1>6. S \in SUBSET S
  OBVIOUS
<1>7. SumOf(v, S) = (CHOOSE g : F(g))[S]
  BY <1>1, <1>2, <1>5, <1>6, SumAny
<1> QED BY <1>4, <1>7 DEF v, S

Worths(fills) == [f \in fills |-> OrderData[f.order].n]

BoughtIn(fills, c, u) == {f \in fills : OrderData[f.order].card = c /\ f.taker = u}
SoldIn(fills, c, u)   == {f \in fills : OrderData[f.order].card = c /\ OrderData[f.order].user = u}

LEMMA FillSums ==
    ASSUME NEW fills, IsFiniteSet(fills), NEW c, NEW u
    PROVE  /\ Bought(fills, c, u) = SumOf(Worths(fills), BoughtIn(fills, c, u))
           /\ SoldOff(fills, c, u) = SumOf(Worths(fills), SoldIn(fills, c, u))
<1> DEFINE v == Worths(fills)
           F(g, S) == g = [s \in SUBSET S |->
                             IF s = {} THEN 0
                             ELSE OrderData[(CHOOSE x \in s : TRUE).order].n
                                    + g[s \ {CHOOSE x \in s : TRUE}]]
<1>1. ASSUME NEW S \in SUBSET fills
      PROVE  SumOf(v, S) = (CHOOSE g : F(g, S))[S]
  <2>1. \A g : Adds(g, v, S) <=> F(g, S)
    <3> SUFFICES ASSUME NEW g PROVE Adds(g, v, S) <=> F(g, S)
      OBVIOUS
    <3>1. \A s \in SUBSET S : s # {} =>
            v[CHOOSE x \in s : TRUE] = OrderData[(CHOOSE x \in s : TRUE).order].n
      BY DEF Worths
    <3> HIDE DEF v
    <3> QED BY <3>1 DEF Adds
  <2>2. IsFiniteSet(S)
    BY FS_Subset
  <2>3. \E g : F(g, S)
    <3> HIDE DEF v, F
    <3> QED BY <2>1, <2>2, AddsExists
  <2> HIDE DEF v, F
  <2>4. F(CHOOSE g : F(g, S), S)
    BY <2>3
  <2>5. S \in SUBSET S
    OBVIOUS
  <2> QED BY <2>1, <2>2, <2>4, <2>5, SumAny
<1>2. Bought(fills, c, u) = (CHOOSE g : F(g, BoughtIn(fills, c, u)))[BoughtIn(fills, c, u)]
  BY DEF Bought, MapThenSumSet, MapThenFoldSet, BoughtIn
<1>3. SoldOff(fills, c, u) = (CHOOSE g : F(g, SoldIn(fills, c, u)))[SoldIn(fills, c, u)]
  BY DEF SoldOff, MapThenSumSet, MapThenFoldSet, SoldIn
<1>4. BoughtIn(fills, c, u) \in SUBSET fills /\ SoldIn(fills, c, u) \in SUBSET fills
  BY DEF BoughtIn, SoldIn
<1> HIDE DEF F, v
<1> QED BY <1>1, <1>2, <1>3, <1>4 DEF v

EntryAmounts(bal) == [i \in DOMAIN bal |-> bal[i].amount]

LEMMA TotalIsSum ==
    ASSUME NEW bal, IsFiniteSet(DOMAIN bal)
    PROVE  TotalOf(bal) = SumOf(EntryAmounts(bal), DOMAIN bal)
<1> DEFINE S == DOMAIN bal
           v == EntryAmounts(bal)
           F(g) == g = [s \in SUBSET S |->
                          IF s = {} THEN 0
                          ELSE bal[CHOOSE x \in s : TRUE].amount
                                 + g[s \ {CHOOSE x \in s : TRUE}]]
<1>1. \A g : Adds(g, v, S) <=> F(g)
  <2> SUFFICES ASSUME NEW g PROVE Adds(g, v, S) <=> F(g)
    OBVIOUS
  <2>1. \A s \in SUBSET S : s # {} =>
          v[CHOOSE x \in s : TRUE] = bal[CHOOSE x \in s : TRUE].amount
    BY DEF EntryAmounts
  <2> HIDE DEF v, S
  <2> QED BY <2>1 DEF Adds
<1>2. \E g : F(g)
  <2> HIDE DEF v, F
  <2> QED BY <1>1, AddsExists
<1>3. TotalOf(bal) = (CHOOSE g : F(g))[S]
  BY DEF TotalOf, MapThenSumSet, MapThenFoldSet
<1>4. S \in SUBSET S /\ IsFiniteSet(S)
  OBVIOUS
<1> HIDE DEF v, F, S
<1>5. F(CHOOSE g : F(g))
  BY <1>2
<1>6. SumOf(v, S) = (CHOOSE g : F(g))[S]
  BY <1>1, <1>4, <1>5, SumAny
<1> QED BY <1>3, <1>6 DEF v, S

(* What the blocks before upto[l] of each listener l come to.              *)
Parts(ch, c, u)  == [x \in Listeners \X DOMAIN ch |-> Change(x[1], ch[x[2]], c, u)]
Before(ch, upto) == {x \in Listeners \X DOMAIN ch : x[2] < upto[x[1]]}

HeldOf(ch, upto, c, u) == AmountOf(Genesis[c].bal, u) + SumOf(Parts(ch, c, u), Before(ch, upto))

HeldIn(ch, upto, c, u) ==
    AmountOf(Genesis[c].bal, u)
  + MapThenSumSet(LAMBDA x : Change(x[1], ch[x[2]], c, u),
        {x \in Listeners \X DOMAIN ch : x[2] < upto[x[1]]})

LEMMA HeldIsSum ==
    ASSUME NEW ch, IsFiniteSet(DOMAIN ch), NEW upto, NEW c, NEW u
    PROVE  HeldIn(ch, upto, c, u) = HeldOf(ch, upto, c, u)
<1> DEFINE S == Before(ch, upto)
           v == Parts(ch, c, u)
           w(x) == Change(x[1], ch[x[2]], c, u)
           F(g) == g = [s \in SUBSET S |->
                          IF s = {} THEN 0
                          ELSE w(CHOOSE x \in s : TRUE) + g[s \ {CHOOSE x \in s : TRUE}]]
<1>1. \A g : Adds(g, v, S) <=> F(g)
  <2> SUFFICES ASSUME NEW g PROVE Adds(g, v, S) <=> F(g)
    OBVIOUS
  <2>1. \A s \in SUBSET S : s # {} => v[CHOOSE x \in s : TRUE] = w(CHOOSE x \in s : TRUE)
    BY DEF Parts, Before
  <2> HIDE DEF v, S, w
  <2> QED BY <2>1 DEF Adds
<1>2. IsFiniteSet(S)
  <2>1. IsFiniteSet(Listeners)
    <3>1. Listeners = {"transfer", "burn", "sale"}
      BY DEF Listeners, Walkers
    <3>2. IsFiniteSet({"transfer"}) /\ IsFiniteSet({"burn"}) /\ IsFiniteSet({"sale"})
      BY FS_Singleton
    <3>3. IsFiniteSet({"transfer"} \cup {"burn"})
      BY <3>2, FS_Union
    <3>4. IsFiniteSet(({"transfer"} \cup {"burn"}) \cup {"sale"})
      BY <3>2, <3>3, FS_Union
    <3>5. Listeners = ({"transfer"} \cup {"burn"}) \cup {"sale"}
      BY <3>1
    <3> QED BY <3>4, <3>5
  <2>2. IsFiniteSet(Listeners \X DOMAIN ch)
    BY <2>1, FS_Product
  <2>3. S \in SUBSET (Listeners \X DOMAIN ch)
    BY DEF Before
  <2> QED BY <2>2, <2>3, FS_Subset
<1>3. \E g : F(g)
  <2> HIDE DEF v, F, S
  <2> QED BY <1>1, <1>2, AddsExists
<1>4. HeldIn(ch, upto, c, u) = AmountOf(Genesis[c].bal, u) + (CHOOSE g : F(g))[S]
  BY DEF HeldIn, MapThenSumSet, MapThenFoldSet, Before
<1> HIDE DEF v, F, S
<1>5. F(CHOOSE g : F(g))
  BY <1>3
<1>6. S \in SUBSET S
  OBVIOUS
<1>7. SumOf(v, S) = (CHOOSE g : F(g))[S]
  BY <1>1, <1>2, <1>5, <1>6, SumAny
<1> QED BY <1>4, <1>7 DEF v, S, HeldOf

LEMMA HeldAtIs ==
    ASSUME NEW upto, NEW c, NEW u
    PROVE  HeldAt(upto, c, u) = HeldIn(chain, upto, c, u)
BY Zenon DEF HeldAt, HeldIn

-----------------------------------------------------------------------------
(* What a walker has applied when it is done with the first i events.      *)
Moves == [card : Cards, from : Users, to : Users, n : Tokens]
          \cup [card : Cards, from : Users, n : Tokens]

LEMMA UpToFinite == ASSUME NEW n \in Nat PROVE IsFiniteSet(1..n)
BY FS_Interval

LEMMA SumUpTo ==
    ASSUME NEW n \in Nat, NEW v, \A j \in 1..n : v[j] \in Nat,
           NEW P \in SUBSET (1..n), NEW i \in 1..n
    PROVE  /\ SumOf(v, P \cap (1..i))
                = SumOf(v, P \cap (1..(i - 1))) + (IF i \in P THEN v[i] ELSE 0)
           /\ SumOf(v, P \cap (1..(i - 1))) \in Nat /\ SumOf(v, P \cap (1..i)) \in Nat
           /\ SumOf(v, P \cap (1..i)) <= SumOf(v, P) /\ SumOf(v, P) \in Nat
<1> DEFINE new == P \cap (1..i)
           old == P \cap (1..(i - 1))
<1>1. IsFiniteSet(1..n)
  BY UpToFinite
<1>2. P \in SUBSET (1..n) /\ new \in SUBSET (1..n) /\ old \in SUBSET (1..n)
  OBVIOUS
<1>3. IsFiniteSet(P) /\ IsFiniteSet(new) /\ IsFiniteSet(old)
  <2> HIDE DEF new, old
  <2> QED BY <1>1, <1>2, FS_Subset
<1>4. SumOf(v, old) \in Nat /\ SumOf(v, new) \in Nat
  <2> HIDE DEF new, old
  <2> QED BY <1>1, <1>2, SumNat
<1>5. SumOf(v, new) <= SumOf(v, P) /\ SumOf(v, P) \in Nat
  <2>1. new \in SUBSET P
    OBVIOUS
  <2>2. \A j \in P : v[j] \in Nat
    OBVIOUS
  <2> HIDE DEF new, old
  <2> QED BY <1>3, <2>1, <2>2, SumNat
<1>6. CASE i \in P
  <2>1. i \in new /\ new \ {i} = old
    BY <1>6
  <2>2. \A j \in new : v[j] \in Int
    OBVIOUS
  <2> HIDE DEF new, old
  <2>3. SumOf(v, new) = v[i] + SumOf(v, new \ {i})
    BY <1>3, <2>1, <2>2, SumTake
  <2>4. v[i] \in Nat
    OBVIOUS
  <2> QED BY <1>4, <1>5, <1>6, <2>1, <2>3, <2>4 DEF new, old
<1>7. CASE i \notin P
  <2>1. new = old /\ (IF i \in P THEN v[i] ELSE 0) = 0
    BY <1>7
  <2>2. \A a \in Nat : a = a + 0
    OBVIOUS
  <2>3. SumOf(v, new) = SumOf(v, old) + (IF i \in P THEN v[i] ELSE 0)
    <3> HIDE DEF new, old
    <3> QED BY <1>4, <2>1, <2>2, Zenon
  <2> QED BY <1>4, <1>5, <2>3, Zenon
<1> QED BY <1>6, <1>7

(* The sums over the first events, as parts of the sum over all.           *)
LEMMA FrontSums ==
    ASSUME NEW events \in Seq(Moves), NEW i \in 0..Len(events), NEW c, NEW u
    PROVE  /\ NetOf(SubSeq(events, 1, i), c, u)
                = SumOf(Amounts(events), FromOf(events, c, u) \cap (1..i))
           /\ GotOf(SubSeq(events, 1, i), c, u)
                = SumOf(Amounts(events), ToOf(events, c, u) \cap (1..i))
<1> DEFINE front == SubSeq(events, 1, i)
<1>1. /\ DOMAIN front = 1..i /\ Len(events) \in Nat /\ DOMAIN events = 1..Len(events)
      /\ \A j \in 1..i : front[j] = events[j]
  BY SubSeqProperties
<1>2. \A j \in 1..Len(events) : events[j].n \in Nat
  <2>1. \A j \in 1..Len(events) : events[j] \in Moves
    OBVIOUS
  <2> QED BY <2>1 DEF Moves, Tokens
<1>3. IsFiniteSet(DOMAIN front)
  BY <1>1, UpToFinite
<1> HIDE DEF front
<1>4. FromOf(front, c, u) = FromOf(events, c, u) \cap (1..i)
  BY <1>1 DEF FromOf
<1>5. ToOf(front, c, u) = ToOf(events, c, u) \cap (1..i)
  BY <1>1 DEF ToOf
<1>6. \A j \in 1..i : Amounts(front)[j] = Amounts(events)[j] /\ Amounts(events)[j] \in Int
  BY <1>1, <1>2 DEF Amounts
<1>7. \A T \in SUBSET (1..i) : SumOf(Amounts(front), T) = SumOf(Amounts(events), T)
  <2> SUFFICES ASSUME NEW T \in SUBSET (1..i)
               PROVE  SumOf(Amounts(front), T) = SumOf(Amounts(events), T)
    OBVIOUS
  <2>1. IsFiniteSet(T)
    BY <1>1, <1>3, FS_Subset
  <2>2. \A j \in T : Amounts(front)[j] = Amounts(events)[j] /\ Amounts(events)[j] \in Int
    BY <1>6
  <2> QED BY <2>1, <2>2, SumSame
<1>8. /\ NetOf(front, c, u) = SumOf(Amounts(front), FromOf(front, c, u))
      /\ GotOf(front, c, u) = SumOf(Amounts(front), ToOf(front, c, u))
  BY <1>3, NetIsSum, GotIsSum
<1>9. /\ FromOf(events, c, u) \cap (1..i) \in SUBSET (1..i)
      /\ ToOf(events, c, u) \cap (1..i) \in SUBSET (1..i)
  OBVIOUS
<1> QED BY <1>4, <1>5, <1>7, <1>8, <1>9 DEF front

LEMMA FrontSteps ==
    ASSUME NEW events \in Seq(Moves), NEW i \in 1..Len(events), NEW c, NEW u
    PROVE  /\ NetOf(SubSeq(events, 1, i), c, u)
                = NetOf(SubSeq(events, 1, i - 1), c, u)
                    + (IF events[i].card = c /\ events[i].from = u THEN events[i].n ELSE 0)
           /\ GotOf(SubSeq(events, 1, i), c, u)
                = GotOf(SubSeq(events, 1, i - 1), c, u)
                    + (IF events[i].card = c /\ events[i].to = u THEN events[i].n ELSE 0)
           /\ NetOf(SubSeq(events, 1, i), c, u) \in Nat /\ NetOf(SubSeq(events, 1, i - 1), c, u) \in Nat
           /\ GotOf(SubSeq(events, 1, i), c, u) \in Nat /\ GotOf(SubSeq(events, 1, i - 1), c, u) \in Nat
           /\ NetOf(SubSeq(events, 1, i), c, u) <= NetOf(events, c, u)
           /\ NetOf(events, c, u) \in Nat
<1> DEFINE v == Amounts(events)
           P == FromOf(events, c, u)
           R == ToOf(events, c, u)
           N == Len(events)
<1>1. N \in Nat /\ DOMAIN events = 1..N
  BY LenProperties
<1>2. \A j \in 1..N : v[j] = events[j].n /\ v[j] \in Nat
  <2>1. \A j \in 1..N : events[j] \in Moves
    OBVIOUS
  <2> QED BY <2>1, <1>1 DEF Moves, Tokens, Amounts
<1>3. P \in SUBSET (1..N) /\ R \in SUBSET (1..N)
  BY <1>1 DEF FromOf, ToOf
<1>4. /\ i \in P <=> events[i].card = c /\ events[i].from = u
      /\ i \in R <=> events[i].card = c /\ events[i].to = u
  BY <1>1 DEF FromOf, ToOf
<1>5. i \in 0..N /\ i - 1 \in 0..N
  BY <1>1
<1>6. /\ NetOf(SubSeq(events, 1, i), c, u) = SumOf(v, P \cap (1..i))
      /\ GotOf(SubSeq(events, 1, i), c, u) = SumOf(v, R \cap (1..i))
      /\ NetOf(SubSeq(events, 1, i - 1), c, u) = SumOf(v, P \cap (1..(i - 1)))
      /\ GotOf(SubSeq(events, 1, i - 1), c, u) = SumOf(v, R \cap (1..(i - 1)))
  <2>1. \A j \in 0..N : /\ NetOf(SubSeq(events, 1, j), c, u) = SumOf(v, P \cap (1..j))
                        /\ GotOf(SubSeq(events, 1, j), c, u) = SumOf(v, R \cap (1..j))
    BY FrontSums
  <2> HIDE DEF v, P, R, N
  <2> QED BY <1>5, <2>1
<1>7. NetOf(events, c, u) = SumOf(v, P)
  <2>1. IsFiniteSet(DOMAIN events)
    BY <1>1, UpToFinite
  <2> QED BY <2>1, NetIsSum
<1>8. i \in 1..N
  OBVIOUS
<1> HIDE DEF v, P, R, N
<1>9. /\ SumOf(v, P \cap (1..i)) = SumOf(v, P \cap (1..(i - 1))) + (IF i \in P THEN v[i] ELSE 0)
      /\ SumOf(v, P \cap (1..(i - 1))) \in Nat /\ SumOf(v, P \cap (1..i)) \in Nat
      /\ SumOf(v, P \cap (1..i)) <= SumOf(v, P) /\ SumOf(v, P) \in Nat
  <2>1. \A j \in 1..N : v[j] \in Nat
    BY <1>2
  <2>2. N \in Nat /\ P \in SUBSET (1..N)
    BY <1>1, <1>3
  <2> QED BY <1>8, <2>1, <2>2, SumUpTo
<1>10. /\ SumOf(v, R \cap (1..i)) = SumOf(v, R \cap (1..(i - 1))) + (IF i \in R THEN v[i] ELSE 0)
       /\ SumOf(v, R \cap (1..(i - 1))) \in Nat /\ SumOf(v, R \cap (1..i)) \in Nat
       /\ SumOf(v, R \cap (1..i)) <= SumOf(v, R) /\ SumOf(v, R) \in Nat
  <2>1. \A j \in 1..N : v[j] \in Nat
    BY <1>2
  <2>2. N \in Nat /\ R \in SUBSET (1..N)
    BY <1>1, <1>3
  <2> QED BY <1>8, <2>1, <2>2, SumUpTo
<1>11. v[i] = events[i].n
  BY <1>2, <1>8
<1> QED BY <1>4, <1>6, <1>7, <1>9, <1>10, <1>11

LEMMA FrontEnds ==
    ASSUME NEW events \in Seq(Moves), NEW c, NEW u
    PROVE  /\ NetOf(SubSeq(events, 1, 0), c, u) = 0 /\ GotOf(SubSeq(events, 1, 0), c, u) = 0
           /\ NetOf(SubSeq(events, 1, Len(events)), c, u) = NetOf(events, c, u)
           /\ GotOf(SubSeq(events, 1, Len(events)), c, u) = GotOf(events, c, u)
           /\ NetOf(events, c, u) \in Nat /\ GotOf(events, c, u) \in Nat
           /\ events = <<>> => NetOf(events, c, u) = 0 /\ GotOf(events, c, u) = 0
<1> DEFINE v == Amounts(events)
           P == FromOf(events, c, u)
           R == ToOf(events, c, u)
           N == Len(events)
<1>1. N \in Nat /\ DOMAIN events = 1..N
  BY LenProperties
<1>2. \A j \in 1..N : v[j] = events[j].n /\ v[j] \in Nat
  <2>1. \A j \in 1..N : events[j] \in Moves
    OBVIOUS
  <2> QED BY <2>1, <1>1 DEF Moves, Tokens, Amounts
<1>3. P \in SUBSET (1..N) /\ R \in SUBSET (1..N) /\ IsFiniteSet(DOMAIN events)
  BY <1>1, UpToFinite DEF FromOf, ToOf
<1>4. NetOf(events, c, u) = SumOf(v, P) /\ GotOf(events, c, u) = SumOf(v, R)
  BY <1>3, NetIsSum, GotIsSum
<1>5. 0 \in 0..N /\ N \in 0..N
  BY <1>1
<1>6. /\ NetOf(SubSeq(events, 1, 0), c, u) = SumOf(v, P \cap (1..0))
      /\ GotOf(SubSeq(events, 1, 0), c, u) = SumOf(v, R \cap (1..0))
      /\ NetOf(SubSeq(events, 1, N), c, u) = SumOf(v, P \cap (1..N))
      /\ GotOf(SubSeq(events, 1, N), c, u) = SumOf(v, R \cap (1..N))
  <2>1. \A j \in 0..N : /\ NetOf(SubSeq(events, 1, j), c, u) = SumOf(v, P \cap (1..j))
                        /\ GotOf(SubSeq(events, 1, j), c, u) = SumOf(v, R \cap (1..j))
    BY FrontSums
  <2> HIDE DEF v, P, R, N
  <2> QED BY <1>5, <2>1
<1>7. /\ P \cap (1..0) = {} /\ R \cap (1..0) = {}
      /\ P \cap (1..N) = P /\ R \cap (1..N) = R
  BY <1>1, <1>3
<1>8. SumOf(v, {}) = 0
  BY SumEmpty
<1>9. SumOf(v, P) \in Nat /\ SumOf(v, R) \in Nat
  <2> HIDE DEF v, P, R, N
  <2> QED BY <1>1, <1>2, <1>3, SumNat
<1>10. events = <<>> => P = {} /\ R = {}
  BY DEF FromOf, ToOf
<1> HIDE DEF v, P, R, N
<1> QED BY <1>4, <1>6, <1>7, <1>8, <1>9, <1>10 DEF N

-----------------------------------------------------------------------------
(* Each listener on its own: what the theorem about the ledger assumes.    *)
(* The events of a chain are for one listener, nobody transfers or sells   *)
(* to themselves, no listener is killed and no request is served.          *)
KindsOf(blk) ==
    (IF blk.transfer = <<>> THEN {} ELSE {"transfer"})
      \cup (IF blk.burn = <<>> THEN {} ELSE {"burn"})
      \cup (IF blk.sale = {} THEN {} ELSE {"sale"})

Apart ==
    /\ MaxCrashes = 0 /\ Requests = {}
    /\ OneFillPerCard
    /\ \A full \in ChainChoices : \A j, k \in 1..MaxBlocks :
         \A l \in KindsOf(full[j]), m \in KindsOf(full[k]) : l = m
    /\ \A blk \in Blocks :
         /\ \A i \in DOMAIN blk.transfer : blk.transfer[i].from # blk.transfer[i].to
         /\ \A f \in blk.sale : f.taker # OrderData[f.order].user
    /\ \A i, j \in DOMAIN Listed : Listed[i] = Listed[j] => i = j
    /\ \A c \in Cards : Genesis[c].bal # <<>> /\ Genesis[c].total = TotalOf(Genesis[c].bal)

(* What a walker has applied, when it is done with the first i events.     *)
EventsIn(l, blk) == IF l = "transfer" THEN blk.transfer ELSE blk.burn

Moved(l, events, i, c, u) ==
    (IF l = "transfer" THEN GotOf(SubSeq(events, 1, i), c, u) ELSE 0)
  - NetOf(SubSeq(events, 1, i), c, u)

Exchanged(fills, c, u) == Bought(fills, c, u) - SoldOff(fills, c, u)

LEMMA EventsTyped ==
    ASSUME NEW blk \in Blocks, NEW l \in Walkers
    PROVE  /\ EventsIn(l, blk) \in Seq(Moves)
           /\ blk.transfer \in Seq(Moves) /\ blk.burn \in Seq(Moves)
<1> DEFINE Transfers == [card : Cards, from : Users, to : Users, n : Tokens]
           Burns     == [card : Cards, from : Users, n : Tokens]
<1>1. blk.transfer \in Seq(Transfers) /\ blk.burn \in Seq(Burns)
  BY MarketAssumption
<1>2. Transfers \subseteq Moves /\ Burns \subseteq Moves
  BY DEF Moves
<1> HIDE DEF Transfers, Burns
<1>3. blk.transfer \in Seq(Moves) /\ blk.burn \in Seq(Moves)
  BY <1>1, <1>2
<1> QED BY <1>3 DEF EventsIn

LEMMA MovedStarts ==
    ASSUME NEW events \in Seq(Moves), NEW l, NEW c, NEW u
    PROVE  Moved(l, events, 0, c, u) = 0
BY FrontEnds DEF Moved

LEMMA MovedStep ==
    ASSUME NEW events \in Seq(Moves), NEW i \in 1..Len(events), NEW l, NEW c, NEW u
    PROVE  /\ Moved(l, events, i, c, u)
                = Moved(l, events, i - 1, c, u)
                    + (IF l = "transfer" /\ events[i].card = c /\ events[i].to = u
                       THEN events[i].n ELSE 0)
                    - (IF events[i].card = c /\ events[i].from = u THEN events[i].n ELSE 0)
           /\ Moved(l, events, i - 1, c, u) \in Int /\ Moved(l, events, i, c, u) \in Int
<1> DEFINE N(j) == NetOf(SubSeq(events, 1, j), c, u)
           G(j) == GotOf(SubSeq(events, 1, j), c, u)
           less == IF events[i].card = c /\ events[i].from = u THEN events[i].n ELSE 0
           more == IF events[i].card = c /\ events[i].to = u THEN events[i].n ELSE 0
<1>1. /\ N(i) = N(i - 1) + less /\ G(i) = G(i - 1) + more
      /\ N(i) \in Nat /\ N(i - 1) \in Nat /\ G(i) \in Nat /\ G(i - 1) \in Nat
  BY FrontSteps
<1>2. events[i] \in Moves
  OBVIOUS
<1>3. less \in Nat /\ more \in Nat
  BY <1>2 DEF Moves, Tokens
<1>4. /\ Moved(l, events, i, c, u) = (IF l = "transfer" THEN G(i) ELSE 0) - N(i)
      /\ Moved(l, events, i - 1, c, u) = (IF l = "transfer" THEN G(i - 1) ELSE 0) - N(i - 1)
  BY DEF Moved
<1>5. /\ less = IF events[i].card = c /\ events[i].from = u THEN events[i].n ELSE 0
      /\ l = "transfer" => more = IF l = "transfer" /\ events[i].card = c /\ events[i].to = u
                                  THEN events[i].n ELSE 0
  OBVIOUS
<1> DEFINE got == IF l = "transfer" /\ events[i].card = c /\ events[i].to = u
                  THEN events[i].n ELSE 0
<1>6. got = IF l = "transfer" THEN more ELSE 0
  BY <1>5
<1> HIDE DEF N, G, less, more, got
<1>7. /\ Moved(l, events, i, c, u) = Moved(l, events, i - 1, c, u) + got - less
      /\ Moved(l, events, i - 1, c, u) \in Int /\ Moved(l, events, i, c, u) \in Int
  <2>1. CASE l = "transfer"
    <3>1. PICK g, m, x, y \in Nat : g = G(i - 1) /\ m = N(i - 1) /\ x = more /\ y = less
      BY <1>1, <1>3
    <3>2. /\ Moved(l, events, i, c, u) = (g + x) - (m + y)
          /\ Moved(l, events, i - 1, c, u) = g - m /\ got = x /\ less = y
      BY <1>1, <1>4, <1>6, <2>1, <3>1
    <3> QED BY <3>2
  <2>2. CASE l # "transfer"
    <3>1. PICK m, y \in Nat : m = N(i - 1) /\ y = less
      BY <1>1, <1>3
    <3>2. /\ Moved(l, events, i, c, u) = 0 - (m + y)
          /\ Moved(l, events, i - 1, c, u) = 0 - m /\ got = 0 /\ less = y
      BY <1>1, <1>4, <1>6, <2>2, <3>1
    <3> QED BY <3>2
  <2> QED BY <2>1, <2>2
<1> QED BY <1>7 DEF got, less

LEMMA MovedEnds ==
    ASSUME NEW blk \in Blocks, NEW l \in Walkers, NEW c, NEW u
    PROVE  /\ Moved(l, EventsIn(l, blk), Len(EventsIn(l, blk)), c, u) = Change(l, blk, c, u)
           /\ Change(l, blk, c, u) \in Int
<1> DEFINE events == EventsIn(l, blk)
<1>1. events \in Seq(Moves)
  BY EventsTyped
<1> HIDE DEF events
<1>2. /\ NetOf(SubSeq(events, 1, Len(events)), c, u) = NetOf(events, c, u)
      /\ GotOf(SubSeq(events, 1, Len(events)), c, u) = GotOf(events, c, u)
      /\ NetOf(events, c, u) \in Nat /\ GotOf(events, c, u) \in Nat
  BY <1>1, FrontEnds
<1>3. Change(l, blk, c, u) = (IF l = "transfer" THEN GotOf(events, c, u) ELSE 0) - NetOf(events, c, u)
  <2>1. CASE l = "transfer"
    BY <2>1 DEF Change, events, EventsIn
  <2>2. CASE l = "burn"
    <3>1. Change(l, blk, c, u) = -NetOf(events, c, u)
      BY <2>2 DEF Change, events, EventsIn
    <3>2. -NetOf(events, c, u) = 0 - NetOf(events, c, u)
      BY <1>2
    <3> QED BY <2>2, <3>1, <3>2
  <2> QED BY <2>1, <2>2 DEF Walkers
<1>4. Moved(l, events, Len(events), c, u) = Change(l, blk, c, u)
  BY <1>2, <1>3 DEF Moved
<1> QED BY <1>2, <1>3, <1>4 DEF events

-----------------------------------------------------------------------------
(* The fills of a block.                                                   *)
Fills == [order : Orders, taker : Users]

LEMMA FillsTyped ==
    ASSUME NEW blk \in Blocks
    PROVE  blk.sale \in SUBSET Fills /\ IsFiniteSet(blk.sale)
BY MarketAssumption DEF Fills

LEMMA FillWorth ==
    ASSUME NEW f \in Fills
    PROVE  /\ OrderData[f.order].card \in Cards /\ OrderData[f.order].user \in Users
           /\ OrderData[f.order].n \in Nat \ {0}
           /\ f.taker \in Users /\ f.order \in Orders
BY MarketAssumption DEF Fills, Tokens

LEMMA ExchangedElsewhere ==
    ASSUME NEW fills, IsFiniteSet(fills), NEW c, NEW u,
           \A f \in fills : OrderData[f.order].card # c
    PROVE  Exchanged(fills, c, u) = 0
<1>1. BoughtIn(fills, c, u) = {} /\ SoldIn(fills, c, u) = {}
  BY DEF BoughtIn, SoldIn
<1>2. Bought(fills, c, u) = 0 /\ SoldOff(fills, c, u) = 0
  BY <1>1, FillSums, SumEmpty
<1> QED BY <1>2 DEF Exchanged

LEMMA ExchangedInt ==
    ASSUME NEW fills \in SUBSET Fills, IsFiniteSet(fills), NEW c, NEW u
    PROVE  /\ Exchanged(fills, c, u) \in Int
           /\ Bought(fills, c, u) \in Nat /\ SoldOff(fills, c, u) \in Nat
<1> DEFINE v == Worths(fills)
<1>1. \A f \in fills : v[f] \in Nat
  BY FillWorth DEF Worths
<1>2. BoughtIn(fills, c, u) \in SUBSET fills /\ SoldIn(fills, c, u) \in SUBSET fills
  BY DEF BoughtIn, SoldIn
<1>3. /\ Bought(fills, c, u) = SumOf(v, BoughtIn(fills, c, u))
      /\ SoldOff(fills, c, u) = SumOf(v, SoldIn(fills, c, u))
  BY FillSums
<1> HIDE DEF v
<1>4. SumOf(v, BoughtIn(fills, c, u)) \in Nat /\ SumOf(v, SoldIn(fills, c, u)) \in Nat
  BY <1>1, <1>2, SumNat
<1> QED BY <1>3, <1>4 DEF Exchanged

LEMMA ExchangedStep ==
    ASSUME NEW fills \in SUBSET Fills, IsFiniteSet(fills), NEW f \in fills, NEW c, NEW u
    PROVE  LET o == OrderData[f.order]
           IN  Exchanged(fills, c, u)
                 = Exchanged(fills \ {f}, c, u)
                     + (IF o.card = c /\ f.taker = u THEN o.n ELSE 0)
                     - (IF o.card = c /\ o.user = u THEN o.n ELSE 0)
<1> DEFINE rest == fills \ {f}
           v == Worths(fills)
           o == OrderData[f.order]
<1>1. rest \in SUBSET Fills /\ IsFiniteSet(rest)
  <2>1. rest \in SUBSET fills
    OBVIOUS
  <2> QED BY <2>1, FS_Subset
<1>2. \A g \in fills : v[g] \in Int /\ v[g] = OrderData[g.order].n
  BY FillWorth DEF Worths
<1>3. ASSUME NEW T \in SUBSET rest
      PROVE  SumOf(Worths(rest), T) = SumOf(v, T)
  <2>1. IsFiniteSet(T)
    BY <1>1, <1>3, FS_Subset
  <2>2. \A g \in T : Worths(rest)[g] = v[g] /\ v[g] \in Int
    BY <1>2, <1>3 DEF Worths
  <2> HIDE DEF v, rest
  <2> QED BY <2>1, <2>2, SumSame
<1>4. ASSUME NEW T \in SUBSET fills
      PROVE  /\ IsFiniteSet(T) /\ SumOf(v, T) \in Int
             /\ SumOf(v, T) = SumOf(v, T \ {f}) + (IF f \in T THEN o.n ELSE 0)
  <2>1. IsFiniteSet(T) /\ \A g \in T : v[g] \in Int
    BY <1>2, <1>4, FS_Subset
  <2> HIDE DEF v
  <2>2. SumOf(v, T) \in Int
    BY <2>1, SumInt
  <2>3. CASE f \in T
    <3>1. SumOf(v, T) = v[f] + SumOf(v, T \ {f})
      BY <2>1, <2>3, SumTake
    <3>2. v[f] = o.n /\ v[f] \in Int
      BY <1>2
    <3>3. SumOf(v, T \ {f}) \in Int
      <4>1. IsFiniteSet(T \ {f}) /\ \A g \in T \ {f} : v[g] \in Int
        BY <2>1, FS_RemoveElement
      <4> QED BY <4>1, SumInt
    <3> QED BY <2>1, <2>2, <2>3, <3>1, <3>2, <3>3
  <2>4. CASE f \notin T
    <3>1. T \ {f} = T
      BY <2>4
    <3>2. SumOf(v, T \ {f}) = SumOf(v, T)
      BY <3>1
    <3>3. (IF f \in T THEN o.n ELSE 0) = 0
      BY <2>4
    <3> HIDE DEF o
    <3> QED BY <2>1, <2>2, <3>2, <3>3
  <2> QED BY <2>3, <2>4
<1> DEFINE B == BoughtIn(fills, c, u)
           D == SoldIn(fills, c, u)
<1>5. /\ B \in SUBSET fills /\ D \in SUBSET fills
      /\ BoughtIn(rest, c, u) = B \ {f} /\ SoldIn(rest, c, u) = D \ {f}
      /\ B \ {f} \in SUBSET rest /\ D \ {f} \in SUBSET rest
      /\ B \ {f} \in SUBSET fills /\ D \ {f} \in SUBSET fills
      /\ f \in B <=> o.card = c /\ f.taker = u
      /\ f \in D <=> o.card = c /\ o.user = u
  BY DEF BoughtIn, SoldIn
<1>6. /\ Bought(fills, c, u) = SumOf(v, B) /\ SoldOff(fills, c, u) = SumOf(v, D)
      /\ Bought(rest, c, u) = SumOf(Worths(rest), BoughtIn(rest, c, u))
      /\ SoldOff(rest, c, u) = SumOf(Worths(rest), SoldIn(rest, c, u))
  BY <1>1, FillSums
<1> HIDE DEF v, rest, B, D
<1>7. Bought(rest, c, u) = SumOf(v, B \ {f}) /\ SoldOff(rest, c, u) = SumOf(v, D \ {f})
  BY <1>3, <1>5, <1>6
<1>8. /\ SumOf(v, B) = SumOf(v, B \ {f}) + (IF f \in B THEN o.n ELSE 0)
      /\ SumOf(v, D) = SumOf(v, D \ {f}) + (IF f \in D THEN o.n ELSE 0)
      /\ SumOf(v, B \ {f}) \in Int /\ SumOf(v, D \ {f}) \in Int
  BY <1>4, <1>5
<1>9. o.n \in Nat
  BY FillWorth
<1> DEFINE b == SumOf(v, B \ {f})
           d == SumOf(v, D \ {f})
           more == IF o.card = c /\ f.taker = u THEN o.n ELSE 0
           less == IF o.card = c /\ o.user = u THEN o.n ELSE 0
<1>10. more \in Nat /\ less \in Nat
  BY <1>9
<1>11. /\ Exchanged(fills, c, u) = (b + more) - (d + less)
       /\ Exchanged(rest, c, u) = b - d
       /\ b \in Int /\ d \in Int
  BY <1>5, <1>6, <1>7, <1>8 DEF Exchanged
<1>12. Exchanged(fills, c, u) = Exchanged(rest, c, u) + more - less
  <2> HIDE DEF b, d, more, less
  <2> QED BY <1>10, <1>11
<1> QED BY <1>12 DEF rest

-----------------------------------------------------------------------------
(* What the blocks of a chain come to.                                     *)
LEMMA ChangeTyped ==
    ASSUME NEW blk \in Blocks, NEW l \in Listeners, NEW c, NEW u
    PROVE  /\ Change(l, blk, c, u) \in Int
           /\ l = "sale" => Change(l, blk, c, u) = Exchanged(blk.sale, c, u)
           /\ l \notin KindsOf(blk) => Change(l, blk, c, u) = 0
<1>1. CASE l = "sale"
  <2>1. Change(l, blk, c, u) = Exchanged(blk.sale, c, u)
    BY <1>1 DEF Change, Exchanged
  <2>2. blk.sale \in SUBSET Fills /\ IsFiniteSet(blk.sale)
    BY FillsTyped
  <2>3. Exchanged(blk.sale, c, u) \in Int
    BY <2>2, ExchangedInt
  <2>4. l \notin KindsOf(blk) => blk.sale = {}
    BY <1>1 DEF KindsOf
  <2>5. blk.sale = {} => Exchanged(blk.sale, c, u) = 0
    BY <2>2, ExchangedElsewhere
  <2> QED BY <2>1, <2>3, <2>4, <2>5
<1>2. CASE l \in Walkers
  <2> DEFINE events == EventsIn(l, blk)
  <2>1. /\ Moved(l, events, Len(events), c, u) = Change(l, blk, c, u)
        /\ Change(l, blk, c, u) \in Int
    BY <1>2, MovedEnds
  <2>2. l \notin KindsOf(blk) => events = <<>>
    BY <1>2 DEF KindsOf, EventsIn, Walkers
  <2>3. events \in Seq(Moves)
    BY <1>2, EventsTyped
  <2> HIDE DEF events
  <2>4. ASSUME events = <<>> PROVE Moved(l, events, Len(events), c, u) = 0
    <3>1. Len(events) = 0
      BY <2>4, EmptySeq
    <3> QED BY <2>3, <3>1, MovedStarts
  <2>5. l # "sale"
    BY <1>2 DEF Walkers
  <2> QED BY <2>1, <2>2, <2>4, <2>5
<1> QED BY <1>1, <1>2 DEF Listeners

LEMMA PartsTyped ==
    ASSUME NEW ch \in Seq(Blocks), NEW c, NEW u
    PROVE  /\ IsFiniteSet(Listeners \X DOMAIN ch) /\ IsFiniteSet(DOMAIN ch)
           /\ \A x \in Listeners \X DOMAIN ch : Parts(ch, c, u)[x] \in Int
<1>1. IsFiniteSet(DOMAIN ch)
  <2>1. Len(ch) \in Nat /\ DOMAIN ch = 1..Len(ch)
    BY LenProperties
  <2> QED BY <2>1, UpToFinite
<1>2. IsFiniteSet(Listeners)
  <2>1. IsFiniteSet({"transfer"}) /\ IsFiniteSet({"burn"}) /\ IsFiniteSet({"sale"})
    BY FS_Singleton
  <2>2. IsFiniteSet({"transfer"} \cup {"burn"})
    BY <2>1, FS_Union
  <2>3. IsFiniteSet(({"transfer"} \cup {"burn"}) \cup {"sale"})
    BY <2>1, <2>2, FS_Union
  <2>4. Listeners = ({"transfer"} \cup {"burn"}) \cup {"sale"}
    BY DEF Listeners, Walkers
  <2> QED BY <2>3, <2>4
<1>3. IsFiniteSet(Listeners \X DOMAIN ch)
  BY <1>1, <1>2, FS_Product
<1>4. ASSUME NEW x \in Listeners \X DOMAIN ch
      PROVE  Parts(ch, c, u)[x] \in Int
  <2>1. x[1] \in Listeners /\ x[2] \in DOMAIN ch
    OBVIOUS
  <2>2. ch[x[2]] \in Blocks
    BY <2>1
  <2>3. Change(x[1], ch[x[2]], c, u) \in Int
    BY <2>1, <2>2, ChangeTyped
  <2> QED BY <2>3 DEF Parts
<1> QED BY <1>1, <1>3, <1>4

LEMMA BeforeFinite ==
    ASSUME NEW ch \in Seq(Blocks), NEW upto
    PROVE  Before(ch, upto) \in SUBSET (Listeners \X DOMAIN ch) /\ IsFiniteSet(Before(ch, upto))
<1>1. Before(ch, upto) \in SUBSET (Listeners \X DOMAIN ch)
  BY DEF Before
<1>2. IsFiniteSet(Listeners \X DOMAIN ch)
  BY PartsTyped
<1> QED BY <1>1, <1>2, FS_Subset

LEMMA HeldTyped ==
    ASSUME NEW ch \in Seq(Blocks), NEW upto, NEW c \in Cards, NEW u
    PROVE  /\ HeldIn(ch, upto, c, u) \in Int /\ HeldIn(ch, upto, c, u) = HeldOf(ch, upto, c, u)
           /\ AmountOf(Genesis[c].bal, u) \in Nat
<1>1. \A x \in Before(ch, upto) : Parts(ch, c, u)[x] \in Int
  BY PartsTyped, BeforeFinite
<1>2. SumOf(Parts(ch, c, u), Before(ch, upto)) \in Int
  BY <1>1, BeforeFinite, SumInt
<1>3. AmountOf(Genesis[c].bal, u) \in Nat
  <2>1. Genesis[c].bal \in Seq([user : Users, amount : Nat \ {0}])
    BY MarketAssumption DEF Tokens
  <2>2. Genesis[c].bal \in Accounts
    BY <2>1 DEF Accounts, Proved!Balances
  <2> QED BY <2>2, AmountNat
<1>4. HeldIn(ch, upto, c, u) = HeldOf(ch, upto, c, u)
  BY PartsTyped, HeldIsSum
<1> QED BY <1>2, <1>3, <1>4 DEF HeldOf

(* A block more changes nothing for whoever has not come to it.            *)
LEMMA HeldGrows ==
    ASSUME NEW ch \in Seq(Blocks), NEW b \in Blocks, NEW upto \in [Listeners -> Nat],
           \A l \in Listeners : upto[l] <= Len(ch) + 1, NEW c \in Cards, NEW u
    PROVE  HeldIn(Append(ch, b), upto, c, u) = HeldIn(ch, upto, c, u)
<1> DEFINE more == Append(ch, b)
<1>1. /\ Len(ch) \in Nat /\ DOMAIN ch = 1..Len(ch) /\ DOMAIN more = 1..(Len(ch) + 1)
      /\ \A k \in DOMAIN ch : more[k] = ch[k]
  BY AppendProperties
<1> HIDE DEF more
<1>2. Before(more, upto) = Before(ch, upto)
  <2>1. ASSUME NEW x \in Listeners \X DOMAIN more, x[2] < upto[x[1]]
        PROVE  x \in Listeners \X DOMAIN ch
    <3>1. x[1] \in Listeners /\ x[2] \in 1..(Len(ch) + 1) /\ x = <<x[1], x[2]>>
      BY <1>1
    <3>2. upto[x[1]] <= Len(ch) + 1 /\ upto[x[1]] \in Nat
      BY <3>1
    <3>3. x[2] \in 1..Len(ch)
      BY <1>1, <2>1, <3>1, <3>2
    <3> QED BY <1>1, <3>1, <3>3
  <2>2. Listeners \X DOMAIN ch \subseteq Listeners \X DOMAIN more
    <3>1. DOMAIN ch \subseteq DOMAIN more
      BY <1>1
    <3> QED BY <3>1
  <2> QED BY <2>1, <2>2 DEF Before
<1>3. \A x \in Before(ch, upto) : /\ Parts(more, c, u)[x] = Parts(ch, c, u)[x]
                                  /\ Parts(ch, c, u)[x] \in Int
  <2> SUFFICES ASSUME NEW x \in Before(ch, upto)
               PROVE  /\ Parts(more, c, u)[x] = Parts(ch, c, u)[x]
                      /\ Parts(ch, c, u)[x] \in Int
    OBVIOUS
  <2>1. x \in Listeners \X DOMAIN ch /\ x \in Listeners \X DOMAIN more
    BY <1>2 DEF Before
  <2>2. more[x[2]] = ch[x[2]]
    BY <1>1, <2>1
  <2>3. Parts(ch, c, u)[x] \in Int
    BY <2>1, PartsTyped
  <2> QED BY <2>1, <2>2, <2>3 DEF Parts
<1>4. SumOf(Parts(more, c, u), Before(ch, upto)) = SumOf(Parts(ch, c, u), Before(ch, upto))
  BY <1>3, BeforeFinite, SumSame
<1>5. HeldOf(more, upto, c, u) = HeldOf(ch, upto, c, u)
  BY <1>2, <1>4 DEF HeldOf
<1>6. more \in Seq(Blocks)
  BY AppendProperties DEF more
<1> QED BY <1>5, <1>6, HeldTyped DEF more

(* A listener that comes to the next block adds what the block changes.    *)
LEMMA HeldIncreases ==
    ASSUME NEW ch \in Seq(Blocks), NEW upto \in [Listeners -> Nat], NEW l \in Listeners,
           upto[l] \in DOMAIN ch, NEW c \in Cards, NEW u
    PROVE  HeldIn(ch, [upto EXCEPT ![l] = @ + 1], c, u)
             = HeldIn(ch, upto, c, u) + Change(l, ch[upto[l]], c, u)
<1> DEFINE next == [upto EXCEPT ![l] = @ + 1]
           x == <<l, upto[l]>>
           v == Parts(ch, c, u)
           w == Change(l, ch[upto[l]], c, u)
<1>1. Before(ch, next) \ {x} = Before(ch, upto) /\ x \in Before(ch, next)
  <2>1. \A y \in Listeners \X DOMAIN ch : y # x =>
          (y[2] < next[y[1]] <=> y[2] < upto[y[1]])
    <3> SUFFICES ASSUME NEW m \in Listeners, NEW k \in DOMAIN ch, <<m, k>> # x
                 PROVE  k < next[m] <=> k < upto[m]
      OBVIOUS
    <3>1. k \in Nat /\ upto[m] \in Nat
      BY LenProperties
    <3>2. CASE m = l
      <4>1. k # upto[l] /\ next[m] = upto[m] + 1
        BY <3>2
      <4> QED BY <3>1, <3>2, <4>1
    <3>3. CASE m # l
      BY <3>3
    <3> QED BY <3>2, <3>3
  <2>2. x \in Listeners \X DOMAIN ch /\ upto[l] < next[l] /\ ~(upto[l] < upto[l])
    OBVIOUS
  <2> HIDE DEF next
  <2> QED BY <2>1, <2>2 DEF Before
<1>2. v[x] = w /\ w \in Int
  <2>1. x \in Listeners \X DOMAIN ch
    OBVIOUS
  <2>2. v[x] \in Int
    BY <2>1, PartsTyped
  <2>3. v[x] = w
    BY <2>1 DEF Parts
  <2> QED BY <2>2, <2>3
<1>3. /\ IsFiniteSet(Before(ch, next)) /\ \A y \in Before(ch, next) : v[y] \in Int
      /\ IsFiniteSet(Before(ch, upto)) /\ \A y \in Before(ch, upto) : v[y] \in Int
  BY PartsTyped, BeforeFinite
<1> HIDE DEF next, v, x, w
<1>4. SumOf(v, Before(ch, next)) = v[x] + SumOf(v, Before(ch, next) \ {x})
  BY <1>1, <1>3, SumTake
<1>5. SumOf(v, Before(ch, upto)) \in Int
  BY <1>3, SumInt
<1>6. AmountOf(Genesis[c].bal, u) \in Nat
  BY HeldTyped
<1>7. /\ HeldOf(ch, next, c, u) = AmountOf(Genesis[c].bal, u) + SumOf(v, Before(ch, next))
      /\ HeldOf(ch, upto, c, u) = AmountOf(Genesis[c].bal, u) + SumOf(v, Before(ch, upto))
  BY DEF HeldOf, v
<1>8. HeldOf(ch, next, c, u) = HeldOf(ch, upto, c, u) + w
  <2> DEFINE a == AmountOf(Genesis[c].bal, u)
             s == SumOf(v, Before(ch, upto))
  <2>1. HeldOf(ch, next, c, u) = a + (w + s) /\ HeldOf(ch, upto, c, u) = a + s
    BY <1>1, <1>2, <1>4, <1>7
  <2>2. a \in Int /\ s \in Int /\ w \in Int
    BY <1>2, <1>5, <1>6
  <2> HIDE DEF a, s
  <2> QED BY <2>1, <2>2
<1> QED BY <1>8, HeldTyped DEF next, w

(* Where the others have nothing to change, where they are does not count. *)
LEMMA HeldAlone ==
    ASSUME NEW ch \in Seq(Blocks), NEW upto, NEW w, NEW l \in Listeners, upto[l] = w[l],
           \A k \in DOMAIN ch : \A m \in KindsOf(ch[k]) : m = l,
           NEW c \in Cards, NEW u
    PROVE  HeldIn(ch, upto, c, u) = HeldIn(ch, w, c, u)
<1> DEFINE v == Parts(ch, c, u)
           S == Listeners \X DOMAIN ch
           own(h) == {x \in Before(ch, h) : x[1] = l}
<1>1. IsFiniteSet(S) /\ \A x \in S : v[x] \in Int
  BY PartsTyped
<1>2. \A x \in S : x[1] # l => v[x] = 0
  <2> SUFFICES ASSUME NEW x \in S, x[1] # l PROVE v[x] = 0
    OBVIOUS
  <2>1. x[1] \in Listeners /\ x[2] \in DOMAIN ch
    OBVIOUS
  <2>2. ch[x[2]] \in Blocks /\ x[1] \notin KindsOf(ch[x[2]])
    BY <2>1
  <2>3. Change(x[1], ch[x[2]], c, u) = 0
    BY <2>1, <2>2, ChangeTyped
  <2> QED BY <2>3 DEF Parts
<1>3. ASSUME NEW h PROVE SumOf(v, Before(ch, h)) = SumOf(v, own(h))
  <2>1. own(h) \in SUBSET Before(ch, h) /\ Before(ch, h) \in SUBSET S
    BY DEF Before
  <2>2. IsFiniteSet(Before(ch, h))
    BY BeforeFinite
  <2>3. /\ \A x \in own(h) : v[x] \in Int
        /\ \A x \in Before(ch, h) \ own(h) : v[x] = 0
    BY <1>1, <1>2, <2>1
  <2> HIDE DEF v, S, own
  <2> QED BY <2>1, <2>2, <2>3, SumOver
<1>4. own(upto) = own(w)
  BY DEF Before
<1> HIDE DEF v, own
<1>5. SumOf(v, Before(ch, upto)) = SumOf(v, Before(ch, w))
  BY <1>3, <1>4
<1>6. HeldOf(ch, upto, c, u) = HeldOf(ch, w, c, u)
  BY <1>5 DEF HeldOf, v
<1> QED BY <1>6, HeldTyped

-----------------------------------------------------------------------------
(* The amounts of a document add up to what its holders hold.              *)
HeldAmounts(bal, H) == [u \in H |-> AmountOf(bal, u)]

LEMMA HoldersFinite ==
    ASSUME NEW bal \in Accounts
    PROVE  IsFiniteSet(Holders(bal)) /\ IsFiniteSet(DOMAIN bal)
<1> DEFINE F == [i \in DOMAIN bal |-> bal[i].user]
<1>1. IsFiniteSet(DOMAIN bal)
  BY AccountsTyped, UpToFinite
<1>2. F \in Surjection(DOMAIN bal, Holders(bal))
  BY DEF Surjection, Holders
<1> QED BY <1>1, <1>2, FS_Surjection

LEMMA TotalOfHolders ==
    ASSUME NEW bal \in Accounts, OneEntryEach(bal), NEW H, IsFiniteSet(H), Holders(bal) \subseteq H
    PROVE  TotalOf(bal) = SumOf(HeldAmounts(bal, H), H)
<1> DEFINE v == EntryAmounts(bal)
           f == [i \in DOMAIN bal |-> bal[i].user]
           w == HeldAmounts(bal, H)
<1>1. IsFiniteSet(DOMAIN bal)
  BY HoldersFinite
<1>2. TotalOf(bal) = SumOf(v, DOMAIN bal)
  BY <1>1, TotalIsSum
<1>3. \A i \in DOMAIN bal : v[i] \in Int /\ v[i] = bal[i].amount
  BY AccountsTyped DEF EntryAmounts
<1>4. \A i, j \in DOMAIN bal : f[i] = f[j] => i = j
  BY DEF OneEntryEach
<1>5. \A i \in DOMAIN bal : w[f[i]] = v[i]
  <2> SUFFICES ASSUME NEW i \in DOMAIN bal PROVE w[f[i]] = v[i]
    OBVIOUS
  <2>1. f[i] = bal[i].user /\ bal[i].user \in H
    BY DEF Holders
  <2>2. AmountOf(bal, bal[i].user) = bal[i].amount
    BY AmountAt
  <2> QED BY <2>1, <2>2, <1>3 DEF HeldAmounts
<1>6. {f[i] : i \in DOMAIN bal} = Holders(bal)
  BY DEF Holders
<1>7. \A u \in H : w[u] \in Int /\ (u \notin Holders(bal) => w[u] = 0)
  <2> SUFFICES ASSUME NEW u \in H PROVE w[u] \in Int /\ (u \notin Holders(bal) => w[u] = 0)
    OBVIOUS
  <2>1. AmountOf(bal, u) \in Nat /\ (u \notin Holders(bal) => AmountOf(bal, u) = 0)
    BY AmountNat DEF AmountOf
  <2> QED BY <2>1 DEF HeldAmounts
<1> HIDE DEF v, f, w
<1>8. SumOf(w, {f[i] : i \in DOMAIN bal}) = SumOf(v, DOMAIN bal)
  <2>1. \A i \in DOMAIN bal : v[i] \in Int
    BY <1>3
  <2> QED BY <1>1, <2>1, <1>4, <1>5, SumMoved
<1>9. SumOf(w, H) = SumOf(w, Holders(bal))
  <2>1. Holders(bal) \in SUBSET H
    OBVIOUS
  <2>2. /\ \A u \in Holders(bal) : w[u] \in Int
        /\ \A u \in H \ Holders(bal) : w[u] = 0
    BY <1>7
  <2> QED BY <2>1, <2>2, SumOver
<1> QED BY <1>2, <1>6, <1>8, <1>9 DEF w

(* Two documents that differ only in what a set of users holds.            *)
LEMMA OthersEqual ==
    ASSUME NEW bal \in Accounts, NEW new \in Accounts, NEW H, IsFiniteSet(H),
           NEW R \in SUBSET H, \A u \in R : AmountOf(new, u) = AmountOf(bal, u)
    PROVE  /\ SumOf(HeldAmounts(new, H), R) = SumOf(HeldAmounts(bal, H), R)
           /\ SumOf(HeldAmounts(bal, H), R) \in Int
<1>1. IsFiniteSet(R)
  BY FS_Subset
<1>2. \A u \in R : /\ HeldAmounts(new, H)[u] = HeldAmounts(bal, H)[u]
                   /\ HeldAmounts(bal, H)[u] \in Int
  BY AmountNat DEF HeldAmounts
<1> QED BY <1>1, <1>2, SumSame, SumInt

LEMMA HeldTake ==
    ASSUME NEW bal \in Accounts, NEW H, IsFiniteSet(H), NEW R \in SUBSET H, NEW u \in R
    PROVE  SumOf(HeldAmounts(bal, H), R) = AmountOf(bal, u) + SumOf(HeldAmounts(bal, H), R \ {u})
<1>1. IsFiniteSet(R)
  BY FS_Subset
<1>2. \A w \in R : HeldAmounts(bal, H)[w] \in Int /\ HeldAmounts(bal, H)[w] = AmountOf(bal, w)
  BY AmountNat DEF HeldAmounts
<1> QED BY <1>1, <1>2, SumTake

LEMMA BothHolders ==
    ASSUME NEW bal \in Accounts, NEW new \in Accounts, NEW a, NEW b
    PROVE  LET H == ((Holders(bal) \cup Holders(new)) \cup {a}) \cup {b}
           IN  IsFiniteSet(H) /\ Holders(bal) \subseteq H /\ Holders(new) \subseteq H
<1>1. IsFiniteSet(Holders(bal)) /\ IsFiniteSet(Holders(new))
  BY HoldersFinite
<1>2. IsFiniteSet(Holders(bal) \cup Holders(new))
  BY <1>1, FS_Union
<1>3. IsFiniteSet((Holders(bal) \cup Holders(new)) \cup {a})
  BY <1>2, FS_AddElement
<1>4. IsFiniteSet(((Holders(bal) \cup Holders(new)) \cup {a}) \cup {b})
  BY <1>3, FS_AddElement
<1> QED BY <1>4

(* A transfer the owner can afford leaves the sum, a burn takes its tokens.*)
LEMMA TransferKeepsTotal ==
    ASSUME NEW bal \in Accounts, OneEntryEach(bal), NEW new \in Accounts, OneEntryEach(new),
           NEW n \in Nat \ {0}, NEW maker, NEW taker, maker # taker,
           Transferred(bal, new, n, maker, taker), AmountOf(bal, maker) >= n
    PROVE  TotalOf(new) = TotalOf(bal)
<1> DEFINE H == ((Holders(bal) \cup Holders(new)) \cup {maker}) \cup {taker}
           R == H \ {maker}
           Q == R \ {taker}
           before(S) == SumOf(HeldAmounts(bal, H), S)
           after(S)  == SumOf(HeldAmounts(new, H), S)
<1>1. IsFiniteSet(H) /\ Holders(bal) \subseteq H /\ Holders(new) \subseteq H
  BY BothHolders
<1>2. /\ H \in SUBSET H /\ maker \in H /\ R \in SUBSET H /\ taker \in R /\ Q \in SUBSET H
      /\ R = H \ {maker} /\ Q = R \ {taker} /\ \A u \in Q : u # maker /\ u # taker
  OBVIOUS
<1> HIDE DEF H, R, Q
<1>3. TotalOf(bal) = before(H) /\ TotalOf(new) = after(H)
  BY <1>1, TotalOfHolders
<1>4. /\ before(H) = AmountOf(bal, maker) + before(R)
      /\ before(R) = AmountOf(bal, taker) + before(Q)
      /\ after(H) = AmountOf(new, maker) + after(R)
      /\ after(R) = AmountOf(new, taker) + after(Q)
  BY <1>1, <1>2, HeldTake
<1>5. AmountOf(bal, maker) \in Nat /\ AmountOf(bal, taker) \in Nat
  BY AmountNat
<1>6. /\ AmountOf(new, maker) = AmountOf(bal, maker) - n
      /\ AmountOf(new, taker) = AmountOf(bal, taker) + n
      /\ \A u \in Q : AmountOf(new, u) = AmountOf(bal, u)
  BY <1>2, <1>5 DEF Transferred
<1>7. after(Q) = before(Q) /\ before(Q) \in Int
  BY <1>1, <1>2, <1>6, OthersEqual
<1> HIDE DEF before, after
<1> QED BY <1>3, <1>4, <1>5, <1>6, <1>7

LEMMA BurnTakesFromTotal ==
    ASSUME NEW bal \in Accounts, OneEntryEach(bal), NEW new \in Accounts, OneEntryEach(new),
           NEW n \in Nat \ {0}, NEW owner,
           Burned(bal, new, n, owner), AmountOf(bal, owner) >= n
    PROVE  TotalOf(new) = TotalOf(bal) - n
<1> DEFINE H == ((Holders(bal) \cup Holders(new)) \cup {owner}) \cup {owner}
           R == H \ {owner}
           before(S) == SumOf(HeldAmounts(bal, H), S)
           after(S)  == SumOf(HeldAmounts(new, H), S)
<1>1. IsFiniteSet(H) /\ Holders(bal) \subseteq H /\ Holders(new) \subseteq H
  BY BothHolders
<1>2. /\ H \in SUBSET H /\ owner \in H /\ R \in SUBSET H
      /\ R = H \ {owner} /\ \A u \in R : u # owner
  OBVIOUS
<1> HIDE DEF H, R
<1>3. TotalOf(bal) = before(H) /\ TotalOf(new) = after(H)
  BY <1>1, TotalOfHolders
<1>4. /\ before(H) = AmountOf(bal, owner) + before(R)
      /\ after(H) = AmountOf(new, owner) + after(R)
  BY <1>1, <1>2, HeldTake
<1>5. AmountOf(bal, owner) \in Nat
  BY AmountNat
<1>6. /\ AmountOf(new, owner) = AmountOf(bal, owner) - n
      /\ \A u \in R : AmountOf(new, u) = AmountOf(bal, u)
  BY <1>2, <1>5 DEF Burned
<1>7. after(R) = before(R) /\ before(R) \in Int
  BY <1>1, <1>2, <1>6, OthersEqual
<1> HIDE DEF before, after
<1> QED BY <1>3, <1>4, <1>5, <1>6, <1>7

-----------------------------------------------------------------------------
(* What every step leaves.  Each part is stated of the values it is about, *)
(* so that a step that keeps those values keeps the part.                  *)

(* The chain: for one listener, and what happens in a block is covered by  *)
(* what was held before it.                                                *)
HeldUpTo(ch, k, c, u) == HeldIn(ch, [l \in Listeners |-> k], c, u)

Covered(ch, k) ==
    /\ \A i \in DOMAIN ch[k].transfer :
         LET e == ch[k].transfer[i]
         IN  HeldUpTo(ch, k, e.card, e.from) + Bought(ch[k].sale, e.card, e.from)
               + GotOf(SubSeq(ch[k].transfer, 1, i - 1), e.card, e.from)
               >= NetOf(SubSeq(ch[k].transfer, 1, i), e.card, e.from)
    /\ \A c \in Cards, u \in Users :
         HeldUpTo(ch, k, c, u) + Change("transfer", ch[k], c, u) + Change("burn", ch[k], c, u)
           + Change("sale", ch[k], c, u) >= 0

ChainSound ==
    /\ Len(chain) <= MaxBlocks
    /\ \A k \in DOMAIN chain : Covered(chain, k)
    /\ \A j, k \in DOMAIN chain : \A l \in KindsOf(chain[j]), m \in KindsOf(chain[k]) : l = m
    /\ \A k \in DOMAIN chain : \A f \in chain[k].sale : f.order \in signed

CursorsSound ==
    /\ \A l \in Listeners : cursor[l] <= Len(chain) + 1
    /\ \A l \in Walkers : walk[l].pc # "idle" => cursor[l] <= Len(chain)
    /\ sell.pc # "idle" => cursor["sale"] <= Len(chain)

(* A walker w is somewhere in the events of its block, and what it is      *)
(* about to save it computed from the document as it is.                   *)
AfterSave == {"sum", "load", "dropCard", "drop", "exists", "flag"}

SaveOf(l, doc, e) ==
    IF l = "transfer" THEN ChangeOwnerships(e.card, doc, e.n, e.from, e.to)
                      ELSE BurnCard(e.card, doc, e.n, e.from)

SaveDue(l, w, docs) ==
    LET e == Head(w.todo)
    IN  /\ docs[e.card] # NoCard /\ e.from \in Holders(docs[e.card].bal)
        /\ w.upd = {SaveOf(l, docs[e.card], e)}

Somewhere(w, events) ==
    /\ Len(w.todo) <= Len(events)
    /\ \A i \in DOMAIN w.todo : w.todo[i] = events[Len(events) - Len(w.todo) + i]
    /\ w.pc = "increase" <=> w.todo = <<>>

Working(l, w, blk, docs) ==
    /\ w.pc \in {"idle", "find", "save", "increase"} \cup AfterSave
    /\ w.hs \in BOOLEAN
    /\ w.pc # "idle" => Somewhere(w, EventsIn(l, blk))
    /\ w.pc = "load" => w.onSale > 0
    /\ w.pc = "save" => SaveDue(l, w, docs)

Applied(w, events) ==
    Len(events) - Len(w.todo) + (IF w.pc \in AfterSave THEN 1 ELSE 0)

DoneBy(l, w, blk, c, u) ==
    LET events == EventsIn(l, blk)
    IN  IF w.pc = "idle" THEN 0 ELSE Moved(l, events, Applied(w, events), c, u)

(* The seller has a task for each fill that is not applied yet.            *)
TaskDue(t, docs) ==
    LET o == OrderData[t.order]
    IN  /\ docs[o.card] # NoCard /\ o.user \in Holders(docs[o.card].bal)
        /\ t.upd = {ChangeOwnerships(o.card, docs[o.card], o.n, o.user, t.taker)}

TasksSound(tasks, fills) ==
    /\ \A t \in tasks : \E f \in fills : f.order = t.order /\ f.taker = t.taker
    /\ \A t, w \in tasks : t.order = w.order => t = w
    /\ \A t \in tasks : t.pc \in {"read", "save"}

Due(tasks, fills) == {f \in fills : \E t \in tasks : t.order = f.order}

Selling(s, fills, docs) ==
    /\ s.pc \in {"idle", "mark", "apply", "flags", "increase"}
    /\ s.pc \in {"mark", "apply"} <=> s.tasks # {}
    /\ TasksSound(s.tasks, fills)
    /\ \A t \in s.tasks : t.pc = "save" => s.pc = "apply" /\ TaskDue(t, docs)
    /\ s.pc = "mark" => Due(s.tasks, fills) = fills
    /\ s.flags \subseteq [id : Nat, card : Cards, pc : {"exists", "flag"}, hs : BOOLEAN]

SoldBy(s, fills, c, u) ==
    IF s.pc = "idle" THEN 0 ELSE Exchanged(fills \ Due(s.tasks, fills), c, u)

(* The balances are those of the consumed blocks and of what is applied of *)
(* the blocks the listeners are in.                                        *)
Holds(doc, u) == IF doc = NoCard THEN 0 ELSE AmountOf(doc.bal, u)

WalkerSound(l)    == Working(l, walk[l], chain[cursor[l]], cards)
WalkDone(l, c, u) == DoneBy(l, walk[l], chain[cursor[l]], c, u)
SellerSound       == sell.pc = "idle" \/ Selling(sell, chain[cursor["sale"]].sale, cards)
SellDone(c, u)    == SoldBy(sell, chain[cursor["sale"]].sale, c, u)

Balanced ==
    \A c \in Cards, u \in Users :
        Holds(cards[c], u)
          = HeldIn(chain, cursor, c, u)
              + WalkDone("transfer", c, u) + WalkDone("burn", c, u) + SellDone(c, u)

DocumentsSound ==
    \A c \in Cards : cards[c] # NoCard =>
        cards[c].bal # <<>> /\ TotalOf(cards[c].bal) = cards[c].total

(* As long as no walker has had an event, every order is still on sale.    *)
SaleKept(o) == \E s \in sales : s.order = o

OrdersSound ==
    /\ hasSale \in [Cards -> BOOLEAN]
    /\ sales \subseteq [id : 1..created, order : Orders, status : Statuses]
    /\ IsFiniteSet(sales)
    /\ \A s, t \in sales : s.order = t.order \/ s.id = t.id => s = t
    /\ (\A k \in DOMAIN chain : KindsOf(chain[k]) \subseteq {"sale"})
         => \A o \in signed : SaleKept(o)

LedgerInv ==
    /\ strays = {} /\ crashes = 0
    /\ ChainSound /\ CursorsSound /\ OrdersSound
    /\ (\A l \in Walkers : WalkerSound(l)) /\ SellerSound
    /\ DocumentsSound /\ Balanced

-----------------------------------------------------------------------------
(* A listener half-way through the events of its block is the only one     *)
(* with events at all.                                                     *)
LEMMA BlockTyped ==
    ASSUME Inv, NEW k \in DOMAIN chain
    PROVE  chain[k] \in Blocks /\ k \in Nat \ {0}
<1>1. chain \in Seq(Blocks)
  BY DEF Inv, ChainInv
<1> QED BY <1>1, ElementOfSeq, LenProperties

LEMMA WithoutEvents ==
    ASSUME Inv, LedgerInv, NEW l \in Walkers, walk[l].pc # "idle",
           l \notin KindsOf(chain[cursor[l]])
    PROVE  /\ walk[l].pc = "increase"
           /\ \A c, u : WalkDone(l, c, u) = 0
<1> DEFINE k == cursor[l]
           w == walk[l]
           events == EventsIn(l, chain[k])
<1>1. Working(l, w, chain[k], cards) /\ k <= Len(chain)
  BY DEF LedgerInv, WalkerSound, CursorsSound
<1>2. k \in DOMAIN chain /\ chain[k] \in Blocks
  <2>1. chain \in Seq(Blocks) /\ k \in Nat \ {0}
    BY DEF Inv, ChainInv, Listeners
  <2>2. k \in DOMAIN chain
    BY <1>1, <2>1, LenProperties
  <2> QED BY <2>2, BlockTyped
<1>3. events = <<>>
  BY DEF Walkers, KindsOf, EventsIn
<1>4. Somewhere(w, events) /\ w.todo \in Seq(EventsOf(l))
  BY <1>1 DEF Working, Inv, WalkInv, WalkerOK
<1>5. Len(w.todo) = 0 /\ w.todo = <<>>
  <2>1. Len(w.todo) <= 0
    BY <1>3, <1>4 DEF Somewhere
  <2> QED BY <1>4, <2>1, LenProperties, EmptySeq
<1>6. w.pc = "increase"
  BY <1>4, <1>5 DEF Somewhere
<1>7. Applied(w, events) = 0
  <2>1. w.pc \notin AfterSave /\ Len(events) = 0
    BY <1>3, <1>6 DEF AfterSave
  <2> QED BY <1>5, <2>1 DEF Applied
<1>8. ASSUME NEW c, NEW u PROVE WalkDone(l, c, u) = 0
  <2>1. Moved(l, events, 0, c, u) = 0
    BY <1>2, EventsTyped, MovedStarts
  <2> QED BY <1>6, <1>7, <2>1 DEF WalkDone, DoneBy
<1> QED BY <1>6, <1>8

LEMMA SellerWithoutFills ==
    ASSUME LedgerInv, sell.pc # "idle" => "sale" \notin KindsOf(chain[cursor["sale"]])
    PROVE  /\ sell.pc \in {"idle", "flags", "increase"}
           /\ \A c, u : SellDone(c, u) = 0
<1>1. CASE sell.pc = "idle"
  BY <1>1 DEF SellDone, SoldBy
<1>2. CASE sell.pc # "idle"
  <2> DEFINE fills == chain[cursor["sale"]].sale
  <2>1. Selling(sell, fills, cards)
    BY <1>2 DEF LedgerInv, SellerSound
  <2>2. fills = {}
    BY <1>2 DEF KindsOf
  <2>3. sell.tasks = {} /\ sell.pc \in {"flags", "increase"}
    BY <1>2, <2>1, <2>2 DEF Selling, TasksSound
  <2>4. ASSUME NEW c, NEW u PROVE SellDone(c, u) = 0
    <3>1. fills \ Due(sell.tasks, fills) = {} /\ IsFiniteSet({})
      BY <2>2, FS_EmptySet
    <3>2. Exchanged({}, c, u) = 0
      BY <3>1, ExchangedElsewhere
    <3> QED BY <1>2, <3>1, <3>2 DEF SellDone, SoldBy
  <2> QED BY <2>3, <2>4
<1> QED BY <1>1, <1>2

LEMMA CursorIn ==
    ASSUME Inv, LedgerInv, NEW l \in Listeners,
           (l \in Walkers /\ walk[l].pc # "idle") \/ (l = "sale" /\ sell.pc # "idle")
    PROVE  cursor[l] \in DOMAIN chain /\ chain[cursor[l]] \in Blocks /\ cursor[l] \in Nat \ {0}
<1>1. chain \in Seq(Blocks) /\ cursor[l] \in Nat \ {0}
  BY DEF Inv, ChainInv
<1>2. cursor[l] <= Len(chain)
  BY DEF LedgerInv, CursorsSound
<1>3. cursor[l] \in DOMAIN chain
  BY <1>1, <1>2, LenProperties
<1> QED BY <1>1, <1>3, BlockTyped

LEMMA WalkerAtWork ==
    ASSUME Inv, LedgerInv, NEW l \in Walkers, walk[l].pc \notin {"idle", "increase"}
    PROVE  /\ l \in KindsOf(chain[cursor[l]])
           /\ \A k \in DOMAIN chain : \A m \in KindsOf(chain[k]) : m = l
           /\ \A m \in Walkers \ {l} : /\ walk[m].pc \in {"idle", "increase"}
                                       /\ \A c, u : WalkDone(m, c, u) = 0
           /\ sell.pc \in {"idle", "flags", "increase"}
           /\ \A c, u : SellDone(c, u) = 0
<1>1. l \in KindsOf(chain[cursor[l]])
  BY WithoutEvents
<1>2. cursor[l] \in DOMAIN chain
  BY CursorIn DEF Listeners
<1>3. \A k \in DOMAIN chain : \A m \in KindsOf(chain[k]) : m = l
  BY <1>1, <1>2 DEF LedgerInv, ChainSound
<1>4. ASSUME NEW m \in Walkers \ {l}
      PROVE  walk[m].pc \in {"idle", "increase"} /\ \A c, u : WalkDone(m, c, u) = 0
  <2>1. CASE walk[m].pc = "idle"
    BY <2>1 DEF WalkDone, DoneBy
  <2>2. CASE walk[m].pc # "idle"
    <3>1. cursor[m] \in DOMAIN chain
      BY <2>2, CursorIn DEF Listeners
    <3>2. m \notin KindsOf(chain[cursor[m]])
      BY <1>3, <3>1
    <3> QED BY <2>2, <3>2, WithoutEvents
  <2> QED BY <2>1, <2>2
<1>5. sell.pc # "idle" => "sale" \notin KindsOf(chain[cursor["sale"]])
  <2>1. l # "sale" /\ "sale" \in Listeners
    BY DEF Walkers, Listeners
  <2> QED BY <1>3, <2>1, CursorIn
<1> QED BY <1>1, <1>3, <1>4, <1>5, SellerWithoutFills

LEMMA SellerAtWork ==
    ASSUME Inv, LedgerInv, sell.tasks # {}, sell.pc # "idle"
    PROVE  /\ \A k \in DOMAIN chain : \A m \in KindsOf(chain[k]) : m = "sale"
           /\ \A l \in Walkers : /\ walk[l].pc \in {"idle", "increase"}
                                 /\ \A c, u : WalkDone(l, c, u) = 0
<1>1. "sale" \in KindsOf(chain[cursor["sale"]])
  <2>1. Selling(sell, chain[cursor["sale"]].sale, cards)
    BY DEF LedgerInv, SellerSound
  <2> QED BY <2>1 DEF Selling, TasksSound, KindsOf
<1>2. cursor["sale"] \in DOMAIN chain
  BY CursorIn DEF Listeners
<1>3. \A k \in DOMAIN chain : \A m \in KindsOf(chain[k]) : m = "sale"
  BY <1>1, <1>2 DEF LedgerInv, ChainSound
<1>4. ASSUME NEW m \in Walkers
      PROVE  walk[m].pc \in {"idle", "increase"} /\ \A c, u : WalkDone(m, c, u) = 0
  <2>1. CASE walk[m].pc = "idle"
    BY <2>1 DEF WalkDone, DoneBy
  <2>2. CASE walk[m].pc # "idle"
    <3>1. cursor[m] \in DOMAIN chain
      BY <2>2, CursorIn DEF Listeners
    <3>2. m \notin KindsOf(chain[cursor[m]])
      BY <1>3, <3>1 DEF Walkers
    <3> QED BY <2>2, <3>2, WithoutEvents
  <2> QED BY <2>1, <2>2
<1> QED BY <1>3, <1>4

-----------------------------------------------------------------------------
(* Where a walker is in its events.                                        *)
At(w, events) == Len(events) - Len(w.todo) + 1

LEMMA SomewhereIs ==
    ASSUME NEW S, NEW R, NEW events \in Seq(S), NEW w, w.todo \in Seq(R), w.pc # "increase",
           Somewhere(w, events)
    PROVE  /\ At(w, events) \in 1..Len(events)
           /\ w.todo # <<>> /\ Head(w.todo) = events[At(w, events)]
           /\ Applied(w, events)
                = IF w.pc \in AfterSave THEN At(w, events) ELSE At(w, events) - 1
<1>1. /\ Len(events) \in Nat /\ Len(w.todo) \in Nat
      /\ w.todo # <<>> /\ Len(w.todo) <= Len(events)
  BY LenProperties DEF Somewhere
<1>2. Len(w.todo) # 0 /\ Head(w.todo) = w.todo[1] /\ DOMAIN w.todo = 1..Len(w.todo)
  BY <1>1, EmptySeq, LenProperties, HeadTailProperties
<1> DEFINE N == Len(events)
           m == Len(w.todo)
<1>3. 1 \in DOMAIN w.todo /\ N \in Nat /\ m \in Nat /\ m # 0 /\ m <= N
  BY <1>1, <1>2
<1>4. w.todo[1] = events[N - m + 1]
  BY <1>3 DEF Somewhere
<1>5. At(w, events) = N - m + 1 /\ Applied(w, events) = N - m + (IF w.pc \in AfterSave THEN 1 ELSE 0)
  BY DEF At, Applied
<1> HIDE DEF N, m
<1>6. /\ At(w, events) \in 1..N
      /\ Applied(w, events)
           = IF w.pc \in AfterSave THEN At(w, events) ELSE At(w, events) - 1
  BY <1>3, <1>5
<1> QED BY <1>1, <1>2, <1>4, <1>5, <1>6 DEF N

LEMMA Shifted ==
    ASSUME NEW N \in Nat, NEW m \in Nat
    PROVE  /\ m <= N => m - 1 <= N
           /\ N - (m - 1) + 0 = N - m + 1
           /\ \A j \in Nat : N - (m - 1) + j = N - m + (j + 1)
OBVIOUS

LEMMA SomewhereNext ==
    ASSUME NEW S, NEW R, NEW events \in Seq(S), NEW w, w.todo \in Seq(R), w.pc # "increase",
           Somewhere(w, events),
           NEW next, next.todo = Tail(w.todo),
           next.pc = IF Tail(w.todo) = <<>> THEN "increase" ELSE "find"
    PROVE  Somewhere(next, events) /\ Applied(next, events) = At(w, events)
<1>1. /\ Len(events) \in Nat /\ Len(w.todo) \in Nat
      /\ w.todo # <<>> /\ Len(w.todo) <= Len(events)
  BY LenProperties DEF Somewhere
<1>2. /\ Tail(w.todo) \in Seq(R) /\ Len(Tail(w.todo)) = Len(w.todo) - 1
      /\ \A i \in 1..(Len(w.todo) - 1) : Tail(w.todo)[i] = w.todo[i + 1]
  BY <1>1, HeadTailProperties, LenProperties
<1>3. DOMAIN Tail(w.todo) = 1..(Len(w.todo) - 1) /\ DOMAIN w.todo = 1..Len(w.todo)
  BY <1>1, <1>2, LenProperties
<1>4. ASSUME NEW i \in DOMAIN next.todo
      PROVE  next.todo[i] = events[Len(events) - Len(next.todo) + i]
  <2>1. i \in 1..(Len(w.todo) - 1) /\ i + 1 \in DOMAIN w.todo
    BY <1>1, <1>3, <1>4
  <2>2. next.todo[i] = w.todo[i + 1]
    BY <1>2, <2>1
  <2>3. w.todo[i + 1] = events[Len(events) - Len(w.todo) + (i + 1)]
    BY <2>1 DEF Somewhere
  <2>4. i \in Nat
    BY <2>1
  <2>5. Len(events) - (Len(w.todo) - 1) + i = Len(events) - Len(w.todo) + (i + 1)
    BY <1>1, <2>4, Shifted
  <2>6. next.todo[i] = events[Len(events) - (Len(w.todo) - 1) + i]
    BY <2>2, <2>3, <2>5
  <2> QED BY <2>6, <1>2
<1>5. next.pc = "increase" <=> next.todo = <<>>
  OBVIOUS
<1>6. Len(next.todo) = Len(w.todo) - 1
  BY <1>2
<1>7. Somewhere(next, events)
  <2>2. Len(next.todo) <= Len(events)
    BY <1>1, <1>6, Shifted
  <2> QED BY <1>4, <1>5, <2>2 DEF Somewhere
<1>8. Applied(next, events) = At(w, events)
  <2>1. next.pc \notin AfterSave
    BY DEF AfterSave
  <2>2. Applied(next, events) = Len(events) - (Len(w.todo) - 1) + 0
    BY <1>6, <2>1 DEF Applied
  <2> QED BY <1>1, <2>2, Shifted DEF At
<1> QED BY <1>7, <1>8

(* Nobody writes a card: what changes of one walker.                       *)
LEMMA LedgerWalker ==
    ASSUME Inv, LedgerInv, NEW l \in Walkers, NEW w, walk' = [walk EXCEPT ![l] = w],
           UNCHANGED <<chain, cursor, cards, created, signed, sell, strays, crashes>>,
           OrdersSound', Working(l, w, chain[cursor[l]], cards),
           w.pc # "idle" => cursor[l] <= Len(chain),
           \A c \in Cards, u \in Users :
             DoneBy(l, w, chain[cursor[l]], c, u) = WalkDone(l, c, u)
    PROVE  LedgerInv'
<1>1. /\ walk'[l] = w /\ \A m \in Walkers \ {l} : walk'[m] = walk[m]
  BY DEF Inv, WalkInv
<1>2. strays' = {} /\ crashes' = 0 /\ ChainSound'
  BY DEF LedgerInv, ChainSound
<1>3. CursorsSound'
  BY <1>1 DEF LedgerInv, CursorsSound
<1>4. \A m \in Walkers : WalkerSound(m)'
  BY <1>1 DEF LedgerInv, WalkerSound
<1>5. SellerSound' /\ DocumentsSound'
  BY DEF LedgerInv, SellerSound, DocumentsSound
<1>6. Balanced'
  <2>1. ASSUME NEW c \in Cards, NEW u \in Users, NEW m \in Walkers
        PROVE  WalkDone(m, c, u)' = WalkDone(m, c, u)
    BY <1>1 DEF WalkDone
  <2>2. ASSUME NEW c \in Cards, NEW u \in Users
        PROVE  SellDone(c, u)' = SellDone(c, u)
    BY DEF SellDone
  <2> QED BY <2>1, <2>2 DEF LedgerInv, Balanced, Walkers
<1> QED BY <1>2, <1>3, <1>4, <1>5, <1>6 DEF LedgerInv

LEMMA OrdersKept ==
    ASSUME OrdersSound, sales' \subseteq sales, hasSale' \in [Cards -> BOOLEAN],
           UNCHANGED <<chain, created, signed>>,
           sales' = sales \/ \E k \in DOMAIN chain : ~(KindsOf(chain[k]) \subseteq {"sale"})
    PROVE  OrdersSound'
<1>1. IsFiniteSet(sales')
  BY FS_Subset DEF OrdersSound
<1>2. (\A k \in DOMAIN chain : KindsOf(chain[k]) \subseteq {"sale"})
         => sales' = sales /\ \A o \in signed : SaleKept(o)
  BY DEF OrdersSound
<1>3. (\A k \in DOMAIN chain' : KindsOf(chain'[k]) \subseteq {"sale"})
         => \A o \in signed' : SaleKept(o)'
  BY <1>2 DEF SaleKept
<1> QED BY <1>1, <1>3 DEF OrdersSound

LEMMA OrdersStay ==
    ASSUME LedgerInv, UNCHANGED <<chain, created, signed, sales, hasSale>>
    PROVE  OrdersSound'
BY OrdersKept DEF LedgerInv, OrdersSound

-----------------------------------------------------------------------------
(* What a walker at work finds.                                            *)
Place(l) == At(walk[l], EventsIn(l, chain[cursor[l]]))

LEMMA WalkerPlace ==
    ASSUME Inv, LedgerInv, NEW l \in Walkers, walk[l].pc \notin {"idle", "increase"}
    PROVE  LET events == EventsIn(l, chain[cursor[l]])
           IN  /\ events \in Seq(Moves) /\ cursor[l] <= Len(chain)
               /\ chain[cursor[l]] \in Blocks /\ cursor[l] \in DOMAIN chain
               /\ Working(l, walk[l], chain[cursor[l]], cards)
               /\ Somewhere(walk[l], events)
               /\ walk[l].todo \in Seq(EventsOf(l))
               /\ Place(l) \in 1..Len(events) /\ Event(l) = events[Place(l)]
               /\ Applied(walk[l], events)
                    = IF walk[l].pc \in AfterSave THEN Place(l) ELSE Place(l) - 1
               /\ \A c, u : WalkDone(l, c, u)
                    = Moved(l, events, IF walk[l].pc \in AfterSave THEN Place(l) ELSE Place(l) - 1, c, u)
<1> DEFINE events == EventsIn(l, chain[cursor[l]])
<1>1. /\ chain[cursor[l]] \in Blocks /\ cursor[l] \in DOMAIN chain /\ cursor[l] <= Len(chain)
  BY CursorIn DEF Listeners, LedgerInv, CursorsSound
<1>2. events \in Seq(Moves)
  BY <1>1, EventsTyped
<1>3. Working(l, walk[l], chain[cursor[l]], cards)
  BY DEF LedgerInv, WalkerSound
<1>4. Somewhere(walk[l], events) /\ walk[l].todo \in Seq(EventsOf(l))
  BY <1>3, WalkerFacts DEF Working
<1> HIDE DEF events
<1>5. /\ At(walk[l], events) \in 1..Len(events)
      /\ Head(walk[l].todo) = events[At(walk[l], events)]
      /\ Applied(walk[l], events)
                = IF walk[l].pc \in AfterSave THEN At(walk[l], events) ELSE At(walk[l], events) - 1
  BY <1>2, <1>4, SomewhereIs
<1>6. \A c, u : WalkDone(l, c, u) = Moved(l, events, Applied(walk[l], events), c, u)
  BY DEF WalkDone, DoneBy, events
<1> QED BY <1>1, <1>2, <1>3, <1>4, <1>5, <1>6 DEF events, Place, Event

LEMMA BoughtNone == ASSUME NEW c, NEW u PROVE Bought({}, c, u) = 0
<1>1. IsFiniteSet({}) /\ BoughtIn({}, c, u) = {}
  BY FS_EmptySet DEF BoughtIn
<1>2. SumOf(Worths({}), {}) = 0
  BY SumEmpty
<1> QED BY <1>1, <1>2, FillSums

(* Whoever lets tokens go in an event has them.                            *)
LEMMA WalkerHas ==
    ASSUME Inv, LedgerInv, NEW l \in Walkers, walk[l].pc \in {"find", "save"}
    PROVE  Holds(cards[Event(l).card], Event(l).from) >= Event(l).n
<1> DEFINE k      == cursor[l]
           blk    == chain[k]
           events == EventsIn(l, blk)
           i      == Place(l)
           e      == Event(l)
           c      == e.card
           u      == e.from
           held   == HeldUpTo(chain, k, c, u)
<1>1. /\ events \in Seq(Moves) /\ k \in DOMAIN chain /\ blk \in Blocks
      /\ i \in 1..Len(events) /\ e = events[i]
      /\ WalkDone(l, c, u) = Moved(l, events, i - 1, c, u)
  BY WalkerPlace DEF AfterSave
<1>2. c \in Cards /\ u \in Users /\ e.n \in Nat \ {0}
  BY WalkEvents
<1>3. /\ \A j \in DOMAIN chain : \A m \in KindsOf(chain[j]) : m = l
      /\ \A m \in Walkers \ {l} : WalkDone(m, c, u) = 0
      /\ SellDone(c, u) = 0
  BY WalkerAtWork
<1>4. chain \in Seq(Blocks) /\ l \in Listeners
  BY DEF Inv, ChainInv, Listeners
<1>5. held \in Int /\ HeldIn(chain, cursor, c, u) = held
  <2> DEFINE upto == [m \in Listeners |-> k]
  <2>1. upto[l] = cursor[l]
    BY <1>4
  <2> HIDE DEF upto
  <2>2. HeldIn(chain, cursor, c, u) = HeldIn(chain, upto, c, u)
    BY <1>2, <1>3, <1>4, <2>1, HeldAlone
  <2>3. HeldIn(chain, upto, c, u) \in Int
    BY <1>2, <1>4, HeldTyped
  <2> QED BY <2>2, <2>3 DEF upto, HeldUpTo
<1>6. Covered(chain, k)
  BY <1>1 DEF LedgerInv, ChainSound
<1>7. /\ blk.sale = {} /\ Bought(blk.sale, c, u) = 0
      /\ \A m \in Listeners \ {l} : Change(m, blk, c, u) = 0
  <2>1. \A m \in Listeners \ {l} : m \notin KindsOf(blk)
    BY <1>1, <1>3
  <2>2. "sale" \notin KindsOf(blk)
    BY <2>1 DEF Walkers, Listeners
  <2>3. blk.sale = {}
    BY <2>2 DEF KindsOf
  <2> QED BY <1>1, <2>1, <2>3, BoughtNone, ChangeTyped
<1>8. Holds(cards[c], u) = HeldIn(chain, cursor, c, u) + WalkDone("transfer", c, u)
                             + WalkDone("burn", c, u) + SellDone(c, u)
  BY <1>2 DEF LedgerInv, Balanced
<1> DEFINE N(j) == NetOf(SubSeq(events, 1, j), c, u)
           G(j) == GotOf(SubSeq(events, 1, j), c, u)
<1>9. /\ N(i) = N(i - 1) + e.n /\ N(i) \in Nat /\ N(i - 1) \in Nat /\ G(i - 1) \in Nat
      /\ N(i) <= NetOf(events, c, u) /\ NetOf(events, c, u) \in Nat
  BY <1>1, FrontSteps
<1>10. CASE l = "transfer"
  <2>1. events = blk.transfer /\ i \in DOMAIN blk.transfer /\ blk.transfer[i] = e
    <3>1. events = blk.transfer
      BY <1>10 DEF EventsIn
    <3> QED BY <1>1, <3>1, LenProperties
  <2>2. held + 0 + G(i - 1) >= N(i)
    BY <1>6, <1>7, <2>1 DEF Covered
  <2>3. WalkDone("transfer", c, u) = G(i - 1) - N(i - 1) /\ WalkDone("burn", c, u) = 0
    BY <1>1, <1>3, <1>10 DEF Moved, Walkers
  <2> HIDE DEF N, G, held, c, u, e, i
  <2>4. Holds(cards[c], u) = held + (G(i - 1) - N(i - 1)) + 0 + 0
    BY <1>3, <1>5, <1>8, <2>3
  <2>5. Holds(cards[c], u) >= e.n
    BY <1>2, <1>5, <1>9, <2>2, <2>4
  <2> QED BY <2>5 DEF c, u, e
<1>11. CASE l = "burn"
  <2>1. events = blk.burn
    BY <1>11 DEF EventsIn
  <2>2. /\ Change("transfer", blk, c, u) = 0 /\ Change("sale", blk, c, u) = 0
        /\ Change("burn", blk, c, u) = -NetOf(events, c, u)
    BY <1>7, <1>11, <2>1 DEF Change, Listeners, Walkers
  <2>3. held + 0 + (-NetOf(events, c, u)) + 0 >= 0
    BY <1>2, <1>6, <2>2 DEF Covered
  <2>4. WalkDone("burn", c, u) = 0 - N(i - 1) /\ WalkDone("transfer", c, u) = 0
    BY <1>1, <1>3, <1>11 DEF Moved, Walkers
  <2> HIDE DEF N, G, held, c, u, e, i, events
  <2>5. Holds(cards[c], u) = held + 0 + (0 - N(i - 1)) + 0
    BY <1>3, <1>5, <1>8, <2>4
  <2>6. Holds(cards[c], u) >= e.n
    BY <1>2, <1>5, <1>9, <2>3, <2>5
  <2> QED BY <2>6 DEF c, u, e
<1> QED BY <1>10, <1>11 DEF Walkers

LEMMA HasThem ==
    ASSUME StoreSound, NEW c \in Cards, NEW u, NEW n \in Nat \ {0}, Holds(cards[c], u) >= n
    PROVE  /\ cards[c] # NoCard /\ u \in Holders(cards[c].bal)
           /\ AmountOf(cards[c].bal, u) >= n
<1>1. cards[c] # NoCard
  BY DEF Holds
<1>2. cards[c].bal \in Accounts /\ Holds(cards[c], u) = AmountOf(cards[c].bal, u)
  BY <1>1, DocsSound DEF Holds
<1> QED BY <1>1, <1>2, AmountNat

-----------------------------------------------------------------------------
(* The steps of a walker that write no card.                               *)
LEMMA LedgerGoesOn ==
    ASSUME Inv, LedgerInv, NEW l \in Walkers, walk[l].pc \notin {"idle", "increase"},
           NEW w, walk' = [walk EXCEPT ![l] = w],
           w.todo = walk[l].todo, w.hs \in BOOLEAN,
           w.pc \in {"find", "save"} \cup AfterSave,
           w.pc \in AfterSave <=> walk[l].pc \in AfterSave,
           w.pc = "load" => w.onSale > 0,
           w.pc = "save" => SaveDue(l, w, cards),
           OrdersSound', UNCHANGED <<chain, cursor, cards, created, signed, sell, strays, crashes>>
    PROVE  LedgerInv'
<1> DEFINE events == EventsIn(l, chain[cursor[l]])
<1>1. /\ cursor[l] <= Len(chain) /\ Somewhere(walk[l], events)
      /\ \A c, u : WalkDone(l, c, u) = Moved(l, events, Applied(walk[l], events), c, u)
  BY WalkerPlace DEF WalkDone, DoneBy
<1>2. w.pc \notin {"idle", "increase"}
  BY DEF AfterSave
<1>3. Somewhere(w, events) /\ Applied(w, events) = Applied(walk[l], events)
  BY <1>1, <1>2 DEF Somewhere, Applied
<1>4. Working(l, w, chain[cursor[l]], cards)
  BY <1>3 DEF Working
<1>5. /\ w.pc # "idle" => cursor[l] <= Len(chain)
      /\ \A c \in Cards, u \in Users : DoneBy(l, w, chain[cursor[l]], c, u) = WalkDone(l, c, u)
  BY <1>1, <1>2, <1>3 DEF DoneBy
<1> QED BY <1>4, <1>5, LedgerWalker

LEMMA LedgerNextEvent ==
    ASSUME Inv, LedgerInv, NEW l \in Walkers, walk[l].pc \in AfterSave, NextEvent(l),
           OrdersSound', UNCHANGED <<chain, cursor, cards, created, signed, sell, strays, crashes>>
    PROVE  LedgerInv'
<1> DEFINE events == EventsIn(l, chain[cursor[l]])
           rest   == Tail(walk[l].todo)
           w      == [Resting EXCEPT !.pc = IF rest = <<>> THEN "increase" ELSE "find",
                                     !.todo = rest]
<1>1. walk' = [walk EXCEPT ![l] = w]
  BY DEF NextEvent
<1>2. w.pc = (IF rest = <<>> THEN "increase" ELSE "find") /\ w.todo = rest /\ w.hs = FALSE
  BY DEF Resting
<1> HIDE DEF w
<1>3. walk[l].pc \notin {"idle", "increase"}
  BY DEF AfterSave
<1>4. /\ cursor[l] <= Len(chain) /\ Somewhere(walk[l], events) /\ events \in Seq(Moves)
      /\ walk[l].todo \in Seq(EventsOf(l))
      /\ \A c, u : WalkDone(l, c, u) = Moved(l, events, Place(l), c, u)
  BY <1>3, WalkerPlace
<1>5. Somewhere(w, events) /\ Applied(w, events) = Place(l)
  BY <1>2, <1>3, <1>4, SomewhereNext DEF Place
<1>6. Working(l, w, chain[cursor[l]], cards)
  BY <1>2, <1>5 DEF Working
<1>7. /\ w.pc # "idle" => cursor[l] <= Len(chain)
      /\ \A c \in Cards, u \in Users : DoneBy(l, w, chain[cursor[l]], c, u) = WalkDone(l, c, u)
  BY <1>2, <1>4, <1>5 DEF DoneBy
<1> QED BY <1>1, <1>6, <1>7, LedgerWalker

LEMMA LedgerStartWalk ==
    ASSUME Inv, LedgerInv, NEW l \in Walkers, StartWalk(l)
    PROVE  LedgerInv'
<1> DEFINE events == EventsIn(l, chain[cursor[l]])
           w      == [walk[l] EXCEPT !.pc = IF events = <<>> THEN "increase" ELSE "find",
                                     !.todo = events]
<1>1. /\ walk' = [walk EXCEPT ![l] = w] /\ cursor[l] <= Len(chain) /\ walk[l].pc = "idle"
      /\ UNCHANGED <<chain, cursor, db, sell, strays, req, crashes>>
  BY DEF StartWalk, EventsIn
<1>2. DOMAIN walk[l] = {"pc", "todo", "upd", "onSale", "hs"} /\ walk[l].hs \in BOOLEAN
  BY DEF Inv, WalkInv, WalkerOK, LedgerInv, WalkerSound, Working
<1>3. /\ w.pc = (IF events = <<>> THEN "increase" ELSE "find")
      /\ w.todo = events /\ w.hs \in BOOLEAN
  BY <1>2
<1> HIDE DEF w
<1>4. events \in Seq(Moves)
  <2>1. chain \in Seq(Blocks) /\ cursor[l] \in Nat \ {0}
    BY DEF Inv, ChainInv, Listeners
  <2>2. cursor[l] \in DOMAIN chain
    BY <1>1, <2>1, LenProperties
  <2> QED BY <2>2, BlockTyped, EventsTyped
<1> HIDE DEF events
<1>5. Len(events) \in Nat /\ Len(events) - Len(events) = 0 /\ DOMAIN events = 1..Len(events)
  BY <1>4, LenProperties
<1>6. \A i \in DOMAIN events : Len(events) - Len(events) + i = i
  BY <1>5
<1>7. Somewhere(w, events)
  BY <1>3, <1>5, <1>6 DEF Somewhere
<1>8. Applied(w, events) = 0
  <2>1. w.pc \notin AfterSave
    BY <1>3 DEF AfterSave
  <2> QED BY <1>3, <1>5, <2>1 DEF Applied
<1>9. Working(l, w, chain[cursor[l]], cards)
  BY <1>3, <1>7 DEF Working, events
<1>10. \A c, u : DoneBy(l, w, chain[cursor[l]], c, u) = WalkDone(l, c, u)
  <2>1. \A c, u : Moved(l, events, 0, c, u) = 0
    BY <1>4, MovedStarts
  <2>2. w.pc # "idle"
    BY <1>3
  <2> QED BY <1>1, <1>8, <2>1, <2>2 DEF DoneBy, WalkDone, events
<1>11. OrdersSound'
  BY <1>1, OrdersStay DEF db
<1>12. UNCHANGED <<cards, created, signed>>
  BY <1>1 DEF db
<1> QED BY <1>1, <1>9, <1>10, <1>11, <1>12, LedgerWalker

LEMMA LedgerFind ==
    ASSUME Inv, StoreSound, LedgerInv, NEW l \in Walkers,
           (l = "transfer" /\ FindTransferred) \/ (l = "burn" /\ FindBurned)
    PROVE  LedgerInv'
<1> DEFINE e   == Event(l)
           doc == cards[e.card]
           upd == SaveOf(l, doc, e)
           w   == [walk[l] EXCEPT !.pc = "save", !.upd = {upd}]
<1>1. walk[l].pc = "find" /\ UNCHANGED <<chain, cursor, db, sell, strays, req, crashes>>
  BY DEF FindTransferred, FindBurned
<1>2. /\ e.card \in Cards /\ e.n \in Nat \ {0}
      /\ DOMAIN walk[l] = {"pc", "todo", "upd", "onSale", "hs"}
  BY <1>1, WalkEvents, WalkerFacts
<1>3. doc # NoCard /\ e.from \in Holders(doc.bal)
  BY <1>1, <1>2, WalkerHas, HasThem
<1>4. walk' = [walk EXCEPT ![l] = w]
  <2>1. CASE l = "transfer" /\ FindTransferred
    BY <1>3, <2>1 DEF FindTransferred, SaveOf
  <2>2. CASE l = "burn" /\ FindBurned
    BY <1>3, <2>2 DEF FindBurned, SaveOf
  <2> QED BY <2>1, <2>2
<1>5. w.pc = "save" /\ w.upd = {upd} /\ w.todo = walk[l].todo /\ w.hs = walk[l].hs
  BY <1>2
<1> HIDE DEF w
<1>6. SaveDue(l, w, cards)
  BY <1>3, <1>5 DEF SaveDue, Event
<1>7. walk[l].hs \in BOOLEAN
  BY DEF LedgerInv, WalkerSound, Working
<1>8. OrdersSound'
  BY <1>1, OrdersStay DEF db
<1>9. UNCHANGED <<cards, created, signed>>
  BY <1>1 DEF db
<1>10. "save" \notin AfterSave /\ "find" \notin AfterSave
  BY DEF AfterSave
<1> HIDE DEF upd
<1> QED BY <1>1, <1>4, <1>5, <1>6, <1>7, <1>8, <1>9, <1>10, LedgerGoesOn

LEMMA LedgerGoTo ==
    ASSUME Inv, LedgerInv, NEW l \in Walkers, walk[l].pc \in AfterSave,
           NEW pc \in AfterSave \ {"load"}, GoTo(l, pc),
           OrdersSound', UNCHANGED <<chain, cursor, cards, created, signed, sell, strays, crashes>>
    PROVE  LedgerInv'
<1> DEFINE w == [walk[l] EXCEPT !.pc = pc]
<1>1. walk' = [walk EXCEPT ![l] = w]
  BY DEF GoTo
<1>2. DOMAIN walk[l] = {"pc", "todo", "upd", "onSale", "hs"} /\ walk[l].hs \in BOOLEAN
  BY DEF Inv, WalkInv, WalkerOK, LedgerInv, WalkerSound, Working
<1>3. w.pc = pc /\ w.todo = walk[l].todo /\ w.hs \in BOOLEAN
  BY <1>2
<1> HIDE DEF w
<1>4. walk[l].pc \notin {"idle", "increase"} /\ pc \notin {"load", "save"}
  BY DEF AfterSave
<1> QED BY <1>1, <1>3, <1>4, LedgerGoesOn

LEMMA LedgerSumOnSale ==
    ASSUME Inv, LedgerInv, NEW l \in Walkers, SumOnSale(l)
    PROVE  LedgerInv'
<1> DEFINE total == OnSale(Event(l).card, Event(l).from)
           S     == SalesOf(Event(l).card, Event(l).from)
           w     == [walk[l] EXCEPT !.pc = "load", !.onSale = total]
<1>1. walk[l].pc = "sum" /\ UNCHANGED <<chain, cursor, db, sell, strays, req, crashes>>
  BY DEF SumOnSale
<1>2. OrdersSound' /\ UNCHANGED <<cards, created, signed>>
  BY <1>1, OrdersStay DEF db
<1>3. walk[l].pc \in AfterSave /\ "load" \in AfterSave
  BY <1>1 DEF AfterSave
<1>4. CASE NextEvent(l)
  BY <1>1, <1>2, <1>3, <1>4, LedgerNextEvent
<1>5. CASE total # 0 /\ walk' = [walk EXCEPT ![l].pc = "load", ![l].onSale = total]
  <2>1. walk' = [walk EXCEPT ![l] = w]
    BY <1>5
  <2>2. DOMAIN walk[l] = {"pc", "todo", "upd", "onSale", "hs"} /\ walk[l].hs \in BOOLEAN
    BY DEF Inv, WalkInv, WalkerOK, LedgerInv, WalkerSound, Working
  <2>3. w.pc = "load" /\ w.todo = walk[l].todo /\ w.hs \in BOOLEAN /\ w.onSale = total
    BY <2>2
  <2>4. total > 0
    <3>1. IsFiniteSet(S) /\ S \subseteq SaleDocs
      <4>1. S \subseteq sales
        BY DEF SalesOf
      <4> QED BY <4>1, FS_Subset DEF LedgerInv, OrdersSound, Inv, SalesInv, SaleDocs
    <3>2. total = Total(S)
      BY OnSaleIsTotal
    <3>3. total \in Nat
      BY <3>1, <3>2, TotalNat
    <3> HIDE DEF total
    <3> QED BY <1>5, <3>3
  <2> HIDE DEF w, total
  <2>5. w.onSale > 0
    BY <2>3, <2>4
  <2> QED BY <1>1, <1>2, <1>3, <2>1, <2>3, <2>5, LedgerGoesOn
<1> QED BY <1>4, <1>5 DEF SumOnSale

LEMMA LedgerLoadCard ==
    ASSUME Inv, LedgerInv, NEW l \in Walkers, LoadCard(l)
    PROVE  LedgerInv'
<1>1. walk[l].pc = "load" /\ UNCHANGED <<chain, cursor, db, sell, strays, req, crashes>>
  BY DEF LoadCard
<1>2. OrdersSound' /\ UNCHANGED <<cards, created, signed>>
  BY <1>1, OrdersStay DEF db
<1>3. PICK pc \in {"dropCard", "drop", "exists"} : GoTo(l, pc)
  BY DEF LoadCard
<1>4. walk[l].pc \in AfterSave /\ pc \in AfterSave \ {"load"}
  BY <1>1 DEF AfterSave
<1> QED BY <1>1, <1>2, <1>3, <1>4, LedgerGoTo

(* A walker that drops sales is not alone with sales: there are events for *)
(* it.                                                                     *)
LEMMA LedgerDrops ==
    ASSUME Inv, LedgerInv, NEW l \in Walkers, DropSalesOfCard(l) \/ DropSalesOfOwner(l)
    PROVE  LedgerInv'
<1>1. /\ walk[l].pc \in {"dropCard", "drop"} /\ sales' \subseteq sales
      /\ UNCHANGED <<chain, cursor, cards, hasSale, created, signed, sell, strays, req, crashes>>
  BY DEF DropSalesOfCard, DropSalesOfOwner
<1>2. l \in KindsOf(chain[cursor[l]]) /\ cursor[l] \in DOMAIN chain /\ l # "sale"
  BY <1>1, WalkerAtWork, WalkerPlace DEF Walkers
<1>3. OrdersSound'
  BY <1>1, <1>2, OrdersKept DEF LedgerInv, OrdersSound
<1>4. walk[l].pc \in AfterSave /\ "exists" \in AfterSave \ {"load"}
  BY <1>1 DEF AfterSave
<1>5. NextEvent(l) \/ GoTo(l, "exists")
  BY DEF DropSalesOfCard, DropSalesOfOwner
<1> QED BY <1>1, <1>3, <1>4, <1>5, LedgerNextEvent, LedgerGoTo

LEMMA LedgerExists ==
    ASSUME Inv, LedgerInv, NEW l \in Walkers, WalkExists(l)
    PROVE  LedgerInv'
<1> DEFINE hs == ExistsSale(Event(l).card)
           w  == [walk[l] EXCEPT !.pc = "flag", !.hs = hs]
<1>1. /\ walk[l].pc = "exists" /\ UNCHANGED <<chain, cursor, db, sell, strays, req, crashes>>
      /\ walk' = [walk EXCEPT ![l] = w]
  BY DEF WalkExists
<1>2. OrdersSound' /\ UNCHANGED <<cards, created, signed>>
  BY <1>1, OrdersStay DEF db
<1>3. DOMAIN walk[l] = {"pc", "todo", "upd", "onSale", "hs"}
  BY DEF Inv, WalkInv, WalkerOK
<1>4. hs \in BOOLEAN
  BY DEF ExistsSale
<1>5. w.pc = "flag" /\ w.todo = walk[l].todo /\ w.hs = hs
  BY <1>3
<1> HIDE DEF w, hs
<1>6. walk[l].pc \in AfterSave /\ "flag" \in AfterSave
  BY <1>1 DEF AfterSave
<1> QED BY <1>1, <1>2, <1>4, <1>5, <1>6, LedgerGoesOn

LEMMA FlagTyped ==
    ASSUME hasSale \in [Cards -> BOOLEAN], NEW c, NEW hs \in BOOLEAN, UpdateHasSale(c, hs)
    PROVE  hasSale' \in [Cards -> BOOLEAN]
BY DEF UpdateHasSale

LEMMA LedgerFlag ==
    ASSUME Inv, LedgerInv, NEW l \in Walkers, WalkFlag(l)
    PROVE  LedgerInv'
<1>1. /\ walk[l].pc = "flag" /\ UpdateHasSale(Event(l).card, walk[l].hs) /\ NextEvent(l)
      /\ UNCHANGED <<chain, cursor, cards, sales, created, signed, sell, strays, req, crashes>>
  BY DEF WalkFlag
<1>2. walk[l].hs \in BOOLEAN /\ hasSale \in [Cards -> BOOLEAN]
  BY DEF LedgerInv, WalkerSound, Working, OrdersSound
<1>3. hasSale' \in [Cards -> BOOLEAN]
  BY <1>1, <1>2, FlagTyped
<1>4. OrdersSound'
  BY <1>1, <1>3, OrdersKept DEF LedgerInv
<1>5. walk[l].pc \in AfterSave
  BY <1>1 DEF AfterSave
<1> QED BY <1>1, <1>4, <1>5, LedgerNextEvent

-----------------------------------------------------------------------------
(* What a save does to the documents.                                      *)
LEMMA HeldInDocs ==
    ASSUME StoreSound, NEW c \in Cards, NEW u
    PROVE  Holds(cards[c], u) \in Nat
<1>1. CASE cards[c] = NoCard
  BY <1>1 DEF Holds
<1>2. CASE cards[c] # NoCard
  BY <1>2, DocsSound, AmountNat DEF Holds
<1> QED BY <1>1, <1>2

LEMMA NonEmpty ==
    ASSUME NEW bal, NEW u \in Holders(bal) PROVE bal # <<>>
BY DEF Holders

LEMMA DocsSoundNext ==
    ASSUME StoreSound'
    PROVE  \A c \in Cards : cards'[c] # NoCard =>
             cards'[c].bal \in Accounts /\ OneEntryEach(cards'[c].bal)
<1>1. cards' \in [Cards -> Proved!Docs \cup {NoCard}]
  BY DEF StoreSound, Proved!TypeOK
<1>2. \A c \in Cards : cards'[c] # NoCard => OneEntryEach(cards'[c].bal)
  BY SameDocument DEF StoreSound, Proved!OneEntryPerHolder
<1>3. \A doc \in Proved!Docs : doc.bal \in Accounts
  BY DEF Proved!Docs, Accounts
<1> QED BY <1>1, <1>2, <1>3

(* The save of a transfer, and of a burn, the owner can afford.            *)
TransferSaved(c, n, maker, taker) ==
    /\ cards[c] # NoCard /\ maker \in Holders(cards[c].bal)
    /\ AmountOf(cards[c].bal, maker) >= n
    /\ cards' = [cards EXCEPT ![c] = Saved(@, ChangeOwnerships(c, cards[c], n, maker, taker))]

BurnSaved(c, n, owner) ==
    LET upd == BurnCard(c, cards[c], n, owner)
    IN  /\ cards[c] # NoCard /\ owner \in Holders(cards[c].bal)
        /\ AmountOf(cards[c].bal, owner) >= n
        /\ cards' = [cards EXCEPT ![c] = IF upd.kind = "delete" THEN NoCard ELSE Saved(@, upd)]

(* What a transfer does to what everybody holds of every card.             *)
TransferMoves(c, n, maker, taker) ==
    \A d \in Cards : \A u :
       Holds(cards'[d], u) = Holds(cards[d], u) + (IF d = c /\ taker = u THEN n ELSE 0)
                                                - (IF d = c /\ maker = u THEN n ELSE 0)

LEMMA TransferWrites ==
    ASSUME StoreSound, StoreSound', DocumentsSound, NEW c \in Cards, NEW n \in Nat \ {0},
           NEW maker \in Users, NEW taker \in Users, maker # taker,
           TransferSaved(c, n, maker, taker)
    PROVE  DocumentsSound' /\ TransferMoves(c, n, maker, taker)
<1> DEFINE doc == cards[c]
           upd == ChangeOwnerships(c, doc, n, maker, taker)
           new == Saved(doc, upd)
<1>0. /\ doc # NoCard /\ maker \in Holders(doc.bal) /\ AmountOf(doc.bal, maker) >= n
      /\ cards' = [cards EXCEPT ![c] = new]
  BY DEF TransferSaved
<1>1. /\ DOMAIN cards = Cards /\ doc \in Proved!Docs /\ doc.bal \in Accounts
      /\ OneEntryEach(doc.bal)
  BY <1>0, DocsSound
<1>2. new # NoCard /\ Transferred(doc.bal, new.bal, n, maker, taker)
  BY <1>0, <1>1, SavedThere, TransferAmounts
<1>3. new.total = doc.total
  BY DEF Saved, ChangeOwnerships
<1> HIDE DEF new
<1>4. cards'[c] = new /\ \A d \in Cards \ {c} : cards'[d] = cards[d]
  BY <1>0, <1>1
<1>5. new.bal \in Accounts /\ OneEntryEach(new.bal)
  BY <1>2, <1>4, DocsSoundNext
<1>6. TotalOf(new.bal) = TotalOf(doc.bal)
  BY <1>0, <1>1, <1>2, <1>5, TransferKeepsTotal
<1>7. \A u : /\ AmountOf(doc.bal, u) \in Nat /\ AmountOf(new.bal, u) \in Nat
             /\ u \in Holders(new.bal) <=> AmountOf(new.bal, u) > 0
  BY <1>1, <1>5, AmountNat
<1>8. \A u : AmountOf(new.bal, u) = AmountOf(doc.bal, u) + (IF taker = u THEN n ELSE 0)
                                                         - (IF maker = u THEN n ELSE 0)
  BY <1>0, <1>2, <1>7 DEF Transferred
<1>9. new.bal # <<>>
  <2>1. AmountOf(new.bal, taker) > 0
    BY <1>7, <1>8
  <2> QED BY <1>7, <2>1, NonEmpty
<1>10. DocumentsSound'
  BY <1>0, <1>3, <1>4, <1>6, <1>9 DEF DocumentsSound
<1>11. ASSUME NEW d \in Cards, NEW u
       PROVE  Holds(cards'[d], u) = Holds(cards[d], u) + (IF d = c /\ taker = u THEN n ELSE 0)
                                                         - (IF d = c /\ maker = u THEN n ELSE 0)
  <2>1. CASE d = c
    BY <1>0, <1>2, <1>4, <1>8, <2>1 DEF Holds
  <2>2. CASE d # c
    BY <1>4, <2>2, HeldInDocs
  <2> QED BY <2>1, <2>2
<1> QED BY <1>10, <1>11 DEF TransferMoves

(* What a burn does to it.                                                 *)
BurnMoves(c, n, owner) ==
    \A d \in Cards : \A u :
       Holds(cards'[d], u) = Holds(cards[d], u) - (IF d = c /\ owner = u THEN n ELSE 0)

LEMMA BurnWrites ==
    ASSUME StoreSound, StoreSound', DocumentsSound, NEW c \in Cards, NEW n \in Nat \ {0},
           NEW owner \in Users, BurnSaved(c, n, owner)
    PROVE  DocumentsSound' /\ BurnMoves(c, n, owner)
<1> DEFINE doc == cards[c]
           upd == BurnCard(c, doc, n, owner)
           new == Saved(doc, upd)
<1>0. /\ doc # NoCard /\ owner \in Holders(doc.bal) /\ AmountOf(doc.bal, owner) >= n
      /\ cards' = [cards EXCEPT ![c] = IF upd.kind = "delete" THEN NoCard ELSE new]
  BY DEF BurnSaved
<1>1. /\ DOMAIN cards = Cards /\ doc \in Proved!Docs /\ doc.bal \in Accounts
      /\ OneEntryEach(doc.bal)
  BY <1>0, DocsSound
<1>2. \A u : AmountOf(doc.bal, u) \in Nat
  BY <1>1, AmountNat
<1>3. \A d \in Cards \ {c} : cards'[d] = cards[d]
  BY <1>0, <1>1
<1>4. CASE upd.kind = "delete"
  <2>1. cards'[c] = NoCard
    BY <1>0, <1>1, <1>4
  <2>2. BurnedAway(doc.bal, n, owner)
    BY <1>0, <1>1, <1>4, BurnAmounts
  <2>3. \A u : AmountOf(doc.bal, u) = IF owner = u THEN n ELSE 0
    BY <1>0, <1>2, <2>2 DEF BurnedAway
  <2>4. DocumentsSound'
    BY <1>3, <2>1 DEF DocumentsSound
  <2>5. ASSUME NEW d \in Cards, NEW u
        PROVE  Holds(cards'[d], u) = Holds(cards[d], u) - (IF d = c /\ owner = u THEN n ELSE 0)
    <3>1. CASE d = c
      BY <1>0, <2>1, <2>3, <3>1 DEF Holds
    <3>2. CASE d # c
      BY <1>3, <3>2, HeldInDocs
    <3> QED BY <3>1, <3>2
  <2> QED BY <2>4, <2>5 DEF BurnMoves
<1>5. CASE upd.kind # "delete"
  <2>1. new # NoCard /\ Burned(doc.bal, new.bal, n, owner)
    BY <1>0, <1>1, <1>5, SavedThere, BurnAmounts
  <2>2. upd.bal # <<>> /\ upd.supply = TRUE /\ upd.total = doc.total - n
    <3>1. upd.bal # <<>>
      BY <1>5 DEF BurnCard, BurnKind
    <3> QED BY <3>1 DEF BurnCard, BurnTotal
  <2>3. new.total = doc.total - n
    BY <2>2 DEF Saved
  <2>4. new.bal # <<>>
    <3>1. CASE upd.kind = "replace"
      BY <2>2, <3>1 DEF Saved
    <3>2. CASE upd.kind # "replace"
      <4>1. DOMAIN new.bal = DOMAIN doc.bal
        BY <3>2 DEF Saved
      <4>2. owner \in Holders(new.bal) \/ DOMAIN new.bal # {}
        BY <1>0, <4>1 DEF Holders
      <4> QED BY <1>0, <4>1 DEF Holders
    <3> QED BY <3>1, <3>2
  <2> HIDE DEF new
  <2>5. cards'[c] = new
    BY <1>0, <1>1, <1>5
  <2>6. new.bal \in Accounts /\ OneEntryEach(new.bal)
    BY <2>1, <2>5, DocsSoundNext
  <2>7. TotalOf(new.bal) = TotalOf(doc.bal) - n
    BY <1>0, <1>1, <2>1, <2>6, BurnTakesFromTotal
  <2>8. DocumentsSound'
    BY <1>0, <1>3, <2>3, <2>4, <2>5, <2>7 DEF DocumentsSound
  <2>9. \A u : AmountOf(new.bal, u) = AmountOf(doc.bal, u) - (IF owner = u THEN n ELSE 0)
    <3>1. \A u : AmountOf(new.bal, u) \in Nat
      BY <2>6, AmountNat
    <3> QED BY <1>0, <1>2, <2>1, <3>1 DEF Burned
  <2>10. ASSUME NEW d \in Cards, NEW u
         PROVE  Holds(cards'[d], u) = Holds(cards[d], u) - (IF d = c /\ owner = u THEN n ELSE 0)
    <3>1. CASE d = c
      BY <1>0, <2>1, <2>5, <2>9, <3>1 DEF Holds
    <3>2. CASE d # c
      BY <1>3, <3>2, HeldInDocs
    <3> QED BY <3>1, <3>2
  <2> QED BY <2>8, <2>10 DEF BurnMoves
<1> QED BY <1>4, <1>5

-----------------------------------------------------------------------------
(* The steps of a walker that write a card, or end its block.              *)
LEMMA LedgerWalkerWrites ==
    ASSUME Inv, LedgerInv, NEW l \in Walkers, walk[l].pc = "save",
           NEW w, walk' = [walk EXCEPT ![l] = w],
           w.pc = "sum", w.todo = walk[l].todo, w.hs \in BOOLEAN,
           UNCHANGED <<chain, cursor, hasSale, sales, created, signed, sell, strays, crashes>>,
           DocumentsSound', StoreSound,
           \A c \in Cards, u \in Users :
             Holds(cards'[c], u)
               = Holds(cards[c], u)
                   + (IF l = "transfer" /\ Event(l).card = c /\ Event(l).to = u THEN Event(l).n ELSE 0)
                   - (IF Event(l).card = c /\ Event(l).from = u THEN Event(l).n ELSE 0)
    PROVE  LedgerInv'
<1> DEFINE k      == cursor[l]
           events == EventsIn(l, chain[k])
           i      == Place(l)
           e      == Event(l)
<1>1. /\ events \in Seq(Moves) /\ Somewhere(walk[l], events)
      /\ i \in 1..Len(events) /\ e = events[i] /\ k <= Len(chain)
      /\ Applied(walk[l], events) = i - 1
      /\ \A c, u : WalkDone(l, c, u) = Moved(l, events, i - 1, c, u)
  BY WalkerPlace DEF AfterSave
<1>2. /\ \A m \in Walkers \ {l} : /\ walk[m].pc \in {"idle", "increase"}
                                  /\ \A c, u : WalkDone(m, c, u) = 0
      /\ sell.pc \in {"idle", "flags", "increase"}
      /\ \A c, u : SellDone(c, u) = 0
  BY WalkerAtWork
<1>3. walk'[l] = w /\ \A m \in Walkers \ {l} : walk'[m] = walk[m]
  BY DEF Inv, WalkInv
<1>4. Somewhere(w, events) /\ Applied(w, events) = i
  <2>1. Len(events) \in Nat /\ Len(walk[l].todo) \in Nat
    BY <1>1, WalkerPlace, LenProperties
  <2>2. w.pc \in AfterSave /\ walk[l].pc \notin AfterSave
    BY DEF AfterSave
  <2>3. Somewhere(w, events)
    BY <1>1 DEF Somewhere
  <2>4. Applied(w, events) = i
    <3>1. i = Len(events) - Len(walk[l].todo) + 1
      BY DEF Place, At
    <3> QED BY <2>2, <3>1 DEF Applied
  <2> QED BY <2>3, <2>4
<1>5. strays' = {} /\ crashes' = 0 /\ ChainSound' /\ OrdersSound'
  BY OrdersStay DEF LedgerInv, ChainSound
<1>6. CursorsSound'
  BY <1>1, <1>3 DEF LedgerInv, CursorsSound
<1>7. ASSUME NEW m \in Walkers PROVE WalkerSound(m)'
  <2>1. CASE m = l
    <3>1. Working(l, w, chain[k], cards')
      BY <1>4 DEF Working, AfterSave
    <3> QED BY <1>3, <2>1, <3>1 DEF WalkerSound
  <2>2. CASE m # l
    <3>1. Working(m, walk[m], chain[cursor[m]], cards)
      BY DEF LedgerInv, WalkerSound
    <3>2. Working(m, walk[m], chain[cursor[m]], cards')
      BY <1>2, <2>2, <3>1 DEF Working
    <3> QED BY <1>3, <2>2, <3>2 DEF WalkerSound
  <2> QED BY <2>1, <2>2
<1>8. SellerSound'
  <2>1. sell.pc # "idle" => Selling(sell, chain[cursor["sale"]].sale, cards)
    BY DEF LedgerInv, SellerSound
  <2>2. sell.pc # "idle" => Selling(sell, chain[cursor["sale"]].sale, cards')
    BY <1>2, <2>1 DEF Selling
  <2> QED BY <2>2 DEF SellerSound
<1>9. Balanced'
  <2> SUFFICES ASSUME NEW c \in Cards, NEW u \in Users
               PROVE  (Holds(cards[c], u) = HeldIn(chain, cursor, c, u)
                         + WalkDone("transfer", c, u) + WalkDone("burn", c, u) + SellDone(c, u))'
    BY DEF Balanced
  <2> DEFINE more == IF l = "transfer" /\ e.card = c /\ e.to = u THEN e.n ELSE 0
             less == IF e.card = c /\ e.from = u THEN e.n ELSE 0
             held == HeldIn(chain, cursor, c, u)
             done == Moved(l, events, i - 1, c, u)
  <2>1. /\ \A m \in Walkers \ {l} : WalkDone(m, c, u)' = 0
        /\ SellDone(c, u)' = 0 /\ HeldIn(chain, cursor, c, u)' = held
    BY <1>2, <1>3 DEF WalkDone, SellDone
  <2>2. WalkDone(l, c, u)' = Moved(l, events, i, c, u)
    BY <1>3, <1>4 DEF WalkDone, DoneBy
  <2>3. Moved(l, events, i, c, u) = done + more - less /\ done \in Int
    <3>1. events \in Seq(Moves) /\ i \in 1..Len(events) /\ events[i] = e
      BY <1>1
    <3> HIDE DEF events, i, e
    <3>2. /\ Moved(l, events, i, c, u)
                = Moved(l, events, i - 1, c, u)
                    + (IF l = "transfer" /\ events[i].card = c /\ events[i].to = u
                       THEN events[i].n ELSE 0)
                    - (IF events[i].card = c /\ events[i].from = u THEN events[i].n ELSE 0)
          /\ Moved(l, events, i - 1, c, u) \in Int
      BY <3>1, MovedStep
    <3> QED BY <3>1, <3>2
  <2>4. Holds(cards'[c], u) = Holds(cards[c], u) + more - less
    OBVIOUS
  <2>5. Holds(cards[c], u) = held + WalkDone("transfer", c, u) + WalkDone("burn", c, u)
                               + SellDone(c, u)
    BY DEF LedgerInv, Balanced
  <2>6. held \in Int /\ more \in Int /\ less \in Int
    <3>1. e.n \in Nat \ {0}
      BY WalkEvents
    <3>2. held \in Int
      BY HeldTyped DEF Inv, ChainInv
    <3> QED BY <3>1, <3>2
  <2>7. WalkDone(l, c, u) = done
    BY <1>1
  <2> HIDE DEF more, less, held, done
  <2>8. CASE l = "transfer"
    <3>1. WalkDone("burn", c, u) = 0 /\ WalkDone("burn", c, u)' = 0 /\ SellDone(c, u) = 0
      BY <1>2, <2>1, <2>8 DEF Walkers
    <3>2. Holds(cards'[c], u) = held + (done + more - less) + 0 + 0
      BY <2>3, <2>4, <2>5, <2>6, <2>7, <2>8, <3>1
    <3> QED BY <2>1, <2>2, <2>3, <2>8, <3>1, <3>2
  <2>9. CASE l = "burn"
    <3>1. WalkDone("transfer", c, u) = 0 /\ WalkDone("transfer", c, u)' = 0 /\ SellDone(c, u) = 0
      BY <1>2, <2>1, <2>9 DEF Walkers
    <3>2. Holds(cards'[c], u) = held + 0 + (done + more - less) + 0
      BY <2>3, <2>4, <2>5, <2>6, <2>7, <2>9, <3>1
    <3> QED BY <2>1, <2>2, <2>3, <2>9, <3>1, <3>2
  <2> QED BY <2>8, <2>9 DEF Walkers
<1> QED BY <1>5, <1>6, <1>7, <1>8, <1>9 DEF LedgerInv

LEMMA SavedTyped ==
    ASSUME StoreSound, StoreSound', NEW c \in Cards, NEW u
    PROVE  Holds(cards[c], u) \in Nat /\ Holds(cards'[c], u) \in Nat
<1>1. CASE cards'[c] = NoCard
  BY <1>1, HeldInDocs DEF Holds
<1>2. CASE cards'[c] # NoCard
  <2>1. cards'[c].bal \in Accounts
    BY <1>2, DocsSoundNext
  <2> QED BY <1>2, <2>1, AmountNat, HeldInDocs DEF Holds
<1> QED BY <1>1, <1>2

LEMMA LedgerSaveCard ==
    ASSUME Apart, Inv, StoreSound, StoreSound', LedgerInv, NEW l \in Walkers, SaveCard(l)
    PROVE  LedgerInv'
<1> DEFINE e   == Event(l)
           doc == cards[e.card]
           upd == SaveOf(l, doc, e)
           w   == [walk[l] EXCEPT !.pc = "sum", !.upd = {}]
<1>1. /\ walk[l].pc = "save"
      /\ UNCHANGED <<chain, cursor, hasSale, sales, created, signed, sell, strays, req, crashes>>
  BY DEF SaveCard
<1>2. /\ e.card \in Cards /\ e.from \in Users /\ e.n \in Nat \ {0}
      /\ l = "transfer" => e.to \in Users
      /\ DOMAIN walk[l] = {"pc", "todo", "upd", "onSale", "hs"}
  BY <1>1, WalkEvents, WalkerFacts
<1>3. walk[l].upd = {upd} /\ walk[l].hs \in BOOLEAN
  BY <1>1 DEF LedgerInv, WalkerSound, Working, SaveDue, Event
<1>4. /\ doc # NoCard /\ e.from \in Holders(doc.bal) /\ AmountOf(doc.bal, e.from) >= e.n
  BY <1>1, <1>2, WalkerHas, HasThem
<1>5. upd.card = e.card /\ Accepts(cards[upd.card], upd)
  <2>1. upd.card = e.card /\ upd.v = doc.v
    BY DEF SaveOf, ChangeOwnerships, BurnCard
  <2> QED BY <1>4, <2>1 DEF Accepts
<1> HIDE DEF upd
<1>6. /\ walk' = [walk EXCEPT ![l] = w]
      /\ cards' = [cards EXCEPT ![e.card] = IF upd.kind = "delete" THEN NoCard ELSE Saved(@, upd)]
  BY <1>1, <1>3, <1>5 DEF SaveCard
<1>7. w.pc = "sum" /\ w.todo = walk[l].todo /\ w.hs = walk[l].hs
  BY <1>2
<1> HIDE DEF w
<1>8. DocumentsSound
  BY DEF LedgerInv
<1>9. CASE l = "transfer"
  <2>1. e.from # e.to
    <3> DEFINE blk == chain[cursor[l]]
    <3>1. /\ EventsIn(l, blk) \in Seq(Moves) /\ blk \in Blocks
          /\ Place(l) \in 1..Len(EventsIn(l, blk)) /\ e = EventsIn(l, blk)[Place(l)]
      BY <1>1, WalkerPlace
    <3>2. Place(l) \in DOMAIN blk.transfer /\ e = blk.transfer[Place(l)]
      BY <1>9, <3>1, LenProperties DEF EventsIn
    <3> QED BY <3>1, <3>2 DEF Apart
  <2>2. upd = ChangeOwnerships(e.card, doc, e.n, e.from, e.to) /\ upd.kind # "delete"
    BY <1>9 DEF upd, SaveOf, ChangeOwnerships
  <2>3. cards' = [cards EXCEPT ![e.card] =
                    Saved(@, ChangeOwnerships(e.card, cards[e.card], e.n, e.from, e.to))]
    BY <1>6, <2>2
  <2>4. /\ DocumentsSound'
        /\ \A d \in Cards : \A u :
             Holds(cards'[d], u) = Holds(cards[d], u) + (IF d = e.card /\ e.to = u THEN e.n ELSE 0)
                                                      - (IF d = e.card /\ e.from = u THEN e.n ELSE 0)
    <3>1. PICK c, n, maker, taker :
             c = e.card /\ n = e.n /\ maker = e.from /\ taker = e.to
      OBVIOUS
    <3>2. /\ c \in Cards /\ n \in Nat \ {0} /\ maker \in Users /\ taker \in Users /\ maker # taker
          /\ TransferSaved(c, n, maker, taker)
      BY <1>2, <1>4, <1>9, <2>1, <2>3, <3>1 DEF TransferSaved
    <3>3. DocumentsSound' /\ TransferMoves(c, n, maker, taker)
      BY <1>8, <3>2, TransferWrites
    <3> QED BY <3>1, <3>3 DEF TransferMoves
  <2>5. \A c \in Cards, u \in Users :
          Holds(cards'[c], u)
            = Holds(cards[c], u)
                + (IF l = "transfer" /\ Event(l).card = c /\ Event(l).to = u THEN Event(l).n ELSE 0)
                - (IF Event(l).card = c /\ Event(l).from = u THEN Event(l).n ELSE 0)
    BY <1>9, <2>4
  <2> QED BY <1>1, <1>3, <1>6, <1>7, <2>4, <2>5, LedgerWalkerWrites
<1>10. CASE l = "burn"
  <2>1. upd = BurnCard(e.card, doc, e.n, e.from)
    BY <1>10 DEF upd, SaveOf
  <2>2. /\ DocumentsSound'
        /\ \A d \in Cards : \A u :
             Holds(cards'[d], u) = Holds(cards[d], u) - (IF d = e.card /\ e.from = u THEN e.n ELSE 0)
    <3>1. PICK c, n, owner : c = e.card /\ n = e.n /\ owner = e.from
      OBVIOUS
    <3>2. /\ c \in Cards /\ n \in Nat \ {0} /\ owner \in Users
          /\ BurnSaved(c, n, owner)
      BY <1>2, <1>4, <1>6, <2>1, <3>1 DEF BurnSaved
    <3>3. DocumentsSound' /\ BurnMoves(c, n, owner)
      BY <1>8, <3>2, BurnWrites
    <3> QED BY <3>1, <3>3 DEF BurnMoves
  <2>3. \A c \in Cards, u \in Users :
          Holds(cards'[c], u)
            = Holds(cards[c], u)
                + (IF l = "transfer" /\ Event(l).card = c /\ Event(l).to = u THEN Event(l).n ELSE 0)
                - (IF Event(l).card = c /\ Event(l).from = u THEN Event(l).n ELSE 0)
    <3>1. \A c \in Cards, u \in Users : Holds(cards[c], u) \in Nat
      BY SavedTyped
    <3> QED BY <1>2, <1>10, <2>2, <3>1
  <2> QED BY <1>1, <1>3, <1>6, <1>7, <2>2, <2>3, LedgerWalkerWrites
<1> QED BY <1>9, <1>10 DEF Walkers

LEMMA DoneInt ==
    ASSUME Inv, LedgerInv, NEW c, NEW u
    PROVE  (\A l \in Walkers : WalkDone(l, c, u) \in Int) /\ SellDone(c, u) \in Int
<1>1. ASSUME NEW l \in Walkers PROVE WalkDone(l, c, u) \in Int
  <2> DEFINE events == EventsIn(l, chain[cursor[l]])
  <2>1. CASE walk[l].pc = "idle"
    BY <2>1 DEF WalkDone, DoneBy
  <2>2. CASE walk[l].pc = "increase"
    <3>1. /\ Working(l, walk[l], chain[cursor[l]], cards) /\ chain[cursor[l]] \in Blocks
          /\ walk[l].pc # "idle"
      BY <2>2, CursorIn DEF LedgerInv, WalkerSound, Listeners
    <3>2. walk[l].todo = <<>> /\ Len(walk[l].todo) = 0
      BY <2>2, <3>1 DEF Working, Somewhere
    <3>3. Len(events) \in Nat
      BY <3>1, EventsTyped, LenProperties
    <3>4. Applied(walk[l], events) = Len(events)
      BY <2>2, <3>2, <3>3 DEF Applied, AfterSave
    <3>5. Moved(l, events, Len(events), c, u) \in Int
      BY <3>1, MovedEnds
    <3> QED BY <3>1, <3>4, <3>5 DEF WalkDone, DoneBy
  <2>3. CASE walk[l].pc \notin {"idle", "increase"}
    <3>1. /\ events \in Seq(Moves) /\ Place(l) \in 1..Len(events)
          /\ WalkDone(l, c, u) = Moved(l, events,
               IF walk[l].pc \in AfterSave THEN Place(l) ELSE Place(l) - 1, c, u)
      BY <2>3, WalkerPlace
    <3> HIDE DEF events
    <3>2. /\ Moved(l, events, Place(l), c, u) \in Int
          /\ Moved(l, events, Place(l) - 1, c, u) \in Int
      BY <3>1, MovedStep
    <3> QED BY <3>1, <3>2
  <2> QED BY <2>1, <2>2, <2>3
<1>2. SellDone(c, u) \in Int
  <2> DEFINE fills == chain[cursor["sale"]].sale
             rest  == fills \ Due(sell.tasks, fills)
  <2>1. CASE sell.pc = "idle"
    BY <2>1 DEF SellDone, SoldBy
  <2>2. CASE sell.pc # "idle"
    <3>1. chain[cursor["sale"]] \in Blocks
      BY <2>2, CursorIn DEF Listeners
    <3>2. fills \in SUBSET Fills /\ IsFiniteSet(fills)
      BY <3>1, FillsTyped
    <3>3. rest \in SUBSET Fills /\ IsFiniteSet(rest)
      BY <3>2, FS_Subset
    <3>4. Exchanged(rest, c, u) \in Int
      BY <3>3, ExchangedInt
    <3> QED BY <2>2, <3>4 DEF SellDone, SoldBy
  <2> QED BY <2>1, <2>2
<1> QED BY <1>1, <1>2

LEMMA HeldAfter ==
    ASSUME NEW ch \in Seq(Blocks), NEW upto \in [Listeners -> Nat],
           NEW next \in [Listeners -> Nat], NEW l \in Listeners, upto[l] \in DOMAIN ch,
           next[l] = upto[l] + 1, \A m \in Listeners \ {l} : next[m] = upto[m],
           NEW c \in Cards, NEW u
    PROVE  /\ HeldIn(ch, next, c, u) = HeldIn(ch, upto, c, u) + Change(l, ch[upto[l]], c, u)
           /\ HeldIn(ch, upto, c, u) \in Int /\ Change(l, ch[upto[l]], c, u) \in Int
<1>1. next = [upto EXCEPT ![l] = @ + 1]
  OBVIOUS
<1>2. HeldIn(ch, [upto EXCEPT ![l] = @ + 1], c, u)
         = HeldIn(ch, upto, c, u) + Change(l, ch[upto[l]], c, u)
  BY HeldIncreases
<1>3. HeldIn(ch, upto, c, u) \in Int
  BY HeldTyped
<1>4. ch[upto[l]] \in Blocks
  OBVIOUS
<1>5. Change(l, ch[upto[l]], c, u) \in Int
  BY <1>4, ChangeTyped
<1>6. HeldIn(ch, next, c, u) = HeldIn(ch, upto, c, u) + Change(l, ch[upto[l]], c, u)
  BY <1>1, <1>2, Zenon
<1> QED BY <1>3, <1>5, <1>6

LEMMA LedgerIncrease ==
    ASSUME Inv, LedgerInv, NEW l \in Walkers, WalkIncrease(l)
    PROVE  LedgerInv'
<1> DEFINE k      == cursor[l]
           events == EventsIn(l, chain[k])
<1>1. /\ walk[l].pc = "increase" /\ walk' = [walk EXCEPT ![l] = Resting]
      /\ cursor' = [cursor EXCEPT ![l] = @ + 1]
      /\ UNCHANGED <<chain, cards, hasSale, sales, created, signed, sell, strays, crashes>>
  BY DEF WalkIncrease, Leave, db
<1>2. /\ cursor \in [Listeners -> Nat \ {0}] /\ chain \in Seq(Blocks) /\ l \in Listeners
      /\ l # "sale" /\ Walkers \subseteq Listeners /\ "sale" \in Listeners
  BY DEF Inv, ChainInv, Listeners, Walkers
<1>3. k \in DOMAIN chain /\ chain[k] \in Blocks /\ k \in Nat \ {0} /\ k <= Len(chain)
  BY <1>1, <1>2, CursorIn DEF LedgerInv, CursorsSound
<1>4. walk'[l] = Resting /\ \A m \in Walkers \ {l} : walk'[m] = walk[m]
  BY <1>1 DEF Inv, WalkInv
<1>5. cursor'[l] = k + 1 /\ \A m \in Listeners \ {l} : cursor'[m] = cursor[m]
  BY <1>2, <1>1
<1>6. strays' = {} /\ crashes' = 0 /\ ChainSound' /\ OrdersSound' /\ DocumentsSound'
  BY <1>1, OrdersStay DEF LedgerInv, ChainSound, DocumentsSound
<1>7. CursorsSound'
  <2>1. k + 1 <= Len(chain) + 1
    BY <1>2, <1>3, LenProperties
  <2>2. Resting.pc = "idle"
    BY DEF Resting
  <2> QED BY <1>1, <1>2, <1>4, <1>5, <2>1, <2>2 DEF LedgerInv, CursorsSound
<1>8. ASSUME NEW m \in Walkers PROVE WalkerSound(m)'
  <2>1. CASE m = l
    <3>1. Resting.pc = "idle" /\ Resting.hs = FALSE
      BY DEF Resting
    <3> QED BY <1>4, <2>1, <3>1 DEF WalkerSound, Working
  <2>2. CASE m # l
    BY <1>1, <1>2, <1>4, <1>5, <2>2 DEF LedgerInv, WalkerSound
  <2> QED BY <2>1, <2>2
<1>9. SellerSound'
  BY <1>1, <1>2, <1>5 DEF LedgerInv, SellerSound
<1>10. Balanced'
  <2> SUFFICES ASSUME NEW c \in Cards, NEW u \in Users
               PROVE  (Holds(cards[c], u) = HeldIn(chain, cursor, c, u)
                         + WalkDone("transfer", c, u) + WalkDone("burn", c, u) + SellDone(c, u))'
    BY DEF Balanced
  <2>1. HeldIn(chain, cursor', c, u) = HeldIn(chain, cursor, c, u) + Change(l, chain[k], c, u)
    <3>1. cursor \in [Listeners -> Nat]
      BY <1>2
    <3>2. cursor' \in [Listeners -> Nat]
      BY <1>1, <1>2
    <3> QED BY <1>2, <1>3, <1>5, <3>1, <3>2, HeldAfter
  <2>2. WalkDone(l, c, u) = Change(l, chain[k], c, u) /\ Change(l, chain[k], c, u) \in Int
    <3>1. Working(l, walk[l], chain[k], cards)
      BY DEF LedgerInv, WalkerSound
    <3>2. walk[l].todo = <<>> /\ Len(walk[l].todo) = 0
      BY <1>1, <3>1 DEF Working, Somewhere
    <3>3. Len(events) \in Nat
      BY <1>3, EventsTyped, LenProperties
    <3>4. Applied(walk[l], events) = Len(events)
      BY <1>1, <3>2, <3>3 DEF Applied, AfterSave
    <3>5. Moved(l, events, Len(events), c, u) = Change(l, chain[k], c, u)
      BY <1>3, MovedEnds
    <3> QED BY <1>1, <1>3, <3>4, <3>5, MovedEnds DEF WalkDone, DoneBy
  <2>3. WalkDone(l, c, u)' = 0
    BY <1>4 DEF WalkDone, DoneBy, Resting
  <2>4. \A m \in Walkers \ {l} : WalkDone(m, c, u)' = WalkDone(m, c, u)
    BY <1>1, <1>2, <1>4, <1>5 DEF WalkDone
  <2>5. SellDone(c, u)' = SellDone(c, u)
    BY <1>1, <1>2, <1>5 DEF SellDone
  <2>6. Holds(cards[c], u) = HeldIn(chain, cursor, c, u) + WalkDone("transfer", c, u)
                               + WalkDone("burn", c, u) + SellDone(c, u)
    BY DEF LedgerInv, Balanced
  <2>7. HeldIn(chain, cursor, c, u) \in Int
    BY <1>2, HeldTyped
  <2> DEFINE held   == HeldIn(chain, cursor, c, u)
             change == Change(l, chain[k], c, u)
  <2> HIDE DEF held, change
  <2>8. /\ HeldIn(chain, cursor, c, u)' = held + change /\ Holds(cards[c], u)' = Holds(cards[c], u)
        /\ held \in Int /\ change \in Int /\ WalkDone(l, c, u) = change
        /\ Holds(cards[c], u) = held + WalkDone("transfer", c, u)
                               + WalkDone("burn", c, u) + SellDone(c, u)
    BY <1>1, <2>1, <2>2, <2>6, <2>7 DEF held, change
  <2>9. /\ WalkDone("transfer", c, u) \in Int /\ WalkDone("burn", c, u) \in Int
        /\ SellDone(c, u) \in Int
    BY DoneInt DEF Walkers
  <2> QED BY <2>3, <2>4, <2>5, <2>8, <2>9 DEF Walkers
<1> QED BY <1>6, <1>7, <1>8, <1>9, <1>10 DEF LedgerInv

-----------------------------------------------------------------------------
(* The steps of the seller.                                                *)
LEMMA LedgerSeller ==
    ASSUME Inv, LedgerInv, NEW s, sell' = s,
           UNCHANGED <<chain, cursor, cards, created, signed, walk, strays, crashes>>,
           OrdersSound',
           s.pc = "idle" \/ Selling(s, chain[cursor["sale"]].sale, cards),
           s.pc # "idle" => cursor["sale"] <= Len(chain),
           \A c \in Cards, u \in Users :
             SoldBy(s, chain[cursor["sale"]].sale, c, u) = SellDone(c, u)
    PROVE  LedgerInv'
<1>1. strays' = {} /\ crashes' = 0 /\ ChainSound' /\ DocumentsSound'
  BY DEF LedgerInv, ChainSound, DocumentsSound
<1>2. CursorsSound'
  BY DEF LedgerInv, CursorsSound
<1>3. \A l \in Walkers : WalkerSound(l)'
  BY DEF LedgerInv, WalkerSound
<1>4. SellerSound'
  BY DEF SellerSound
<1>5. Balanced'
  <2>1. \A c, u : /\ WalkDone("transfer", c, u)' = WalkDone("transfer", c, u)
                  /\ WalkDone("burn", c, u)' = WalkDone("burn", c, u)
                  /\ HeldIn(chain, cursor, c, u)' = HeldIn(chain, cursor, c, u)
                  /\ cards' = cards
    BY DEF WalkDone
  <2>2. \A c \in Cards, u \in Users : SellDone(c, u)' = SellDone(c, u)
    BY DEF SellDone
  <2> QED BY <2>1, <2>2 DEF LedgerInv, Balanced
<1> QED BY <1>1, <1>2, <1>3, <1>4, <1>5 DEF LedgerInv

LEMMA ExchangedNone == ASSUME NEW c, NEW u PROVE Exchanged({}, c, u) = 0
<1>1. IsFiniteSet({}) /\ \A f \in {} : OrderData[f.order].card # c
  BY FS_EmptySet
<1> QED BY <1>1, ExchangedElsewhere

(* Every fill of the seller's block finds the sale of its order.           *)
LEMMA FillsFind ==
    ASSUME Inv, LedgerInv, NEW k \in DOMAIN chain, NEW f \in chain[k].sale
    PROVE  SaleKept(f.order)
<1>1. "sale" \in KindsOf(chain[k])
  BY DEF KindsOf
<1>2. \A j \in DOMAIN chain : KindsOf(chain[j]) \subseteq {"sale"}
  BY <1>1 DEF LedgerInv, ChainSound
<1>3. f.order \in signed
  BY DEF LedgerInv, ChainSound
<1> QED BY <1>2, <1>3 DEF LedgerInv, OrdersSound

LEMMA LedgerStartSell ==
    ASSUME Apart, Inv, LedgerInv, StartSell
    PROVE  LedgerInv'
<1> DEFINE k     == cursor["sale"]
           fills == chain[k].sale
           found == {x \in sales \X fills : x[1].order = x[2].order}
           task(x) == [id |-> x[1].id, order |-> x[1].order,
                       taker |-> x[2].taker, pc |-> "read", upd |-> {}]
           flag(x) == [id |-> x[1].id, card |-> CardOf(x[1]), pc |-> "exists", hs |-> FALSE]
<1>1. /\ sell.pc = "idle" /\ k <= Len(chain)
      /\ sell' = IF found = {}
                   THEN [NoSell EXCEPT !.pc = "increase"]
                   ELSE [pc |-> "mark", tasks |-> {task(x) : x \in found},
                         flags |-> {flag(x) : x \in found}]
      /\ UNCHANGED <<chain, cursor, db, walk, strays, crashes>>
  BY DEF StartSell, AllSellData
<1>2. k \in DOMAIN chain /\ chain[k] \in Blocks
  <2>1. "sale" \in Listeners
    BY DEF Listeners
  <2>2. k \in Nat \ {0} /\ chain \in Seq(Blocks)
    BY <2>1 DEF Inv, ChainInv
  <2> QED BY <1>1, <2>2
<1>3. \A f \in fills : \E x \in found : x[2] = f
  <2>1. ASSUME NEW f \in fills PROVE \E x \in found : x[2] = f
    <3>1. PICK s \in sales : s.order = f.order
      BY <1>2, FillsFind DEF SaleKept
    <3>2. <<s, f>> \in found
      BY <3>1
    <3> QED BY <3>2
  <2> QED BY <2>1
<1>4. \A x \in found : /\ x[1] \in sales /\ x[2] \in fills /\ x[1].order = x[2].order
                       /\ x[1].order \in Orders
  BY DEF Inv, SalesInv
<1>5. ASSUME NEW x \in found, NEW y \in found, x[1].order = y[1].order
      PROVE  task(x) = task(y)
  <2> HIDE DEF found
  <2>1. x[2] = y[2]
    BY <1>2, <1>4, <1>5 DEF Apart, OneFillPerCard
  <2>2. x[1] = y[1]
    BY <1>4, <1>5 DEF LedgerInv, OrdersSound
  <2> QED BY <2>1, <2>2
<1> HIDE DEF found
<1>6. OrdersSound'
  BY <1>1, OrdersStay DEF db
<1>7. \A c \in Cards, u \in Users : SellDone(c, u) = 0
  BY <1>1 DEF SellDone, SoldBy
<1>8. CASE found = {}
  <2> DEFINE s == [NoSell EXCEPT !.pc = "increase"]
  <2>1. fills = {}
    BY <1>3, <1>8
  <2>2. s.pc = "increase" /\ s.tasks = {} /\ s.flags = {}
    BY DEF NoSell
  <2>3. sell' = s
    BY <1>1, <1>8
  <2> HIDE DEF s
  <2>4. Selling(s, fills, cards)
    BY <2>2 DEF Selling, TasksSound
  <2>5. \A c, u : SoldBy(s, fills, c, u) = 0
    BY <2>1, <2>2, ExchangedNone DEF SoldBy
  <2> HIDE DEF fills, k
  <2> QED BY <1>1, <1>6, <1>7, <2>3, <2>4, <2>5, LedgerSeller DEF db, fills, k
<1>9. CASE found # {}
  <2> DEFINE s == [pc |-> "mark", tasks |-> {task(x) : x \in found},
                   flags |-> {flag(x) : x \in found}]
  <2>1. s.pc = "mark" /\ s.tasks = {task(x) : x \in found} /\ s.flags = {flag(x) : x \in found}
    OBVIOUS
  <2>2. sell' = s
    BY <1>1, <1>9
  <2> HIDE DEF s
  <2>3. Due(s.tasks, fills) = fills
    <3>1. \A x \in found : task(x) \in s.tasks /\ task(x).order = x[1].order
      BY <2>1
    <3> HIDE DEF task
    <3>2. \A f \in fills : \E t \in s.tasks : t.order = f.order
      BY <1>3, <1>4, <3>1
    <3> QED BY <3>2 DEF Due
  <2>4. TasksSound(s.tasks, fills)
    <3>1. \A t \in s.tasks : \E f \in fills : f.order = t.order /\ f.taker = t.taker
      BY <1>4, <2>1
    <3>2. \A t, w \in s.tasks : t.order = w.order => t = w
      BY <1>5, <2>1
    <3>3. \A t \in s.tasks : t.pc \in {"read", "save"}
      BY <2>1
    <3> QED BY <3>1, <3>2, <3>3 DEF TasksSound
  <2>5. s.flags \subseteq [id : Nat, card : Cards, pc : {"exists", "flag"}, hs : BOOLEAN]
    <3>1. \A x \in found : CardOf(x[1]) \in Cards /\ x[1].id \in Nat
      <4>1. \A x \in found : CardOf(x[1]) \in Cards
        BY <1>4, OrdersTyped DEF CardOf
      <4>2. \A x \in found : x[1] \in sales
        BY <1>4
      <4>3. \A t \in sales : t.id \in Nat
        BY DEF Inv, SalesInv
      <4> HIDE DEF found
      <4> QED BY <4>1, <4>2, <4>3
    <3>2. \A x \in found : flag(x) \in [id : Nat, card : Cards, pc : {"exists", "flag"}, hs : BOOLEAN]
      BY <3>1
    <3> HIDE DEF flag
    <3> QED BY <2>1, <3>2
  <2>6. Selling(s, fills, cards)
    <3>1. \A x \in found : task(x) \in s.tasks
      BY <2>1
    <3>2. s.tasks # {}
      BY <1>9, <3>1
    <3>3. \A t \in s.tasks : t.pc # "save"
      BY <2>1
    <3> QED BY <2>1, <2>3, <2>4, <2>5, <3>2, <3>3 DEF Selling
  <2>7. \A c, u : SoldBy(s, fills, c, u) = 0
    <3>1. fills \ Due(s.tasks, fills) = {}
      BY <2>3
    <3> QED BY <2>1, <3>1, ExchangedNone DEF SoldBy
  <2> HIDE DEF fills, k
  <2> QED BY <1>1, <1>6, <1>7, <2>2, <2>6, <2>7, LedgerSeller DEF db, fills, k
<1> QED BY <1>8, <1>9

LEMMA SellerFacts ==
    ASSUME Inv, LedgerInv, sell.pc # "idle"
    PROVE  /\ Selling(sell, chain[cursor["sale"]].sale, cards)
           /\ cursor["sale"] <= Len(chain) /\ cursor["sale"] \in DOMAIN chain
           /\ chain[cursor["sale"]] \in Blocks /\ DOMAIN sell = {"pc", "tasks", "flags"}
<1>1. Selling(sell, chain[cursor["sale"]].sale, cards) /\ cursor["sale"] <= Len(chain)
  BY DEF LedgerInv, SellerSound, CursorsSound
<1>2. cursor["sale"] \in DOMAIN chain /\ chain[cursor["sale"]] \in Blocks
  BY CursorIn DEF Listeners
<1> QED BY <1>1, <1>2 DEF Inv, TaskInv

LEMMA LedgerMarkSold ==
    ASSUME Inv, LedgerInv, MarkSold
    PROVE  LedgerInv'
<1> DEFINE fills  == chain[cursor["sale"]].sale
           filled == {f.order : f \in fills}
           mark(s) == IF s.order \in filled THEN [s EXCEPT !.status = "sold"] ELSE s
           next    == [sell EXCEPT !.pc = "apply"]
<1>1. /\ sell.pc = "mark" /\ sales' = {mark(s) : s \in sales}
      /\ sell' = next
      /\ UNCHANGED <<chain, cursor, cards, hasSale, created, signed, walk, strays, crashes>>
  BY DEF MarkSold
<1>2. /\ Selling(sell, fills, cards) /\ cursor["sale"] <= Len(chain)
      /\ DOMAIN sell = {"pc", "tasks", "flags"}
  BY <1>1, SellerFacts
<1>3. next.pc = "apply" /\ next.tasks = sell.tasks /\ next.flags = sell.flags
  BY <1>2
<1>4. \A s \in sales : /\ mark(s).order = s.order /\ mark(s).id = s.id
                       /\ mark(s) \in [id : 1..created, order : Orders, status : Statuses]
  BY DEF LedgerInv, OrdersSound, Statuses
<1> HIDE DEF mark, filled, next
<1>5. OrdersSound'
  <2>1. IsFiniteSet(sales')
    <3> DEFINE f == [s \in sales |-> mark(s)]
    <3>1. f \in Surjection(sales, sales')
      BY <1>1 DEF Surjection
    <3> QED BY <3>1, FS_Surjection DEF LedgerInv, OrdersSound
  <2>2. \A s, t \in sales' : s.order = t.order \/ s.id = t.id => s = t
    BY <1>1, <1>4 DEF LedgerInv, OrdersSound
  <2>3. sales' \subseteq [id : 1..created, order : Orders, status : Statuses]
    BY <1>1, <1>4
  <2>4. \A o : SaleKept(o) => SaleKept(o)'
    BY <1>1, <1>4 DEF SaleKept
  <2> QED BY <1>1, <2>1, <2>2, <2>3, <2>4 DEF LedgerInv, OrdersSound
<1>6. Selling(next, fills, cards)
  BY <1>1, <1>2, <1>3 DEF Selling
<1>7. \A c, u : SoldBy(next, fills, c, u) = SellDone(c, u)
  BY <1>1, <1>3 DEF SellDone, SoldBy
<1> HIDE DEF fills
<1> QED BY <1>1, <1>2, <1>5, <1>6, <1>7, LedgerSeller DEF fills

LEMMA LedgerSellExists ==
    ASSUME Inv, LedgerInv, NEW f \in sell.flags, SellExists(f)
    PROVE  LedgerInv'
<1> DEFINE fills == chain[cursor["sale"]].sale
           g     == [f EXCEPT !.pc = "flag", !.hs = ExistsSale(f.card)]
           next  == [sell EXCEPT !.flags = (@ \ {f}) \cup {g}]
<1>1. /\ sell.pc = "flags" /\ sell' = next
      /\ UNCHANGED <<chain, cursor, db, walk, strays, crashes>>
  BY DEF SellExists
<1>2. /\ Selling(sell, fills, cards) /\ cursor["sale"] <= Len(chain)
      /\ DOMAIN sell = {"pc", "tasks", "flags"}
  BY <1>1, SellerFacts
<1>3. g \in [id : Nat, card : Cards, pc : {"exists", "flag"}, hs : BOOLEAN]
  <2>1. ExistsSale(f.card) \in BOOLEAN
    BY DEF ExistsSale
  <2>2. f \in [id : Nat, card : Cards, pc : {"exists", "flag"}, hs : BOOLEAN]
    BY <1>2 DEF Selling
  <2> HIDE DEF g
  <2> QED BY <2>1, <2>2 DEF g
<1> HIDE DEF g
<1>4. /\ next.pc = "flags" /\ next.tasks = sell.tasks
      /\ next.flags = (sell.flags \ {f}) \cup {g}
  BY <1>1, <1>2
<1> HIDE DEF next
<1>5. Selling(next, fills, cards)
  BY <1>1, <1>2, <1>3, <1>4 DEF Selling
<1>6. \A c, u : SoldBy(next, fills, c, u) = SellDone(c, u)
  BY <1>1, <1>4 DEF SellDone, SoldBy
<1>7. OrdersSound'
  BY <1>1, OrdersStay DEF db
<1> HIDE DEF fills
<1> QED BY <1>1, <1>2, <1>5, <1>6, <1>7, LedgerSeller DEF fills, db

LEMMA LedgerSellFlag ==
    ASSUME Inv, LedgerInv, NEW f \in sell.flags, SellFlag(f)
    PROVE  LedgerInv'
<1> DEFINE fills == chain[cursor["sale"]].sale
<1>1. /\ sell.pc = "flags" /\ UpdateHasSale(f.card, f.hs)
      /\ sell' = IF sell.flags = {f} THEN [NoSell EXCEPT !.pc = "increase"]
                 ELSE [sell EXCEPT !.flags = @ \ {f}]
      /\ UNCHANGED <<chain, cursor, cards, sales, created, signed, walk, strays, crashes>>
  BY DEF SellFlag
<1>2. /\ Selling(sell, fills, cards) /\ cursor["sale"] <= Len(chain)
      /\ DOMAIN sell = {"pc", "tasks", "flags"}
  BY <1>1, SellerFacts
<1>3. sell.tasks = {} /\ f \in [id : Nat, card : Cards, pc : {"exists", "flag"}, hs : BOOLEAN]
  BY <1>1, <1>2 DEF Selling
<1>4. PICK next : /\ sell' = next /\ next.pc \in {"flags", "increase"} /\ next.tasks = {}
                  /\ next.flags = sell.flags \ {f}
  <2>1. CASE sell.flags = {f}
    BY <1>1, <2>1 DEF NoSell
  <2>2. CASE sell.flags # {f}
    BY <1>1, <1>2, <1>3, <2>2
  <2> QED BY <2>1, <2>2
<1>5. Selling(next, fills, cards)
  BY <1>1, <1>2, <1>3, <1>4 DEF Selling, TasksSound
<1>6. \A c, u : SoldBy(next, fills, c, u) = SellDone(c, u)
  <2>1. next.tasks = sell.tasks /\ next.pc # "idle" /\ sell.pc # "idle"
    BY <1>1, <1>3, <1>4
  <2> QED BY <2>1 DEF SellDone, SoldBy
<1>7. OrdersSound'
  <2>1. hasSale' \in [Cards -> BOOLEAN]
    BY <1>1, <1>3, FlagTyped DEF LedgerInv, OrdersSound
  <2> QED BY <1>1, <2>1, OrdersKept DEF LedgerInv
<1> HIDE DEF fills
<1> QED BY <1>1, <1>2, <1>4, <1>5, <1>6, <1>7, LedgerSeller DEF fills

(* A task applies one fill, the only one on its card, and the seller has   *)
(* what was sold.                                                          *)
LEMMA TaskFill ==
    ASSUME Apart, Inv, LedgerInv, sell.pc # "idle", NEW t \in sell.tasks
    PROVE  LET fills == chain[cursor["sale"]].sale
               o     == OrderData[t.order]
           IN  \E f \in fills :
                 /\ f.order = t.order /\ f.taker = t.taker /\ f \in Due(sell.tasks, fills)
                 /\ \A g \in fills \ {f} : OrderData[g.order].card # o.card
                 /\ f.taker # o.user
<1> DEFINE fills == chain[cursor["sale"]].sale
<1>1. Selling(sell, fills, cards) /\ chain[cursor["sale"]] \in Blocks
  BY SellerFacts
<1>2. PICK f \in fills : f.order = t.order /\ f.taker = t.taker
  BY <1>1 DEF Selling, TasksSound
<1>3. f \in Due(sell.tasks, fills)
  BY <1>2 DEF Due
<1>4. \A g \in fills \ {f} : OrderData[g.order].card # OrderData[f.order].card
  BY <1>1 DEF Apart, OneFillPerCard
<1>5. f.taker # OrderData[f.order].user
  BY <1>1 DEF Apart
<1> QED BY <1>2, <1>3, <1>4, <1>5

LEMMA TaskTyped ==
    ASSUME Inv, NEW t \in sell.tasks
    PROVE  /\ t.order \in Orders /\ t.taker \in Users
           /\ OrderData[t.order].card \in Cards /\ OrderData[t.order].user \in Users
           /\ OrderData[t.order].n \in Nat \ {0}
<1>1. t.order \in Orders /\ t.taker \in Users
  BY DEF Inv, TaskInv, TaskOK
<1>2. [order |-> t.order, taker |-> t.taker] \in Fills
  BY <1>1 DEF Fills
<1>3. [order |-> t.order, taker |-> t.taker].order = t.order
  OBVIOUS
<1> QED BY <1>1, <1>2, <1>3, FillWorth

LEMMA SellerHas ==
    ASSUME Apart, Inv, LedgerInv, sell.pc # "idle", NEW t \in sell.tasks
    PROVE  LET o == OrderData[t.order] IN Holds(cards[o.card], o.user) >= o.n
<1> DEFINE k     == cursor["sale"]
           fills == chain[k].sale
           c     == OrderData[t.order].card
           u     == OrderData[t.order].user
           n     == OrderData[t.order].n
           due   == Due(sell.tasks, fills)
<1>1. /\ k \in DOMAIN chain /\ chain[k] \in Blocks
      /\ c \in Cards /\ u \in Users /\ n \in Nat \ {0}
  BY SellerFacts, TaskTyped
<1>2. fills \in SUBSET Fills /\ IsFiniteSet(fills)
  BY <1>1, FillsTyped
<1>3. PICK f \in fills : /\ f.order = t.order /\ f.taker # u /\ f \in due
                         /\ \A g \in fills \ {f} : OrderData[g.order].card # c
  BY TaskFill
<1>4. /\ \A j \in DOMAIN chain : \A m \in KindsOf(chain[j]) : m = "sale"
      /\ \A l \in Walkers : WalkDone(l, c, u) = 0
  BY SellerAtWork
<1>5. Exchanged(fills \ due, c, u) = 0
  <2>1. IsFiniteSet(fills \ due) /\ \A g \in fills \ due : OrderData[g.order].card # c
    BY <1>2, <1>3, FS_Subset
  <2> HIDE DEF fills, due, c, u
  <2> QED BY <2>1, ExchangedElsewhere
<1>6. Exchanged(fills, c, u) = 0 - n
  <2>1. IsFiniteSet(fills \ {f}) /\ \A g \in fills \ {f} : OrderData[g.order].card # c
    BY <1>2, <1>3, FS_Subset
  <2>2. Exchanged(fills, c, u)
          = Exchanged(fills \ {f}, c, u)
              + (IF OrderData[f.order].card = c /\ f.taker = u THEN OrderData[f.order].n ELSE 0)
              - (IF OrderData[f.order].card = c /\ OrderData[f.order].user = u
                 THEN OrderData[f.order].n ELSE 0)
    <3>1. fills \in SUBSET Fills /\ IsFiniteSet(fills) /\ f \in fills
      BY <1>2
    <3> HIDE DEF fills, c, u
    <3> QED BY <3>1, ExchangedStep
  <2>3. Exchanged(fills \ {f}, c, u) = 0
    <3> HIDE DEF fills, c, u
    <3> QED BY <2>1, ExchangedElsewhere
  <2>4. /\ OrderData[f.order].card = c /\ OrderData[f.order].user = u
        /\ OrderData[f.order].n = n /\ f.taker # u
    BY <1>3
  <2> HIDE DEF c, u, n, fills
  <2> QED BY <1>1, <2>2, <2>3, <2>4
<1>7. HeldUpTo(chain, k, c, u) + Change("transfer", chain[k], c, u)
        + Change("burn", chain[k], c, u) + Change("sale", chain[k], c, u) >= 0
  BY <1>1 DEF LedgerInv, ChainSound, Covered
<1>8. /\ Change("transfer", chain[k], c, u) = 0 /\ Change("burn", chain[k], c, u) = 0
      /\ Change("sale", chain[k], c, u) = Exchanged(fills, c, u)
  <2>1. "transfer" \notin KindsOf(chain[k]) /\ "burn" \notin KindsOf(chain[k])
    BY <1>1, <1>4
  <2>2. {"transfer", "burn", "sale"} = Listeners
    BY DEF Listeners, Walkers
  <2> HIDE DEF k, c, u
  <2> QED BY <1>1, <2>1, <2>2, ChangeTyped
<1>9. HeldUpTo(chain, k, c, u) = HeldIn(chain, cursor, c, u) /\ HeldIn(chain, cursor, c, u) \in Int
  <2>1. chain \in Seq(Blocks) /\ "sale" \in Listeners /\ [l \in Listeners |-> k]["sale"] = cursor["sale"]
    BY DEF Inv, ChainInv, Listeners
  <2> HIDE DEF k, c, u
  <2> QED BY <1>1, <1>4, <2>1, HeldAlone, HeldTyped DEF HeldUpTo
<1>10. Holds(cards[c], u) = HeldIn(chain, cursor, c, u)
  <2>1. SellDone(c, u) = 0
    BY <1>5 DEF SellDone, SoldBy
  <2>2. WalkDone("transfer", c, u) = 0 /\ WalkDone("burn", c, u) = 0
    BY <1>4 DEF Walkers
  <2>3. Holds(cards[c], u) = HeldIn(chain, cursor, c, u) + 0 + 0 + 0
    BY <1>1, <2>1, <2>2 DEF LedgerInv, Balanced
  <2> HIDE DEF c, u
  <2> QED BY <1>9, <2>3
<1> HIDE DEF k, fills, c, u, n
<1>11. Holds(cards[c], u) >= n
  BY <1>1, <1>6, <1>7, <1>8, <1>9, <1>10
<1> QED BY <1>11 DEF c, u, n

LEMMA LedgerReadSold ==
    ASSUME Apart, Inv, StoreSound, LedgerInv, NEW t \in sell.tasks, ReadSold(t)
    PROVE  LedgerInv'
<1> DEFINE fills == chain[cursor["sale"]].sale
           o     == OrderData[t.order]
           x     == [t EXCEPT !.pc = "save",
                       !.upd = {ChangeOwnerships(o.card, cards[o.card], o.n, o.user, t.taker)}]
           tasks == (sell.tasks \ {t}) \cup AfterRead(t)
           next  == [sell EXCEPT !.tasks = tasks,
                                 !.pc = IF tasks = {} THEN "flags" ELSE "apply"]
<1>1. /\ sell.pc = "apply" /\ t.pc = "read" /\ sell' = next
      /\ UNCHANGED <<chain, cursor, db, walk, strays, crashes>>
  BY DEF ReadSold, Remaining
<1>2. /\ Selling(sell, fills, cards) /\ cursor["sale"] <= Len(chain)
      /\ DOMAIN sell = {"pc", "tasks", "flags"}
  BY <1>1, SellerFacts
<1>3. /\ x.order = t.order /\ x.pc = "save" /\ x.taker = t.taker
      /\ x.upd = {ChangeOwnerships(o.card, cards[o.card], o.n, o.user, t.taker)}
  BY TaskShape
<1>4. cards[o.card] # NoCard /\ o.user \in Holders(cards[o.card].bal)
  <2>1. /\ o.card \in Cards /\ o.user \in Users /\ o.n \in Nat \ {0}
        /\ Holds(cards[o.card], o.user) >= o.n
    BY <1>1, TaskTyped, SellerHas
  <2> HIDE DEF o
  <2> QED BY <2>1, HasThem
<1>5. AfterRead(t) = {x}
  BY <1>4 DEF AfterRead
<1>6. tasks = (sell.tasks \ {t}) \cup {x} /\ tasks # {}
  BY <1>5
<1>7. TaskDue(x, cards)
  BY <1>3, <1>4 DEF TaskDue
<1> HIDE DEF x, tasks, o
<1>8. next.pc = "apply" /\ next.tasks = tasks /\ next.flags = sell.flags
  BY <1>2, <1>6
<1> HIDE DEF next
<1>9. Due(tasks, fills) = Due(sell.tasks, fills)
  BY <1>3, <1>6 DEF Due
<1>10. Selling(next, fills, cards)
  <2>1. TasksSound(tasks, fills)
    BY <1>2, <1>3, <1>6 DEF Selling, TasksSound
  <2>2. \A w \in tasks : w.pc = "save" => TaskDue(w, cards)
    BY <1>2, <1>6, <1>7 DEF Selling
  <2> QED BY <1>2, <1>6, <1>8, <2>1, <2>2 DEF Selling
<1>11. \A c, u : SoldBy(next, fills, c, u) = SellDone(c, u)
  BY <1>1, <1>8, <1>9 DEF SellDone, SoldBy
<1>12. OrdersSound'
  BY <1>1, OrdersStay DEF db
<1> HIDE DEF fills
<1> QED BY <1>1, <1>2, <1>10, <1>11, <1>12, LedgerSeller DEF fills, db

LEMMA LedgerSaveSold ==
    ASSUME Apart, Inv, StoreSound, StoreSound', LedgerInv, NEW t \in sell.tasks, SaveSold(t)
    PROVE  LedgerInv'
<1> DEFINE fills == chain[cursor["sale"]].sale
           o     == OrderData[t.order]
           upd   == ChangeOwnerships(o.card, cards[o.card], o.n, o.user, t.taker)
           tasks == sell.tasks \ {t}
           next  == [sell EXCEPT !.tasks = tasks,
                                 !.pc = IF tasks = {} THEN "flags" ELSE "apply"]
           due   == Due(sell.tasks, fills)
<1>1. /\ sell.pc = "apply" /\ t.pc = "save"
      /\ UNCHANGED <<chain, cursor, hasSale, sales, created, signed, walk, crashes>>
  BY DEF SaveSold
<1>2. /\ Selling(sell, fills, cards) /\ cursor["sale"] <= Len(chain)
      /\ chain[cursor["sale"]] \in Blocks /\ DOMAIN sell = {"pc", "tasks", "flags"}
  BY <1>1, SellerFacts
<1>3. /\ o.card \in Cards /\ o.user \in Users /\ o.n \in Nat \ {0} /\ t.taker \in Users
  BY TaskTyped
<1>4. /\ cards[o.card] # NoCard /\ o.user \in Holders(cards[o.card].bal)
      /\ AmountOf(cards[o.card].bal, o.user) >= o.n
  <2>1. Holds(cards[o.card], o.user) >= o.n
    BY <1>1, SellerHas
  <2> HIDE DEF o
  <2> QED BY <1>3, <2>1, HasThem
<1>5. t.upd = {upd} /\ upd.card = o.card /\ Accepts(cards[upd.card], upd)
  <2>1. t.upd = {upd}
    BY <1>1, <1>2 DEF Selling, TaskDue
  <2>2. upd.card = o.card /\ upd.v = cards[o.card].v
    BY DEF ChangeOwnerships
  <2> QED BY <1>4, <2>1, <2>2 DEF Accepts
<1>6. cards' = [cards EXCEPT ![o.card] = Saved(@, upd)] /\ sell' = next /\ strays' = strays
  <2>1. \A x \in t.upd : x = upd
    BY <1>5
  <2> HIDE DEF upd, o
  <2> QED BY <1>5, <2>1 DEF SaveSold, Remaining
<1>7. PICK f \in fills : /\ f.order = t.order /\ f.taker = t.taker /\ f \in due
                         /\ \A g \in fills \ {f} : OrderData[g.order].card # o.card
                         /\ f.taker # o.user
  BY <1>1, TaskFill
<1>8. /\ DocumentsSound'
      /\ \A d \in Cards, u \in Users :
           Holds(cards'[d], u) = Holds(cards[d], u)
             + (IF d = o.card /\ t.taker = u THEN o.n ELSE 0)
             - (IF d = o.card /\ o.user = u THEN o.n ELSE 0)
  <2>1. PICK c, n, maker, taker :
           c = o.card /\ n = o.n /\ maker = o.user /\ taker = t.taker
    OBVIOUS
  <2>2. /\ c \in Cards /\ n \in Nat \ {0} /\ maker \in Users /\ taker \in Users /\ maker # taker
        /\ TransferSaved(c, n, maker, taker)
    BY <1>3, <1>4, <1>6, <1>7, <2>1 DEF TransferSaved
  <2>3. DocumentsSound
    BY DEF LedgerInv
  <2>4. DocumentsSound' /\ TransferMoves(c, n, maker, taker)
    BY <2>2, <2>3, TransferWrites
  <2> QED BY <2>1, <2>4 DEF TransferMoves
<1>9. \A d \in Cards : d # o.card => cards'[d] = cards[d]
  BY <1>6, DocsSound
<1> HIDE DEF upd
<1>10. /\ next.tasks = tasks /\ next.flags = sell.flags
       /\ next.pc = IF tasks = {} THEN "flags" ELSE "apply"
  BY <1>2
<1> HIDE DEF next
<1>11. \A w \in tasks : /\ OrderData[w.order].card \in Cards /\ OrderData[w.order].card # o.card
                        /\ w.pc \in {"read", "save"} /\ (w.pc = "save" => TaskDue(w, cards))
  <2>1. ASSUME NEW w \in tasks PROVE OrderData[w.order].card # o.card
    <3>1. PICK g \in fills : g.order = w.order
      BY <1>2 DEF Selling, TasksSound
    <3>2. w.order # t.order
      BY <1>2 DEF Selling, TasksSound
    <3> QED BY <1>7, <3>1, <3>2
  <2>2. \A w \in tasks : /\ OrderData[w.order].card \in Cards
                         /\ w.pc \in {"read", "save"} /\ (w.pc = "save" => TaskDue(w, cards))
    BY <1>2, TaskTyped DEF Selling, TasksSound
  <2> QED BY <2>1, <2>2
<1>12. \A w \in tasks : w.pc = "save" => TaskDue(w, cards')
  <2>1. ASSUME NEW w \in tasks, w.pc = "save" PROVE TaskDue(w, cards')
    <3>1. cards'[OrderData[w.order].card] = cards[OrderData[w.order].card]
      BY <1>9, <1>11
    <3>2. TaskDue(w, cards)
      BY <1>11, <2>1
    <3> QED BY <3>1, <3>2 DEF TaskDue
  <2> QED BY <2>1
<1>13. TasksSound(tasks, fills)
  BY <1>2 DEF Selling, TasksSound
<1>14. Due(tasks, fills) = due \ {f}
  <2>1. \A w \in tasks : w.order # f.order
    BY <1>2, <1>7 DEF Selling, TasksSound
  <2>2. \A g \in due \ {f} : \E w \in tasks : w.order = g.order
    <3>1. \A g \in fills \ {f} : g.order # t.order
      BY <1>7
    <3> QED BY <3>1 DEF Due
  <2> QED BY <2>1, <2>2 DEF Due
<1> HIDE DEF tasks
<1>15. Selling(next, fills, cards')
  BY <1>1, <1>2, <1>10, <1>12, <1>13 DEF Selling
<1>16. OrdersSound' /\ ChainSound' /\ strays' = {} /\ crashes' = 0
  BY <1>1, <1>6, OrdersStay DEF LedgerInv, ChainSound
<1>17. CursorsSound'
  BY <1>1, <1>2 DEF LedgerInv, CursorsSound
<1>18. SellerSound'
  BY <1>1, <1>6, <1>15 DEF SellerSound
<1>19. /\ \A l \in Walkers : /\ walk[l].pc \in {"idle", "increase"}
                             /\ \A c, u : WalkDone(l, c, u) = 0
  BY <1>1, SellerAtWork
<1>20. ASSUME NEW l \in Walkers PROVE WalkerSound(l)'
  <2>1. Working(l, walk[l], chain[cursor[l]], cards)
    BY DEF LedgerInv, WalkerSound
  <2>2. Working(l, walk[l], chain[cursor[l]], cards')
    BY <1>19, <2>1 DEF Working
  <2> QED BY <1>1, <2>2 DEF WalkerSound
<1>21. Balanced'
  <2> SUFFICES ASSUME NEW c \in Cards, NEW u \in Users
               PROVE  (Holds(cards[c], u) = HeldIn(chain, cursor, c, u)
                         + WalkDone("transfer", c, u) + WalkDone("burn", c, u) + SellDone(c, u))'
    BY DEF Balanced
  <2> DEFINE more == IF c = o.card /\ t.taker = u THEN o.n ELSE 0
             less == IF c = o.card /\ o.user = u THEN o.n ELSE 0
             held == HeldIn(chain, cursor, c, u)
             done == Exchanged(fills \ due, c, u)
             now  == Exchanged(fills \ Due(tasks, fills), c, u)
  <2>1. SellDone(c, u) = done
    BY <1>1 DEF SellDone, SoldBy
  <2>2. SellDone(c, u)' = now
    BY <1>1, <1>6, <1>10 DEF SellDone, SoldBy
  <2>3. /\ WalkDone("transfer", c, u)' = 0 /\ WalkDone("burn", c, u)' = 0
        /\ WalkDone("transfer", c, u) = 0 /\ WalkDone("burn", c, u) = 0
        /\ HeldIn(chain, cursor, c, u)' = held
    BY <1>1, <1>19 DEF WalkDone, Walkers
  <2>4. Holds(cards'[c], u) = Holds(cards[c], u) + more - less
    BY <1>8
  <2>5. Holds(cards[c], u) = held + 0 + 0 + done
    BY <2>1, <2>3 DEF LedgerInv, Balanced
  <2>6. now = done + more - less /\ done \in Int
    <3> DEFINE S == (fills \ due) \cup {f}
    <3>1. fills \ Due(tasks, fills) = S /\ S \ {f} = fills \ due /\ f \in S
      BY <1>7, <1>14
    <3>2. S \in SUBSET Fills /\ IsFiniteSet(S) /\ fills \ due \in SUBSET Fills
          /\ IsFiniteSet(fills \ due)
      <4>1. fills \in SUBSET Fills /\ IsFiniteSet(fills)
        BY <1>2, FillsTyped
      <4>2. S \subseteq fills /\ fills \ due \subseteq fills
        BY <1>7
      <4> QED BY <4>1, <4>2, FS_Subset
    <3>3. Exchanged(S, c, u) = Exchanged(S \ {f}, c, u)
             + (IF OrderData[f.order].card = c /\ f.taker = u THEN OrderData[f.order].n ELSE 0)
             - (IF OrderData[f.order].card = c /\ OrderData[f.order].user = u
                THEN OrderData[f.order].n ELSE 0)
      <4> HIDE DEF S
      <4> QED BY <3>1, <3>2, ExchangedStep
    <3>4. /\ (IF OrderData[f.order].card = c /\ f.taker = u THEN OrderData[f.order].n ELSE 0) = more
          /\ (IF OrderData[f.order].card = c /\ OrderData[f.order].user = u
                THEN OrderData[f.order].n ELSE 0) = less
      BY <1>7
    <3>5. done \in Int
      BY <3>2, ExchangedInt
    <3> HIDE DEF more, less, S
    <3> QED BY <3>1, <3>3, <3>4, <3>5
  <2>7. held \in Int /\ more \in Int /\ less \in Int
    <3>1. held \in Int
      BY HeldTyped DEF Inv, ChainInv
    <3> QED BY <1>3, <3>1
  <2> HIDE DEF more, less, held, done, now
  <2>8. Holds(cards'[c], u) = held + 0 + 0 + now
    BY <2>4, <2>5, <2>6, <2>7
  <2>9. Holds(cards[c], u)' = Holds(cards'[c], u)
    OBVIOUS
  <2> QED BY <2>2, <2>3, <2>8, <2>9
<1> QED BY <1>8, <1>16, <1>17, <1>18, <1>20, <1>21 DEF LedgerInv

LEMMA LedgerSellIncrease ==
    ASSUME Inv, LedgerInv, SellIncrease
    PROVE  LedgerInv'
<1> DEFINE k == cursor["sale"]
<1>1. /\ sell.pc = "increase" /\ sell' = NoSell
      /\ cursor' = [cursor EXCEPT !["sale"] = @ + 1]
      /\ UNCHANGED <<chain, cards, hasSale, sales, created, signed, walk, strays, crashes>>
  BY DEF SellIncrease, db
<1>2. /\ cursor \in [Listeners -> Nat \ {0}] /\ chain \in Seq(Blocks)
      /\ "sale" \in Listeners /\ "sale" \notin Walkers /\ Walkers \subseteq Listeners
  BY DEF Inv, ChainInv, Listeners, Walkers
<1>3. k \in DOMAIN chain /\ chain[k] \in Blocks /\ k \in Nat \ {0} /\ k <= Len(chain)
  BY <1>1, <1>2, CursorIn DEF LedgerInv, CursorsSound
<1>4. cursor'["sale"] = k + 1 /\ \A m \in Listeners \ {"sale"} : cursor'[m] = cursor[m]
  BY <1>1, <1>2
<1>5. sell'.pc = "idle"
  BY <1>1 DEF NoSell
<1>6. strays' = {} /\ crashes' = 0 /\ ChainSound' /\ OrdersSound' /\ DocumentsSound'
  BY <1>1, OrdersStay DEF LedgerInv, ChainSound, DocumentsSound
<1>7. CursorsSound'
  <2>1. k + 1 <= Len(chain) + 1
    BY <1>2, <1>3, LenProperties
  <2>2. \A l \in Walkers : walk[l].pc # "idle" => cursor'[l] <= Len(chain)
    BY <1>2, <1>4 DEF LedgerInv, CursorsSound
  <2> QED BY <1>1, <1>2, <1>4, <1>5, <2>1, <2>2 DEF LedgerInv, CursorsSound
<1>8. ASSUME NEW m \in Walkers PROVE WalkerSound(m)'
  <2>1. cursor'[m] = cursor[m]
    BY <1>2, <1>4
  <2> QED BY <1>1, <2>1 DEF LedgerInv, WalkerSound
<1>9. SellerSound'
  BY <1>5 DEF SellerSound
<1>10. Balanced'
  <2> SUFFICES ASSUME NEW c \in Cards, NEW u \in Users
               PROVE  (Holds(cards[c], u) = HeldIn(chain, cursor, c, u)
                         + WalkDone("transfer", c, u) + WalkDone("burn", c, u) + SellDone(c, u))'
    BY DEF Balanced
  <2>1. HeldIn(chain, cursor', c, u)
          = HeldIn(chain, cursor, c, u) + Change("sale", chain[cursor["sale"]], c, u)
    <3>1. cursor \in [Listeners -> Nat]
      BY <1>2
    <3>2. cursor' \in [Listeners -> Nat]
      BY <1>1, <1>2
    <3> QED BY <1>2, <1>3, <1>4, <3>1, <3>2, HeldAfter, SMTT(30)
  <2>2. SellDone(c, u) = Change("sale", chain[k], c, u) /\ Change("sale", chain[k], c, u) \in Int
    <3>1. sell.tasks = {}
      BY <1>1, SellerFacts DEF Selling
    <3>2. chain[k].sale \ Due(sell.tasks, chain[k].sale) = chain[k].sale
      BY <3>1 DEF Due
    <3>3. SellDone(c, u) = Exchanged(chain[k].sale, c, u)
      BY <1>1, <3>2 DEF SellDone, SoldBy
    <3> QED BY <1>2, <1>3, <3>3, ChangeTyped
  <2>3. SellDone(c, u)' = 0
    BY <1>5 DEF SellDone, SoldBy
  <2>4. /\ WalkDone("transfer", c, u)' = WalkDone("transfer", c, u)
        /\ WalkDone("burn", c, u)' = WalkDone("burn", c, u)
    BY <1>1, <1>2, <1>4 DEF WalkDone, Walkers
  <2>5. Holds(cards[c], u) = HeldIn(chain, cursor, c, u) + WalkDone("transfer", c, u)
                               + WalkDone("burn", c, u) + SellDone(c, u)
    BY DEF LedgerInv, Balanced
  <2>6. HeldIn(chain, cursor, c, u) \in Int
    BY <1>2, HeldTyped
  <2> DEFINE held   == HeldIn(chain, cursor, c, u)
             change == Change("sale", chain[k], c, u)
  <2> HIDE DEF held, change
  <2>7. /\ HeldIn(chain, cursor, c, u)' = held + change /\ Holds(cards[c], u)' = Holds(cards[c], u)
        /\ held \in Int /\ change \in Int /\ SellDone(c, u) = change
        /\ Holds(cards[c], u) = held + WalkDone("transfer", c, u)
                               + WalkDone("burn", c, u) + SellDone(c, u)
    BY <1>1, <2>1, <2>2, <2>5, <2>6 DEF held, change
  <2>8. WalkDone("transfer", c, u) \in Int /\ WalkDone("burn", c, u) \in Int
    BY DoneInt DEF Walkers
  <2> QED BY <2>3, <2>4, <2>7, <2>8
<1> QED BY <1>6, <1>7, <1>8, <1>9, <1>10 DEF LedgerInv

LEMMA LedgerSell ==
    ASSUME Apart, Inv, StoreSound, StoreSound', LedgerInv, Sell
    PROVE  LedgerInv'
BY LedgerStartSell, LedgerMarkSold, LedgerReadSold, LedgerSaveSold, LedgerSellExists,
   LedgerSellFlag, LedgerSellIncrease DEF Sell

LEMMA LedgerWalk ==
    ASSUME Apart, Inv, StoreSound, StoreSound', LedgerInv, NEW l \in Walkers, Walk(l)
    PROVE  LedgerInv'
BY LedgerStartWalk, LedgerSaveCard, LedgerSumOnSale, LedgerLoadCard, LedgerDrops,
   LedgerExists, LedgerFlag, LedgerIncrease DEF Walk

-----------------------------------------------------------------------------
(* The chain grows, and nothing else can happen.                           *)
LEMMA PrefixOf ==
    ASSUME NEW S, NEW ch \in Seq(S), NEW full, IsPrefix(ch, full), NEW j \in DOMAIN ch
    PROVE  ch[j] = full[j]
<1>1. SubSeq(ch, 1, Len(ch)) = SubSeq(full, 1, Len(ch))
  BY DEF IsPrefix
<1>2. Len(ch) \in Nat /\ j \in 1..Len(ch)
  OBVIOUS
<1>3. SubSeq(ch, 1, Len(ch)) = [i \in 1..Len(ch) |-> ch[i]]
  BY <1>2
<1>4. SubSeq(full, 1, Len(ch)) = [i \in 1..Len(ch) |-> full[i]]
  BY <1>2
<1>5. [i \in 1..Len(ch) |-> ch[i]][j] = ch[j] /\ [i \in 1..Len(ch) |-> full[i]][j] = full[j]
  BY <1>2
<1> QED BY <1>1, <1>3, <1>4, <1>5

LEMMA Member == ASSUME NEW S, NEW s \in Seq(S), NEW i \in DOMAIN s PROVE s[i] \in S
OBVIOUS

LEMMA CardMoved ==
    ASSUME NEW blk \in Blocks, NEW i \in DOMAIN blk.transfer
    PROVE  blk.transfer[i].card \in Cards
<1>1. blk.transfer \in Seq([card : Cards, from : Users, to : Users, n : Tokens])
  BY MarketAssumption
<1>2. blk.transfer[i] \in [card : Cards, from : Users, to : Users, n : Tokens]
  BY <1>1, Member
<1> QED BY <1>2

LEMMA CoveredGrows ==
    ASSUME NEW ch \in Seq(Blocks), NEW b \in Blocks, NEW k \in DOMAIN ch, Covered(ch, k)
    PROVE  Covered(Append(ch, b), k)
<1> DEFINE next == Append(ch, b)
<1>1. next[k] = ch[k] /\ k \in Nat /\ k <= Len(ch) + 1 /\ ch[k] \in Blocks
  BY AppendProperties, LenProperties
<1>2. \A c \in Cards : \A u : HeldUpTo(next, k, c, u) = HeldUpTo(ch, k, c, u)
  <2> SUFFICES ASSUME NEW c \in Cards, NEW u
               PROVE  HeldUpTo(next, k, c, u) = HeldUpTo(ch, k, c, u)
    OBVIOUS
  <2>1. /\ [l \in Listeners |-> k] \in [Listeners -> Nat]
        /\ \A l \in Listeners : [m \in Listeners |-> k][l] <= Len(ch) + 1
    BY <1>1
  <2> QED BY <2>1, HeldGrows DEF HeldUpTo
<1>3. \A i \in DOMAIN ch[k].transfer : ch[k].transfer[i].card \in Cards
  BY <1>1, CardMoved
<1> HIDE DEF next
<1> QED BY <1>1, <1>2, <1>3 DEF Covered, next

LEMMA CoveredNext ==
    ASSUME NEW full \in ChainChoices, Inv, NewBlock(full)
    PROVE  Covered(chain', Len(chain) + 1)
<1> DEFINE m   == Len(chain) + 1
           blk == full[m]
<1>1. /\ TransfersCovered(blk) /\ chain' = Append(chain, blk) /\ Len(chain) < MaxBlocks
      /\ \A c \in Cards, u \in Users :
           HeldBefore(m, c, u) + Change("transfer", blk, c, u) + Change("burn", blk, c, u)
             + Change("sale", blk, c, u) >= 0
  BY DEF NewBlock
<1>2. chain \in Seq(Blocks) /\ m \in Nat /\ m \in 1..MaxBlocks
  BY <1>1, MarketAssumption, LenProperties DEF Inv, ChainInv
<1>3. blk \in Blocks
  BY <1>2 DEF Blocks
<1>4. chain'[m] = blk
  BY <1>1, <1>2, <1>3, AppendProperties
<1> HIDE DEF blk
<1>5. \A c \in Cards : \A u : HeldUpTo(chain', m, c, u) = HeldBefore(m, c, u)
  <2> SUFFICES ASSUME NEW c \in Cards, NEW u
               PROVE  HeldUpTo(chain', m, c, u) = HeldBefore(m, c, u)
    OBVIOUS
  <2>1. PICK upto : upto = [l \in Listeners |-> m]
    OBVIOUS
  <2>2. upto \in [Listeners -> Nat] /\ \A l \in Listeners : upto[l] <= Len(chain) + 1
    BY <1>2, <2>1
  <2>3. HeldIn(Append(chain, blk), upto, c, u) = HeldIn(chain, upto, c, u)
    BY <1>2, <1>3, <2>2, HeldGrows
  <2>4. HeldAt(upto, c, u) = HeldIn(chain, upto, c, u)
    BY HeldAtIs
  <2> QED BY <1>1, <2>1, <2>3, <2>4 DEF HeldUpTo, HeldBefore
<1>6. \A i \in DOMAIN blk.transfer : blk.transfer[i].card \in Cards
  BY <1>3, CardMoved
<1> HIDE DEF m
<1>7. Covered(chain', m)
  BY <1>1, <1>4, <1>5, <1>6 DEF Covered, TransfersCovered, m
<1> QED BY <1>7 DEF m

LEMMA LedgerNewBlock ==
    ASSUME Apart, Inv, LedgerInv, NEW full \in ChainChoices, NewBlock(full)
    PROVE  LedgerInv'
<1> DEFINE m   == Len(chain) + 1
           blk == full[m]
<1>1. /\ Len(chain) < MaxBlocks /\ IsPrefix(chain, full)
      /\ \A f \in blk.sale : f.order \in signed
      /\ chain' = Append(chain, blk)
      /\ UNCHANGED <<cursor, cards, hasSale, sales, created, signed, walk, sell, strays, crashes>>
  BY DEF NewBlock, db
<1>2. chain \in Seq(Blocks) /\ m \in 1..MaxBlocks /\ Len(chain) \in Nat
  BY <1>1, MarketAssumption, LenProperties DEF Inv, ChainInv
<1>3. blk \in Blocks
  BY <1>2 DEF Blocks
<1>4. /\ chain' \in Seq(Blocks) /\ DOMAIN chain = 1..Len(chain) /\ DOMAIN chain' = 1..m
      /\ Len(chain') = m /\ chain'[m] = blk
      /\ \A k \in DOMAIN chain : chain'[k] = chain[k]
  <2> HIDE DEF blk
  <2> QED BY <1>1, <1>2, <1>3, AppendProperties
<1>5. \A k \in DOMAIN chain' : k \in DOMAIN chain \/ k = m
  BY <1>2, <1>4
<1>6. \A k \in DOMAIN chain' : chain'[k] = full[k] /\ k \in 1..MaxBlocks
  <2>1. \A k \in DOMAIN chain : chain[k] = full[k]
    BY <1>1, <1>2, PrefixOf
  <2>2. \A k \in DOMAIN chain : k \in 1..MaxBlocks
    <3>1. DOMAIN chain = 1..Len(chain) /\ Len(chain) \in Nat /\ Len(chain) < MaxBlocks
      BY <1>1, <1>2, <1>4
    <3>2. MaxBlocks \in Nat
      BY MarketAssumption
    <3> HIDE DEF m, blk
    <3> QED BY <3>1, <3>2
  <2>3. \A k : k = m => chain'[k] = full[k]
    BY <1>4
  <2> HIDE DEF m, blk
  <2> QED BY <1>2, <1>4, <1>5, <2>1, <2>2, <2>3
<1>7. ChainSound'
  <2>1. Len(chain') <= MaxBlocks
    BY <1>2, <1>4
  <2>2. ASSUME NEW k \in DOMAIN chain' PROVE Covered(chain', k)
    <3>1. CASE k = m
      BY <3>1, CoveredNext
    <3>2. CASE k # m
      <4>1. k \in DOMAIN chain /\ Covered(chain, k)
        BY <1>5, <3>2 DEF LedgerInv, ChainSound
      <4> HIDE DEF blk
      <4> QED BY <1>1, <1>2, <1>3, <4>1, CoveredGrows
    <3> QED BY <3>1, <3>2
  <2>3. ASSUME NEW j \in DOMAIN chain', NEW k \in DOMAIN chain'
        PROVE  \A l \in KindsOf(chain'[j]), h \in KindsOf(chain'[k]) : l = h
    <3>1. chain'[j] = full[j] /\ chain'[k] = full[k]
      BY <1>6
    <3>2. j \in 1..MaxBlocks /\ k \in 1..MaxBlocks
      BY <1>6
    <3>3. \A l \in KindsOf(full[j]), h \in KindsOf(full[k]) : l = h
      BY <3>2 DEF Apart
    <3> QED BY <3>1, <3>3
  <2>4. ASSUME NEW k \in DOMAIN chain', NEW f \in chain'[k].sale PROVE f.order \in signed
    <3>1. CASE k = m
      BY <1>1, <1>4, <2>4, <3>1
    <3>2. CASE k # m
      BY <1>4, <1>5, <2>4, <3>2 DEF LedgerInv, ChainSound
    <3> QED BY <3>1, <3>2
  <2> QED BY <1>1, <2>1, <2>2, <2>3, <2>4 DEF ChainSound
<1>8. CursorsSound'
  <2>1. Len(chain) <= Len(chain') /\ Len(chain) + 1 <= Len(chain') + 1
    BY <1>2, <1>4
  <2>2. cursor \in [Listeners -> Nat] /\ Walkers \subseteq Listeners /\ "sale" \in Listeners
    BY DEF Inv, ChainInv, Listeners, Walkers
  <2> QED BY <1>1, <1>2, <1>4, <2>1, <2>2 DEF LedgerInv, CursorsSound
<1>9. OrdersSound'
  <2>1. (\A k \in DOMAIN chain' : KindsOf(chain'[k]) \subseteq {"sale"})
          => \A k \in DOMAIN chain : KindsOf(chain[k]) \subseteq {"sale"}
    BY <1>2, <1>4
  <2>2. \A o : SaleKept(o)' <=> SaleKept(o)
    BY <1>1 DEF SaleKept
  <2> QED BY <1>1, <2>1, <2>2 DEF LedgerInv, OrdersSound
<1> HIDE DEF m, blk
<1>10. \A l \in Walkers : walk[l].pc # "idle" => chain'[cursor[l]] = chain[cursor[l]]
  BY <1>4, CursorIn DEF Listeners
<1>11. sell.pc # "idle" => chain'[cursor["sale"]] = chain[cursor["sale"]]
  BY <1>4, CursorIn DEF Listeners
<1>12. ASSUME NEW l \in Walkers PROVE WalkerSound(l)' /\ \A c, u : WalkDone(l, c, u)' = WalkDone(l, c, u)
  <2>1. CASE walk[l].pc = "idle"
    BY <1>1, <2>1 DEF LedgerInv, WalkerSound, Working, WalkDone, DoneBy
  <2>2. CASE walk[l].pc # "idle"
    BY <1>1, <1>10, <2>2 DEF LedgerInv, WalkerSound, WalkDone
  <2> QED BY <2>1, <2>2
<1>13. SellerSound' /\ \A c, u : SellDone(c, u)' = SellDone(c, u)
  <2>1. CASE sell.pc = "idle"
    BY <1>1, <2>1 DEF SellerSound, SellDone, SoldBy
  <2>2. CASE sell.pc # "idle"
    BY <1>1, <1>11, <2>2 DEF LedgerInv, SellerSound, SellDone
  <2> QED BY <2>1, <2>2
<1>14. Balanced'
  <2>1. /\ cursor \in [Listeners -> Nat]
        /\ \A l \in Listeners : cursor[l] <= Len(chain) + 1
    BY DEF Inv, ChainInv, LedgerInv, CursorsSound
  <2>2. \A c \in Cards : \A u : HeldIn(chain', cursor, c, u) = HeldIn(chain, cursor, c, u)
    BY <1>1, <1>2, <1>3, <2>1, HeldGrows
  <2>3. \A c, u : /\ WalkDone("transfer", c, u)' = WalkDone("transfer", c, u)
                  /\ WalkDone("burn", c, u)' = WalkDone("burn", c, u)
    BY <1>12 DEF Walkers
  <2>4. ASSUME NEW c \in Cards, NEW u \in Users
        PROVE  (Holds(cards[c], u) = HeldIn(chain, cursor, c, u)
                         + WalkDone("transfer", c, u) + WalkDone("burn", c, u) + SellDone(c, u))'
    <3>1. Holds(cards[c], u) = HeldIn(chain, cursor, c, u)
                         + WalkDone("transfer", c, u) + WalkDone("burn", c, u) + SellDone(c, u)
      BY DEF LedgerInv, Balanced
    <3>2. HeldIn(chain, cursor, c, u)' = HeldIn(chain, cursor, c, u)
      BY <1>1, <2>2
    <3>3. Holds(cards[c], u)' = Holds(cards[c], u)
      BY <1>1
    <3> QED BY <1>13, <2>3, <3>1, <3>2, <3>3
  <2> QED BY <2>4 DEF Balanced
<1>15. strays' = {} /\ crashes' = 0 /\ DocumentsSound'
  BY <1>1 DEF LedgerInv, DocumentsSound
<1> QED BY <1>7, <1>8, <1>9, <1>12, <1>13, <1>14, <1>15 DEF LedgerInv

LEMMA LedgerStutter == ASSUME LedgerInv, UNCHANGED vars PROVE LedgerInv'
<1>1. UNCHANGED <<chain, cursor, cards, hasSale, sales, created, signed, walk, sell, strays, crashes>>
  BY DEF vars, db
<1>2. ChainSound' /\ CursorsSound' /\ OrdersSound' /\ DocumentsSound'
  BY <1>1, OrdersStay DEF LedgerInv, ChainSound, CursorsSound, DocumentsSound
<1>3. (\A l \in Walkers : WalkerSound(l)') /\ SellerSound'
  BY <1>1 DEF LedgerInv, WalkerSound, SellerSound
<1>4. Balanced'
  <2>1. \A c, u : /\ WalkDone("transfer", c, u)' = WalkDone("transfer", c, u)
                  /\ WalkDone("burn", c, u)' = WalkDone("burn", c, u)
                  /\ SellDone(c, u)' = SellDone(c, u)
                  /\ HeldIn(chain, cursor, c, u)' = HeldIn(chain, cursor, c, u)
                  /\ cards' = cards
    BY <1>1 DEF WalkDone, SellDone
  <2> QED BY <2>1 DEF LedgerInv, Balanced
<1> QED BY <1>1, <1>2, <1>3, <1>4 DEF LedgerInv

LEMMA LedgerNext ==
    ASSUME Apart, Inv, StoreSound, StoreSound', LedgerInv, [Next]_vars
    PROVE  LedgerInv'
<1>1. ~Strays
  BY DEF Strays, LedgerInv
<1>2. ~Crash
  BY DEF Crash, LedgerInv, Apart
<1>3. ~(\E r \in Requests : Request(r))
  BY DEF Apart
<1>4. CASE Next
  <2>1. CASE FindTransferred \/ FindBurned
    BY <2>1, LedgerFind DEF Walkers
  <2> QED BY <1>1, <1>2, <1>3, <1>4, <2>1, LedgerNewBlock, LedgerWalk, LedgerSell DEF Next
<1> QED BY <1>4, LedgerStutter

LEMMA LedgerInit == ASSUME Init, Inv, Apart PROVE LedgerInv
<1>1. /\ chain = <<>> /\ cursor = [l \in Listeners |-> 1] /\ cards = Genesis
      /\ strays = {} /\ crashes = 0 /\ sell.pc = "idle"
      /\ \A l \in Walkers : walk[l].pc = "idle" /\ walk[l].hs = FALSE
  BY DEF Init, NoSell, Resting
<1>2. Len(chain) = 0 /\ DOMAIN chain = {} /\ chain \in Seq(Blocks)
  BY <1>1 DEF Inv, ChainInv
<1>3. ChainSound
  BY <1>2, MarketAssumption DEF ChainSound
<1>4. CursorsSound
  BY <1>1, <1>2 DEF CursorsSound
<1>5. /\ Len(Listed) \in Nat /\ DOMAIN Listed = 1..Len(Listed)
      /\ \A i \in DOMAIN Listed : Listed[i] \in Orders
  BY MarketAssumption
<1>6. OrdersSound
  <2>1. /\ sales = {Sale(i, Listed[i]) : i \in DOMAIN Listed} /\ created = Len(Listed)
        /\ signed = {Listed[i] : i \in DOMAIN Listed}
    BY DEF Init
  <2>2. hasSale \in [Cards -> BOOLEAN]
    <3>1. hasSale = [c \in Cards |-> \E i \in DOMAIN Listed : OrderData[Listed[i]].card = c]
      BY DEF Init
    <3>2. \A c \in Cards : (\E i \in DOMAIN Listed : OrderData[Listed[i]].card = c) \in BOOLEAN
      OBVIOUS
    <3> QED BY <3>1, <3>2
  <2>3. \A i, j \in DOMAIN Listed : Listed[i] = Listed[j] => i = j
    BY DEF Apart
  <2>4. IsFiniteSet(sales)
    <3> DEFINE f == [i \in DOMAIN Listed |-> Sale(i, Listed[i])]
    <3>1. f \in Surjection(DOMAIN Listed, sales)
      BY <2>1 DEF Surjection
    <3>2. IsFiniteSet(DOMAIN Listed)
      BY <1>5, FS_Interval
    <3> QED BY <3>1, <3>2, FS_Surjection
  <2>5. sales \subseteq [id : 1..created, order : Orders, status : Statuses]
    BY <1>5, <2>1 DEF Sale, Statuses
  <2>6. \A s, t \in sales : s.order = t.order \/ s.id = t.id => s = t
    BY <2>1, <2>3 DEF Sale
  <2>7. \A o \in signed : SaleKept(o)
    <3>1. \A i \in DOMAIN Listed : Sale(i, Listed[i]) \in sales /\ Sale(i, Listed[i]).order = Listed[i]
      BY <2>1 DEF Sale
    <3> QED BY <2>1, <3>1 DEF SaleKept
  <2> QED BY <2>2, <2>4, <2>5, <2>6, <2>7 DEF OrdersSound
<1>7. (\A l \in Walkers : WalkerSound(l)) /\ SellerSound
  BY <1>1 DEF WalkerSound, Working, SellerSound
<1>8. DocumentsSound
  BY <1>1 DEF DocumentsSound, Apart
<1>9. Balanced
  <2> SUFFICES ASSUME NEW c \in Cards, NEW u \in Users
               PROVE  Holds(cards[c], u) = HeldIn(chain, cursor, c, u)
                         + WalkDone("transfer", c, u) + WalkDone("burn", c, u) + SellDone(c, u)
    BY DEF Balanced
  <2>1. WalkDone("transfer", c, u) = 0 /\ WalkDone("burn", c, u) = 0 /\ SellDone(c, u) = 0
    BY <1>1 DEF WalkDone, DoneBy, SellDone, SoldBy, Walkers
  <2>2. Before(chain, cursor) = {}
    BY <1>2 DEF Before
  <2>3. SumOf(Parts(chain, c, u), Before(chain, cursor)) = 0
    BY <2>2, SumEmpty
  <2>4. /\ HeldIn(chain, cursor, c, u) = HeldOf(chain, cursor, c, u)
        /\ AmountOf(Genesis[c].bal, u) \in Nat
    BY <1>2, HeldTyped
  <2>5. HeldIn(chain, cursor, c, u) = AmountOf(Genesis[c].bal, u)
    BY <2>3, <2>4 DEF HeldOf
  <2>6. Genesis[c] # NoCard
    BY MarketAssumption
  <2>7. Holds(cards[c], u) = AmountOf(Genesis[c].bal, u)
    BY <1>1, <2>6 DEF Holds
  <2> QED BY <2>1, <2>4, <2>5, <2>7
<1> QED BY <1>1, <1>3, <1>4, <1>6, <1>7, <1>8, <1>9 DEF LedgerInv

LEMMA LedgerImplies == ASSUME Apart, Inv, StoreSound, LedgerInv PROVE LedgerSound
<1>1. TypeOK
  <2>1. cursor \in [Listeners -> 1..(MaxBlocks + 1)]
    <3>1. \A l \in Listeners : cursor[l] <= Len(chain) + 1 /\ Len(chain) <= MaxBlocks
      BY DEF LedgerInv, CursorsSound, ChainSound
    <3>2. Len(chain) \in Nat /\ MaxBlocks \in Nat /\ cursor \in [Listeners -> Nat \ {0}]
      BY MarketAssumption, LenProperties DEF Inv, ChainInv
    <3>3. \A l \in Listeners : cursor[l] \in 1..(MaxBlocks + 1)
      BY <3>1, <3>2
    <3> QED BY <3>2, <3>3
  <2>2. \A c \in Cards : cards[c] # NoCard => Len(cards[c].bal) > 0
    <3>1. ASSUME NEW bal \in Accounts, bal # <<>> PROVE Len(bal) > 0
      <4>1. Len(bal) \in Nat /\ Len(bal) # 0
        BY <3>1 DEF Accounts
      <4> QED BY <4>1
    <3> QED BY <3>1, DocsSound DEF LedgerInv, DocumentsSound
  <2>3. hasSale \in [Cards -> BOOLEAN]
    BY DEF LedgerInv, OrdersSound
  <2>4. /\ sales \subseteq [id : 1..created, order : Orders, status : Statuses]
        /\ \A s, t \in sales : s.id = t.id => s = t
    BY DEF LedgerInv, OrdersSound
  <2>5. ASSUME NEW l \in Walkers
        PROVE  /\ walk[l].pc \in {"idle", "find", "save", "sum", "load", "dropCard", "drop",
                                  "exists", "flag", "increase"}
               /\ walk[l].pc = "save" <=> walk[l].upd # {}
               /\ walk[l].pc = "load" => walk[l].onSale > 0
    <3>1. Working(l, walk[l], chain[cursor[l]], cards)
      BY DEF LedgerInv, WalkerSound
    <3>2. walk[l].pc # "save" => walk[l].upd = {}
      BY DEF Inv, WalkInv, WalkerOK
    <3>3. walk[l].pc = "save" => walk[l].upd # {}
      BY <3>1 DEF Working, SaveDue
    <3> QED BY <3>1, <3>2, <3>3 DEF Working, AfterSave
  <2>6. sell.pc \in {"idle", "mark", "apply", "flags", "increase"}
    BY DEF LedgerInv, SellerSound, Selling
  <2> QED BY <2>1, <2>2, <2>3, <2>4, <2>5, <2>6 DEF TypeOK, Apart
<1>2. LedgerMirrored
  <2> SUFFICES ASSUME sell.pc = "idle", \A l \in Walkers : walk[l].pc = "idle",
                      NEW c \in Cards, NEW u \in Users
               PROVE  HeldBy(c, u) = HeldAt(cursor, c, u)
    BY DEF LedgerMirrored
  <2>1. WalkDone("transfer", c, u) = 0 /\ WalkDone("burn", c, u) = 0 /\ SellDone(c, u) = 0
    BY DEF WalkDone, DoneBy, SellDone, SoldBy, Walkers
  <2>2. Holds(cards[c], u) = HeldIn(chain, cursor, c, u) + 0 + 0 + 0
    BY <2>1 DEF LedgerInv, Balanced
  <2>3. HeldIn(chain, cursor, c, u) \in Int
    BY HeldTyped DEF Inv, ChainInv
  <2>4. HeldBy(c, u) = Holds(cards[c], u)
    BY DEF HeldBy, Holds
  <2>5. HeldAt(cursor, c, u) = HeldIn(chain, cursor, c, u)
    <3>1. PICK upto : upto = cursor
      OBVIOUS
    <3>2. HeldAt(upto, c, u) = HeldIn(chain, upto, c, u)
      BY HeldAtIs
    <3> QED BY <3>1, <3>2
  <2> QED BY <2>2, <2>3, <2>4, <2>5
<1>3. SumMatchesTotal
  BY DEF SumMatchesTotal, LedgerInv, DocumentsSound
<1> QED BY <1>1, <1>2, <1>3 DEF LedgerSound

-----------------------------------------------------------------------------
(* Where the blocks of a chain are for one listener only (Apart), nobody   *)
(* transfers to themselves or buys from themselves, a block fills one      *)
(* order of a card at most, no client sends a request and no listener is   *)
(* killed half-way, the books are kept: whenever the listeners are at      *)
(* rest, the balances are those of the blocks each has consumed, and a     *)
(* card's totalSupply is always the sum of its balances.  Of two fills of  *)
(* one card in a block the second save can undo the first                  *)
(* (Marketplace_twoSales.cfg), or a replay applies one twice               *)
(* (Marketplace_salesReplayed.cfg); a transfer of a whole balance to       *)
(* oneself drops it (Marketplace_selfTransfer.cfg).                        *)
THEOREM LedgerStaysSound == Apart => (Spec => []LedgerSound)
<1> SUFFICES ASSUME Apart PROVE Spec => []LedgerSound
  OBVIOUS
<1>1. Init => Inv /\ LedgerInv
  BY InitInv, LedgerInit
<1>2. Inv /\ StoreSound /\ StoreSound' /\ LedgerInv /\ [Next]_vars => Inv' /\ LedgerInv'
  BY NextStep, LedgerNext
<1>3. Inv /\ StoreSound /\ LedgerInv => LedgerSound
  BY LedgerImplies
<1> QED BY <1>1, <1>2, <1>3, SoundStore, PTL DEF Spec
=============================================================================
