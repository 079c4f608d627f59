---------------------------- MODULE Marketplace ----------------------------
(***************************************************************************)
(* Cards and the sales that list them: the transfer, burn and sell         *)
(* listeners, which replay the chain's events on the `cards` and           *)
(* `cardsales` collections, and the API requests that create and delete a  *)
(* sale.  Every database call of a handler is a step of its own, so        *)
(* whatever another handler does between two awaits is a behaviour here.   *)
(* A block is consumed by each listener on its own: `cursor` is the        *)
(* processingBlockNumber of its job, BlockListener is that loop in detail. *)
(***************************************************************************)
EXTENDS CardDocument

CONSTANTS
    Cards, Users,
    Orders,         \* the sell orders users may sign
    OrderData,      \* the card, the maker (user) and the token count (n) of an order
    Genesis,        \* the card documents at the start
    Listed,         \* the orders that are on sale at the start
    ChainChoices,   \* what the chain may turn out to be, MaxBlocks blocks each
    Resubmits,      \* whether a client may send the same signed order again
    Requests,       \* bound: API requests served at once
    MaxBlocks,      \* bound: blocks of the chain
    MaxSales,       \* bound: no further createSale is begun beyond this
    MaxCrashes,     \* bound: handlers killed half-way
    MaxInFlight     \* bound: handlers that run at once; 1 is one after another

Blocks == UNION {{full[k] : k \in 1..MaxBlocks} : full \in ChainChoices}

Tokens == Nat \ {0}

ASSUME MarketAssumption ==
    /\ MaxBlocks \in Nat
    /\ Orders # {}
    /\ OrderData \in [Orders -> [card : Cards, user : Users, n : Tokens]]
    /\ Listed \in Seq(Orders)
    /\ Genesis \in [Cards -> [v : Nat, total : Int,
                               bal : Seq([user : Users, amount : Tokens])]]
    /\ \A c \in Cards : OneEntryEach(Genesis[c].bal)
    /\ NoCard \notin [v : Nat, total : Int, bal : Seq([user : Users, amount : Tokens])]
    /\ \A blk \in Blocks :
         /\ blk.transfer \in Seq([card : Cards, from : Users, to : Users, n : Tokens])
         /\ blk.burn \in Seq([card : Cards, from : Users, n : Tokens])
         /\ blk.sale \subseteq [order : Orders, taker : Users]
         /\ IsFiniteSet(blk.sale)

Walkers   == {"transfer", "burn"}
Listeners == Walkers \cup {"sale"}

VARIABLES
    chain,      \* the blocks the subgraph has indexed
    cursor,     \* per listener, the number of the block to process next
    cards,      \* the cards collection, but for hasSale
    hasSale,    \* the hasSale field of the cards
    sales,      \* the cardsales collection
    created,    \* how many sales were ever created
    signed,     \* orders that were ever listed: takers may have seen them
    walk,       \* the transfer and the burn listener
    sell,       \* the sell listener
    strays,     \* tasks of a failed sell invocation that still run
    req,        \* the API requests
    crashes     \* history: handlers killed so far

db   == <<cards, hasSale, sales, created, signed>>
vars == <<chain, cursor, db, walk, sell, strays, req, crashes>>

Resting == [pc |-> "idle", todo |-> <<>>, upd |-> {}, onSale |-> 0, hs |-> FALSE]
NoSell  == [pc |-> "idle", tasks |-> {}, flags |-> {}]
NoReq   == [pc |-> "idle", order |-> CHOOSE o \in Orders : TRUE,
            id |-> 0, amount |-> 0, hs |-> FALSE]

Sale(i, o) == [id |-> i, order |-> o, status |-> "sale"]

Init ==
    /\ chain = <<>>
    /\ cursor = [l \in Listeners |-> 1]
    /\ cards = Genesis
    /\ sales = {Sale(i, Listed[i]) : i \in DOMAIN Listed}
    /\ hasSale = [c \in Cards |-> \E i \in DOMAIN Listed : OrderData[Listed[i]].card = c]
    /\ created = Len(Listed)
    /\ signed = {Listed[i] : i \in DOMAIN Listed}
    /\ walk = [l \in Walkers |-> Resting]
    /\ sell = NoSell
    /\ strays = {}
    /\ req = [r \in Requests |-> NoReq]
    /\ crashes = 0

InFlight ==
    Cardinality({l \in Walkers : walk[l].pc # "idle"})
  + Cardinality({r \in Requests : req[r].pc # "idle"})
  + (IF sell.pc = "idle" THEN 0 ELSE 1) + Cardinality(strays)

-----------------------------------------------------------------------------
(* The chain (external).  A transfer event is [card, from, to, n], a burn  *)
(* event [card, from, n], a fill [order, taker]; an order is filled with   *)
(* all its tokens.                                                         *)
NetOf(events, c, u) ==
    MapThenSumSet(LAMBDA i : events[i].n,
        {i \in DOMAIN events : events[i].card = c /\ events[i].from = u})

GotOf(events, c, u) ==
    MapThenSumSet(LAMBDA i : events[i].n,
        {i \in DOMAIN events : events[i].card = c /\ events[i].to = u})

Bought(fills, c, u) ==
    MapThenSumSet(LAMBDA f : OrderData[f.order].n,
        {f \in fills : OrderData[f.order].card = c /\ f.taker = u})

SoldOff(fills, c, u) ==
    MapThenSumSet(LAMBDA f : OrderData[f.order].n,
        {f \in fills : OrderData[f.order].card = c /\ OrderData[f.order].user = u})

Change(l, blk, c, u) ==
    CASE l = "transfer" -> GotOf(blk.transfer, c, u) - NetOf(blk.transfer, c, u)
      [] l = "burn"     -> -NetOf(blk.burn, c, u)
      [] l = "sale"     -> Bought(blk.sale, c, u) - SoldOff(blk.sale, c, u)

(* What u holds of c once each listener l has consumed the blocks before   *)
(* upto[l].                                                                *)
HeldAt(upto, c, u) ==
    AmountOf(Genesis[c].bal, u)
  + MapThenSumSet(LAMBDA x : Change(x[1], chain[x[2]], c, u),
        {x \in Listeners \X DOMAIN chain : x[2] < upto[x[1]]})

FilledOrders == UNION {{f.order : f \in chain[k].sale} : k \in DOMAIN chain}

(* What u holds of c before the k-th block.                                *)
HeldBefore(k, c, u) == HeldAt([l \in Listeners |-> k], c, u)

(* Every transfer of the next block is covered when it happens, by what    *)
(* the sender held before the block, got in it so far or buys in it.       *)
TransfersCovered(blk) ==
    \A i \in DOMAIN blk.transfer :
        LET e == blk.transfer[i]
        IN  HeldBefore(Len(chain) + 1, e.card, e.from) + Bought(blk.sale, e.card, e.from)
              + GotOf(SubSeq(blk.transfer, 1, i - 1), e.card, e.from)
              >= NetOf(SubSeq(blk.transfer, 1, i), e.card, e.from)

(* A block whose events the holders can afford; an order is filled once,   *)
(* and only after it was shown to takers.                                  *)
NewBlock(full) ==
    /\ Len(chain) < MaxBlocks
    /\ IsPrefix(chain, full)
    /\ LET blk == full[Len(chain) + 1]
       IN  /\ \A f \in blk.sale : f.order \in signed \ FilledOrders
           /\ TransfersCovered(blk)
           /\ \A c \in Cards, u \in Users :
                HeldBefore(Len(chain) + 1, c, u)
                  + Change("transfer", blk, c, u) + Change("burn", blk, c, u)
                  + Change("sale", blk, c, u) >= 0
           /\ chain' = Append(chain, blk)
    /\ UNCHANGED <<cursor, db, walk, sell, strays, req, crashes>>

-----------------------------------------------------------------------------
(* The sales of a user on a card, and the queries on them.                 *)
CardOf(s)  == OrderData[s.order].card
MakerOf(s) == OrderData[s.order].user

SalesOf(c, u) == {s \in sales : CardOf(s) = c /\ MakerOf(s) = u}

(* Mutant: the sales of every user are summed.                             *)
OnSaleOfAll(c, u) ==
    MapThenSumSet(LAMBDA s : OrderData[s.order].n, {s \in sales : CardOf(s) = c})

(* getTotalTokenOnSaleByCardIdAndUserId: of any status.                    *)
OnSale(c, u) == MapThenSumSet(LAMBDA s : OrderData[s.order].n, SalesOf(c, u))

ExistsSale(c) == \E s \in sales : CardOf(s) = c /\ s.status = "sale"

(* updateCardHasSale: findByIdAndUpdate of a card that is gone does        *)
(* nothing.                                                                *)
UpdateHasSale(c, hs) ==
    hasSale' = IF cards[c] = NoCard THEN hasSale ELSE [hasSale EXCEPT ![c] = hs]

-----------------------------------------------------------------------------
(* processTransferTokens and processBurnedTokens: the events of a block    *)
(* one after another, each followed by processSaleByChangeOwnership.       *)
Event(l) == Head(walk[l].todo)

(* Mutant: a block without events returns without the increment.           *)
StartWalkReturns(l) ==
    /\ walk[l].pc = "idle"
    /\ cursor[l] <= Len(chain)
    /\ InFlight < MaxInFlight
    /\ LET events == IF l = "transfer" THEN chain[cursor[l]].transfer
                                       ELSE chain[cursor[l]].burn
       IN  walk' = [walk EXCEPT ![l].pc = IF events = <<>> THEN "idle" ELSE "find",
                                ![l].todo = events]
    /\ UNCHANGED <<chain, cursor, db, sell, strays, req, crashes>>

StartWalk(l) ==
    /\ walk[l].pc = "idle"
    /\ cursor[l] <= Len(chain)
    /\ InFlight < MaxInFlight
    /\ LET events == IF l = "transfer" THEN chain[cursor[l]].transfer
                                       ELSE chain[cursor[l]].burn
       IN  walk' = [walk EXCEPT ![l].pc = IF events = <<>> THEN "increase" ELSE "find",
                                ![l].todo = events]
    /\ UNCHANGED <<chain, cursor, db, sell, strays, req, crashes>>

GoTo(l, pc) == walk' = [walk EXCEPT ![l].pc = pc]

NextEvent(l) ==
    LET rest == Tail(walk[l].todo)
    IN  walk' = [walk EXCEPT ![l] =
                   [Resting EXCEPT !.pc = IF rest = <<>> THEN "increase" ELSE "find",
                                   !.todo = rest]]

Leave(l) == walk' = [walk EXCEPT ![l] = Resting]

(* transferToken.  A card that is not found is passed over by              *)
(* changeOwnerships, and `card.id` then throws a TypeError.                *)
FindTransferred ==
    /\ walk["transfer"].pc = "find"
    /\ LET e   == Event("transfer")
           doc == cards[e.card]
       IN  \/ /\ doc = NoCard
              /\ Leave("transfer")
           \/ /\ doc # NoCard /\ e.from \notin Holders(doc.bal)
              /\ GoTo("transfer", "sum")
           \/ /\ doc # NoCard /\ e.from \in Holders(doc.bal)
              /\ walk' = [walk EXCEPT
                            !["transfer"].pc = "save",
                            !["transfer"].upd =
                               {ChangeOwnerships(e.card, doc, e.n, e.from, e.to)}]
    /\ UNCHANGED <<chain, cursor, db, sell, strays, req, crashes>>

(* burnToken: without the card or a balance of the owner, nothing.         *)
FindBurned ==
    /\ walk["burn"].pc = "find"
    /\ LET e   == Event("burn")
           doc == cards[e.card]
       IN  IF doc # NoCard /\ e.from \in Holders(doc.bal)
             THEN walk' = [walk EXCEPT !["burn"].pc = "save",
                                       !["burn"].upd = {BurnCard(e.card, doc, e.n, e.from)}]
             ELSE NextEvent("burn")
    /\ UNCHANGED <<chain, cursor, db, sell, strays, req, crashes>>

(* card.save(), card.delete(); a VersionError ends the invocation.         *)
SaveCard(l) ==
    /\ walk[l].pc = "save"
    /\ \E upd \in walk[l].upd :
         \/ /\ upd.kind = "delete"
            /\ cards' = [cards EXCEPT ![upd.card] = NoCard]
            /\ walk' = [walk EXCEPT ![l].pc = "sum", ![l].upd = {}]
         \/ /\ upd.kind # "delete" /\ Accepts(cards[upd.card], upd)
            /\ cards' = [cards EXCEPT ![upd.card] = Saved(@, upd)]
            /\ walk' = [walk EXCEPT ![l].pc = "sum", ![l].upd = {}]
         \/ /\ upd.kind # "delete" /\ ~Accepts(cards[upd.card], upd)
            /\ Leave(l)
            /\ UNCHANGED cards
    /\ UNCHANGED <<chain, cursor, hasSale, sales, created, signed, sell, strays, req, crashes>>

SumOnSale(l) ==
    /\ walk[l].pc = "sum"
    /\ LET total == OnSale(Event(l).card, Event(l).from)
       IN  IF total = 0
             THEN NextEvent(l)
             ELSE walk' = [walk EXCEPT ![l].pc = "load", ![l].onSale = total]
    /\ UNCHANGED <<chain, cursor, db, sell, strays, req, crashes>>

(* Mutant: the comparison is the wrong way round.                          *)
LoadCardSwapped(l) ==
    /\ walk[l].pc = "load"
    /\ LET doc == cards[Event(l).card]
       IN  GoTo(l, IF doc = NoCard THEN "dropCard"
                   ELSE IF walk[l].onSale < AmountOf(doc.bal, Event(l).from) THEN "drop"
                   ELSE "exists")
    /\ UNCHANGED <<chain, cursor, db, sell, strays, req, crashes>>

LoadCard(l) ==
    /\ walk[l].pc = "load"
    /\ LET doc == cards[Event(l).card]
       IN  GoTo(l, IF doc = NoCard THEN "dropCard"
                   ELSE IF walk[l].onSale > AmountOf(doc.bal, Event(l).from) THEN "drop"
                   ELSE "exists")
    /\ UNCHANGED <<chain, cursor, db, sell, strays, req, crashes>>

(* deleteSalesByCardIds, without a processHasSale.                         *)
DropSalesOfCard(l) ==
    /\ walk[l].pc = "dropCard"
    /\ sales' = {s \in sales : CardOf(s) # Event(l).card}
    /\ NextEvent(l)
    /\ UNCHANGED <<chain, cursor, cards, hasSale, created, signed, sell, strays, req, crashes>>

(* Mutant: hasSale is not looked at again.                                 *)
DropSalesUnflagged(l) ==
    /\ walk[l].pc = "drop"
    /\ sales' = sales \ SalesOf(Event(l).card, Event(l).from)
    /\ NextEvent(l)
    /\ UNCHANGED <<chain, cursor, cards, hasSale, created, signed, sell, strays, req, crashes>>

(* deleteSalesByCardIdAndUserId.                                           *)
DropSalesOfOwner(l) ==
    /\ walk[l].pc = "drop"
    /\ sales' = sales \ SalesOf(Event(l).card, Event(l).from)
    /\ GoTo(l, "exists")
    /\ UNCHANGED <<chain, cursor, cards, hasSale, created, signed, sell, strays, req, crashes>>

(* processHasSale: the query, and later the update with its answer.        *)
WalkExists(l) ==
    /\ walk[l].pc = "exists"
    /\ walk' = [walk EXCEPT ![l].pc = "flag", ![l].hs = ExistsSale(Event(l).card)]
    /\ UNCHANGED <<chain, cursor, db, sell, strays, req, crashes>>

WalkFlag(l) ==
    /\ walk[l].pc = "flag"
    /\ UpdateHasSale(Event(l).card, walk[l].hs)
    /\ NextEvent(l)
    /\ UNCHANGED <<chain, cursor, cards, sales, created, signed, sell, strays, req, crashes>>

WalkIncrease(l) ==
    /\ walk[l].pc = "increase"
    /\ cursor' = [cursor EXCEPT ![l] = @ + 1]
    /\ Leave(l)
    /\ UNCHANGED <<chain, db, sell, strays, req, crashes>>

Walk(l) ==
    \/ StartWalk(l) \/ SaveCard(l) \/ SumOnSale(l) \/ LoadCard(l)
    \/ DropSalesOfCard(l) \/ DropSalesOfOwner(l)
    \/ WalkExists(l) \/ WalkFlag(l) \/ WalkIncrease(l)

-----------------------------------------------------------------------------
(* The pages of the sells of a block, put together by order hash.          *)
AllSellData(k) == chain[k].sale

(* processSell: the sales of the block's orders are read (of any status,   *)
(* so a repeated block finds them again), marked sold, and then applied    *)
(* all at once (Promise.all).                                              *)
StartSell ==
    /\ sell.pc = "idle"
    /\ cursor["sale"] <= Len(chain)
    /\ InFlight < MaxInFlight
    /\ LET fills == AllSellData(cursor["sale"])
           found == {x \in sales \X fills : x[1].order = x[2].order}
       IN  sell' = IF found = {}
                     THEN [NoSell EXCEPT !.pc = "increase"]
                     ELSE [pc    |-> "mark",
                           tasks |-> {[id |-> x[1].id, order |-> x[1].order,
                                       taker |-> x[2].taker, pc |-> "read", upd |-> {}] :
                                        x \in found},
                           flags |-> {[id |-> x[1].id, card |-> CardOf(x[1]),
                                       pc |-> "exists", hs |-> FALSE] : x \in found}]
    /\ UNCHANGED <<chain, cursor, db, walk, strays, req, crashes>>

(* changeSalesStatus, by order hash.                                       *)
MarkSold ==
    /\ sell.pc = "mark"
    /\ LET filled == {f.order : f \in chain[cursor["sale"]].sale}
       IN  sales' = {IF s.order \in filled THEN [s EXCEPT !.status = "sold"] ELSE s :
                       s \in sales}
    /\ sell' = [sell EXCEPT !.pc = "apply"]
    /\ UNCHANGED <<chain, cursor, cards, hasSale, created, signed, walk, strays, req, crashes>>

(* The read of changeOwnerships, and what is left of the task after it.    *)
AfterRead(t) ==
    LET o   == OrderData[t.order]
        doc == cards[o.card]
    IN  IF doc # NoCard /\ o.user \in Holders(doc.bal)
          THEN {[t EXCEPT !.pc = "save",
                          !.upd = {ChangeOwnerships(o.card, doc, o.n, o.user, t.taker)}]}
          ELSE {}

(* The tasks left; after the last one the hasSale fields are next.         *)
Remaining(tasks) ==
    sell' = [sell EXCEPT !.tasks = tasks, !.pc = IF tasks = {} THEN "flags" ELSE "apply"]

ReadSold(t) ==
    /\ sell.pc = "apply" /\ t.pc = "read"
    /\ Remaining((sell.tasks \ {t}) \cup AfterRead(t))
    /\ UNCHANGED <<chain, cursor, db, walk, strays, req, crashes>>

(* Mutant: the save is sent whatever version the document has.             *)
SaveSoldBlind(t) ==
    /\ sell.pc = "apply" /\ t.pc = "save"
    /\ \E upd \in t.upd :
         /\ cards[upd.card] # NoCard
         /\ cards' = [cards EXCEPT ![upd.card] = Saved(@, upd)]
    /\ Remaining(sell.tasks \ {t})
    /\ UNCHANGED <<chain, cursor, hasSale, sales, created, signed, walk, strays, req, crashes>>

(* A VersionError rejects the Promise.all and ends the invocation.  The    *)
(* other tasks are not cancelled: they run on, or freeze with the process. *)
SaveSold(t) ==
    /\ sell.pc = "apply" /\ t.pc = "save"
    /\ \E upd \in t.upd :
         \/ /\ Accepts(cards[upd.card], upd)
            /\ cards' = [cards EXCEPT ![upd.card] = Saved(@, upd)]
            /\ Remaining(sell.tasks \ {t})
            /\ UNCHANGED strays
         \/ /\ ~Accepts(cards[upd.card], upd)
            /\ sell' = NoSell
            /\ strays' \in {strays, strays \cup (sell.tasks \ {t})}
            /\ UNCHANGED cards
    /\ UNCHANGED <<chain, cursor, hasSale, sales, created, signed, walk, req, crashes>>

StrayRead(t) ==
    /\ t.pc = "read"
    /\ strays' = (strays \ {t}) \cup AfterRead(t)
    /\ UNCHANGED <<chain, cursor, db, walk, sell, req, crashes>>

StraySave(t) ==
    /\ t.pc = "save"
    /\ \E upd \in t.upd :
         cards' = IF Accepts(cards[upd.card], upd)
                    THEN [cards EXCEPT ![upd.card] = Saved(@, upd)] ELSE cards
    /\ strays' = strays \ {t}
    /\ UNCHANGED <<chain, cursor, hasSale, sales, created, signed, walk, sell, req, crashes>>

(* processHasSale, also all at once, and once per sale found: the card ids *)
(* are objects, so the Set they go through drops none that are equal.      *)
SellExists(f) ==
    /\ sell.pc = "flags" /\ f.pc = "exists"
    /\ sell' = [sell EXCEPT !.flags =
                  (@ \ {f}) \cup {[f EXCEPT !.pc = "flag", !.hs = ExistsSale(f.card)]}]
    /\ UNCHANGED <<chain, cursor, db, walk, strays, req, crashes>>

SellFlag(f) ==
    /\ sell.pc = "flags" /\ f.pc = "flag"
    /\ UpdateHasSale(f.card, f.hs)
    /\ sell' = IF sell.flags = {f} THEN [NoSell EXCEPT !.pc = "increase"]
               ELSE [sell EXCEPT !.flags = @ \ {f}]
    /\ UNCHANGED <<chain, cursor, cards, sales, created, signed, walk, strays, req, crashes>>

SellIncrease ==
    /\ sell.pc = "increase"
    /\ cursor' = [cursor EXCEPT !["sale"] = @ + 1]
    /\ sell' = NoSell
    /\ UNCHANGED <<chain, db, walk, strays, req, crashes>>

Sell ==
    \/ StartSell \/ MarkSold \/ SellIncrease
    \/ \E t \in sell.tasks : ReadSold(t) \/ SaveSold(t)
    \/ \E f \in sell.flags : SellExists(f) \/ SellFlag(f)

-----------------------------------------------------------------------------
(* orderHash is not unique in the collection, and nothing looks for it     *)
(* before a sale is stored.                                                *)
MayList(o) ==
    Resubmits \/ (o \notin signed /\ \A r \in Requests : req[r].pc = "idle" \/ req[r].order # o)

(* POST cards/:cardId/sales.  The card is read by the route's pipe, the    *)
(* user's sales by findBalanceByUserId; the tokens not on sale yet must    *)
(* cover the new sale.                                                     *)
CreateRead(r, o) ==
    /\ req[r].pc = "idle"
    /\ created < MaxSales /\ MayList(o)
    /\ InFlight < MaxInFlight
    /\ cards[OrderData[o].card] # NoCard
    /\ req' = [req EXCEPT
                 ![r] = [NoReq EXCEPT
                           !.pc = "sum", !.order = o,
                           !.amount = AmountOf(cards[OrderData[o].card].bal, OrderData[o].user)]]
    /\ UNCHANGED <<chain, cursor, db, walk, sell, strays, crashes>>

CreateSum(r) ==
    /\ req[r].pc = "sum"
    /\ LET o    == OrderData[req[r].order]
           free == req[r].amount - OnSale(o.card, o.user)
       IN  req' = [req EXCEPT ![r] = IF o.n > free THEN NoReq
                                     ELSE [@ EXCEPT !.pc = "store", !.amount = 0]]
    /\ UNCHANGED <<chain, cursor, db, walk, sell, strays, crashes>>

CreateStore(r) ==
    /\ req[r].pc = "store"
    /\ sales' = sales \cup {Sale(created + 1, req[r].order)}
    /\ created' = created + 1
    /\ signed' = signed \cup {req[r].order}
    /\ req' = [req EXCEPT ![r].pc = "exists"]
    /\ UNCHANGED <<chain, cursor, cards, hasSale, walk, sell, strays, crashes>>

(* DELETE sales/:saleId, by the sale's maker.                              *)
DeleteRead(r, s) ==
    /\ req[r].pc = "idle"
    /\ InFlight < MaxInFlight
    /\ req' = [req EXCEPT ![r] = [NoReq EXCEPT !.pc = "delete", !.order = s.order, !.id = s.id]]
    /\ UNCHANGED <<chain, cursor, db, walk, sell, strays, crashes>>

DeleteStore(r) ==
    /\ req[r].pc = "delete"
    /\ sales' = {s \in sales : s.id # req[r].id}
    /\ req' = [req EXCEPT ![r].pc = "exists", ![r].id = 0]
    /\ UNCHANGED <<chain, cursor, cards, hasSale, created, signed, walk, sell, strays, crashes>>

RequestExists(r) ==
    /\ req[r].pc = "exists"
    /\ req' = [req EXCEPT ![r].pc = "flag",
                          ![r].hs = ExistsSale(OrderData[req[r].order].card)]
    /\ UNCHANGED <<chain, cursor, db, walk, sell, strays, crashes>>

RequestFlag(r) ==
    /\ req[r].pc = "flag"
    /\ UpdateHasSale(OrderData[req[r].order].card, req[r].hs)
    /\ req' = [req EXCEPT ![r] = NoReq]
    /\ UNCHANGED <<chain, cursor, cards, sales, created, signed, walk, sell, strays, crashes>>

Request(r) ==
    \/ \E o \in Orders : CreateRead(r, o)
    \/ \E s \in sales : DeleteRead(r, s)
    \/ CreateSum(r) \/ CreateStore(r) \/ DeleteStore(r)
    \/ RequestExists(r) \/ RequestFlag(r)

-----------------------------------------------------------------------------
(* A rejected call to the database, the exchange or a node, or the end of  *)
(* the process, between two steps of a handler.                            *)
Killed(l) ==
    /\ walk[l].pc # "idle" /\ Leave(l)
    /\ UNCHANGED <<sell, strays, req>>

SellKilled ==
    /\ sell.pc # "idle" /\ sell' = NoSell
    /\ \/ strays' \in {strays, {}}
       \/ /\ sell.pc = "apply"
          /\ \E t \in sell.tasks : strays' = strays \cup (sell.tasks \ {t})
    /\ UNCHANGED <<walk, req>>

Abandoned(r) ==
    /\ req[r].pc # "idle" /\ req' = [req EXCEPT ![r] = NoReq]
    /\ UNCHANGED <<walk, sell, strays>>

Crash ==
    /\ crashes < MaxCrashes
    /\ crashes' = crashes + 1
    /\ \/ \E l \in Walkers : Killed(l)
       \/ SellKilled
       \/ \E r \in Requests : Abandoned(r)
    /\ UNCHANGED <<chain, cursor, db>>

Strays == \E t \in strays : StrayRead(t) \/ StraySave(t)

Next ==
    \/ \E full \in ChainChoices : NewBlock(full)
    \/ FindTransferred \/ FindBurned
    \/ \E l \in Walkers : Walk(l)
    \/ Sell \/ Strays
    \/ \E r \in Requests : Request(r)
    \/ Crash

Spec == Init /\ [][Next]_vars

(* The schedule restarts a listener that ended, whatever ended it, and a   *)
(* running one goes on.  Nothing makes a user send a request, the chain    *)
(* grow or the task of a dead invocation run on.                           *)
Fairness ==
    /\ WF_vars(FindTransferred) /\ WF_vars(FindBurned)
    /\ \A l \in Walkers : WF_vars(Walk(l))
    /\ WF_vars(Sell)
    /\ \A r \in Requests : WF_vars(req[r].pc # "idle" /\ Request(r))

FairSpec == Spec /\ Fairness

-----------------------------------------------------------------------------
Statuses == {"sale", "sold"}

TypeOK ==
    /\ cursor \in [Listeners -> 1..(MaxBlocks + 1)]
    /\ \A c \in Cards : cards[c] # NoCard => Len(cards[c].bal) > 0
    /\ hasSale \in [Cards -> BOOLEAN]
    /\ sales \subseteq [id : 1..created, order : Orders, status : Statuses]
    /\ \A s, t \in sales : s.id = t.id => s = t
    /\ \A l \in Walkers :
         /\ walk[l].pc \in {"idle", "find", "save", "sum", "load", "dropCard", "drop",
                            "exists", "flag", "increase"}
         /\ walk[l].pc = "save" <=> walk[l].upd # {}
         /\ walk[l].pc = "load" => walk[l].onSale > 0
    /\ sell.pc \in {"idle", "mark", "apply", "flags", "increase"}
    /\ \A r \in Requests : req[r].pc \in {"idle", "sum", "store", "delete", "exists", "flag"}

(* Live sales of a user on a card, in tokens.                              *)
LiveOn(c, u) ==
    MapThenSumSet(LAMBDA s : OrderData[s.order].n, {s \in SalesOf(c, u) : s.status = "sale"})

HeldBy(c, u) == IF cards[c] = NoCard THEN 0 ELSE AmountOf(cards[c].bal, u)

(* Whenever no handler is half-way, nobody has more tokens of a card on    *)
(* sale than the balances say they hold: the rule createSale checks, and   *)
(* the reason the listeners drop the sales of whoever let tokens go.       *)
NoOversell ==
    InFlight = 0 => \A c \in Cards, u \in Users : LiveOn(c, u) <= HeldBy(c, u)

(* Whenever no handler is half-way, hasSale, which the card lists filter   *)
(* on, tells whether the card has a sale one can buy.                      *)
HasSaleAccurate ==
    InFlight = 0 => \A c \in Cards : cards[c] # NoCard => (hasSale[c] <=> \E u \in Users : LiveOn(c, u) > 0)

(* When no listener is half-way through a block, the balances are those of *)
(* the chain up to the blocks each listener has consumed.                  *)
LedgerMirrored ==
    (sell.pc = "idle" /\ strays = {} /\ \A l \in Walkers : walk[l].pc = "idle")
        => \A c \in Cards, u \in Users : HeldBy(c, u) = HeldAt(cursor, c, u)

(* Outside of a save the amounts of a card add up to its totalSupply.      *)
SumMatchesTotal ==
    \A c \in Cards : cards[c] # NoCard => TotalOf(cards[c].bal) = cards[c].total

(* Each listener on its own keeps the books: typed documents, the balances *)
(* of the chain, and a total that is their sum.                            *)
LedgerSound == TypeOK /\ LedgerMirrored /\ SumMatchesTotal

(* A transfer or a burn drops the live sales of the owner only if what is  *)
(* left does not cover them.                                               *)
CoveredSalesKept ==
    \A l \in Walkers : walk[l].pc = "drop" =>
        LET live == LiveOn(Event(l).card, Event(l).from)
        IN  live > 0 => live > HeldBy(Event(l).card, Event(l).from)

(* It goes wrong in one case only, all handlers one after another: an      *)
(* owner who has sold some of the card, as the sold sale counts as on sale.*)
CoveredDropsFollowSold ==
    \A l \in Walkers : walk[l].pc = "drop" =>
        LET owned == SalesOf(Event(l).card, Event(l).from)
            live  == LiveOn(Event(l).card, Event(l).from)
        IN  \/ live = 0 \/ live > HeldBy(Event(l).card, Event(l).from)
            \/ \E s \in owned : s.status = "sold"

(* The transfer listener before a block that moves a card which is gone.   *)
Wedged ==
    /\ cursor["transfer"] <= Len(chain)
    /\ LET events == chain[cursor["transfer"]].transfer
       IN  \E i \in DOMAIN events : cards[events[i].card] = NoCard

(* Every block the subgraph has indexed is consumed by every listener,     *)
(* whatever VersionErrors the listeners give each other; only a transfer   *)
(* of a card that was burned in the meantime can stop one.                 *)
EveryBlockConsumed ==
    \A k \in 1..MaxBlocks, l \in Listeners :
        Len(chain) >= k ~> (cursor[l] > k \/ (l = "transfer" /\ Wedged))

-----------------------------------------------------------------------------
(* The saves that are computed and not yet sent.                           *)
Pending == UNION ({walk[l].upd : l \in Walkers} \cup {t.upd : t \in sell.tasks \cup strays})

EventAmounts ==
    {OrderData[o].n : o \in Orders}
      \cup (UNION {{blk.transfer[i].n : i \in DOMAIN blk.transfer} : blk \in Blocks})
      \cup (UNION {{blk.burn[i].n : i \in DOMAIN blk.burn} : blk \in Blocks})

(* This module has bounds of its own.                                      *)
Unhindered(doc, upd, underWay) == TRUE

(* All the handlers together only ever do to the collection what CardStore *)
(* allows its writers, so what is proved there holds here.                 *)
Store == INSTANCE CardStore WITH
    pending  <- Pending,
    Amounts  <- EventAmounts,
    NewCards <- {Genesis[c] : c \in Cards},
    Within   <- Unhindered

ImplementsStore == Store!Spec
=============================================================================
