------------------------------- MODULE CardLists -------------------------------
(***************************************************************************)
(* What a client is shown of the cards while ContractSync changes them: a  *)
(* list of cards, walked page by page, and the page of a card with its     *)
(* sales and free balances.  Both take two reads of the database, and the  *)
(* cards may change in between.                                            *)
(*                                                                         *)
(* getCardsList has two branches.  By default a page of cards is read and  *)
(* then counted.  Sorted by price, or for what a user has on sale, the ids *)
(* and their number come from the sales and the cards are read by id.      *)
(***************************************************************************)
EXTENDS ContractSync

CONSTANTS
    Lists,      \* the lists a client walks, of the kinds below
    Viewer,     \* the user in the query of the lists of a user
    PriceOf,    \* holder -> the price he sells at
    Limit       \* cards on a page

CardLists == {"all", "onSale", "held"}     \* no filter; sale=true; userId
SaleLists == {"byPrice", "listed"}         \* sortField=price; sale=true and userId

ASSUME ListsAssumption ==
    /\ Lists \subseteq CardLists \cup SaleLists
    /\ Viewer \in Holders /\ PriceOf \in [Holders -> Nat] /\ Limit \in Nat \ {0}

VARIABLES
    walk,   \* [at, list, offset, page, total, shown] and the history [start, entered, gone] of matches
    view    \* getUserCard: [at, card, user, balances, amount, free, sales] and the history moved: the
            \* card or its sales changed meanwhile

reader  == <<walk, view>>
allVars == <<vars, reader>>
NoWalk == [at |-> "idle", list |-> "all", offset |-> 0, page |-> <<>>, total |-> 0, shown |-> <<>>,
           start |-> {}, entered |-> {}, gone |-> {}]
NoView == [at |-> "idle", card |-> 0, user |-> Nobody, balances |-> <<>>, amount |-> 0,
           free |-> [h \in Holders |-> 0], sales |-> {}, moved |-> FALSE]

ListsInit == Init /\ walk = NoWalk /\ view = NoView

-----------------------------------------------------------------------------
(* The lists.  A match is a card and what the list is sorted by.           *)
Live(ss) == {s \in ss : s.status = "sale"}

Match(id, key) == [id |-> id, key |-> key]

(* getSearchQuery.                                                         *)
Find(list, cs) ==
    {Match(cs[t].id, 0) : t \in {x \in Tokens :
        /\ cs[x] # NoCard
        /\ list = "onSale" => cs[x].hasSale
        /\ list = "held" => \E i \in DOMAIN cs[x].balances : cs[x].balances[i].user = Viewer}}

(* getCardsIdsBySortingPrice: the sales that are not sold, of the viewer   *)
(* for his list, grouped by card, with the card looked up.                 *)
FindBySales(list, cs, ss) ==
    LET live == {s \in Live(ss) : list = "listed" => s.user = Viewer}
        on(id) == {s \in live : s.card = id}
    IN  {Match(id, IF list = "byPrice" THEN Min({PriceOf[s.user] : s \in on(id)}) ELSE 0) :
            id \in {s.card : s \in live} \cap {cs[t].id : t \in Tokens}}

Matches(list, cs, ss) == IF list \in CardLists THEN Find(list, cs) ELSE FindBySales(list, cs, ss)

(* By default the newest card comes first; the sales branch sorts up: by   *)
(* the lowest price, the order of equal ones being anything, or by the id. *)
Before(list, m, n) ==
    CASE list \in CardLists -> m.id > n.id
      [] list = "byPrice"   -> m.key < n.key
      [] list = "listed"    -> m.id < n.id

Sorted(list, matches) ==
    {q \in SetToSeqs(matches) : \A i, j \in DOMAIN q : Before(list, q[i], q[j]) => i < j}

(* Mutant: the offset is taken as one more.                                *)
PageOffByOne(q, offset) ==
    LET p == SubSeq(q, offset + 2, Min({offset + 1 + Limit, Len(q)})) IN [i \in DOMAIN p |-> p[i].id]

(* skip and limit, or $slice.                                              *)
Page(q, offset) ==
    LET p == SubSeq(q, offset + 1, Min({offset + Limit, Len(q)})) IN [i \in DOMAIN p |-> p[i].id]

-----------------------------------------------------------------------------
BeginWalk(list) ==
    /\ walk.at = "idle" /\ view.at = "idle" /\ budget.reads > 0
    /\ budget' = [budget EXCEPT !.reads = @ - 1]
    /\ walk' = [NoWalk EXCEPT !.at = "page", !.list = list, !.start = Matches(list, cards, sales)]
    /\ UNCHANGED <<chain, db, sells, apply, req, sync, history, view>>

(* The client asks for the next page until it has had the total.           *)
Deliver(page, total) ==
    walk' = [walk EXCEPT !.shown = @ \o page, !.page = <<>>, !.total = total, !.offset = @ + Limit,
                         !.at = IF walk.offset + Limit >= total THEN "ended" ELSE "page"]

GetCards ==
    /\ walk.at = "page" /\ walk.list \in CardLists
    /\ \E q \in Sorted(walk.list, Find(walk.list, cards)) :
         walk' = [walk EXCEPT !.at = "count", !.page = Page(q, walk.offset)]
    /\ UNCHANGED <<vars, view>>

GetCardsCount ==
    /\ walk.at = "count"
    /\ Deliver(walk.page, Cardinality(Find(walk.list, cards)))
    /\ UNCHANGED <<vars, view>>

GetCardsIdsBySortingPrice ==
    /\ walk.at = "page" /\ walk.list \in SaleLists
    /\ LET matches == FindBySales(walk.list, cards, sales)
       IN  \E q \in Sorted(walk.list, matches) :
             walk' = [walk EXCEPT !.at = "cards", !.page = Page(q, walk.offset),
                                  !.total = Cardinality(matches)]
    /\ UNCHANGED <<vars, view>>

(* Mutant: the balance of the user is taken to be the first.               *)
ShowsFirst(balances, h) == balances # <<>> /\ balances[1].user = h

(* CardBlockDto looks for the balance of the user in the query and throws  *)
(* when there is none, or an entry of nobody comes first.  In the list of  *)
(* what he holds the cards come with the entry that made them match, and   *)
(* entries of nobody are at the end.                                       *)
Shows(balances, h) ==
    \E i \in DOMAIN balances : balances[i].user = h /\ \A j \in 1..i : balances[j].user # Nobody

(* The ids whose cards are still there, in their order.                    *)
StillThere(page) ==
    LET at == InOrder({i \in DOMAIN page : page[i] \in CardIds}) IN [j \in DOMAIN at |-> page[at[j]]]

(* One that cannot be shown fails the page.                                *)
GetCardsByIds ==
    /\ walk.at = "cards"
    /\ LET there == StillThere(walk.page)
       IN  IF walk.list = "listed" /\ \E id \in Range(there) : ~Shows(cards[TokenOf(id)].balances, Viewer)
           THEN walk' = [walk EXCEPT !.at = "failed"]
           ELSE Deliver(there, walk.total)
    /\ UNCHANGED <<vars, view>>

WalkEnds ==
    /\ walk.at \in {"ended", "failed"}
    /\ walk' = NoWalk
    /\ UNCHANGED <<vars, view>>

-----------------------------------------------------------------------------
(* getUserCard: the card, what the user has beyond his sales, of whatever  *)
(* status, and then the listings: the live sales and what every holder has *)
(* beyond his.                                                             *)
GetCard(t, h) ==
    /\ walk.at = "idle" /\ view.at = "idle" /\ budget.reads > 0
    /\ cards[t] # NoCard
    /\ budget' = [budget EXCEPT !.reads = @ - 1]
    /\ view' = [NoView EXCEPT !.at = "balance", !.card = cards[t].id, !.user = h,
                              !.balances = cards[t].balances]
    /\ UNCHANGED <<chain, db, sells, apply, req, sync, history, walk>>

(* A user without an entry is not found; an entry of nobody makes it throw. *)
FindBalanceByUserId ==
    /\ view.at = "balance"
    /\ view' = IF AmountOf(view.balances, view.user) = 0 \/ LastEntry(view.balances, Nobody) # 0 THEN NoView
               ELSE [view EXCEPT !.at = "listings",
                                 !.amount = AmountOf(view.balances, view.user) - OnSale(view.card, view.user)]
    /\ UNCHANGED <<vars, walk>>

EntriesOf(balances, h) == {i \in DOMAIN balances : balances[i].user = h}

(* Mutant: nothing is taken off for the sales.                             *)
FreeAll(balances, live, h) == MapThenSumSet(LAMBDA i : balances[i].amount, EntriesOf(balances, h))

(* Entries of which nothing is left are not shown.                         *)
Free(balances, live, h) ==
    LET n == Cardinality({s \in live : s.user = h})
    IN  MapThenSumSet(LAMBDA i : Max({0, balances[i].amount - n}), EntriesOf(balances, h))

GetListingsByCard ==
    /\ view.at = "listings"
    /\ LET live == {s \in Live(sales) : s.card = view.card}
       IN  view' = [view EXCEPT !.at = "shown", !.sales = live,
                                !.free = [h \in Holders |-> Free(view.balances, live, h)]]
    /\ UNCHANGED <<vars, walk>>

ViewEnds ==
    /\ view.at = "shown"
    /\ view' = NoView
    /\ UNCHANGED <<vars, walk>>

-----------------------------------------------------------------------------
(* History: what entered and left the list while it was walked; whether    *)
(* the card on view changed.                                               *)
CardAt(cs, id) == {cs[t].balances : t \in {x \in Tokens : cs[x].id = id}}
SalesAtCard(ss, id) == {s \in ss : s.card = id}

Track ==
    /\ walk' = IF walk.at \notin {"page", "count", "cards"} THEN walk
               ELSE LET was == Matches(walk.list, cards, sales)
                        now == Matches(walk.list, cards', sales')
                    IN  [walk EXCEPT !.entered = @ \cup (now \ was), !.gone = @ \cup (was \ now)]
    /\ view' = IF view.at \notin {"balance", "listings"} THEN view
               ELSE [view EXCEPT !.moved = @ \/ CardAt(cards', view.card) # CardAt(cards, view.card)
                                             \/ SalesAtCard(sales', view.card) # SalesAtCard(sales, view.card)]

ReadStep ==
    \/ GetCards \/ GetCardsCount \/ GetCardsIdsBySortingPrice \/ GetCardsByIds \/ WalkEnds
    \/ FindBalanceByUserId \/ GetListingsByCard \/ ViewEnds

ListsNext ==
    \/ Next /\ Track
    \/ \E list \in Lists : BeginWalk(list)
    \/ \E t \in Tokens, h \in Holders : GetCard(t, h)
    \/ ReadStep

(* A request runs on; a client that has begun a list walks to its end.     *)
ListsSpec == ListsInit /\ [][ListsNext]_allVars /\ WF_allVars(SyncStep /\ Track)
             /\ WF_allVars(SellStep /\ Track) /\ WF_allVars(ReadStep)

-----------------------------------------------------------------------------
ListsTypeOK ==
    /\ walk.at \in {"idle", "page", "count", "cards", "ended", "failed"}
    /\ walk.list \in Lists \cup {"all"} /\ walk.offset \in Nat /\ walk.total \in Nat
    /\ Range(walk.page) \cup Range(walk.shown) \subseteq 1..ids.card
    /\ view.at \in {"idle", "balance", "listings", "shown"}
    /\ view.card \in 0..ids.card /\ view.free \in [Holders -> Nat]

(* Two matches the sort does not tell apart.                               *)
Tied(m, n) == m # n /\ ~Before(walk.list, m, n) /\ ~Before(walk.list, n, m)

(* The hazard of a walk by offset: a card that matched all along is only   *)
(* missed when one that was ahead of it, or level with it, left the list,  *)
(* or when another had its price all along.                                *)
NothingMissed ==
    walk.at = "ended" => \A m \in walk.start \ walk.gone :
        \/ m.id \in Range(walk.shown)
        \/ \E n \in walk.gone : ~Before(walk.list, m, n)
        \/ \E n \in walk.start \cup walk.entered : Tied(m, n)

(* It is only shown twice when one came into the list, or to another place *)
(* in it, that is not behind it, or when another had its price.            *)
NothingTwice ==
    walk.at = "ended" => \A i, j \in DOMAIN walk.shown : i < j /\ walk.shown[i] = walk.shown[j] =>
        \E m \in {x \in walk.start \cup walk.entered : x.id = walk.shown[i]} :
            \/ \E n \in walk.entered : ~Before(walk.list, m, n)
            \/ \E n \in walk.start : Tied(m, n)

(* The list of what a user has on sale fails on a card that does not name  *)
(* him.  That only happens when the card was sold between the two reads,   *)
(* or an import took his balance and left his sale, or met the card in     *)
(* motion.                                                                 *)
ListFailsOnlyUncovered ==
    [][walk.at # "failed" /\ walk'.at = "failed" =>
         \A id \in Range(walk.page) \cap CardIds : ~Shows(cards[TokenOf(id)].balances, Viewer) =>
            \/ \E m \in walk.gone : m.id = id
            \/ id \in exposed \/ unsettled[TokenOf(id)]]_allVars

(* The page of a card adds up: its live sales and what its holders have    *)
(* beyond them make the balances, and a user is not told that he can sell  *)
(* more than the page shows as free, when nothing changed between the      *)
(* reads and no import exposed the card or met it in motion.               *)
AddsUp(shown) ==
    /\ MapThenSumSet(LAMBDA h : shown.free[h], Holders) + Cardinality(shown.sales)
         = MapThenSumSet(LAMBDA i : shown.balances[i].amount, DOMAIN shown.balances)
    /\ shown.amount <= shown.free[shown.user]

ListingsAddUp ==
    [][view.at # "shown" /\ view'.at = "shown" /\ ~view'.moved /\ view'.card \notin exposed
       /\ (\A t \in Tokens : cards[t].id = view'.card => ~unsettled[t]) => AddsUp(view')]_allVars

(* A card imported at rest is the token the chain has.                     *)
ImportMirrors == TypeOK /\ Mirrored /\ BalancesWellFormed

(* A live sale is backed by a card, and by a balance on it.                *)
SalesBacked == SalesHaveCards /\ SalesCovered

(* Whoever walks a list to its end has seen what was there all along, once.*)
WalkComplete == ListsTypeOK /\ NothingMissed /\ NothingTwice
=============================================================================
