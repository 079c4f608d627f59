----------------------------- MODULE ContractSync -----------------------------
(***************************************************************************)
(* syncContract, the one-off import of a contract (the seeds of database/) *)
(* while the marketplace runs.  It asks the subgraph for the tokens of the *)
(* contract, then, for all tokens at once, pages through the holders of    *)
(* each and overwrites the balances of its card; at last it deletes the    *)
(* cards the subgraph does not list, their sales and their files.          *)
(*                                                                         *)
(* Meanwhile tokens change hands on the chain, users put cards on sale and *)
(* the sell listener, which consumes the sells later than the subgraph     *)
(* knows of them, moves the balances of the same cards.  A sale is of one  *)
(* token.  Marketplace has the listeners in detail; here a sell is read    *)
(* and saved in two steps.  A holder is his address, a positive number in  *)
(* the order in which the subgraph lists them.                             *)
(***************************************************************************)
EXTENDS Integers, SequencesExt

CONSTANTS
    Tokens,         \* the tokens of the contract
    Holders,        \* addresses, positive numbers
    PageSize,       \* tokenBalancesLimit
    Registry,       \* the tokens the subgraph lists at first
    Databases,      \* the cards there may be at first
    Held,           \* token -> holder -> what he holds at first
    Sellers,        \* token -> the holders who have put one on sale at first
    Budgets         \* bounds: what a behaviour may have, one of these: imports (syncs), imports that
                    \* fail (failures), moves of the chain, sales, and readings of a client (reads)

ASSUME SyncAssumption ==
    /\ Tokens \subseteq Nat /\ IsFiniteSet(Tokens) /\ IsFiniteSet(Holders)
    /\ Holders \subseteq Nat \ {0} /\ PageSize \in Nat \ {0}
    /\ Registry \subseteq Tokens /\ Databases \subseteq SUBSET Tokens
    /\ Held \in [Tokens -> [Holders -> Nat]]
    /\ \A t \in Tokens : \E h \in Holders : Held[t][h] > 0  \* syncUsers rejects an empty list
    /\ Sellers \in [Tokens -> SUBSET Holders]
    /\ \A t \in Tokens : \A h \in Sellers[t] : Held[t][h] > 0  \* createSale checks it
    /\ Budgets \subseteq [syncs : Nat, failures : Nat, moves : Nat, sales : Nat, reads : Nat]

Nobody == 0     \* an entry of the balances without an owner
NoCard == [id |-> 0, balances |-> <<>>, hasSale |-> FALSE]

VARIABLES
    registry,   \* the tokens the subgraph lists
    held,       \* token -> holder -> amount, as the subgraph has it
    cards,      \* token -> its card or NoCard
    files,      \* the tokens whose files are in the storage
    collection, \* the collection of the contract is stored
    sales,      \* [num, card, user, status]
    sells,      \* the fills the sell listener has not consumed, in order
    apply,      \* the sell listener: [at, card, kind, balances, positions]
    req,        \* createSale: [at, card, user]
    sync,       \* syncContract: [at, list, tasks, unused]
    ids,        \* the last ids given, [card, sale]
    budget,     \* what is left of it
    unsettled,  \* history: token -> its card was read while its holders changed, or they changed since
    orphaned,   \* history: card ids whose sales nobody deletes any more
    exposed     \* history: cards an import left with more live sales of a holder, or one to be stored, than it names him for

chain   == <<registry, held>>
db      == <<cards, files, collection, sales, ids>>
history == <<unsettled, orphaned, exposed>>
vars    == <<chain, db, sells, apply, req, sync, budget, history>>

NoTask  == [at |-> "none", offset |-> 0, balances |-> <<>>, unsettled |-> FALSE]
NoSync  == [at |-> "idle", list |-> {}, tasks |-> [t \in Tokens |-> NoTask], unused |-> {}]
NoApply == [at |-> "idle", card |-> 0, kind |-> "set", balances |-> <<>>, positions |-> {}]
NoReq   == [at |-> "idle", card |-> 0, user |-> Nobody]

Entry(h, n) == [user |-> h, amount |-> n]

InOrder(S) == CHOOSE q \in [1..Cardinality(S) -> S] : \A i, j \in DOMAIN q : i < j => q[i] < q[j]

(* What the subgraph answers for a token: who holds some of it.            *)
HoldersOf(t) ==
    LET order == InOrder({h \in Holders : held[t][h] > 0})
    IN  [i \in DOMAIN order |-> Entry(order[i], held[t][order[i]])]

CardIds == {cards[t].id : t \in Tokens} \ {0}

CardIdAt(stored, t) == Cardinality({x \in stored : x <= t})

SalesAt(stored) ==
    LET on == SetToSeq({x \in stored \X Holders : x[2] \in Sellers[x[1]]})
    IN  {[num |-> i, card |-> CardIdAt(stored, on[i][1]), user |-> on[i][2], status |-> "sale"] :
            i \in DOMAIN on}

Init ==
    /\ registry = Registry
    /\ held = Held
    /\ \E stored \in Databases :
         /\ cards = [t \in Tokens |->
                       IF t \in stored
                       THEN [id |-> CardIdAt(stored, t), balances |-> HoldersOf(t), hasSale |-> Sellers[t] # {}]
                       ELSE NoCard]
         /\ files = stored
         /\ collection = (stored # {})
         /\ ids = [card |-> Cardinality(stored), sale |-> Cardinality(SalesAt(stored))]
         /\ sales = SalesAt(stored)
    /\ budget \in Budgets
    /\ sells = <<>> /\ apply = NoApply /\ req = NoReq /\ sync = NoSync
    /\ unsettled = [t \in Tokens |-> FALSE]
    /\ orphaned = {} /\ exposed = {}

-----------------------------------------------------------------------------
(* The chain, as the subgraph shows it (external).                         *)
TokenOf(id) == CHOOSE t \in Tokens : cards[t].id = id

(* A sell of the card is known to the subgraph and not applied, or         *)
(* half-way.                                                               *)
Pending(t) ==
    /\ cards[t] # NoCard
    /\ \/ \E i \in DOMAIN sells : sells[i].card = cards[t].id
       \/ apply.at = "save" /\ apply.card = cards[t].id

Reading(t) == sync.tasks[t].at \in {"balances", "store"}

Unsettle(t) ==
    /\ unsettled' = [unsettled EXCEPT ![t] = TRUE]
    /\ sync' = IF Reading(t) THEN [sync EXCEPT !.tasks[t].unsettled = TRUE] ELSE sync

ChainMoves(t, a, b) ==
    /\ budget.moves > 0
    /\ budget' = [budget EXCEPT !.moves = @ - 1]
    /\ a # b /\ held[t][a] > 0
    /\ held' = [held EXCEPT ![t][a] = @ - 1, ![t][b] = @ + 1]

(* A token changes hands outside the marketplace.                          *)
Transfer(t, a, b) ==
    /\ t \in registry
    /\ ChainMoves(t, a, b)
    /\ Unsettle(t)
    /\ UNCHANGED <<registry, db, sells, apply, req, orphaned, exposed>>

(* A buyer fills the order of a sale.                                      *)
Fill(s, b) ==
    /\ s \in sales /\ s.status = "sale" /\ s.card \in CardIds
    /\ \A i \in DOMAIN sells : sells[i].num # s.num
    /\ LET t == TokenOf(s.card)
       IN  /\ t \in registry
           /\ ChainMoves(t, s.user, b)
           /\ sync' = IF Reading(t) THEN [sync EXCEPT !.tasks[t].unsettled = TRUE] ELSE sync
    /\ sells' = Append(sells, [num |-> s.num, card |-> s.card, maker |-> s.user, taker |-> b])
    /\ UNCHANGED <<registry, db, apply, req, history>>

(* A token is minted, or the subgraph lists it no more.                    *)
RegistryMoves(t) ==
    /\ budget.moves > 0
    /\ budget' = [budget EXCEPT !.moves = @ - 1]
    /\ registry' = IF t \in registry THEN registry \ {t} ELSE registry \cup {t}
    /\ UNCHANGED <<held, db, sells, apply, req, sync, history>>

-----------------------------------------------------------------------------
(* createSale: the card is read and the balance checked, then the sale is  *)
(* stored and hasSale updated, whatever became of the card.                *)
OnSale(id, h) == Cardinality({s \in sales : s.card = id /\ s.user = h})

(* The first entry of a holder is the one that counts.                     *)
AmountOf(balances, h) ==
    LET at == {i \in DOMAIN balances : balances[i].user = h}
    IN  IF at = {} THEN 0 ELSE balances[Min(at)].amount

LiveSales(ss, id, h) == {s \in ss : s.card = id /\ s.user = h /\ s.status = "sale"}

(* Cards with more live sales of a holder than what he holds.              *)
Exposed(cs, ss) ==
    {cs[t].id : t \in {x \in Tokens : /\ cs[x] # NoCard
                                     /\ \E h \in Holders : Cardinality(LiveSales(ss, cs[x].id, h))
                                                            > AmountOf(cs[x].balances, h)}}

(* Mutant: what is on sale already is not taken off.                       *)
CheckSaleUncounted(t, h) ==
    /\ req.at = "idle" /\ budget.sales > 0
    /\ cards[t] # NoCard
    /\ AmountOf(cards[t].balances, h) >= 1
    /\ req' = [at |-> "store", card |-> cards[t].id, user |-> h]
    /\ budget' = [budget EXCEPT !.sales = @ - 1]
    /\ UNCHANGED <<chain, db, sells, apply, sync, history>>

CheckSale(t, h) ==
    /\ req.at = "idle" /\ budget.sales > 0
    /\ cards[t] # NoCard
    /\ AmountOf(cards[t].balances, h) - OnSale(cards[t].id, h) >= 1
    /\ req' = [at |-> "store", card |-> cards[t].id, user |-> h]
    /\ budget' = [budget EXCEPT !.sales = @ - 1]
    /\ UNCHANGED <<chain, db, sells, apply, sync, history>>

StoreSale ==
    /\ req.at = "store"
    /\ ids' = [ids EXCEPT !.sale = @ + 1]
    /\ sales' = sales \cup {[num |-> ids'.sale, card |-> req.card, user |-> req.user, status |-> "sale"]}
    /\ cards' = [t \in Tokens |-> IF cards[t].id = req.card THEN [cards[t] EXCEPT !.hasSale = TRUE]
                                                            ELSE cards[t]]
    /\ orphaned' = IF req.card \in CardIds THEN orphaned ELSE orphaned \cup {req.card}
    /\ req' = NoReq
    /\ UNCHANGED <<chain, files, collection, sells, apply, sync, budget, unsettled, exposed>>

-----------------------------------------------------------------------------
(* processSell, of one sell: the sale is sold and the card read; the card  *)
(* is saved, only what changed and by position; hasSale is looked up.      *)
LastEntry(balances, h) ==
    LET at == {i \in DOMAIN balances : balances[i].user = h}
    IN  IF at = {} THEN 0 ELSE CHOOSE i \in at : \A j \in at : j <= i

(* changeOwnerships, in memory.  The entry of the taker is credited where  *)
(* it is; the maker's goes once it is empty.                               *)
OwnersChanged(balances, maker, taker) ==
    LET m == LastEntry(balances, maker)
        k == LastEntry(balances, taker)
        debited  == [balances EXCEPT ![m].amount = @ - 1]
        credited == IF k = 0 THEN Append(debited, Entry(taker, 1))
                             ELSE [debited EXCEPT ![k].amount = @ + 1]
    IN  IF debited[m].amount <= 0 THEN RemoveAt(credited, m) ELSE credited

SoldOut(sell) ==
    sales' = {IF s.num = sell.num THEN [s EXCEPT !.status = "sold"] ELSE s : s \in sales}

SaveOf(sell, bal) ==
    LET m   == LastEntry(bal, sell.maker)
        k   == LastEntry(bal, sell.taker)
        new == OwnersChanged(bal, sell.maker, sell.taker)
    IN  IF m = 0 THEN [NoApply EXCEPT !.at = "flag", !.card = sell.card]
        ELSE [at |-> "save", card |-> sell.card,
              kind |-> IF k = 0 \/ Len(new) # Len(bal) THEN "replace" ELSE "set",
              balances |-> new, positions |-> {m, k}]

(* Mutant: the handler throws when the sale or the card is gone.           *)
ReadSoldThrows ==
    /\ apply.at = "idle" /\ sells # <<>>
    /\ LET sell == Head(sells)
       IN  /\ SoldOut(sell)
           /\ IF (\E s \in sales : s.num = sell.num) /\ sell.card \in CardIds
              THEN LET bal == cards[TokenOf(sell.card)].balances
                   IN  IF LastEntry(bal, Nobody) # 0 THEN UNCHANGED <<apply, sells>>
                       ELSE apply' = SaveOf(sell, bal) /\ sells' = Tail(sells)
              ELSE UNCHANGED <<apply, sells>>
    /\ UNCHANGED <<chain, cards, files, collection, ids, req, sync, budget, history>>

(* A sale or a card that is gone is passed over; an entry of nobody makes  *)
(* the handler throw, each time it is tried again.                         *)
ReadSold ==
    /\ apply.at = "idle" /\ sells # <<>>
    /\ LET sell == Head(sells)
       IN  /\ SoldOut(sell)
           /\ IF (\E s \in sales : s.num = sell.num) /\ sell.card \in CardIds
              THEN LET bal == cards[TokenOf(sell.card)].balances
                   IN  IF LastEntry(bal, Nobody) # 0 THEN UNCHANGED <<apply, sells>>
                       ELSE apply' = SaveOf(sell, bal) /\ sells' = Tail(sells)
              ELSE sells' = Tail(sells) /\ UNCHANGED apply
    /\ UNCHANGED <<chain, cards, files, collection, ids, req, sync, budget, history>>

(* A position beyond the end of the array becomes an entry of nobody.      *)
Saved(balances, upd) ==
    IF upd.kind = "replace" THEN upd.balances
    ELSE LET last == Max({Len(balances)} \cup upd.positions)
         IN  [i \in 1..last |->
                Entry(IF i <= Len(balances) THEN balances[i].user ELSE Nobody,
                      IF i \in upd.positions THEN upd.balances[i].amount
                      ELSE IF i <= Len(balances) THEN balances[i].amount ELSE 0)]

(* syncCard leaves __v alone, so the save is refused only when the card is *)
(* gone; the next try then passes over it.                                 *)
SaveSold ==
    /\ apply.at = "save"
    /\ cards' = [t \in Tokens |-> IF cards[t].id = apply.card
                                  THEN [cards[t] EXCEPT !.balances = Saved(@, apply)]
                                  ELSE cards[t]]
    /\ apply' = [NoApply EXCEPT !.at = "flag", !.card = apply.card]
    /\ UNCHANGED <<chain, files, collection, sales, ids, sells, req, sync, budget, history>>

ProcessHasSale ==
    /\ apply.at = "flag"
    /\ cards' = [t \in Tokens |->
                   IF cards[t].id = apply.card
                   THEN [cards[t] EXCEPT !.hasSale = \E s \in sales : s.card = apply.card /\ s.status = "sale"]
                   ELSE cards[t]]
    /\ apply' = NoApply
    /\ UNCHANGED <<chain, files, collection, sales, ids, sells, req, sync, budget, history>>

-----------------------------------------------------------------------------
(* syncContract.                                                           *)
TaskSet(t, task) == sync' = [sync EXCEPT !.tasks[t] = task]

(* getTokenWithMetadataListFetch.  A contract without tokens is an error   *)
(* before anything is written.                                             *)
FetchTokens ==
    /\ sync.at = "idle" /\ budget.syncs > 0
    /\ registry # {}
    /\ budget' = [budget EXCEPT !.syncs = @ - 1]
    /\ sync' = [NoSync EXCEPT !.at = "collection", !.list = registry]
    /\ UNCHANGED <<chain, db, sells, apply, req, history>>

(* The collection, and the task of every token: they run at once.          *)
FindOrCreateCollection ==
    /\ sync.at = "collection"
    /\ collection' = TRUE
    /\ sync' = [sync EXCEPT !.at = "cards",
                            !.tasks = [t \in Tokens |-> IF t \in sync.list THEN [NoTask EXCEPT !.at = "balances"]
                                                                          ELSE NoTask]]
    /\ UNCHANGED <<chain, cards, files, sales, ids, sells, apply, req, budget, history>>

(* The pages follow one another.                                           *)
NextOffset(offset) == offset + PageSize

(* storeFileFromUrl, then getAllBalancesByToken: pages, at the subgraph's  *)
(* head of the moment, up to an empty one.  syncUsers then makes a user of *)
(* every address.                                                          *)
ReadBalances(t) ==
    LET task == sync.tasks[t]
        all  == HoldersOf(t)
        page == SubSeq(all, task.offset + 1, Min({task.offset + PageSize, Len(all)}))
    IN  /\ task.at = "balances"
        /\ IF page = <<>> THEN TaskSet(t, [task EXCEPT !.at = "store"])
           ELSE TaskSet(t, [task EXCEPT !.offset = NextOffset(@), !.balances = @ \o page])
        /\ files' = files \cup {t}
        /\ UNCHANGED <<chain, cards, collection, sales, ids, sells, apply, req, budget, history>>

(* Mutant: only a card that is new gets its balances.                      *)
SyncedCardInsertOnly(t, balances) ==
    IF cards[t] = NoCard THEN [id |-> ids.card + 1, balances |-> balances, hasSale |-> FALSE] ELSE cards[t]

(* Upsert by tokenId: what the marketplace added to a card stays.          *)
SyncedCard(t, balances) ==
    IF cards[t] = NoCard THEN [id |-> ids.card + 1, balances |-> balances, hasSale |-> FALSE]
                         ELSE [cards[t] EXCEPT !.balances = balances]

SyncCard(t) ==
    LET task == sync.tasks[t]
    IN  /\ task.at = "store"
        /\ cards' = [cards EXCEPT ![t] = SyncedCard(t, task.balances)]
        /\ ids' = IF cards[t] = NoCard THEN [ids EXCEPT !.card = @ + 1] ELSE ids
        /\ unsettled' = [unsettled EXCEPT ![t] = task.unsettled \/ Pending(t)]
        /\ exposed' = IF \/ req.at = "store" /\ req.card = cards[t].id
                         \/ cards'[t].id \in Exposed(cards', sales)
                      THEN exposed \cup {cards'[t].id} ELSE exposed \ {cards'[t].id}
        /\ TaskSet(t, [NoTask EXCEPT !.at = "done"])
        /\ UNCHANGED <<chain, files, collection, sales, sells, apply, req, budget, orphaned>>

(* Mutant: the cards of the tokens that were listed.                       *)
UnusedListed(list) == {t \in list : cards[t] # NoCard}

UnusedCards(list) == {t \in Tokens \ list : cards[t] # NoCard}

(* getUnusedCardsByCollection, once every task is done.                    *)
GetUnusedCards ==
    /\ sync.at = "cards"
    /\ \A t \in sync.list : sync.tasks[t].at = "done"
    /\ LET unused == {[token |-> t, id |-> cards[t].id] : t \in UnusedCards(sync.list)}
       IN  sync' = [sync EXCEPT !.at = IF unused = {} THEN "done" ELSE "delete", !.unused = unused]
    /\ UNCHANGED <<chain, db, sells, apply, req, budget, history>>

DeleteCards ==
    /\ sync.at = "delete"
    /\ cards' = [t \in Tokens |-> IF cards[t].id \in {c.id : c \in sync.unused} THEN NoCard ELSE cards[t]]
    /\ sync' = [sync EXCEPT !.at = "sales"]
    /\ UNCHANGED <<chain, files, collection, sales, ids, sells, apply, req, budget, history>>

DeleteSalesByCardIds ==
    /\ sync.at = "sales"
    /\ sales' = {s \in sales : s.card \notin {c.id : c \in sync.unused}}
    /\ sync' = [sync EXCEPT !.at = "files"]
    /\ UNCHANGED <<chain, cards, files, collection, ids, sells, apply, req, budget, history>>

RemoveFiles ==
    /\ sync.at = "files"
    /\ files' = files \ {c.token : c \in sync.unused}
    /\ sync' = [sync EXCEPT !.at = "done"]
    /\ UNCHANGED <<chain, cards, collection, sales, ids, sells, apply, req, budget, history>>

SyncEnds ==
    /\ sync.at = "done"
    /\ sync' = NoSync
    /\ UNCHANGED <<chain, db, sells, apply, req, budget, history>>

(* Any call may be rejected; the process then exits, with all its tasks.   *)
SyncFails ==
    /\ sync.at \notin {"idle", "done"} /\ budget.failures > 0
    /\ budget' = [budget EXCEPT !.failures = @ - 1]
    /\ orphaned' = IF sync.at = "sales" THEN orphaned \cup {c.id : c \in sync.unused} ELSE orphaned
    /\ sync' = NoSync
    /\ UNCHANGED <<chain, db, sells, apply, req, unsettled, exposed>>

-----------------------------------------------------------------------------
SyncStep ==
    \/ FetchTokens \/ FindOrCreateCollection \/ GetUnusedCards
    \/ DeleteCards \/ DeleteSalesByCardIds \/ RemoveFiles \/ SyncEnds
    \/ \E t \in Tokens : ReadBalances(t) \/ SyncCard(t)

SellStep == ReadSold \/ SaveSold \/ ProcessHasSale

Next ==
    \/ \E t \in Tokens, a, b \in Holders : Transfer(t, a, b)
    \/ \E s \in sales, b \in Holders : Fill(s, b)
    \/ \E t \in Tokens : RegistryMoves(t)
    \/ \E t \in Tokens, h \in Holders : CheckSale(t, h)
    \/ StoreSale \/ SellStep \/ SyncStep \/ SyncFails

(* The import is a process that runs on and the sell listener is a         *)
(* scheduled function; users and the chain do what they like.              *)
Fairness == WF_vars(SyncStep) /\ WF_vars(SellStep)

Spec == Init /\ [][Next]_vars /\ Fairness

-----------------------------------------------------------------------------
TypeOK ==
    /\ registry \subseteq Tokens
    /\ held \in [Tokens -> [Holders -> Nat]]
    /\ \A t \in Tokens :
         /\ cards[t].id \in 0..ids.card /\ cards[t].hasSale \in BOOLEAN
         /\ cards[t].balances \in Seq([user : Holders \cup {Nobody}, amount : Nat])
         /\ \A x \in Tokens : cards[t].id = cards[x].id /\ cards[t] # NoCard => t = x
    /\ files \subseteq Tokens /\ collection \in BOOLEAN
    /\ \A s \in sales : s.num \in 1..ids.sale /\ s.card \in 1..ids.card /\ s.status \in {"sale", "sold"}
    /\ sync.at \in {"idle", "collection", "cards", "delete", "sales", "files", "done"}
    /\ \A t \in Tokens : sync.tasks[t].at \in {"none", "balances", "store", "done"}
    /\ apply.at \in {"idle", "save", "flag"} /\ req.at \in {"idle", "store"}

(* The hazard of an import of moving data: the pages of the holders are    *)
(* read one after another, the sells it has already seen are applied to    *)
(* what it wrote.  A card whose holders stood still while they were read,  *)
(* and moved only by sells that were filled later and have been applied,   *)
(* names exactly the holders the subgraph has.                             *)
Mirrored ==
    \A t \in Tokens : cards[t] # NoCard /\ ~unsettled[t] /\ ~Pending(t) =>
        LET bal == cards[t].balances
        IN  /\ Range(bal) = Range(HoldersOf(t))
            /\ Len(bal) = Len(HoldersOf(t))

(* A holder read on two pages would be listed twice, and an amount saved   *)
(* by position after an import shortened the array would be nobody's: both *)
(* only happen to a card that was read or overwritten in motion.           *)
BalancesWellFormed ==
    \A t \in Tokens : ~unsettled[t] =>
        LET bal == cards[t].balances
        IN  /\ \A i, j \in DOMAIN bal : bal[i].user = bal[j].user => i = j
            /\ \A i \in DOMAIN bal : bal[i].user # Nobody /\ bal[i].amount > 0

(* An import that gets through leaves the cards of the listed tokens, all  *)
(* of them and no other, with their files, whatever earlier imports left   *)
(* half-way.                                                               *)
SyncExact ==
    sync.at = "done" =>
        /\ {t \in Tokens : cards[t] # NoCard} = sync.list
        /\ sync.list \subseteq files /\ collection

(* The cards of an import go in one call and their sales in the next: a    *)
(* sale has its card, but for those in between, those a failure between    *)
(* the two left, and those stored after their card was gone.               *)
SalesHaveCards ==
    \A s \in sales :
        \/ s.card \in CardIds \cup orphaned
        \/ sync.at = "sales" /\ \E c \in sync.unused : c.id = s.card

(* An import overwrites balances and leaves the sales alone.  Nobody has   *)
(* more live sales of a card than he holds of it, but where an import took *)
(* the tokens from under them, or came between the check of a sale and its *)
(* store, and on cards that were imported in motion.                       *)
SalesCovered ==
    \A t \in Tokens : \A id \in Exposed(cards, sales) :
        cards[t].id = id => unsettled[t] \/ id \in exposed

(* The sell listener gets through its sells, unless it meets a card with   *)
(* an entry of nobody: that one stops it until the card is imported again. *)
Stuck == \E t \in Tokens : LastEntry(cards[t].balances, Nobody) # 0

SellsConsumed == []<>(sells = <<>> \/ Stuck)
=============================================================================
