--------------------------- MODULE CardLists_proofs ---------------------------
(***************************************************************************)
(* An import of a contract, and the walks of the lists and the page of a   *)
(* card, for any tokens, holders, databases and budgets and whatever the   *)
(* marketplace and the chain do meanwhile.                                 *)
(***************************************************************************)
EXTENDS CardLists, FiniteSetTheorems, SequenceTheorems, WellFoundedInduction, TLAPS

(* A card is known by its id: no two have the same, and none has the 0 of  *)
(* NoCard.  Whoever holds an id holds one that was given.                  *)
CardsInv ==
    /\ DOMAIN ids = {"card", "sale"} /\ ids.card \in Nat
    /\ DOMAIN cards = Tokens
    /\ \A t \in Tokens : DOMAIN cards[t] = {"id", "balances", "hasSale"}
    /\ \A t \in Tokens : cards[t] # NoCard => cards[t].id \in 1..ids.card
    /\ \A t, x \in Tokens : cards[t] # NoCard /\ cards[t].id = cards[x].id => t = x

HandlesInv ==
    /\ req.at = "store" => req.card \in 1..ids.card
    /\ apply.at # "idle" => apply.card \in 1..ids.card

(* A listed token whose task is done has its card and its files; once all  *)
(* are, the unused cards are those not listed, and in the end none is left.*)
TaskInv ==
    /\ DOMAIN sync = {"at", "list", "tasks", "unused"} /\ DOMAIN sync.tasks = Tokens
    /\ registry \subseteq Tokens /\ sync.list \subseteq Tokens
    /\ \A t \in Tokens :
         /\ DOMAIN sync.tasks[t] = {"at", "offset", "balances", "unsettled"}
         /\ sync.tasks[t].at \in {"none", "balances", "store", "done"}
         /\ sync.tasks[t].at # "none" => t \in sync.list
         /\ sync.tasks[t].at \in {"balances", "store"} => sync.at = "cards"
         /\ sync.tasks[t].at \in {"store", "done"} => t \in files
         /\ sync.tasks[t].at = "done" => cards[t] # NoCard

UnusedInv ==
    /\ sync.at \in {"cards", "delete", "sales", "files", "done"} => collection
    /\ sync.at \in {"delete", "sales", "files", "done"} =>
         \A t \in sync.list : sync.tasks[t].at = "done"
    /\ \A c \in sync.unused : c.token \in Tokens \ sync.list /\ c.id \in 1..ids.card
    /\ sync.at = "delete" => /\ \A c \in sync.unused : cards[c.token].id = c.id
                             /\ \A t \in Tokens \ sync.list : cards[t] # NoCard =>
                                  \E c \in sync.unused : c.id = cards[t].id
    /\ sync.at \in {"sales", "files", "done"} =>
         \A t \in Tokens \ sync.list : cards[t] = NoCard

SyncInv == CardsInv /\ HandlesInv /\ TaskInv /\ UnusedInv

-----------------------------------------------------------------------------
(* The ids of the first cards: the number of stored tokens up to this one. *)
LEMMA FirstIds ==
    ASSUME NEW stored, IsFiniteSet(stored), stored \subseteq Nat
    PROVE  /\ Cardinality(stored) \in Nat
           /\ \A t \in stored : CardIdAt(stored, t) \in 1..Cardinality(stored)
           /\ \A t, x \in stored : CardIdAt(stored, t) = CardIdAt(stored, x) => t = x
<1> DEFINE upTo(t) == {x \in stored : x <= t}
<1>1. \A S \in SUBSET stored : IsFiniteSet(S) /\ Cardinality(S) \in Nat
  BY FS_Subset, FS_CardinalityType
<1>2. Cardinality(stored) \in Nat
  BY FS_CardinalityType
<1>3. ASSUME NEW t \in stored
      PROVE  CardIdAt(stored, t) \in 1..Cardinality(stored)
  <2>1. upTo(t) \subseteq stored /\ upTo(t) # {}
    OBVIOUS
  <2>2. IsFiniteSet(upTo(t)) /\ Cardinality(upTo(t)) \in Nat
    BY <1>1, <2>1
  <2>3. Cardinality(upTo(t)) # 0
    BY <2>1, <2>2, FS_EmptySet
  <2>4. Cardinality(upTo(t)) <= Cardinality(stored)
    BY <2>1, FS_Subset
  <2> QED BY <1>2, <2>2, <2>3, <2>4 DEF CardIdAt
<1>4. ASSUME NEW t \in stored, NEW x \in stored, t < x
      PROVE  CardIdAt(stored, t) # CardIdAt(stored, x)
  <2>1. upTo(t) \subseteq upTo(x) /\ x \in upTo(x) /\ x \notin upTo(t)
    <3>1. \A a, b, c \in Nat : (a <= b /\ b < c => a <= c) /\ (a < b => ~(b <= a) /\ b <= b)
      OBVIOUS
    <3> QED BY <1>4, <3>1
  <2>2. IsFiniteSet(upTo(x))
    BY <1>1
  <2>3. Cardinality(upTo(t)) = Cardinality(upTo(x)) => upTo(t) = upTo(x)
    BY <2>1, <2>2, FS_Subset
  <2> QED BY <2>1, <2>3 DEF CardIdAt
<1> QED BY <1>2, <1>3, <1>4

LEMMA SyncInit == Init => SyncInv
<1> SUFFICES ASSUME Init PROVE SyncInv
  OBVIOUS
<1>1. PICK stored \in Databases :
        /\ cards = [t \in Tokens |->
                      IF t \in stored
                      THEN [id |-> CardIdAt(stored, t), balances |-> HoldersOf(t), hasSale |-> Sellers[t] # {}]
                      ELSE NoCard]
        /\ ids = [card |-> Cardinality(stored), sale |-> Cardinality(SalesAt(stored))]
  BY DEF Init
<1>2. stored \subseteq Tokens /\ stored \subseteq Nat /\ IsFiniteSet(stored)
  BY SyncAssumption, FS_Subset
<1> DEFINE n == Cardinality(stored)
<1>3. /\ n \in Nat
      /\ \A t \in stored : CardIdAt(stored, t) \in 1..n
      /\ \A t, x \in stored : CardIdAt(stored, t) = CardIdAt(stored, x) => t = x
  BY <1>2, FirstIds
<1>4. DOMAIN ids = {"card", "sale"} /\ ids.card = n
  BY <1>1
<1>5. /\ \A t \in stored : cards[t].id = CardIdAt(stored, t) /\ DOMAIN cards[t] = {"id", "balances", "hasSale"}
      /\ \A t \in Tokens \ stored : cards[t] = NoCard
      /\ DOMAIN cards = Tokens
  BY <1>1, <1>2
<1>6. DOMAIN NoCard = {"id", "balances", "hasSale"} /\ NoCard.id = 0
  BY DEF NoCard
<1>7. CardsInv
  BY <1>3, <1>4, <1>5, <1>6 DEF CardsInv
<1>8. HandlesInv
  BY DEF Init, HandlesInv, NoReq, NoApply
<1>9. TaskInv /\ UnusedInv
  BY SyncAssumption DEF Init, TaskInv, UnusedInv, NoSync, NoTask
<1> QED BY <1>7, <1>8, <1>9 DEF SyncInv

-----------------------------------------------------------------------------
(* What a step of a reader leaves alone: everything but the budget.        *)
imported == <<chain, db, sells, apply, req, sync, history>>

LEMMA ListsStep == [ListsNext]_allVars => Next \/ UNCHANGED imported
BY DEF ListsNext, allVars, reader, vars, imported, BeginWalk, GetCard, ReadStep, GetCards,
       GetCardsCount, GetCardsIdsBySortingPrice, GetCardsByIds, WalkEnds, FindBalanceByUserId,
       GetListingsByCard, ViewEnds

(* A step that keeps every card under its id.                              *)
SameCards ==
    /\ ids'.card = ids.card /\ DOMAIN ids' = {"card", "sale"} /\ DOMAIN cards' = Tokens
    /\ \A t \in Tokens : /\ cards[t] = NoCard => cards'[t] = NoCard
                         /\ cards'[t].id = cards[t].id
                         /\ DOMAIN cards'[t] = {"id", "balances", "hasSale"}

LEMMA CardThere ==
    ASSUME CardsInv, NEW t \in Tokens
    PROVE  cards[t] = NoCard <=> cards[t].id = 0
BY DEF CardsInv, NoCard

LEMMA SameThere ==
    ASSUME CardsInv, SameCards
    PROVE  /\ CardsInv'
           /\ \A t \in Tokens : cards'[t] = NoCard <=> cards[t] = NoCard
<1>1. \A t \in Tokens : cards'[t] = NoCard <=> cards[t] = NoCard
  BY CardThere DEF SameCards, NoCard
<1> QED BY <1>1 DEF CardsInv, SameCards

LEMMA SameImport ==
    ASSUME SyncInv, SameCards, HandlesInv', registry' \subseteq Tokens,
           UNCHANGED <<files, collection>>,
           \/ sync' = sync
           \/ \E t \in Tokens : sync' = [sync EXCEPT !.tasks[t].unsettled = TRUE]
    PROVE  SyncInv'
<1>1. CardsInv' /\ \A t \in Tokens : cards'[t] = NoCard <=> cards[t] = NoCard
  BY SameThere DEF SyncInv
<1>2. /\ DOMAIN sync' = DOMAIN sync /\ DOMAIN sync'.tasks = DOMAIN sync.tasks
      /\ sync'.at = sync.at /\ sync'.list = sync.list /\ sync'.unused = sync.unused
      /\ \A t \in Tokens : /\ sync'.tasks[t].at = sync.tasks[t].at
                           /\ DOMAIN sync'.tasks[t] = DOMAIN sync.tasks[t]
  BY DEF SyncInv, TaskInv
<1>3. TaskInv'
  BY <1>1, <1>2 DEF SyncInv, TaskInv
<1>4. UnusedInv'
  BY <1>1, <1>2 DEF SyncInv, TaskInv, UnusedInv, SameCards
<1> QED BY <1>1, <1>3, <1>4 DEF SyncInv

LEMMA SyncReader ==
    ASSUME SyncInv, UNCHANGED imported
    PROVE  SyncInv'
BY DEF imported, chain, db, history, SyncInv, CardsInv, HandlesInv, TaskInv, UnusedInv

LEMMA CardsStay ==
    ASSUME CardsInv, UNCHANGED <<cards, ids>>
    PROVE  SameCards
BY DEF CardsInv, SameCards

LEMMA OneChanged ==
    ASSUME CardsInv, NEW id \in 1..ids.card, NEW f,
           cards' = [t \in Tokens |-> IF cards[t].id = id THEN f[t] ELSE cards[t]],
           \A t \in Tokens : f[t].id = cards[t].id /\ DOMAIN f[t] = DOMAIN cards[t],
           DOMAIN ids' = DOMAIN ids, ids'.card = ids.card
    PROVE  SameCards
<1>1. id # 0
  BY DEF CardsInv
<1>2. \A t \in Tokens : cards[t] = NoCard => cards'[t] = NoCard
  BY <1>1 DEF NoCard
<1> QED BY <1>2 DEF CardsInv, SameCards

(* The chain, and who checks a sale.                                       *)
LEMMA SyncChain ==
    ASSUME SyncInv,
           \/ \E t \in Tokens, a, b \in Holders : Transfer(t, a, b)
           \/ \E s \in sales, b \in Holders : Fill(s, b)
           \/ \E t \in Tokens : RegistryMoves(t)
           \/ \E t \in Tokens, h \in Holders : CheckSale(t, h)
    PROVE  SyncInv'
<1>1. UNCHANGED <<cards, ids, files, collection>>
  BY DEF Transfer, Fill, RegistryMoves, CheckSale, db
<1>2. SameCards
  BY <1>1, CardsStay DEF SyncInv
<1>3. ASSUME NEW t \in Tokens, NEW h \in Holders, CheckSale(t, h) PROVE SyncInv'
  <2>1. req'.card = cards[t].id /\ cards[t] # NoCard
        /\ UNCHANGED <<registry, sync, apply>>
    BY <1>3 DEF CheckSale, chain
  <2>2. HandlesInv'
    BY <1>1, <2>1 DEF HandlesInv, SyncInv, CardsInv
  <2> QED BY <1>1, <1>2, <2>1, <2>2, SameImport DEF SyncInv, TaskInv
<1>4. ASSUME UNCHANGED <<req, apply>> PROVE HandlesInv'
  BY <1>1, <1>4 DEF HandlesInv, SyncInv
<1>5. ASSUME NEW t \in Tokens, NEW a \in Holders, NEW b \in Holders, Transfer(t, a, b)
      PROVE  SyncInv'
  <2>1. /\ registry' = registry /\ UNCHANGED <<req, apply>>
        /\ sync' = sync \/ sync' = [sync EXCEPT !.tasks[t].unsettled = TRUE]
    BY <1>5 DEF Transfer, Unsettle
  <2> QED BY <1>1, <1>2, <1>4, <2>1, SameImport DEF SyncInv, TaskInv
<1>6. ASSUME NEW s \in sales, NEW b \in Holders, Fill(s, b) PROVE SyncInv'
  <2> DEFINE t == TokenOf(s.card)
  <2>1. /\ registry' = registry /\ UNCHANGED <<req, apply>> /\ t \in registry
        /\ sync' = sync \/ sync' = [sync EXCEPT !.tasks[t].unsettled = TRUE]
    BY <1>6 DEF Fill
  <2>2. t \in Tokens
    BY <2>1 DEF SyncInv, TaskInv
  <2> HIDE DEF t
  <2> QED BY <1>1, <1>2, <1>4, <2>1, <2>2, SameImport DEF SyncInv, TaskInv
<1>7. ASSUME NEW t \in Tokens, RegistryMoves(t) PROVE SyncInv'
  <2>1. UNCHANGED <<req, apply, sync>> /\ registry' \subseteq Tokens
    BY <1>7 DEF RegistryMoves, SyncInv, TaskInv
  <2> QED BY <1>1, <1>2, <1>4, <2>1, SameImport
<1> QED BY <1>3, <1>5, <1>6, <1>7

(* A sale is stored; the sell listener.  They change a card they have the  *)
(* id of, if it is there.                                                  *)
LEMMA SyncSales ==
    ASSUME SyncInv, StoreSale \/ SellStep
    PROVE  SyncInv'
<1>1. UNCHANGED <<registry, files, collection, sync>>
  BY DEF StoreSale, SellStep, ReadSold, SaveSold, ProcessHasSale, chain
<1>2. CASE StoreSale
  <2>1. /\ req.card \in 1..ids.card /\ req' = NoReq /\ apply' = apply
        /\ cards' = [t \in Tokens |-> IF cards[t].id = req.card THEN [cards[t] EXCEPT !.hasSale = TRUE]
                                                              ELSE cards[t]]
        /\ ids' = [ids EXCEPT !.sale = @ + 1]
    BY <1>2 DEF StoreSale, SyncInv, HandlesInv
  <2> DEFINE f == [t \in Tokens |-> [cards[t] EXCEPT !.hasSale = TRUE]]
  <2>2. SameCards
    <3>1. \A t \in Tokens : f[t].id = cards[t].id /\ DOMAIN f[t] = DOMAIN cards[t]
      BY DEF SyncInv, CardsInv
    <3>2. cards' = [t \in Tokens |-> IF cards[t].id = req.card THEN f[t] ELSE cards[t]]
      BY <2>1
    <3>3. DOMAIN ids' = DOMAIN ids /\ ids'.card = ids.card
      BY <2>1 DEF SyncInv, CardsInv
    <3> HIDE DEF f
    <3> QED BY <2>1, <3>1, <3>2, <3>3, OneChanged DEF SyncInv
  <2>3. HandlesInv'
    BY <2>1, <2>2 DEF SyncInv, HandlesInv, SameCards, NoReq
  <2> QED BY <1>1, <2>2, <2>3, SameImport DEF SyncInv, TaskInv
<1>3. CASE ReadSold
  <2>1. UNCHANGED <<cards, ids, req>>
    BY <1>3 DEF ReadSold
  <2>2. apply' = apply \/ apply'.card \in CardIds
    <3> DEFINE sell == Head(sells)
               bal  == cards[TokenOf(sell.card)].balances
    <3>1. apply' = apply \/ (sell.card \in CardIds /\ apply' = SaveOf(sell, bal))
      BY <1>3 DEF ReadSold
    <3>2. \A x : SaveOf(sell, x).card = sell.card
      BY DEF SaveOf, NoApply
    <3> HIDE DEF sell, bal
    <3> QED BY <3>1, <3>2
  <2>3. CardIds \subseteq 1..ids.card
    BY CardThere DEF CardIds, SyncInv, CardsInv, NoCard
  <2>4. HandlesInv'
    BY <2>1, <2>2, <2>3 DEF SyncInv, HandlesInv
  <2>5. SameCards
    BY <2>1, CardsStay DEF SyncInv
  <2> QED BY <1>1, <2>4, <2>5, SameImport DEF SyncInv, TaskInv
<1>4. CASE SaveSold
  <2>1. /\ apply.card \in 1..ids.card /\ req' = req /\ ids' = ids
        /\ cards' = [t \in Tokens |-> IF cards[t].id = apply.card
                                     THEN [cards[t] EXCEPT !.balances = Saved(@, apply)]
                                     ELSE cards[t]]
        /\ apply'.card = apply.card
    BY <1>4 DEF SaveSold, SyncInv, HandlesInv, NoApply
  <2> DEFINE f == [t \in Tokens |-> [cards[t] EXCEPT !.balances = Saved(@, apply)]]
  <2>2. SameCards
    <3>1. \A t \in Tokens : f[t].id = cards[t].id /\ DOMAIN f[t] = DOMAIN cards[t]
      BY DEF SyncInv, CardsInv
    <3>2. cards' = [t \in Tokens |-> IF cards[t].id = apply.card THEN f[t] ELSE cards[t]]
      BY <2>1
    <3> HIDE DEF f
    <3> QED BY <2>1, <3>1, <3>2, OneChanged DEF SyncInv
  <2>3. HandlesInv'
    BY <2>1, <2>2 DEF SyncInv, HandlesInv, SameCards
  <2> QED BY <1>1, <2>2, <2>3, SameImport DEF SyncInv, TaskInv
<1>5. CASE ProcessHasSale
  <2> DEFINE hs == \E s \in sales : s.card = apply.card /\ s.status = "sale"
  <2>1. /\ apply.card \in 1..ids.card /\ req' = req /\ ids' = ids
        /\ cards' = [t \in Tokens |-> IF cards[t].id = apply.card
                                     THEN [cards[t] EXCEPT !.hasSale = hs]
                                     ELSE cards[t]]
        /\ apply' = NoApply
    BY <1>5 DEF ProcessHasSale, SyncInv, HandlesInv
  <2> HIDE DEF hs
  <2> DEFINE f == [t \in Tokens |-> [cards[t] EXCEPT !.hasSale = hs]]
  <2>2. SameCards
    <3>1. \A t \in Tokens : f[t].id = cards[t].id /\ DOMAIN f[t] = DOMAIN cards[t]
      BY DEF SyncInv, CardsInv
    <3>2. cards' = [t \in Tokens |-> IF cards[t].id = apply.card THEN f[t] ELSE cards[t]]
      BY <2>1
    <3> HIDE DEF f
    <3> QED BY <2>1, <3>1, <3>2, OneChanged DEF SyncInv
  <2>3. HandlesInv'
    BY <2>1, <2>2 DEF SyncInv, HandlesInv, SameCards, NoApply
  <2> QED BY <1>1, <2>2, <2>3, SameImport DEF SyncInv, TaskInv
<1> QED BY <1>2, <1>3, <1>4, <1>5 DEF SellStep

-----------------------------------------------------------------------------
(* The import.  A task works while the cards are imported.                 *)
LEMMA ImportStarts ==
    ASSUME SyncInv, FetchTokens \/ FindOrCreateCollection \/ SyncEnds \/ SyncFails
    PROVE  SyncInv'
<1>1. UNCHANGED <<registry, cards, files, ids, req, apply>>
  BY DEF FetchTokens, FindOrCreateCollection, SyncEnds, SyncFails, chain, db
<1>2. CardsInv' /\ HandlesInv'
  BY <1>1 DEF SyncInv, CardsInv, HandlesInv
<1>3. CASE FetchTokens
  <2>1. sync' = [NoSync EXCEPT !.at = "collection", !.list = registry]
    BY <1>3 DEF FetchTokens
  <2>2. TaskInv' /\ UnusedInv'
    BY <1>1, <2>1 DEF TaskInv, UnusedInv, NoSync, NoTask, SyncInv
  <2> QED BY <1>2, <2>2 DEF SyncInv
<1>4. CASE FindOrCreateCollection
  <2> DEFINE busy  == [NoTask EXCEPT !.at = "balances"]
             tasks == [t \in Tokens |-> IF t \in sync.list THEN busy ELSE NoTask]
  <2>1. /\ sync.at = "collection" /\ collection'
        /\ sync' = [sync EXCEPT !.at = "cards", !.tasks = tasks]
    BY <1>4 DEF FindOrCreateCollection
  <2>2. /\ busy.at = "balances" /\ DOMAIN busy = {"at", "offset", "balances", "unsettled"}
        /\ NoTask.at = "none" /\ DOMAIN NoTask = {"at", "offset", "balances", "unsettled"}
    BY DEF NoTask
  <2> HIDE DEF busy
  <2>3. /\ DOMAIN tasks = Tokens
        /\ \A t \in Tokens : (tasks[t] = busy /\ t \in sync.list) \/ tasks[t] = NoTask
    OBVIOUS
  <2> HIDE DEF tasks
  <2>4. /\ sync'.at = "cards" /\ sync'.tasks = tasks /\ DOMAIN sync' = DOMAIN sync
        /\ sync'.list = sync.list /\ sync'.unused = sync.unused
    BY <2>1 DEF SyncInv, TaskInv
  <2>5. TaskInv'
    BY <1>1, <2>2, <2>3, <2>4 DEF TaskInv, SyncInv
  <2>6. UnusedInv'
    BY <1>1, <2>1, <2>4 DEF UnusedInv, SyncInv
  <2> QED BY <1>2, <2>5, <2>6 DEF SyncInv
<1>5. CASE SyncEnds \/ SyncFails
  <2>1. sync' = NoSync
    BY <1>5 DEF SyncEnds, SyncFails
  <2>2. TaskInv' /\ UnusedInv'
    BY <1>1, <2>1 DEF TaskInv, UnusedInv, NoSync, NoTask, SyncInv
  <2> QED BY <1>2, <2>2 DEF SyncInv
<1> QED BY <1>3, <1>4, <1>5

(* A page of the holders.                                                  *)
LEMMA ImportReads ==
    ASSUME SyncInv, NEW t \in Tokens, ReadBalances(t)
    PROVE  SyncInv'
<1> DEFINE task == sync.tasks[t]
<1>1. PICK w : /\ task.at = "balances" /\ sync' = [sync EXCEPT !.tasks[t] = w]
               /\ w.at \in {"balances", "store"}
               /\ DOMAIN w = {"at", "offset", "balances", "unsettled"}
  <2> DEFINE all  == HoldersOf(t)
             page == SubSeq(all, task.offset + 1, Min({task.offset + PageSize, Len(all)}))
             u    == [task EXCEPT !.at = "store"]
             v    == [task EXCEPT !.offset = NextOffset(@), !.balances = @ \o page]
  <2>1. task.at = "balances" /\ DOMAIN task = {"at", "offset", "balances", "unsettled"}
    BY DEF ReadBalances, SyncInv, TaskInv
  <2>2. \/ sync' = [sync EXCEPT !.tasks[t] = u]
        \/ sync' = [sync EXCEPT !.tasks[t] = v]
    BY DEF ReadBalances, TaskSet
  <2>3. /\ u.at = "store" /\ DOMAIN u = DOMAIN task
        /\ v.at = "balances" /\ DOMAIN v = DOMAIN task
    BY <2>1
  <2> HIDE DEF u, v, page
  <2> QED BY <2>1, <2>2, <2>3
<1>2. /\ files' = files \cup {t}
      /\ UNCHANGED <<registry, cards, collection, ids, req, apply>>
  BY DEF ReadBalances, chain
<1>3. CardsInv' /\ HandlesInv'
  BY <1>2 DEF SyncInv, CardsInv, HandlesInv
<1>4. /\ DOMAIN sync' = DOMAIN sync /\ DOMAIN sync'.tasks = Tokens
      /\ sync'.at = sync.at /\ sync'.list = sync.list /\ sync'.unused = sync.unused
      /\ sync'.tasks[t] = w /\ \A x \in Tokens \ {t} : sync'.tasks[x] = sync.tasks[x]
  BY <1>1 DEF SyncInv, TaskInv
<1>5. t \in sync.list /\ sync.at = "cards"
  BY <1>1 DEF SyncInv, TaskInv
<1>6. TaskInv'
  BY <1>1, <1>2, <1>4, <1>5 DEF SyncInv, TaskInv
<1>7. UnusedInv'
  BY <1>2, <1>4, <1>5 DEF SyncInv, UnusedInv
<1> QED BY <1>3, <1>6, <1>7 DEF SyncInv

(* A card is stored; a new one gets an id of its own.                      *)
LEMMA ImportStores ==
    ASSUME SyncInv, NEW t \in Tokens, SyncCard(t)
    PROVE  SyncInv'
<1> DEFINE c == SyncedCard(t, sync.tasks[t].balances)
           w == [NoTask EXCEPT !.at = "done"]
<1>1. /\ sync.tasks[t].at = "store" /\ cards' = [cards EXCEPT ![t] = c]
      /\ ids' = IF cards[t] = NoCard THEN [ids EXCEPT !.card = @ + 1] ELSE ids
      /\ sync' = [sync EXCEPT !.tasks[t] = w]
      /\ UNCHANGED <<registry, files, collection, req, apply>>
  BY DEF SyncCard, TaskSet, chain
<1>2. w.at = "done" /\ DOMAIN w = {"at", "offset", "balances", "unsettled"}
  BY DEF NoTask
<1> HIDE DEF w
<1>3. /\ DOMAIN sync' = DOMAIN sync /\ DOMAIN sync'.tasks = Tokens
      /\ sync'.at = sync.at /\ sync'.list = sync.list /\ sync'.unused = sync.unused
      /\ sync'.tasks[t] = w /\ \A x \in Tokens \ {t} : sync'.tasks[x] = sync.tasks[x]
  BY <1>1 DEF SyncInv, TaskInv
<1>4. t \in sync.list /\ sync.at = "cards"
  BY <1>1 DEF SyncInv, TaskInv
<1>5. /\ DOMAIN c = {"id", "balances", "hasSale"}
      /\ c.id = IF cards[t] = NoCard THEN ids.card + 1 ELSE cards[t].id
  BY DEF SyncedCard, SyncInv, CardsInv
<1> HIDE DEF c
<1>6. /\ ids'.card \in Nat /\ ids.card <= ids'.card /\ DOMAIN ids' = DOMAIN ids
      /\ ids'.card = IF cards[t] = NoCard THEN ids.card + 1 ELSE ids.card
  BY <1>1 DEF SyncInv, CardsInv
<1>7. /\ DOMAIN cards' = Tokens /\ cards'[t] = c
      /\ \A x \in Tokens \ {t} : cards'[x] = cards[x]
  BY <1>1 DEF SyncInv, CardsInv
<1>8. c # NoCard /\ c.id \in 1..ids'.card /\ \A x \in Tokens \ {t} : c.id # cards[x].id
  <2>1. CASE cards[t] = NoCard
    <3>1. \A x \in Tokens : cards[x].id \in 0..ids.card
      BY DEF SyncInv, CardsInv, NoCard
    <3> QED BY <1>5, <1>6, <2>1, <3>1 DEF SyncInv, CardsInv, NoCard
  <2>2. CASE cards[t] # NoCard
    BY <1>5, <1>6, <2>2 DEF SyncInv, CardsInv, NoCard
  <2> QED BY <2>1, <2>2
<1>9. \A n : n \in 1..ids.card => n \in 1..ids'.card
  BY <1>6 DEF SyncInv, CardsInv
<1>10. CardsInv'
  <2>1. \A x \in Tokens : cards'[x] # NoCard => cards'[x].id \in 1..ids'.card
    BY <1>7, <1>8, <1>9 DEF SyncInv, CardsInv
  <2>2. \A x, y \in Tokens : cards'[x] # NoCard /\ cards'[x].id = cards'[y].id => x = y
    BY <1>7, <1>8 DEF SyncInv, CardsInv
  <2> QED BY <1>5, <1>6, <1>7, <2>1, <2>2 DEF SyncInv, CardsInv
<1>11. HandlesInv'
  BY <1>1, <1>9 DEF SyncInv, HandlesInv
<1>12. TaskInv'
  BY <1>1, <1>2, <1>3, <1>4, <1>7, <1>8 DEF SyncInv, TaskInv
<1>13. UnusedInv'
  BY <1>1, <1>3, <1>4, <1>9 DEF SyncInv, UnusedInv
<1> QED BY <1>10, <1>11, <1>12, <1>13 DEF SyncInv

(* The unused cards are those of the tokens that are not listed.           *)
LEMMA ImportUnused ==
    ASSUME SyncInv, GetUnusedCards
    PROVE  SyncInv'
<1> DEFINE unused == {[token |-> t, id |-> cards[t].id] : t \in UnusedCards(sync.list)}
<1>1. /\ sync.at = "cards" /\ \A t \in sync.list : sync.tasks[t].at = "done"
      /\ sync' = [sync EXCEPT !.at = IF unused = {} THEN "done" ELSE "delete", !.unused = unused]
      /\ UNCHANGED <<registry, cards, files, collection, ids, req, apply>>
  BY DEF GetUnusedCards, chain, db
<1>2. /\ \A c \in unused : /\ c.token \in Tokens \ sync.list /\ c.id \in 1..ids.card
                           /\ cards[c.token].id = c.id
      /\ \A t \in Tokens \ sync.list : cards[t] # NoCard =>
            \E c \in unused : c.id = cards[t].id
  <2>1. ASSUME NEW t \in UnusedCards(sync.list)
        PROVE  t \in Tokens \ sync.list /\ cards[t].id \in 1..ids.card
    BY DEF UnusedCards, SyncInv, CardsInv
  <2>2. ASSUME NEW t \in Tokens \ sync.list, cards[t] # NoCard
        PROVE  \E c \in unused : c.id = cards[t].id
    <3>1. [token |-> t, id |-> cards[t].id] \in unused
      BY <2>2 DEF UnusedCards
    <3> QED BY <3>1
  <2> QED BY <2>1, <2>2
<1> HIDE DEF unused
<1>3. /\ DOMAIN sync' = DOMAIN sync /\ sync'.tasks = sync.tasks /\ sync'.list = sync.list
      /\ sync'.unused = unused /\ sync'.at = IF unused = {} THEN "done" ELSE "delete"
  BY <1>1 DEF SyncInv, TaskInv
<1>4. CardsInv' /\ HandlesInv'
  BY <1>1 DEF SyncInv, CardsInv, HandlesInv
<1>5. TaskInv'
  <2>1. \A t \in Tokens : sync.tasks[t].at \notin {"balances", "store"}
    BY <1>1 DEF SyncInv, TaskInv
  <2> QED BY <1>1, <1>3, <2>1 DEF SyncInv, TaskInv
<1>6. UnusedInv'
  BY <1>1, <1>2, <1>3 DEF SyncInv, UnusedInv
<1> QED BY <1>4, <1>5, <1>6 DEF SyncInv

(* They go, with their sales and files; the listed ones are others.        *)
LEMMA ImportDeletes ==
    ASSUME SyncInv, DeleteCards
    PROVE  SyncInv'
<1> DEFINE gone == {c.id : c \in sync.unused}
<1>1. /\ sync.at = "delete" /\ sync' = [sync EXCEPT !.at = "sales"]
      /\ cards' = [t \in Tokens |-> IF cards[t].id \in gone THEN NoCard ELSE cards[t]]
      /\ UNCHANGED <<registry, files, collection, ids, req, apply>>
  BY DEF DeleteCards, chain
<1>2. ASSUME NEW t \in sync.list PROVE cards'[t] = cards[t]
  <2>1. t \in Tokens
    BY DEF SyncInv, TaskInv
  <2>2. ASSUME NEW c \in sync.unused PROVE c.id # cards[t].id
    <3>1. cards[c.token].id = c.id /\ c.token # t /\ c.token \in Tokens /\ c.id # 0
      BY <1>1 DEF SyncInv, UnusedInv, CardsInv
    <3>2. cards[c.token] # NoCard
      BY <3>1 DEF NoCard
    <3> QED BY <2>1, <3>1, <3>2 DEF SyncInv, CardsInv
  <2> QED BY <1>1, <2>1, <2>2
<1>3. \A t \in Tokens \ sync.list : cards'[t] = NoCard
  BY <1>1 DEF SyncInv, UnusedInv
<1>4. /\ DOMAIN cards' = Tokens
      /\ \A t \in Tokens : cards'[t] = NoCard \/ cards'[t] = cards[t]
  BY <1>1
<1>5. CardsInv'
  <2>1. \A t \in Tokens : DOMAIN cards'[t] = {"id", "balances", "hasSale"}
    BY <1>4 DEF SyncInv, CardsInv, NoCard
  <2>2. \A t \in Tokens : cards'[t] # NoCard => cards'[t].id \in 1..ids.card
    BY <1>4 DEF SyncInv, CardsInv
  <2>3. \A t, x \in Tokens : cards'[t] # NoCard /\ cards'[t].id = cards'[x].id => t = x
    BY <1>4, <2>2 DEF SyncInv, CardsInv, NoCard
  <2> QED BY <1>1, <1>4, <2>1, <2>2, <2>3 DEF SyncInv, CardsInv
<1>6. HandlesInv'
  BY <1>1 DEF SyncInv, HandlesInv
<1>7. /\ DOMAIN sync' = DOMAIN sync /\ sync'.tasks = sync.tasks /\ sync'.list = sync.list
      /\ sync'.unused = sync.unused /\ sync'.at = "sales"
  BY <1>1 DEF SyncInv, TaskInv
<1>8. TaskInv'
  BY <1>1, <1>2, <1>7 DEF SyncInv, TaskInv
<1>9. UnusedInv'
  BY <1>1, <1>3, <1>7 DEF SyncInv, UnusedInv
<1> QED BY <1>5, <1>6, <1>8, <1>9 DEF SyncInv

LEMMA ImportCleans ==
    ASSUME SyncInv, DeleteSalesByCardIds \/ RemoveFiles
    PROVE  SyncInv'
<1>1. /\ UNCHANGED <<registry, cards, collection, ids, req, apply>>
      /\ \/ sync.at = "sales" /\ sync' = [sync EXCEPT !.at = "files"] /\ files' = files
         \/ /\ sync.at = "files" /\ sync' = [sync EXCEPT !.at = "done"]
            /\ files' = files \ {c.token : c \in sync.unused}
  BY DEF DeleteSalesByCardIds, RemoveFiles, chain
<1>2. /\ DOMAIN sync' = DOMAIN sync /\ sync'.tasks = sync.tasks /\ sync'.list = sync.list
      /\ sync'.unused = sync.unused /\ sync'.at \in {"files", "done"}
      /\ sync.at \in {"sales", "files"}
  BY <1>1 DEF SyncInv, TaskInv
<1>3. \A t \in sync.list : t \in files => t \in files'
  BY <1>1 DEF SyncInv, UnusedInv
<1>4. CardsInv' /\ HandlesInv'
  BY <1>1 DEF SyncInv, CardsInv, HandlesInv
<1>5. TaskInv'
  BY <1>1, <1>2, <1>3 DEF SyncInv, TaskInv
<1>6. UnusedInv'
  BY <1>1, <1>2 DEF SyncInv, UnusedInv
<1> QED BY <1>4, <1>5, <1>6 DEF SyncInv

LEMMA SyncNext == SyncInv /\ [ListsNext]_allVars => SyncInv'
<1> SUFFICES ASSUME SyncInv, [ListsNext]_allVars PROVE SyncInv'
  OBVIOUS
<1>1. CASE UNCHANGED imported
  BY <1>1, SyncReader
<1>2. CASE Next
  <2>1. CASE SyncStep \/ SyncFails
    BY <2>1, ImportStarts, ImportReads, ImportStores, ImportUnused, ImportDeletes, ImportCleans
       DEF SyncStep
  <2>2. CASE StoreSale \/ SellStep
    BY <2>2, SyncSales
  <2> QED BY <1>2, <2>1, <2>2, SyncChain DEF Next
<1> QED BY <1>1, <1>2, ListsStep

(* An import that gets through leaves exactly the cards of the tokens that *)
(* were listed when it began, with their files and the collection,         *)
(* whatever is sold, moved, listed anew or failed before: the cards a      *)
(* failed import left half-way are imported or deleted.                    *)
THEOREM ImportsEndExact == ListsSpec => []SyncExact
<1>1. ListsInit => SyncInv
  BY SyncInit DEF ListsInit
<1>2. SyncInv => SyncExact
  BY DEF SyncInv, TaskInv, UnusedInv, SyncExact
<1> QED BY <1>1, <1>2, SyncNext, PTL DEF ListsSpec
-----------------------------------------------------------------------------
(* Sets of numbers, sequences and balances.                                *)
(* The ranks of a finite set of numbers are the numbers up to its size,    *)
(* and go up with it.                                                      *)
LEMMA Ranks ==
    ASSUME NEW S, IsFiniteSet(S), S \subseteq Nat
    PROVE  /\ \A t, x \in S : CardIdAt(S, t) < CardIdAt(S, x) <=> t < x
           /\ \A n \in 1..Cardinality(S) : \E t \in S : CardIdAt(S, t) = n
<1> DEFINE rank == [t \in S |-> CardIdAt(S, t)]
           n    == Cardinality(S)
<1>1. /\ n \in Nat
      /\ \A t \in S : CardIdAt(S, t) \in 1..n
      /\ \A t, x \in S : CardIdAt(S, t) = CardIdAt(S, x) => t = x
  BY FirstIds
<1>2. ASSUME NEW t \in S, NEW x \in S, t <= x
      PROVE  CardIdAt(S, t) <= CardIdAt(S, x)
  <2>1. {y \in S : y <= t} \subseteq {y \in S : y <= x}
    <3>1. \A a, b, c \in Nat : a <= b /\ b <= c => a <= c
      OBVIOUS
    <3> QED BY <1>2, <3>1
  <2>2. IsFiniteSet({y \in S : y <= x})
    BY FS_Subset
  <2> QED BY <2>1, <2>2, FS_Subset DEF CardIdAt
<1>3. ASSUME NEW t \in S, NEW x \in S
      PROVE  CardIdAt(S, t) < CardIdAt(S, x) <=> t < x
  <2>1. t \in Nat /\ x \in Nat /\ CardIdAt(S, t) \in Nat /\ CardIdAt(S, x) \in Nat
    BY <1>1
  <2>2. t <= x => CardIdAt(S, t) <= CardIdAt(S, x)
    BY <1>2
  <2>3. x <= t => CardIdAt(S, x) <= CardIdAt(S, t)
    BY <1>2
  <2>4. CardIdAt(S, t) = CardIdAt(S, x) => t = x
    BY <1>1
  <2> QED BY <2>1, <2>2, <2>3, <2>4
<1>4. rank \in Injection(S, 1..n)
  BY <1>1 DEF Injection, IsInjective
<1>5. IsFiniteSet(1..n) /\ Cardinality(1..n) = n
  BY <1>1, FS_Interval
<1>6. rank \in Surjection(S, 1..n)
  BY <1>4, <1>5, FS_Injection
<1>7. \A k \in 1..n : \E t \in S : CardIdAt(S, t) = k
  BY <1>6 DEF Surjection
<1> QED BY <1>3, <1>7

(* It has a greatest element, unless it is empty.                          *)
LEMMA Greatest ==
    ASSUME NEW S, IsFiniteSet(S), S \subseteq Nat, S # {}
    PROVE  \E m \in S : \A x \in S : x <= m
<1>1. Cardinality(S) \in Nat /\ \A t \in S : CardIdAt(S, t) \in 1..Cardinality(S)
  BY FirstIds
<1>2. Cardinality(S) \in 1..Cardinality(S)
  BY <1>1, FS_EmptySet
<1>3. PICK m \in S : CardIdAt(S, m) = Cardinality(S)
  BY <1>2, Ranks
<1>4. ASSUME NEW x \in S PROVE x <= m
  <2>1. ~(CardIdAt(S, m) < CardIdAt(S, x))
    BY <1>1, <1>3
  <2>2. ~(m < x)
    BY <2>1, Ranks
  <2>3. m \in Nat /\ x \in Nat
    OBVIOUS
  <2> QED BY <2>2, <2>3
<1> QED BY <1>4

(* A finite set of numbers in order: each of them once.                    *)
LEMMA Ordered ==
    ASSUME NEW S, IsFiniteSet(S), S \subseteq Nat
    PROVE  /\ Cardinality(S) \in Nat
           /\ InOrder(S) \in [1..Cardinality(S) -> S]
           /\ \A i, j \in 1..Cardinality(S) : InOrder(S)[i] = InOrder(S)[j] => i = j
           /\ \A x \in S : \E i \in 1..Cardinality(S) : InOrder(S)[i] = x
<1> DEFINE n == Cardinality(S)
           p == [i \in 1..n |-> CHOOSE t \in S : CardIdAt(S, t) = i]
           q == InOrder(S)
<1>1. n \in Nat /\ \A t \in S : CardIdAt(S, t) \in 1..n
  BY FirstIds
<1>2. \A i \in 1..n : p[i] \in S /\ CardIdAt(S, p[i]) = i
  BY Ranks
<1>3. p \in [1..n -> S] /\ DOMAIN p = 1..n
  BY <1>2
<1>4. \A i, j \in DOMAIN p : i < j => p[i] < p[j]
  <2> HIDE DEF p
  <2>1. ASSUME NEW i \in 1..n, NEW j \in 1..n, i < j PROVE p[i] < p[j]
    <3>1. p[i] \in S /\ p[j] \in S /\ CardIdAt(S, p[i]) < CardIdAt(S, p[j])
      BY <1>2, <2>1
    <3> QED BY <3>1, Ranks
  <2> QED BY <2>1, <1>3
<1>5. q \in [1..n -> S] /\ \A i, j \in DOMAIN q : i < j => q[i] < q[j]
  <2> HIDE DEF p
  <2> QED BY <1>3, <1>4 DEF InOrder
<1> HIDE DEF p, q
<1>6. DOMAIN q = 1..n /\ \A i \in 1..n : q[i] \in Nat
  BY <1>5
<1>7. \A i, j \in 1..n : q[i] = q[j] => i = j
  <2>1. ASSUME NEW i \in 1..n, NEW j \in 1..n, i < j PROVE q[i] # q[j]
    <3>1. q[i] < q[j] /\ q[i] \in Nat
      BY <1>5, <1>6, <2>1
    <3> QED BY <3>1
  <2> HIDE DEF n
  <2> QED BY <2>1, <1>1
<1>8. q \in Injection(1..n, S)
  BY <1>5, <1>6, <1>7 DEF Injection, IsInjective
<1>9. IsFiniteSet(1..n) /\ Cardinality(1..n) = n
  BY <1>1, FS_Interval
<1>10. q \in Surjection(1..n, S)
  BY <1>8, <1>9, FS_Injection
<1>11. \A x \in S : \E i \in 1..n : q[i] = x
  BY <1>10 DEF Surjection
<1> QED BY <1>1, <1>5, <1>7, <1>11 DEF q

LEMMA UpTo ==
    ASSUME NEW n \in Nat
    PROVE  IsFiniteSet(1..n) /\ Cardinality(1..n) = n
BY FS_Interval

(* A function on 1..n is a sequence.                                       *)
LEMMA FunctionIsSeq ==
    ASSUME NEW S, NEW n \in Nat, NEW f \in [1..n -> S]
    PROVE  f \in Seq(S) /\ Len(f) = n /\ DOMAIN f = 1..n
OBVIOUS

LEMMA SeqIsFunction ==
    ASSUME NEW S, NEW s \in Seq(S)
    PROVE  s = [i \in 1..Len(s) |-> s[i]]
OBVIOUS

(* The balances of a card: loosely, as an import or a save in motion may   *)
(* leave them; and tidily, a holder in one entry, with something in it.    *)
Loose == Seq([user : Holders \cup {Nobody}, amount : Nat])

Tidy(b) ==
    /\ b \in Seq([user : Holders, amount : Nat \ {0}])
    /\ \A i, j \in DOMAIN b : b[i].user = b[j].user => i = j

LEMMA LooseEntries ==
    ASSUME NEW b \in Loose
    PROVE  /\ Len(b) \in Nat /\ DOMAIN b = 1..Len(b)
           /\ \A i \in 1..Len(b) : /\ b[i] \in [user : Holders \cup {Nobody}, amount : Nat]
                                   /\ b[i].user \in Holders \cup {Nobody} /\ b[i].amount \in Nat
                                   /\ b[i] = Entry(b[i].user, b[i].amount)
           /\ \A h : \/ LastEntry(b, h) = 0 /\ \A i \in 1..Len(b) : b[i].user # h
                     \/ LastEntry(b, h) \in 1..Len(b) /\ b[LastEntry(b, h)].user = h
<1>1. Len(b) \in Nat /\ DOMAIN b = 1..Len(b)
  BY LenProperties DEF Loose
<1>2. \A i \in 1..Len(b) : b[i] \in [user : Holders \cup {Nobody}, amount : Nat]
  BY <1>1, ElementOfSeq DEF Loose
<1>3. ASSUME NEW h
      PROVE  \/ LastEntry(b, h) = 0 /\ \A i \in 1..Len(b) : b[i].user # h
             \/ LastEntry(b, h) \in 1..Len(b) /\ b[LastEntry(b, h)].user = h
  <2> DEFINE at == {i \in DOMAIN b : b[i].user = h}
  <2>1. CASE at = {}
    <3>1. LastEntry(b, h) = 0
      BY <2>1 DEF LastEntry
    <3> QED BY <1>1, <2>1, <3>1
  <2>2. CASE at # {}
    <3>1. IsFiniteSet(at) /\ at \subseteq Nat
      <4>1. IsFiniteSet(1..Len(b))
        BY <1>1, FS_Interval
      <4>2. at \subseteq 1..Len(b)
        BY <1>1
      <4> QED BY <1>1, <4>1, <4>2, FS_Subset
    <3> HIDE DEF at
    <3>2. \E m \in at : \A x \in at : x <= m
      BY <2>2, <3>1, Greatest
    <3>3. (CHOOSE i \in at : \A j \in at : j <= i) \in at
      BY <3>2
    <3>4. LastEntry(b, h) = CHOOSE i \in at : \A j \in at : j <= i
      BY <2>2 DEF LastEntry, at
    <3> QED BY <1>1, <3>3, <3>4 DEF at
  <2> QED BY <2>1, <2>2
<1>4. \A i \in 1..Len(b) : b[i] = Entry(b[i].user, b[i].amount)
  BY <1>2 DEF Entry
<1> QED BY <1>1, <1>2, <1>3, <1>4

LEMMA TidyIsLoose ==
    ASSUME NEW b, Tidy(b)
    PROVE  b \in Loose
<1>1. [user : Holders, amount : Nat \ {0}] \subseteq [user : Holders \cup {Nobody}, amount : Nat]
  OBVIOUS
<1> QED BY <1>1, SeqMonotonic DEF Tidy, Loose

(* Then the first entry of a holder is the last, and the only one.         *)
LEMMA TidyEntries ==
    ASSUME NEW b, Tidy(b)
    PROVE  /\ Len(b) \in Nat /\ DOMAIN b = 1..Len(b)
           /\ \A i \in 1..Len(b) : /\ b[i].user \in Holders /\ b[i].amount \in Nat \ {0}
                                   /\ AmountOf(b, b[i].user) = b[i].amount
                                   /\ LastEntry(b, b[i].user) = i
           /\ \A h : \/ /\ LastEntry(b, h) = 0 /\ AmountOf(b, h) = 0
                        /\ \A i \in 1..Len(b) : b[i].user # h
                     \/ /\ LastEntry(b, h) \in 1..Len(b) /\ b[LastEntry(b, h)].user = h
                        /\ AmountOf(b, h) = b[LastEntry(b, h)].amount /\ AmountOf(b, h) \in Nat \ {0}
           /\ \A h : AmountOf(b, h) \in Nat
           /\ LastEntry(b, Nobody) = 0
<1>1. Len(b) \in Nat /\ DOMAIN b = 1..Len(b)
  BY TidyIsLoose, LooseEntries
<1>2. \A i \in 1..Len(b) : b[i].user \in Holders /\ b[i].amount \in Nat \ {0}
  <2>1. \A i \in 1..Len(b) : b[i] \in [user : Holders, amount : Nat \ {0}]
    BY <1>1, ElementOfSeq DEF Tidy
  <2> QED BY <2>1
<1>3. ASSUME NEW i \in 1..Len(b)
      PROVE  AmountOf(b, b[i].user) = b[i].amount /\ LastEntry(b, b[i].user) = i
  <2> DEFINE at == {j \in DOMAIN b : b[j].user = b[i].user}
  <2>1. at = {i}
    BY <1>1 DEF Tidy
  <2>2. (CHOOSE x \in {i} : \A j \in {i} : j <= x) = i
    <3>1. i <= i
      BY <1>1
    <3> QED BY <3>1
  <2>3. Min({i}) = i
    BY <1>1 DEF Min
  <2>4. AmountOf(b, b[i].user) = IF at = {} THEN 0 ELSE b[Min(at)].amount
    BY DEF AmountOf
  <2>5. LastEntry(b, b[i].user) = IF at = {} THEN 0 ELSE CHOOSE x \in at : \A j \in at : j <= x
    BY DEF LastEntry
  <2> HIDE DEF at
  <2> QED BY <2>1, <2>2, <2>3, <2>4, <2>5
<1>4. ASSUME NEW h
      PROVE  \/ /\ LastEntry(b, h) = 0 /\ AmountOf(b, h) = 0
                /\ \A i \in 1..Len(b) : b[i].user # h
             \/ /\ LastEntry(b, h) \in 1..Len(b) /\ b[LastEntry(b, h)].user = h
                /\ AmountOf(b, h) = b[LastEntry(b, h)].amount /\ AmountOf(b, h) \in Nat \ {0}
  <2>1. CASE \A i \in 1..Len(b) : b[i].user # h
    <3>1. {i \in DOMAIN b : b[i].user = h} = {}
      BY <1>1, <2>1
    <3> QED BY <2>1, <3>1 DEF LastEntry, AmountOf
  <2>2. CASE \E i \in 1..Len(b) : b[i].user = h
    BY <1>2, <1>3, <2>2
  <2> QED BY <2>1, <2>2
<1>5. LastEntry(b, Nobody) = 0
  <2>1. Nobody \notin Holders
    BY SyncAssumption DEF Nobody
  <2> QED BY <1>2, <1>4, <2>1
<1> QED BY <1>1, <1>2, <1>3, <1>4, <1>5

(* What the balances of a card say of every holder.                        *)
Amounts(b) == [h \in Holders |-> AmountOf(b, h)]

Moved(f, a, b) == [h \in Holders |-> IF h = a THEN f[h] - 1 ELSE IF h = b THEN f[h] + 1 ELSE f[h]]

(* The answer of the subgraph is tidy, and says what the chain has.        *)
LEMMA HoldersAreTidy ==
    ASSUME NEW t \in Tokens, held[t] \in [Holders -> Nat]
    PROVE  Tidy(HoldersOf(t)) /\ Amounts(HoldersOf(t)) = held[t]
<1> DEFINE S == {h \in Holders : held[t][h] > 0}
           n == Cardinality(S)
           q == InOrder(S)
           b == HoldersOf(t)
<1>1. IsFiniteSet(S) /\ S \subseteq Nat /\ S \subseteq Holders
  BY SyncAssumption, FS_Subset
<1>2. /\ n \in Nat /\ q \in [1..n -> S]
      /\ \A i, j \in 1..n : q[i] = q[j] => i = j
      /\ \A x \in S : \E i \in 1..n : q[i] = x
  <2> HIDE DEF S
  <2> QED BY <1>1, Ordered
<1>3. b = [i \in 1..n |-> Entry(q[i], held[t][q[i]])]
  <2>1. DOMAIN q = 1..n
    BY <1>2
  <2> QED BY <2>1 DEF HoldersOf
<1>4. \A h \in S : held[t][h] \in Nat \ {0}
  OBVIOUS
<1>5. \A h \in Holders \ S : held[t][h] = 0
  OBVIOUS
<1> HIDE DEF S, n, q, b
<1>6. \A i \in 1..n : /\ b[i].user = q[i] /\ b[i].amount = held[t][q[i]] /\ q[i] \in S
                      /\ b[i] \in [user : Holders, amount : Nat \ {0}]
  BY <1>1, <1>2, <1>3, <1>4 DEF Entry
<1>7. b \in Seq([user : Holders, amount : Nat \ {0}]) /\ DOMAIN b = 1..n /\ Len(b) = n
  <2> DEFINE R == [user : Holders, amount : Nat \ {0}]
  <2>1. \A i \in 1..n : b[i] \in R
    BY <1>6
  <2> HIDE DEF R
  <2>2. b \in [1..n -> R]
    BY <1>3, <2>1
  <2>3. b \in Seq(R) /\ Len(b) = n /\ DOMAIN b = 1..n
    BY <1>2, <2>2, FunctionIsSeq
  <2> QED BY <2>3 DEF R
<1>8. Tidy(b)
  BY <1>2, <1>6, <1>7 DEF Tidy
<1>9. ASSUME NEW h \in Holders PROVE AmountOf(b, h) = held[t][h]
  <2>1. CASE h \in S
    <3>1. PICK i \in 1..n : q[i] = h
      BY <1>2, <2>1
    <3> QED BY <1>6, <1>7, <1>8, <3>1, TidyEntries
  <2>2. CASE h \notin S
    <3>1. \A i \in 1..n : b[i].user # h
      BY <1>6, <2>2
    <3> QED BY <1>5, <1>7, <1>8, <2>2, <3>1, TidyEntries
  <2> QED BY <2>1, <2>2
<1>10. Amounts(b) = [h \in Holders |-> held[t][h]]
  BY <1>9 DEF Amounts
<1> QED BY <1>8, <1>10 DEF b

(* Tidy balances are given by their amounts, up to the order.              *)
LEMMA SameAmounts ==
    ASSUME NEW b, NEW c, Tidy(b), Tidy(c), Amounts(b) = Amounts(c)
    PROVE  Range(b) = Range(c) /\ Len(b) = Len(c)
<1>1. \A h \in Holders : AmountOf(b, h) = AmountOf(c, h)
  <2>1. \A h \in Holders : Amounts(b)[h] = AmountOf(b, h) /\ Amounts(c)[h] = AmountOf(c, h)
    BY DEF Amounts
  <2> QED BY <2>1
<1>2. ASSUME NEW x, NEW y, Tidy(x), Tidy(y), \A h \in Holders : AmountOf(x, h) = AmountOf(y, h)
      PROVE  \E f \in [1..Len(x) -> 1..Len(y)] :
                /\ \A i \in 1..Len(x) : y[f[i]] = x[i]
                /\ f \in Injection(1..Len(x), 1..Len(y))
  <2> DEFINE f == [i \in 1..Len(x) |-> LastEntry(y, x[i].user)]
  <2>1. ASSUME NEW i \in 1..Len(x)
        PROVE  f[i] \in 1..Len(y) /\ y[f[i]] = x[i]
    <3>1. x[i].user \in Holders /\ AmountOf(x, x[i].user) = x[i].amount /\ x[i].amount # 0
          /\ x[i] = Entry(x[i].user, x[i].amount)
      BY <1>2, TidyEntries, TidyIsLoose, LooseEntries
    <3>2. AmountOf(y, x[i].user) # 0
      BY <1>2, <3>1
    <3>3. LastEntry(y, x[i].user) \in 1..Len(y) /\ y[LastEntry(y, x[i].user)].user = x[i].user
          /\ y[LastEntry(y, x[i].user)].amount = x[i].amount
      BY <1>2, <3>1, <3>2, TidyEntries
    <3>4. y[LastEntry(y, x[i].user)] = Entry(x[i].user, x[i].amount)
      BY <1>2, <3>3, TidyIsLoose, LooseEntries
    <3> QED BY <3>1, <3>3, <3>4
  <2>2. DOMAIN f = 1..Len(x)
    OBVIOUS
  <2>3. f \in [1..Len(x) -> 1..Len(y)]
    BY <2>1
  <2> HIDE DEF f
  <2>4. \A i, j \in 1..Len(x) : f[i] = f[j] => i = j
    <3>1. DOMAIN x = 1..Len(x)
      BY <1>2, TidyEntries
    <3>2. \A i, j \in DOMAIN x : x[i] = x[j] => i = j
      BY <1>2 DEF Tidy
    <3> QED BY <2>1, <3>1, <3>2
  <2>5. f \in Injection(1..Len(x), 1..Len(y))
    BY <2>2, <2>3, <2>4 DEF Injection, IsInjective
  <2> QED BY <2>1, <2>3, <2>5
<1>3. /\ Len(b) \in Nat /\ Len(c) \in Nat /\ DOMAIN b = 1..Len(b) /\ DOMAIN c = 1..Len(c)
  BY TidyEntries
<1>4. /\ IsFiniteSet(1..Len(b)) /\ Cardinality(1..Len(b)) = Len(b)
      /\ IsFiniteSet(1..Len(c)) /\ Cardinality(1..Len(c)) = Len(c)
  BY <1>3, UpTo
<1>5. PICK f \in [1..Len(b) -> 1..Len(c)] :
            /\ \A i \in 1..Len(b) : c[f[i]] = b[i]
            /\ f \in Injection(1..Len(b), 1..Len(c))
  BY <1>1, <1>2
<1>6. PICK g \in [1..Len(c) -> 1..Len(b)] :
            /\ \A i \in 1..Len(c) : b[g[i]] = c[i]
            /\ g \in Injection(1..Len(c), 1..Len(b))
  BY <1>1, <1>2
<1>7. Len(b) <= Len(c) /\ Len(c) <= Len(b)
  BY <1>4, <1>5, <1>6, FS_Injection
<1>8. Range(b) = Range(c)
  BY <1>3, <1>5, <1>6 DEF Range
<1>9. \A m, n \in Nat : m <= n /\ n <= m => m = n
  OBVIOUS
<1>10. Len(b) = Len(c)
  BY <1>3, <1>7, <1>9, Zenon
<1> QED BY <1>8, <1>10

(* What `splice` leaves of an array.                                       *)
LEMMA RemoveAtProperties ==
    ASSUME NEW S, NEW s \in Seq(S), NEW i \in 1..Len(s)
    PROVE  /\ RemoveAt(s, i) \in Seq(S)
           /\ DOMAIN RemoveAt(s, i) = 1..(Len(s) - 1)
           /\ \A j \in 1..(Len(s) - 1) :
                RemoveAt(s, i)[j] = s[IF j < i THEN j ELSE j + 1]
<1> DEFINE front == SubSeq(s, 1, i - 1)
           back  == SubSeq(s, i + 1, Len(s))
<1>1. Len(s) \in Nat /\ \A j \in 1..Len(s) : s[j] \in S
  BY LenProperties, ElementOfSeq
<1>2. /\ front \in Seq(S) /\ Len(front) = i - 1
      /\ \A j \in 1..(i - 1) : front[j] = s[j]
  <2>1. \A j \in 1..(i - 1) : s[j] \in S
    BY <1>1
  <2> QED BY <2>1, <1>1, SubSeqProperties, SMT
<1>3. /\ back \in Seq(S) /\ Len(back) = Len(s) - i
      /\ \A j \in 1..(Len(s) - i) : back[j] = s[j + i]
  <2>1. \A j \in (i + 1)..Len(s) : s[j] \in S
    BY <1>1
  <2> QED BY <2>1, <1>1, SubSeqProperties, SMT
<1>4. RemoveAt(s, i) = front \o back
  BY DEF RemoveAt
<1>5. /\ front \o back \in Seq(S)
      /\ Len(front \o back) = Len(s) - 1
      /\ \A j \in 1..(Len(s) - 1) :
           (front \o back)[j] = IF j <= i - 1 THEN front[j] ELSE back[j - (i - 1)]
  <2> HIDE DEF front, back
  <2>1. /\ front \o back \in Seq(S)
        /\ Len(front \o back) = Len(front) + Len(back)
        /\ \A j \in 1..(Len(front) + Len(back)) :
             (front \o back)[j] = IF j <= Len(front) THEN front[j] ELSE back[j - Len(front)]
    BY <1>2, <1>3, ConcatProperties, Zenon
  <2>2. Len(front) + Len(back) = Len(s) - 1
    BY <1>1, <1>2, <1>3
  <2> QED BY <2>1, <2>2, <1>2
<1>6. ASSUME NEW j \in 1..(Len(s) - 1)
      PROVE  (front \o back)[j] = s[IF j < i THEN j ELSE j + 1]
  <2> HIDE DEF front, back
  <2>1. CASE j < i
    BY <2>1, <1>1, <1>2, <1>5, SMT
  <2>2. CASE ~(j < i)
    <3>1. j - (i - 1) \in 1..(Len(s) - i) /\ (j - (i - 1)) + i = j + 1
      BY <2>2, <1>1
    <3>2. back[j - (i - 1)] = s[j + 1]
      BY <3>1, <1>3
    <3> QED BY <2>2, <3>2, <1>1, <1>5, SMT
  <2> QED BY <2>1, <2>2
<1> HIDE DEF front, back
<1> QED BY <1>1, <1>4, <1>5, <1>6, LenProperties


(* Where an entry comes from.                                              *)
Origin(b, taker, m, k, i) ==
    Entry(IF i = Len(b) + 1 THEN taker ELSE b[i].user,
          IF i = m THEN b[m].amount - 1 ELSE IF i = Len(b) + 1 THEN 1
          ELSE IF i = k THEN b[k].amount + 1 ELSE b[i].amount)

Credits(b, taker, m, k, new, L) ==
    /\ m \in 1..Len(b) /\ k \in 0..Len(b) /\ m # k
    /\ new \in Seq([user : Holders \cup {Nobody}, amount : Int])
    /\ b[m].amount > 1 => /\ DOMAIN new = 1..L /\ Len(new) = L
                          /\ \A j \in 1..L : new[j] = Origin(b, taker, m, k, j)
    /\ b[m].amount <= 1 => /\ DOMAIN new = 1..(L - 1) /\ Len(new) = L - 1
                           /\ \A j \in 1..(L - 1) :
                                new[j] = Origin(b, taker, m, k, IF j < m THEN j ELSE j + 1)

(* changeOwnerships: every entry stays, the maker's with one less and the  *)
(* taker's with one more, his a new one if he had none; the maker's goes   *)
(* when nothing is left in it.                                             *)
LEMMA Credited ==
    ASSUME NEW b \in Loose, NEW maker \in Holders, NEW taker \in Holders, maker # taker,
           NEW m, m = LastEntry(b, maker), m # 0, NEW k, k = LastEntry(b, taker),
           NEW new, new = OwnersChanged(b, maker, taker),
           NEW L, k = 0 => L = Len(b) + 1, k # 0 => L = Len(b)
    PROVE  Credits(b, taker, m, k, new, L)
<1> DEFINE n   == Len(b)
           c   == [i \in 1..L |-> IF i = m THEN Entry(maker, b[m].amount - 1)
                                  ELSE IF i = k THEN Entry(taker, b[k].amount + 1)
                                  ELSE IF i = n + 1 THEN Entry(taker, 1) ELSE b[i]]
           d   == [b EXCEPT ![m].amount = @ - 1]
           e   == IF k = 0 THEN Append(d, Entry(taker, 1)) ELSE [d EXCEPT ![k].amount = @ + 1]
           R   == [user : Holders \cup {Nobody}, amount : Int]
<1>1. /\ n \in Nat /\ DOMAIN b = 1..n
      /\ \A i \in 1..n : b[i].user \in Holders \cup {Nobody} /\ b[i].amount \in Nat
                         /\ b[i] = Entry(b[i].user, b[i].amount)
  BY LooseEntries
<1>2. m \in 1..n /\ b[m].user = maker
  BY LooseEntries
<1>3. k \in 0..n /\ (k # 0 => k \in 1..n /\ b[k].user = taker) /\ m # k
  <2>1. k = 0 \/ (k \in 1..n /\ b[k].user = taker)
    BY LooseEntries
  <2> QED BY <1>1, <1>2, <2>1
<1>0. (k = 0 => L = n + 1) /\ (k # 0 => L = n)
  OBVIOUS
<1>4. new = IF d[m].amount <= 0 THEN RemoveAt(e, m) ELSE e
  BY DEF OwnersChanged
<1>5. \A u, x, y : [Entry(u, x) EXCEPT !.amount = y] = Entry(u, y) /\ Entry(u, x).amount = x
  BY DEF Entry
<1>6. /\ DOMAIN d = 1..n /\ d[m] = Entry(maker, b[m].amount - 1)
      /\ \A i \in 1..n : i # m => d[i] = b[i]
  <2>1. d[m] = [b[m] EXCEPT !.amount = b[m].amount - 1]
    BY <1>1, <1>2
  <2>2. b[m] = Entry(maker, b[m].amount)
    BY <1>1, <1>2
  <2>3. d[m] = Entry(maker, b[m].amount - 1)
    BY <1>5, <2>1, <2>2
  <2> QED BY <1>1, <2>3
<1>7. d[m].amount = b[m].amount - 1
  BY <1>5, <1>6
<1> HIDE DEF d
<1>8. \A x \in Int : \A u \in Holders \cup {Nobody} : Entry(u, x) \in R
  BY DEF Entry
<1>9. \A i \in 1..n : d[i] \in R
  <2>1. ASSUME NEW i \in 1..n PROVE d[i] \in R
    <3>1. CASE i = m
      <4>1. b[m].amount - 1 \in Int
        BY <1>1, <1>2
      <4> QED BY <1>6, <1>8, <3>1, <4>1
    <3>2. CASE i # m
      <4>1. d[i] = Entry(b[i].user, b[i].amount)
        BY <1>1, <1>6, <3>2
      <4>2. b[i].amount \in Int
        BY <1>1
      <4> QED BY <1>1, <1>8, <4>1, <4>2
    <3> QED BY <3>1, <3>2
  <2> QED BY <2>1
<1> HIDE DEF R
<1>10. e = c /\ e \in Seq(R) /\ Len(e) = L /\ L \in Nat
  <2>1. CASE k = 0
    <3>1. d \in Seq(R) /\ Len(d) = n
      <4>1. d \in [1..n -> R]
        <5>1. d = [i \in 1..n |-> d[i]]
          BY <1>1 DEF d
        <5> QED BY <1>9, <5>1
      <4> QED BY <1>1, <4>1, FunctionIsSeq
    <3>2. Entry(taker, 1) \in R
      BY <1>8
    <3>3. /\ e \in Seq(R) /\ Len(e) = n + 1 /\ e[n + 1] = Entry(taker, 1)
          /\ \A i \in 1..n : e[i] = d[i]
      BY <2>1, <3>1, <3>2, AppendProperties
    <3> HIDE DEF e
    <3>4. DOMAIN e = 1..(n + 1)
      BY <3>3, LenProperties
    <3>5. e = [i \in 1..(n + 1) |-> e[i]]
      BY <3>3, <3>4
    <3>6. \A i \in 1..L : e[i] = c[i]
      <4>1. ASSUME NEW i \in 1..(n + 1) PROVE e[i] = c[i]
        <5>1. CASE i = n + 1
          BY <1>1, <1>2, <2>1, <3>3, <5>1
        <5>2. CASE i # n + 1
          <6>1. i \in 1..n /\ i # k
            BY <1>1, <2>1, <5>2
          <6> QED BY <1>6, <2>1, <3>3, <5>2, <6>1
        <5> QED BY <5>1, <5>2
      <4> QED BY <2>1, <4>1
    <3>7. DOMAIN c = 1..L
      OBVIOUS
    <3>8. e = c
      <4>1. L = n + 1
        BY <1>0, <2>1
      <4>2. c = [i \in 1..L |-> c[i]]
        OBVIOUS
      <4> HIDE DEF c
      <4> QED BY <3>5, <3>6, <4>1, <4>2
    <3> QED BY <1>1, <2>1, <3>3, <3>8
  <2>2. CASE k # 0
    <3>1. k \in 1..n /\ b[k].user = taker
      BY <1>3, <2>2
    <3>2. /\ DOMAIN e = 1..n /\ e[k] = Entry(taker, b[k].amount + 1)
          /\ \A i \in 1..n : i # k => e[i] = d[i]
      <4>1. d[k] = Entry(taker, b[k].amount)
        BY <1>1, <1>3, <1>6, <3>1
      <4>2. DOMAIN e = 1..n /\ e[k] = [d[k] EXCEPT !.amount = d[k].amount + 1]
            /\ \A i \in 1..n : i # k => e[i] = d[i]
        BY <1>6, <2>2, <3>1
      <4>3. d[k].amount = b[k].amount
        BY <1>5, <4>1
      <4>4. e[k] = [Entry(taker, b[k].amount) EXCEPT !.amount = b[k].amount + 1]
        <5> HIDE DEF e
        <5> QED BY <4>1, <4>2, <4>3
      <4>5. e[k] = Entry(taker, b[k].amount + 1)
        <5> HIDE DEF e
        <5> QED BY <1>5, <4>4
      <4> QED BY <4>2, <4>5
    <3>3. e = [i \in 1..n |-> e[i]]
      BY <1>6, <2>2
    <3> HIDE DEF e
    <3>4. \A i \in 1..n : e[i] = c[i]
      <4>1. ASSUME NEW i \in 1..n PROVE e[i] = c[i]
        <5>1. i # n + 1
          BY <1>1
        <5> QED BY <1>3, <1>6, <2>2, <3>1, <3>2, <5>1
      <4> QED BY <4>1
    <3>5. e = c
      <4>1. L = n
        BY <1>0, <2>2
      <4>2. c = [i \in 1..L |-> c[i]]
        OBVIOUS
      <4> HIDE DEF c
      <4> QED BY <3>3, <3>4, <4>1, <4>2
    <3>6. \A i \in 1..n : e[i] \in R
      <4>1. b[k].amount + 1 \in Int
        BY <1>1, <3>1
      <4>2. e[k] \in R
        BY <1>8, <3>2, <4>1
      <4> QED BY <1>9, <3>2, <4>2
    <3>7. e \in [1..n -> R]
      BY <3>3, <3>6
    <3>8. e \in Seq(R) /\ Len(e) = n
      BY <1>1, <3>7, FunctionIsSeq
    <3> QED BY <1>1, <2>2, <3>5, <3>8
  <2> QED BY <2>1, <2>2
<1> HIDE DEF c, e
<1>11. b[m].amount > 1 => new = c
  <2>1. b[m].amount > 1 => ~(b[m].amount - 1 <= 0)
    BY <1>1, <1>2
  <2> QED BY <1>4, <1>7, <1>10, <2>1
<1>12. ASSUME b[m].amount <= 1
       PROVE  /\ DOMAIN new = 1..(L - 1) /\ Len(new) = L - 1 /\ new \in Seq(R)
              /\ \A j \in 1..(L - 1) : new[j] = c[IF j < m THEN j ELSE j + 1]
  <2>1. new = RemoveAt(c, m)
    <3>1. b[m].amount - 1 <= 0
      BY <1>1, <1>2, <1>12
    <3> QED BY <1>4, <1>7, <1>10, <3>1
  <2>2. m \in 1..Len(c)
    <3>1. m \in 1..L
      BY <1>0, <1>1, <1>2
    <3> QED BY <1>10, <3>1
  <2>3. /\ new \in Seq(R) /\ DOMAIN new = 1..(L - 1)
        /\ \A j \in 1..(L - 1) : new[j] = c[IF j < m THEN j ELSE j + 1]
    <3>1. c \in Seq(R) /\ Len(c) = L
      BY <1>10
    <3>2. /\ RemoveAt(c, m) \in Seq(R) /\ DOMAIN RemoveAt(c, m) = 1..(Len(c) - 1)
          /\ \A j \in 1..(Len(c) - 1) : RemoveAt(c, m)[j] = c[IF j < m THEN j ELSE j + 1]
      BY <2>2, <3>1, RemoveAtProperties
    <3> QED BY <2>1, <3>1, <3>2
  <2>4. L - 1 \in Nat
    BY <1>1, <1>2
  <2>5. Len(new) = L - 1
    <3>1. DOMAIN new = 1..Len(new) /\ Len(new) \in Nat
      BY <2>3, LenProperties
    <3> QED BY <2>3, <2>4, <3>1, UpTo
  <2> QED BY <2>3, <2>5
<1>13. /\ L \in Nat /\ m \in 1..L /\ (L = n \/ L = n + 1)
  BY <1>0, <1>1, <1>2
<1>14. ASSUME NEW i \in 1..L PROVE c[i] = Origin(b, taker, m, k, i)
  <2>1. CASE i = n + 1
    <3>1. i # m /\ i # k
      BY <1>1, <1>2, <1>3, <2>1
    <3>2. c[i] = Entry(taker, 1)
      BY <2>1, <3>1 DEF c
    <3> QED BY <2>1, <3>1, <3>2 DEF Origin
  <2>2. CASE i # n + 1
    <3>1. i \in 1..n
      BY <1>1, <1>13, <2>2
    <3>2. c[i] = IF i = m THEN Entry(maker, b[m].amount - 1)
                 ELSE IF i = k THEN Entry(taker, b[k].amount + 1) ELSE b[i]
      BY <2>2 DEF c
    <3>3. b[i] = Entry(b[i].user, b[i].amount) /\ (i = k => k # 0)
      BY <1>1, <3>1
    <3> QED BY <1>2, <1>3, <2>2, <3>2, <3>3 DEF Origin
  <2> QED BY <2>1, <2>2
<1>15. DOMAIN c = 1..L /\ Len(c) = L
  <2>1. DOMAIN c = 1..L
    BY DEF c
  <2> QED BY <1>10, <2>1
<1>16. b[m].amount > 1 => /\ DOMAIN new = 1..L /\ Len(new) = L
                          /\ \A j \in 1..L : new[j] = Origin(b, taker, m, k, j)
  BY <1>11, <1>14, <1>15
<1>17. ASSUME b[m].amount <= 1, NEW j \in 1..(L - 1)
       PROVE  new[j] = Origin(b, taker, m, k, IF j < m THEN j ELSE j + 1)
  <2> DEFINE i == IF j < m THEN j ELSE j + 1
  <2>1. i \in 1..L
    BY <1>13
  <2> HIDE DEF i
  <2>2. c[i] = Origin(b, taker, m, k, i)
    BY <1>14, <2>1
  <2>3. new[j] = c[i]
    BY <1>12, <1>17 DEF i
  <2> QED BY <2>2, <2>3 DEF i
<1>18. new \in Seq(R)
  <2>1. b[m].amount > 1 \/ b[m].amount <= 1
    BY <1>1, <1>2
  <2> QED BY <1>10, <1>11, <1>12, <2>1
<1> QED BY <1>2, <1>3, <1>12, <1>16, <1>17, <1>18 DEF Credits, R

(* Said another way: what is left are the entries there were, each once,   *)
(* but for the maker's if he had no more than one.                         *)
Exchange(b, taker, m, k, new, L) ==
    /\ Len(new) \in Nat /\ DOMAIN new = 1..Len(new) /\ new = [j \in 1..Len(new) |-> new[j]]
    /\ Len(new) = IF b[m].amount > 1 THEN L ELSE L - 1
    /\ \E p \in [1..Len(new) -> 1..L] :
          /\ \A j \in 1..Len(new) : new[j] = Origin(b, taker, m, k, p[j])
          /\ \A i, j \in 1..Len(new) : p[i] = p[j] => i = j
          /\ \A i \in 1..L : i # m \/ b[m].amount > 1 => \E j \in 1..Len(new) : p[j] = i
          /\ b[m].amount <= 1 => \A j \in 1..Len(new) : p[j] # m
          /\ b[m].amount > 1 => \A j \in 1..Len(new) : p[j] = j

LEMMA Exchanged ==
    ASSUME NEW b \in Loose, NEW maker \in Holders, NEW taker \in Holders, maker # taker,
           NEW m, m = LastEntry(b, maker), m # 0, NEW k, k = LastEntry(b, taker),
           NEW new, new = OwnersChanged(b, maker, taker),
           NEW L, k = 0 => L = Len(b) + 1, k # 0 => L = Len(b)
    PROVE  Exchange(b, taker, m, k, new, L)
<1>1. Len(b) \in Nat /\ \A i \in 1..Len(b) : b[i].amount \in Nat
  BY LooseEntries
<1>0. Credits(b, taker, m, k, new, L)
  BY Credited
<1>2. /\ m \in 1..Len(b) /\ k \in 0..Len(b) /\ m # k
      /\ b[m].amount > 1 => /\ DOMAIN new = 1..L /\ Len(new) = L
                            /\ \A j \in 1..L : new[j] = Origin(b, taker, m, k, j)
      /\ b[m].amount <= 1 => /\ DOMAIN new = 1..(L - 1) /\ Len(new) = L - 1
                             /\ \A j \in 1..(L - 1) :
                                  new[j] = Origin(b, taker, m, k, IF j < m THEN j ELSE j + 1)
  BY <1>0 DEF Credits
<1>7. new = [j \in 1..Len(new) |-> new[j]]
  <2>1. new \in Seq([user : Holders \cup {Nobody}, amount : Int])
    BY <1>0 DEF Credits
  <2> QED BY <2>1, SeqIsFunction
<1>3. L \in Nat /\ L >= 1 /\ m \in 1..L
  BY <1>1, <1>2
<1>4. /\ b[m].amount > 1 \/ b[m].amount <= 1
      /\ ~(b[m].amount > 1 /\ b[m].amount <= 1)
  BY <1>1, <1>2
<1>5. CASE b[m].amount > 1
  <2> DEFINE p == [j \in 1..L |-> j]
  <2>1. p \in [1..L -> 1..L] /\ \A j \in 1..L : p[j] = j
    OBVIOUS
  <2> HIDE DEF p
  <2> QED BY <1>2, <1>3, <1>4, <1>5, <1>7, <2>1 DEF Exchange
<1>6. CASE b[m].amount <= 1
  <2> DEFINE p == [j \in 1..(L - 1) |-> IF j < m THEN j ELSE j + 1]
  <2>2. \A j \in 1..(L - 1) : p[j] = (IF j < m THEN j ELSE j + 1) /\ p[j] \in 1..L /\ p[j] # m
    BY <1>3
  <2>3. p \in [1..(L - 1) -> 1..L]
    BY <1>3
  <2>4. \A i, j \in 1..(L - 1) : p[i] = p[j] => i = j
    BY <1>3
  <2>5. ASSUME NEW i \in 1..L, i # m
        PROVE  \E j \in 1..(L - 1) : p[j] = i
    <3>1. CASE i < m
      BY <1>3, <2>5, <3>1
    <3>2. CASE ~(i < m)
      <4>1. i - 1 \in 1..(L - 1) /\ ~(i - 1 < m) /\ (i - 1) + 1 = i
        BY <1>3, <2>5, <3>2
      <4> QED BY <4>1
    <3> QED BY <3>1, <3>2
  <2> HIDE DEF p
  <2>6. \A j \in 1..(L - 1) : new[j] = Origin(b, taker, m, k, p[j])
    BY <1>2, <1>6, <2>2
  <2>7. L - 1 \in Nat
    BY <1>3
  <2>8. Len(new) = L - 1 /\ DOMAIN new = 1..(L - 1)
    BY <1>2, <1>6
  <2>9. /\ p \in [1..Len(new) -> 1..L]
        /\ \A j \in 1..Len(new) : new[j] = Origin(b, taker, m, k, p[j])
        /\ \A i, j \in 1..Len(new) : p[i] = p[j] => i = j
        /\ \A i \in 1..L : i # m \/ b[m].amount > 1 => \E j \in 1..Len(new) : p[j] = i
        /\ b[m].amount <= 1 => \A j \in 1..Len(new) : p[j] # m
        /\ b[m].amount > 1 => \A j \in 1..Len(new) : p[j] = j
    BY <1>4, <1>6, <2>2, <2>3, <2>4, <2>5, <2>6, <2>8
  <2>10. /\ Len(new) \in Nat /\ DOMAIN new = 1..Len(new)
         /\ Len(new) = IF b[m].amount > 1 THEN L ELSE L - 1
    BY <1>4, <1>6, <2>7, <2>8
  <2> QED BY <1>7, <2>9, <2>10 DEF Exchange
<1> QED BY <1>4, <1>5, <1>6

(* What came loose stays loose.                                            *)
LEMMA LooseExchange ==
    ASSUME NEW b \in Loose, NEW maker \in Holders, NEW taker \in Holders, maker # taker,
           LastEntry(b, maker) # 0
    PROVE  /\ OwnersChanged(b, maker, taker) \in Loose
           /\ LastEntry(b, maker) \in 1..Len(b) /\ LastEntry(b, taker) \in 0..Len(b)
<1> DEFINE m   == LastEntry(b, maker)
           k   == LastEntry(b, taker)
           new == OwnersChanged(b, maker, taker)
           n   == Len(b)
           L   == IF k = 0 THEN n + 1 ELSE n
           R   == [user : Holders \cup {Nobody}, amount : Nat]
<1>1. /\ n \in Nat
      /\ \A i \in 1..n : b[i].user \in Holders \cup {Nobody} /\ b[i].amount \in Nat
  BY LooseEntries
<1>2. m \in 1..n /\ k \in 0..n
  BY LooseEntries, <1>1
<1>8. L \in Nat /\ (L = n \/ L = n + 1)
  BY <1>1
<1> HIDE DEF new, L
<1>3. Exchange(b, taker, m, k, new, L)
  <2>1. (k = 0 => L = Len(b) + 1) /\ (k # 0 => L = Len(b)) /\ new = OwnersChanged(b, maker, taker)
    BY DEF L, new
  <2> HIDE DEF m, k
  <2>2. m = LastEntry(b, maker) /\ m # 0 /\ k = LastEntry(b, taker)
    BY DEF m, k
  <2> QED BY <2>1, <2>2, Exchanged
<1>4. PICK p \in [1..Len(new) -> 1..L] :
            /\ \A j \in 1..Len(new) : new[j] = Origin(b, taker, m, k, p[j])
            /\ b[m].amount <= 1 => \A j \in 1..Len(new) : p[j] # m
  BY <1>3 DEF Exchange
<1>5. ASSUME NEW i \in 1..L, i # m \/ b[m].amount > 1
      PROVE  Origin(b, taker, m, k, i) \in R
  <2>1. (IF i = n + 1 THEN taker ELSE b[i].user) \in Holders \cup {Nobody}
    BY <1>1, <1>8
  <2>2. (IF i = m THEN b[m].amount - 1 ELSE IF i = n + 1 THEN 1
         ELSE IF i = k THEN b[k].amount + 1 ELSE b[i].amount) \in Nat
    BY <1>1, <1>2, <1>5, <1>8
  <2> HIDE DEF m, k, n
  <2> QED BY <2>1, <2>2 DEF Origin, Entry, n
<1> HIDE DEF R
<1>6. ASSUME NEW j \in 1..Len(new) PROVE new[j] \in R
  <2>1. p[j] \in 1..L /\ (p[j] # m \/ b[m].amount > 1)
    <3>1. b[m].amount > 1 \/ b[m].amount <= 1
      BY <1>1, <1>2
    <3> QED BY <1>4, <3>1
  <2> HIDE DEF m, k
  <2> QED BY <1>4, <1>5, <2>1
<1>7. new \in Seq(R)
  <2>1. DOMAIN new = 1..Len(new) /\ Len(new) \in Nat
    BY <1>3 DEF Exchange
  <2>2. new = [j \in 1..Len(new) |-> new[j]]
    BY <1>3 DEF Exchange
  <2>3. new \in [1..Len(new) -> R]
    BY <1>6, <2>2
  <2> QED BY <2>1, <2>3, FunctionIsSeq
<1> QED BY <1>2, <1>7 DEF new, Loose, R, n

(* What was tidy stays tidy, and one has changed hands.                    *)
LEMMA TidyExchange ==
    ASSUME NEW b, Tidy(b), NEW maker \in Holders, NEW taker \in Holders, maker # taker,
           AmountOf(b, maker) > 0
    PROVE  /\ Tidy(OwnersChanged(b, maker, taker))
           /\ Amounts(OwnersChanged(b, maker, taker)) = Moved(Amounts(b), maker, taker)
<1> DEFINE m   == LastEntry(b, maker)
           k   == LastEntry(b, taker)
           new == OwnersChanged(b, maker, taker)
           n   == Len(b)
           L   == IF k = 0 THEN n + 1 ELSE n
           R   == [user : Holders, amount : Nat \ {0}]
           u(i) == IF i = n + 1 THEN taker ELSE b[i].user
           a(i) == IF i = m THEN b[m].amount - 1 ELSE IF i = n + 1 THEN 1
                   ELSE IF i = k THEN b[k].amount + 1 ELSE b[i].amount
<1>1. /\ n \in Nat
      /\ \A i \in 1..n : b[i].user \in Holders /\ b[i].amount \in Nat \ {0}
      /\ \A i, j \in 1..n : b[i].user = b[j].user => i = j
  BY TidyEntries DEF Tidy
<1>2. m \in 1..n /\ b[m].user = maker /\ AmountOf(b, maker) = b[m].amount
  BY TidyEntries
<1>3. /\ k \in 0..n
      /\ k = 0 => AmountOf(b, taker) = 0 /\ \A i \in 1..n : b[i].user # taker
      /\ k # 0 => k \in 1..n /\ b[k].user = taker /\ AmountOf(b, taker) = b[k].amount
  <2>1. \/ k = 0 /\ AmountOf(b, taker) = 0 /\ \A i \in 1..n : b[i].user # taker
        \/ k \in 1..n /\ b[k].user = taker /\ AmountOf(b, taker) = b[k].amount
    BY TidyEntries
  <2> QED BY <1>1, <2>1
<1>4. L \in Nat /\ (k = 0 => L = n + 1) /\ (k # 0 => L = n)
  BY <1>1
<1> HIDE DEF new, L
<1>5. Exchange(b, taker, m, k, new, L)
  <2>1. new = OwnersChanged(b, maker, taker) /\ b \in Loose
    BY TidyIsLoose DEF new
  <2>2. m # 0
    BY <1>2
  <2> HIDE DEF m, k
  <2>3. m = LastEntry(b, maker) /\ k = LastEntry(b, taker)
    BY DEF m, k
  <2> QED BY <1>4, <2>1, <2>2, <2>3, Exchanged
<1> HIDE DEF m, k
<1>6. PICK p \in [1..Len(new) -> 1..L] :
            /\ \A j \in 1..Len(new) : new[j] = Origin(b, taker, m, k, p[j])
            /\ \A i, j \in 1..Len(new) : p[i] = p[j] => i = j
            /\ \A i \in 1..L : i # m \/ b[m].amount > 1 => \E j \in 1..Len(new) : p[j] = i
            /\ b[m].amount <= 1 => \A j \in 1..Len(new) : p[j] # m
  BY <1>5 DEF Exchange
<1>7. \A i : Origin(b, taker, m, k, i).user = u(i) /\ Origin(b, taker, m, k, i).amount = a(i)
  BY DEF Origin, Entry
<1>8. ASSUME NEW i \in 1..L, i # m \/ b[m].amount > 1
      PROVE  Origin(b, taker, m, k, i) \in R
  <2>1. i \in 1..n \/ i = n + 1
    BY <1>1, <1>3, <1>4
  <2>2. u(i) \in Holders
    BY <1>1, <2>1
  <2>3. i # n + 1 => b[i].amount \in Nat \ {0}
    BY <1>1, <2>1
  <2>4. b[m].amount \in Nat \ {0} /\ (k # 0 => b[k].amount \in Nat)
    BY <1>1, <1>2, <1>3
  <2>5. i = k => k # 0
    BY <1>1, <1>4
  <2>6. a(i) \in Nat \ {0}
    <3>1. CASE i = m
      <4>1. b[m].amount - 1 \in Nat \ {0}
        BY <1>8, <2>4, <3>1
      <4> QED BY <3>1, <4>1
    <3>2. CASE i # m /\ i = n + 1
      BY <3>2
    <3>3. CASE i # m /\ i # n + 1 /\ i = k
      <4>1. b[k].amount + 1 \in Nat \ {0}
        BY <2>4, <2>5, <3>3
      <4> QED BY <3>3, <4>1
    <3>4. CASE i # m /\ i # n + 1 /\ i # k
      BY <2>3, <3>4
    <3> QED BY <3>1, <3>2, <3>3, <3>4
  <2> HIDE DEF u, a
  <2>7. Origin(b, taker, m, k, i) = Entry(u(i), a(i))
    BY DEF Origin, u, a
  <2> QED BY <2>2, <2>6, <2>7 DEF Entry
<1>9. ASSUME NEW i \in 1..L, NEW j \in 1..L, u(i) = u(j)
      PROVE  i = j
  <2>1. (i \in 1..n \/ i = n + 1) /\ (j \in 1..n \/ j = n + 1) /\ (i = n + 1 \/ j = n + 1 => k = 0)
    BY <1>1, <1>3, <1>4
  <2>2. \A x \in 1..n : x # n + 1
    BY <1>1
  <2> QED BY <1>1, <1>3, <1>9, <2>1, <2>2
<1>10. ASSUME NEW j \in 1..Len(new)
       PROVE  /\ p[j] \in 1..L /\ (p[j] # m \/ b[m].amount > 1)
              /\ new[j] \in R /\ new[j].user = u(p[j]) /\ new[j].amount = a(p[j])
  <2>1. p[j] \in 1..L /\ (p[j] # m \/ b[m].amount > 1)
    <3>1. b[m].amount > 1 \/ b[m].amount <= 1
      BY <1>1, <1>2
    <3> QED BY <1>6, <3>1
  <2>2. new[j] = Origin(b, taker, m, k, p[j])
    BY <1>6
  <2> HIDE DEF u, a, R
  <2> QED BY <1>7, <1>8, <2>1, <2>2
<1>11. new \in Seq(R) /\ Len(new) \in Nat /\ DOMAIN new = 1..Len(new)
  <2> HIDE DEF R
  <2>1. DOMAIN new = 1..Len(new) /\ Len(new) \in Nat /\ new = [j \in 1..Len(new) |-> new[j]]
    BY <1>5 DEF Exchange
  <2>2. new \in [1..Len(new) -> R]
    BY <1>10, <2>1
  <2> QED BY <2>1, <2>2, FunctionIsSeq
<1>12. Tidy(new)
  <2> HIDE DEF u, a
  <2>1. \A i, j \in 1..Len(new) : new[i].user = new[j].user => i = j
    BY <1>6, <1>9, <1>10
  <2> QED BY <1>11, <2>1 DEF Tidy, R
<1>13. \A j \in 1..Len(new) : AmountOf(new, u(p[j])) = a(p[j])
  <2> HIDE DEF u, a
  <2>1. \A j \in 1..Len(new) : AmountOf(new, new[j].user) = new[j].amount
    BY <1>12, TidyEntries
  <2> QED BY <1>10, <2>1
<1>14. \A h : (\A i \in 1..L : (i # m \/ b[m].amount > 1) => u(i) # h) => AmountOf(new, h) = 0
  <2> HIDE DEF u, a
  <2>1. ASSUME NEW h, \A i \in 1..L : (i # m \/ b[m].amount > 1) => u(i) # h
        PROVE  AmountOf(new, h) = 0
    <3>1. \A j \in 1..Len(new) : new[j].user # h
      BY <1>10, <2>1
    <3>2. \/ AmountOf(new, h) = 0
          \/ LastEntry(new, h) \in 1..Len(new) /\ new[LastEntry(new, h)].user = h
      BY <1>12, TidyEntries
    <3> QED BY <3>1, <3>2
  <2> QED BY <2>1
<1>15. \A i \in 1..L : i # m \/ b[m].amount > 1 => AmountOf(new, u(i)) = a(i)
  <2> HIDE DEF u, a
  <2> QED BY <1>6, <1>13
<1>16. AmountOf(new, maker) = b[m].amount - 1
  <2>1. m \in 1..L /\ m # n + 1
    BY <1>1, <1>2, <1>4
  <2>2. u(m) = maker /\ a(m) = b[m].amount - 1
    BY <1>2, <2>1
  <2>3. CASE b[m].amount > 1
    <3> HIDE DEF u, a
    <3> QED BY <1>15, <2>1, <2>2, <2>3
  <2>4. CASE ~(b[m].amount > 1)
    <3>1. b[m].amount - 1 = 0
      BY <1>1, <1>2, <2>4
    <3> HIDE DEF u, a
    <3>2. \A i \in 1..L : i # m => u(i) # maker
      BY <1>9, <2>1, <2>2
    <3> QED BY <1>14, <2>4, <3>1, <3>2
  <2> QED BY <2>3, <2>4
<1>17. AmountOf(new, taker) = AmountOf(b, taker) + 1
  <2>1. CASE k = 0
    <3>1. n + 1 \in 1..L /\ n + 1 # m
      BY <1>1, <1>2, <1>4, <2>1
    <3>2. u(n + 1) = taker /\ a(n + 1) = 1
      BY <3>1
    <3>3. AmountOf(new, taker) = 1
      <4> HIDE DEF u, a
      <4> QED BY <1>15, <3>1, <3>2
    <3>4. AmountOf(b, taker) = 0
      BY <1>3, <2>1
    <3> QED BY <3>3, <3>4
  <2>2. CASE k # 0
    <3>1. k \in 1..L /\ k # n + 1 /\ k # m
      BY <1>1, <1>2, <1>3, <1>4, <2>2
    <3>2. u(k) = taker /\ a(k) = b[k].amount + 1
      BY <1>3, <2>2, <3>1
    <3>3. AmountOf(new, taker) = b[k].amount + 1
      <4> HIDE DEF u, a
      <4> QED BY <1>15, <3>1, <3>2
    <3> QED BY <1>3, <2>2, <3>3
  <2> QED BY <2>1, <2>2
<1>18. ASSUME NEW h \in Holders, h # maker, h # taker
       PROVE  AmountOf(new, h) = AmountOf(b, h)
  <2>1. CASE \E i \in 1..n : b[i].user = h
    <3>1. PICK i \in 1..n : b[i].user = h
      BY <2>1
    <3>2. i \in 1..L /\ i # n + 1 /\ i # m /\ i # k
      BY <1>1, <1>2, <1>3, <1>4, <1>18, <3>1
    <3>3. u(i) = h /\ a(i) = b[i].amount
      BY <3>1, <3>2
    <3>4. AmountOf(new, h) = b[i].amount
      <4> HIDE DEF u, a
      <4> QED BY <1>15, <3>2, <3>3
    <3> QED BY <3>1, <3>4, TidyEntries
  <2>2. CASE \A i \in 1..n : b[i].user # h
    <3>1. AmountOf(b, h) = 0
      BY <2>2, TidyEntries
    <3>2. \A i \in 1..L : u(i) # h
      <4>1. ASSUME NEW i \in 1..L PROVE u(i) # h
        <5>1. i \in 1..n \/ i = n + 1
          BY <1>1, <1>3, <1>4
        <5> QED BY <1>18, <2>2, <5>1
      <4> QED BY <4>1
    <3> HIDE DEF u, a
    <3>3. AmountOf(new, h) = 0
      BY <1>14, <3>2
    <3> QED BY <3>1, <3>3
  <2> QED BY <2>1, <2>2
<1>19. \A h \in Holders : Amounts(b)[h] = AmountOf(b, h)
  BY DEF Amounts
<1>20. Amounts(new) = Moved(Amounts(b), maker, taker)
  <2>1. \A h \in Holders : AmountOf(new, h) = IF h = maker THEN Amounts(b)[h] - 1
                                             ELSE IF h = taker THEN Amounts(b)[h] + 1 ELSE Amounts(b)[h]
    BY <1>2, <1>16, <1>17, <1>18, <1>19
  <2> QED BY <2>1 DEF Amounts, Moved
<1> QED BY <1>12, <1>20 DEF new

(* A save in memory: what it will write, whole or by position.             *)
Savable(upd) ==
    upd.at = "save" =>
        /\ upd.kind \in {"set", "replace"} /\ upd.balances \in Loose
        /\ upd.kind = "set" => \E m, k \in 1..Len(upd.balances) : upd.positions = {m, k}

LEMMA SaveOfLoose ==
    ASSUME NEW b \in Loose, NEW sell, sell.maker \in Holders, sell.taker \in Holders,
           sell.maker # sell.taker
    PROVE  /\ SaveOf(sell, b).card = sell.card /\ SaveOf(sell, b).at \in {"save", "flag"}
           /\ Savable(SaveOf(sell, b))
<1> DEFINE m   == LastEntry(b, sell.maker)
           k   == LastEntry(b, sell.taker)
           new == OwnersChanged(b, sell.maker, sell.taker)
           upd == SaveOf(sell, b)
<1>1. CASE m = 0
  <2>1. upd = [NoApply EXCEPT !.at = "flag", !.card = sell.card]
    BY <1>1 DEF SaveOf
  <2> QED BY <2>1 DEF NoApply, Savable
<1>2. CASE m # 0
  <2>1. upd = [at |-> "save", card |-> sell.card,
               kind |-> IF k = 0 \/ Len(new) # Len(b) THEN "replace" ELSE "set",
               balances |-> new, positions |-> {m, k}]
    BY <1>2 DEF SaveOf
  <2>2. new \in Loose /\ m \in 1..Len(b) /\ k \in 0..Len(b)
    BY <1>2, LooseExchange
  <2>3. Len(b) \in Nat
    BY LooseEntries
  <2> HIDE DEF m, k, new, upd
  <2>4. upd.kind = "set" => k \in 1..Len(new) /\ m \in 1..Len(new)
    BY <2>1, <2>2, <2>3
  <2>5. upd.balances = new /\ upd.positions = {m, k} /\ upd.kind \in {"set", "replace"}
        /\ upd.card = sell.card /\ upd.at = "save"
    BY <2>1
  <2>6. Savable(upd)
    BY <2>2, <2>4, <2>5 DEF Savable
  <2> QED BY <2>5, <2>6 DEF upd
<1> QED BY <1>1, <1>2

LEMMA SavedLoose ==
    ASSUME NEW b \in Loose, NEW upd, upd.at = "save", Savable(upd)
    PROVE  Saved(b, upd) \in Loose
<1>1. CASE upd.kind = "replace"
  BY <1>1 DEF Saved, Savable
<1>2. CASE upd.kind # "replace"
  <2> DEFINE last == Max({Len(b)} \cup upd.positions)
             R    == [user : Holders \cup {Nobody}, amount : Nat]
             e(i) == Entry(IF i <= Len(b) THEN b[i].user ELSE Nobody,
                           IF i \in upd.positions THEN upd.balances[i].amount
                           ELSE IF i <= Len(b) THEN b[i].amount ELSE 0)
  <2>1. PICK m, k \in 1..Len(upd.balances) : upd.positions = {m, k}
    BY <1>2 DEF Savable
  <2>2. /\ Len(b) \in Nat /\ Len(upd.balances) \in Nat
        /\ \A i \in 1..Len(b) : b[i].user \in Holders \cup {Nobody} /\ b[i].amount \in Nat
        /\ \A i \in 1..Len(upd.balances) : upd.balances[i].amount \in Nat
    BY LooseEntries DEF Savable
  <2>3. last \in Nat
    <3>1. {Len(b)} \cup upd.positions = {Len(b), m, k} /\ m \in Nat /\ k \in Nat
      BY <2>1, <2>2
    <3>2. \A x, y, z \in Nat : \E w \in {x, y, z} : \A v \in {x, y, z} : w >= v
      OBVIOUS
    <3>3. Max({Len(b), m, k}) \in {Len(b), m, k}
      BY <2>2, <3>1, <3>2 DEF Max
    <3> QED BY <2>2, <3>1, <3>3
  <2>4. Saved(b, upd) = [i \in 1..last |-> e(i)]
    BY <1>2 DEF Saved
  <2> HIDE DEF last
  <2>5. ASSUME NEW i \in 1..last PROVE e(i) \in R
    <3>1. (IF i <= Len(b) THEN b[i].user ELSE Nobody) \in Holders \cup {Nobody}
      BY <2>2, <2>3
    <3>2. (IF i \in upd.positions THEN upd.balances[i].amount
           ELSE IF i <= Len(b) THEN b[i].amount ELSE 0) \in Nat
      BY <2>1, <2>2, <2>3
    <3> QED BY <3>1, <3>2 DEF Entry
  <2> HIDE DEF e, R
  <2>6. Saved(b, upd) \in [1..last -> R]
    BY <2>4, <2>5
  <2>7. Saved(b, upd) \in Seq(R)
    BY <2>3, <2>6, FunctionIsSeq
  <2> QED BY <2>7 DEF Loose, R
<1> QED BY <1>1, <1>2

(* What is saved of a tidy card is what was computed, either way.          *)
LEMMA SavedTidy ==
    ASSUME NEW b, Tidy(b), NEW sell, sell.maker \in Holders, sell.taker \in Holders,
           sell.maker # sell.taker, AmountOf(b, sell.maker) > 0
    PROVE  /\ SaveOf(sell, b).at = "save"
           /\ Saved(b, SaveOf(sell, b)) = OwnersChanged(b, sell.maker, sell.taker)
<1> DEFINE m   == LastEntry(b, sell.maker)
           k   == LastEntry(b, sell.taker)
           new == OwnersChanged(b, sell.maker, sell.taker)
           upd == SaveOf(sell, b)
           n   == Len(b)
           L   == IF k = 0 THEN n + 1 ELSE n
<1>1. m # 0 /\ m \in 1..n /\ n \in Nat /\ k \in 0..n
  <2>1. n \in Nat /\ (m = 0 => AmountOf(b, sell.maker) = 0)
    BY TidyEntries
  <2>2. m \in 0..n /\ k \in 0..n
    BY <2>1, TidyIsLoose, LooseEntries
  <2> QED BY <2>1, <2>2
<1>2. upd = [at |-> "save", card |-> sell.card,
             kind |-> IF k = 0 \/ Len(new) # Len(b) THEN "replace" ELSE "set",
             balances |-> new, positions |-> {m, k}]
  BY <1>1 DEF SaveOf
<1>3. (k = 0 => L = n + 1) /\ (k # 0 => L = n)
  OBVIOUS
<1> HIDE DEF new, L, upd
<1>4. Exchange(b, sell.taker, m, k, new, L)
  <2>1. new = OwnersChanged(b, sell.maker, sell.taker) /\ b \in Loose
    BY TidyIsLoose DEF new
  <2>2. m # 0
    BY <1>1
  <2> HIDE DEF m, k
  <2>3. m = LastEntry(b, sell.maker) /\ k = LastEntry(b, sell.taker)
    BY DEF m, k
  <2> QED BY <1>3, <2>1, <2>2, <2>3, Exchanged
<1> HIDE DEF m, k
<1>5. upd.at = "save" /\ upd.balances = new /\ upd.positions = {m, k}
      /\ upd.kind = IF k = 0 \/ Len(new) # Len(b) THEN "replace" ELSE "set"
  BY <1>2
<1>6. CASE k = 0 \/ Len(new) # n
  BY <1>5, <1>6 DEF Saved, upd, new
<1>7. CASE k # 0 /\ Len(new) = n
  <2>1. L = n /\ k \in 1..n
    BY <1>1, <1>3, <1>7
  <2>2. b[m].amount > 1
    <3>1. Len(new) = IF b[m].amount > 1 THEN n ELSE n - 1
      BY <1>4, <2>1 DEF Exchange
    <3> QED BY <1>1, <1>7, <3>1
  <2>3. \A j \in 1..n : new[j] = Origin(b, sell.taker, m, k, j)
    <3>1. PICK p \in [1..Len(new) -> 1..L] :
            /\ \A j \in 1..Len(new) : new[j] = Origin(b, sell.taker, m, k, p[j])
            /\ b[m].amount > 1 => \A j \in 1..Len(new) : p[j] = j
      BY <1>4 DEF Exchange
    <3> QED BY <1>7, <2>2, <3>1
  <2>4. new = [j \in 1..n |-> new[j]]
    BY <1>4, <1>7 DEF Exchange
  <2>5. Max({n} \cup {m, k}) = n
    <3>1. m \in Nat /\ k \in Nat /\ m <= n /\ k <= n /\ n \in Nat
      BY <1>1, <2>1
    <3>2. \A x \in {n} \cup {m, k} : (\A y \in {n} \cup {m, k} : x >= y) => x = n
      BY <3>1
    <3>3. n \in {n} \cup {m, k} /\ \A y \in {n} \cup {m, k} : n >= y
      BY <3>1
    <3> QED BY <3>2, <3>3 DEF Max
  <2> DEFINE e(i) == Entry(IF i <= n THEN b[i].user ELSE Nobody,
                           IF i \in {m, k} THEN new[i].amount ELSE IF i <= n THEN b[i].amount ELSE 0)
  <2>6. Saved(b, upd) = [i \in 1..n |-> e(i)]
    <3>1. upd.kind # "replace"
      BY <1>5, <1>7
    <3> QED BY <1>5, <2>5, <3>1 DEF Saved
  <2>7. ASSUME NEW i \in 1..n PROVE e(i) = new[i]
    <3>1. i <= n /\ i # n + 1
      BY <1>1
    <3>2. new[i] = Entry(b[i].user, IF i = m THEN b[m].amount - 1
                                    ELSE IF i = k THEN b[k].amount + 1 ELSE b[i].amount)
      BY <2>3, <3>1 DEF Origin
    <3>3. \A x, y : Entry(x, y).amount = y
      BY DEF Entry
    <3> QED BY <3>1, <3>2, <3>3
  <2> HIDE DEF e
  <2>8. Saved(b, upd) = new
    BY <2>4, <2>6, <2>7
  <2> QED BY <1>5, <2>8 DEF upd, new
<1> QED BY <1>6, <1>7

-----------------------------------------------------------------------------
(* What the chain has of a token is what its card says, once the sells     *)
(* that wait are applied to it one after another, and every maker has one  *)
(* to give when his turn comes.                                            *)
Traced(f, q, id, g) ==
    \E st \in [1..(Len(q) + 1) -> [Holders -> Nat]] :
        /\ st[1] = f
        /\ \A i \in 1..Len(q) :
             IF q[i].card = id
             THEN st[i][q[i].maker] > 0 /\ st[i + 1] = Moved(st[i], q[i].maker, q[i].taker)
             ELSE st[i + 1] = st[i]
        /\ \A i \in 1..(Len(q) + 1) : (\A j \in i..Len(q) : q[j].card # id) => st[i] = g

LEMMA TraceStill ==
    ASSUME NEW S, NEW q \in Seq(S), NEW id, NEW f \in [Holders -> Nat],
           \A i \in 1..Len(q) : q[i].card # id
    PROVE  Traced(f, q, id, f)
<1> DEFINE st == [i \in 1..(Len(q) + 1) |-> f]
<1>1. st \in [1..(Len(q) + 1) -> [Holders -> Nat]] /\ Len(q) \in Nat
      /\ \A i \in 1..(Len(q) + 1) : st[i] = f
  BY LenProperties
<1> HIDE DEF st
<1>2. 1 \in 1..(Len(q) + 1) /\ \A i \in 1..Len(q) : i \in 1..(Len(q) + 1) /\ i + 1 \in 1..(Len(q) + 1)
  BY <1>1
<1> QED BY <1>1, <1>2 DEF Traced

LEMMA TraceEnd ==
    ASSUME NEW S, NEW q \in Seq(S), NEW id, NEW f, NEW g, Traced(f, q, id, g),
           \A i \in 1..Len(q) : q[i].card # id
    PROVE  f = g
<1>1. 1 \in 1..(Len(q) + 1)
  BY LenProperties
<1> QED BY <1>1 DEF Traced

LEMMA TraceAppend ==
    ASSUME NEW S, NEW q \in Seq(S), NEW id, NEW f, NEW g \in [Holders -> Nat], Traced(f, q, id, g),
           NEW e \in S, NEW h \in [Holders -> Nat],
           IF e.card = id THEN g[e.maker] > 0 /\ h = Moved(g, e.maker, e.taker) ELSE h = g
    PROVE  Traced(f, Append(q, e), id, h)
<1> DEFINE n == Len(q)
           w == Append(q, e)
<1>1. n \in Nat /\ Len(w) = n + 1 /\ w[n + 1] = e /\ \A i \in 1..n : w[i] = q[i]
  BY AppendProperties, LenProperties
<1> HIDE DEF n, w
<1>2. PICK st \in [1..(n + 1) -> [Holders -> Nat]] :
        /\ st[1] = f
        /\ \A i \in 1..n :
             IF q[i].card = id
             THEN st[i][q[i].maker] > 0 /\ st[i + 1] = Moved(st[i], q[i].maker, q[i].taker)
             ELSE st[i + 1] = st[i]
        /\ \A i \in 1..(n + 1) : (\A j \in i..n : q[j].card # id) => st[i] = g
  BY DEF Traced, n
<1> DEFINE su == [i \in 1..(n + 2) |-> IF i = n + 2 THEN h ELSE st[i]]
<1>3. /\ su[n + 2] = h /\ \A i \in 1..(n + 1) : su[i] = st[i]
      /\ su \in [1..(n + 2) -> [Holders -> Nat]]
  <2>1. n + 2 \in 1..(n + 2) /\ \A i \in 1..(n + 1) : i \in 1..(n + 2) /\ i # n + 2
    BY <1>1
  <2>2. \A i \in 1..(n + 2) : i # n + 2 => i \in 1..(n + 1)
    BY <1>1
  <2> QED BY <2>1, <2>2
<1> HIDE DEF su
<1>4. st[n + 1] = g
  <2>1. n + 1 \in 1..(n + 1) /\ \A j \in (n + 1)..n : FALSE
    BY <1>1
  <2> QED BY <1>2, <2>1
<1>5. su[1] = f
  BY <1>1, <1>2, <1>3
<1>6. ASSUME NEW i \in 1..(n + 1)
      PROVE  IF w[i].card = id
             THEN su[i][w[i].maker] > 0 /\ su[i + 1] = Moved(su[i], w[i].maker, w[i].taker)
             ELSE su[i + 1] = su[i]
  <2>1. CASE i = n + 1
    <3>1. i + 1 = n + 2
      BY <1>1, <2>1
    <3> QED BY <1>1, <1>3, <1>4, <2>1, <3>1
  <2>2. CASE i # n + 1
    <3>1. i \in 1..n /\ i + 1 \in 1..(n + 1)
      BY <1>1, <2>2
    <3> QED BY <1>1, <1>2, <1>3, <3>1
  <2> QED BY <2>1, <2>2
<1>7. ASSUME NEW i \in 1..(n + 2), \A j \in i..(n + 1) : w[j].card # id
      PROVE  su[i] = h
  <2>1. CASE i = n + 2
    BY <1>3, <2>1
  <2>2. CASE i # n + 2
    <3>1. i \in 1..(n + 1) /\ n + 1 \in i..(n + 1) /\ \A j \in i..n : j \in 1..n /\ j \in i..(n + 1)
      BY <1>1, <2>2
    <3>2. e.card # id /\ \A j \in i..n : q[j].card # id
      BY <1>1, <1>7, <3>1
    <3> QED BY <1>2, <1>3, <3>1, <3>2
  <2> QED BY <2>1, <2>2
<1>8. Len(w) + 1 = n + 2
  BY <1>1
<1>9. /\ su \in [1..(Len(w) + 1) -> [Holders -> Nat]]
      /\ su[1] = f
      /\ \A i \in 1..Len(w) :
           IF w[i].card = id
           THEN su[i][w[i].maker] > 0 /\ su[i + 1] = Moved(su[i], w[i].maker, w[i].taker)
           ELSE su[i + 1] = su[i]
      /\ \A i \in 1..(Len(w) + 1) : (\A j \in i..Len(w) : w[j].card # id) => su[i] = h
  <2>1. Len(w) = n + 1
    BY <1>1
  <2>2. su \in [1..(Len(w) + 1) -> [Holders -> Nat]]
    BY <1>3, <1>8
  <2>3. \A i \in 1..(n + 2) : (\A j \in i..(n + 1) : w[j].card # id) => su[i] = h
    BY <1>7
  <2>4. \A i \in 1..(Len(w) + 1) : (\A j \in i..Len(w) : w[j].card # id) => su[i] = h
    BY <1>8, <2>1, <2>3, Zenon
  <2> QED BY <1>5, <1>6, <2>1, <2>2, <2>4
<1>10. Traced(f, w, id, h)
  BY <1>9, Zenon DEF Traced
<1> QED BY <1>10 DEF w

LEMMA TraceTail ==
    ASSUME NEW S, NEW q \in Seq(S), q # <<>>, NEW id, NEW f, NEW g, Traced(f, q, id, g)
    PROVE  \E h \in [Holders -> Nat] :
              /\ IF Head(q).card = id
                 THEN f[Head(q).maker] > 0 /\ h = Moved(f, Head(q).maker, Head(q).taker)
                 ELSE h = f
              /\ Traced(h, Tail(q), id, g)
<1> DEFINE n == Len(q)
           w == Tail(q)
<1>1. /\ n \in Nat /\ n >= 1 /\ Len(w) = n - 1 /\ q[1] = Head(q)
      /\ \A i \in 1..(n - 1) : w[i] = q[i + 1]
  <2>1. n \in Nat /\ n # 0
    BY EmptySeq, LenProperties
  <2>2. Head(q) = q[1]
    OBVIOUS
  <2> QED BY <2>1, <2>2, HeadTailProperties
<1> HIDE DEF n, w
<1>2. PICK st \in [1..(n + 1) -> [Holders -> Nat]] :
        /\ st[1] = f
        /\ \A i \in 1..n :
             IF q[i].card = id
             THEN st[i][q[i].maker] > 0 /\ st[i + 1] = Moved(st[i], q[i].maker, q[i].taker)
             ELSE st[i + 1] = st[i]
        /\ \A i \in 1..(n + 1) : (\A j \in i..n : q[j].card # id) => st[i] = g
  BY DEF Traced, n
<1> DEFINE su == [i \in 1..n |-> st[i + 1]]
<1>3. /\ \A i \in 1..n : i + 1 \in 1..(n + 1) /\ su[i] = st[i + 1]
      /\ su \in [1..n -> [Holders -> Nat]]
  BY <1>1
<1> HIDE DEF su
<1>4. /\ su[1] \in [Holders -> Nat]
      /\ IF Head(q).card = id
         THEN f[Head(q).maker] > 0 /\ su[1] = Moved(f, Head(q).maker, Head(q).taker)
         ELSE su[1] = f
  <2>1. 1 \in 1..n /\ su[1] = st[1 + 1]
    BY <1>1, <1>3
  <2> QED BY <1>1, <1>2, <1>3, <2>1
<1>5. ASSUME NEW i \in 1..(n - 1)
      PROVE  IF w[i].card = id
             THEN su[i][w[i].maker] > 0 /\ su[i + 1] = Moved(su[i], w[i].maker, w[i].taker)
             ELSE su[i + 1] = su[i]
  <2>1. i \in 1..n /\ i + 1 \in 1..n
    BY <1>1
  <2> QED BY <1>1, <1>2, <1>3, <2>1
<1>6. ASSUME NEW i \in 1..n, \A j \in i..(n - 1) : w[j].card # id
      PROVE  su[i] = g
  <2>1. ASSUME NEW j \in (i + 1)..n PROVE q[j].card # id
    <3>1. j - 1 \in i..(n - 1) /\ j - 1 \in 1..(n - 1) /\ (j - 1) + 1 = j
      BY <1>1
    <3> QED BY <1>1, <1>6, <3>1
  <2>2. i + 1 \in 1..(n + 1)
    BY <1>1
  <2> QED BY <1>2, <1>3, <2>1, <2>2
<1>7. Len(w) + 1 = n
  BY <1>1
<1>8. Traced(su[1], w, id, g)
  <2>1. Len(w) = n - 1
    BY <1>1
  <2>2. su \in [1..(Len(w) + 1) -> [Holders -> Nat]]
    BY <1>3, <1>7
  <2>3. \A i \in 1..Len(w) :
          IF w[i].card = id
          THEN su[i][w[i].maker] > 0 /\ su[i + 1] = Moved(su[i], w[i].maker, w[i].taker)
          ELSE su[i + 1] = su[i]
    BY <1>5, <2>1
  <2>4. \A i \in 1..n : (\A j \in i..(n - 1) : w[j].card # id) => su[i] = g
    BY <1>6
  <2>5. \A i \in 1..(Len(w) + 1) : (\A j \in i..Len(w) : w[j].card # id) => su[i] = g
    BY <1>7, <2>1, <2>4, Zenon
  <2>6. su[1] = su[1]
    OBVIOUS
  <2> QED BY <2>2, <2>3, <2>5, <2>6, Zenon DEF Traced
<1> QED BY <1>4, <1>8 DEF w

-----------------------------------------------------------------------------
(* The marketplace beside the import: types, a sale known by its number, a *)
(* sell that is the fill of one sale and waits once, and cards deleted by  *)
(* an import that do not come back.                                        *)
Sale == [num : Nat, card : Nat, user : Holders, status : {"sale", "sold"}]
Sell == [num : Nat, card : Nat, maker : Holders, taker : Holders]

ChainOK ==
    /\ held \in [Tokens -> [Holders -> Nat]] /\ unsettled \in [Tokens -> BOOLEAN]
    /\ files \subseteq Tokens /\ collection \in BOOLEAN

CardsOK == \A t \in Tokens : cards[t].balances \in Loose /\ cards[t].hasSale \in BOOLEAN

TasksOK ==
    /\ sync.at \in {"idle", "collection", "cards", "delete", "sales", "files", "done"}
    /\ \A t \in Tokens : /\ sync.tasks[t].offset \in Nat /\ sync.tasks[t].balances \in Loose
                         /\ sync.tasks[t].unsettled \in BOOLEAN

SalesOK ==
    /\ IsFiniteSet(sales) /\ sales \subseteq Sale /\ ids.sale \in Nat
    /\ \A s \in sales : s.num \in 1..ids.sale /\ s.card \in 1..ids.card
    /\ \A s, x \in sales : s.num = x.num => s = x

SellsOK ==
    /\ sells \in Seq(Sell)
    /\ \A i \in 1..Len(sells) :
         /\ sells[i].num \in 1..ids.sale /\ sells[i].card \in 1..ids.card
         /\ sells[i].maker # sells[i].taker
         /\ \A s \in sales : s.num = sells[i].num => s.card = sells[i].card /\ s.user = sells[i].maker
    /\ \A i, j \in 1..Len(sells) : sells[i].num = sells[j].num => i = j

ApplyOK == apply.at \in {"idle", "save", "flag"} /\ Savable(apply)

ReqOK == req.at \in {"idle", "store"} /\ (req.at = "store" => req.user \in Holders)

GoneOK == sync.at \in {"sales", "files", "done"} => \A c \in sync.unused : c.id \notin CardIds

MarketInv ==
    ChainOK /\ CardsOK /\ TasksOK /\ SalesOK /\ SellsOK /\ ApplyOK /\ ReqOK /\ GoneOK /\ SalesHaveCards

(* What is on sale at first: at most one of a card for a holder, who has   *)
(* some of it.                                                             *)
LEMMA FirstSales ==
    ASSUME NEW stored \in Databases
    PROVE  /\ IsFiniteSet(SalesAt(stored)) /\ Cardinality(SalesAt(stored)) \in Nat
           /\ SalesAt(stored) \subseteq Sale
           /\ \A s \in SalesAt(stored) :
                /\ s.num \in 1..Cardinality(SalesAt(stored)) /\ s.card \in 1..Cardinality(stored)
                /\ \E t \in stored : s.card = CardIdAt(stored, t) /\ s.user \in Sellers[t]
           /\ \A s, x \in SalesAt(stored) : s.num = x.num => s = x
           /\ \A s, x \in SalesAt(stored) : s.card = x.card /\ s.user = x.user => s = x
<1> DEFINE S  == {x \in stored \X Holders : x[2] \in Sellers[x[1]]}
           n  == Cardinality(S)
           on == SetToSeq(S)
           f(i) == [num |-> i, card |-> CardIdAt(stored, on[i][1]), user |-> on[i][2], status |-> "sale"]
           F  == [i \in 1..n |-> f(i)]
           ss == SalesAt(stored)
<1>1. stored \subseteq Tokens /\ stored \subseteq Nat /\ IsFiniteSet(stored)
  BY SyncAssumption, FS_Subset
<1>2. /\ Cardinality(stored) \in Nat
      /\ \A t \in stored : CardIdAt(stored, t) \in 1..Cardinality(stored)
      /\ \A t, x \in stored : CardIdAt(stored, t) = CardIdAt(stored, x) => t = x
  BY <1>1, FirstIds
<1>3. IsFiniteSet(S)
  <2>1. IsFiniteSet(stored \X Holders)
    BY <1>1, SyncAssumption, FS_Product
  <2> QED BY <2>1, FS_Subset
<1>4. n \in Nat /\ on \in [1..n -> S] /\ \A i, j \in 1..n : on[i] = on[j] => i = j
  <2> HIDE DEF S
  <2>1. n \in Nat /\ ExistsBijection(1..n, S)
    BY <1>3, FS_CardinalityType
  <2>2. \E g \in [1..n -> S] : IsInjective(g)
    BY <2>1 DEF ExistsBijection, Bijection, Injection
  <2>3. on \in [1..n -> S] /\ IsInjective(on)
    BY <2>2 DEF SetToSeq
  <2> QED BY <2>1, <2>3 DEF IsInjective
<1>5. \A x \in S : x[1] \in stored /\ x[2] \in Holders /\ x[2] \in Sellers[x[1]] /\ x = <<x[1], x[2]>>
  OBVIOUS
<1> HIDE DEF S, n, on
<1>6. ss = {f(i) : i \in 1..n}
  <2>1. DOMAIN on = 1..n
    BY <1>4
  <2> QED BY <2>1 DEF SalesAt, on, S
<1> HIDE DEF ss
<1>7. ASSUME NEW i \in 1..n
      PROVE  /\ f(i) \in ss /\ f(i) \in Sale /\ f(i).num = i
             /\ f(i).card \in 1..Cardinality(stored)
             /\ \E t \in stored : f(i).card = CardIdAt(stored, t) /\ f(i).user \in Sellers[t]
  <2>1. on[i] \in S
    BY <1>4
  <2>2. on[i][1] \in stored /\ on[i][2] \in Holders /\ on[i][2] \in Sellers[on[i][1]]
    BY <1>5, <2>1
  <2>3. CardIdAt(stored, on[i][1]) \in 1..Cardinality(stored) /\ CardIdAt(stored, on[i][1]) \in Nat
    BY <1>2, <2>2
  <2>4. i \in Nat
    BY <1>4
  <2> QED BY <1>6, <2>2, <2>3, <2>4 DEF Sale
<1>8. ASSUME NEW i \in 1..n, NEW j \in 1..n, f(i).card = f(j).card, f(i).user = f(j).user
      PROVE  i = j
  <2>1. on[i] \in S /\ on[j] \in S
    BY <1>4
  <2>2. on[i][1] \in stored /\ on[j][1] \in stored /\ on[i] = <<on[i][1], on[i][2]>>
        /\ on[j] = <<on[j][1], on[j][2]>>
    BY <1>5, <2>1
  <2>3. on[i][1] = on[j][1] /\ on[i][2] = on[j][2]
    BY <1>2, <1>8, <2>2
  <2>4. on[i] = on[j]
    BY <2>2, <2>3
  <2> QED BY <1>4, <2>4
<1> HIDE DEF f
<1>9. F \in [1..n -> ss] /\ \A i \in 1..n : F[i] = f(i)
  BY <1>7
<1> HIDE DEF F
<1>10. F \in Surjection(1..n, ss)
  BY <1>6, <1>9 DEF Surjection
<1>11. F \in Injection(1..n, ss)
  <2>1. \A i, j \in 1..n : F[i] = F[j] => i = j
    BY <1>7, <1>9
  <2>2. DOMAIN F = 1..n
    BY <1>9
  <2> QED BY <1>9, <2>1, <2>2 DEF Injection, IsInjective
<1>12. IsFiniteSet(ss) /\ Cardinality(ss) = n
  <2>1. IsFiniteSet(1..n) /\ Cardinality(1..n) = n
    BY <1>4, UpTo
  <2> QED BY <1>10, <1>11, <2>1, FS_Surjection
<1>13. \A s \in ss : \E i \in 1..n : s = f(i)
  BY <1>6
<1>14. ss \subseteq Sale
  BY <1>7, <1>13
<1>15. \A s \in ss : /\ s.num \in 1..Cardinality(ss) /\ s.card \in 1..Cardinality(stored)
                     /\ \E t \in stored : s.card = CardIdAt(stored, t) /\ s.user \in Sellers[t]
  BY <1>7, <1>12, <1>13
<1>16. \A s, x \in ss : s.num = x.num => s = x
  BY <1>7, <1>13
<1>17. \A s, x \in ss : s.card = x.card /\ s.user = x.user => s = x
  BY <1>8, <1>13
<1> QED BY <1>4, <1>12, <1>14, <1>15, <1>16, <1>17 DEF ss

LEMMA MarketInit ==
    ASSUME Init
    PROVE  MarketInv
<1>1. PICK stored \in Databases :
        /\ cards = [t \in Tokens |->
                      IF t \in stored
                      THEN [id |-> CardIdAt(stored, t), balances |-> HoldersOf(t), hasSale |-> Sellers[t] # {}]
                      ELSE NoCard]
        /\ files = stored
        /\ collection = (stored # {})
        /\ ids = [card |-> Cardinality(stored), sale |-> Cardinality(SalesAt(stored))]
        /\ sales = SalesAt(stored)
  BY DEF Init
<1>2. stored \subseteq Tokens
  BY SyncAssumption
<1>3. ChainOK
  BY <1>1, <1>2, SyncAssumption DEF Init, ChainOK
<1>4. CardsOK
  <2>1. <<>> \in Loose
    BY EmptySeq DEF Loose
  <2>2. \A t \in Tokens : HoldersOf(t) \in Loose
    BY <1>3, HoldersAreTidy, TidyIsLoose DEF ChainOK
  <2>3. ASSUME NEW t \in Tokens
        PROVE  cards[t].balances \in Loose /\ cards[t].hasSale \in BOOLEAN
    <3>1. CASE t \in stored
      <4> DEFINE c == [id |-> CardIdAt(stored, t), balances |-> HoldersOf(t), hasSale |-> Sellers[t] # {}]
      <4>1. cards[t] = c
        BY <1>1, <3>1
      <4>2. c.balances = HoldersOf(t) /\ c.hasSale \in BOOLEAN
        OBVIOUS
      <4> QED BY <2>2, <4>1, <4>2
    <3>2. CASE t \notin stored
      <4>1. cards[t] = NoCard
        BY <1>1, <3>2
      <4> QED BY <2>1, <4>1 DEF NoCard
    <3> QED BY <3>1, <3>2
  <2> QED BY <2>3 DEF CardsOK
<1>5. TasksOK
  BY EmptySeq DEF Init, TasksOK, NoSync, NoTask, Loose
<1>6. SalesOK
  BY <1>1, FirstSales DEF SalesOK
<1>7. SellsOK
  <2>1. sells \in Seq(Sell) /\ Len(sells) = 0
    BY EmptySeq DEF Init
  <2> QED BY <2>1 DEF SellsOK
<1>8. ApplyOK /\ ReqOK /\ GoneOK
  BY DEF Init, ApplyOK, ReqOK, GoneOK, Savable, NoApply, NoReq, NoSync
<1>9. SalesHaveCards
  <2>1. ASSUME NEW s \in sales PROVE s.card \in CardIds
    <3>1. PICK t \in stored : s.card = CardIdAt(stored, t)
      BY <1>1, <2>1, FirstSales
    <3>2. s.card \in 1..Cardinality(stored) /\ Cardinality(stored) \in Nat
      BY <1>1, <2>1, FirstSales, <1>2, SyncAssumption, FS_Subset, FirstIds
    <3>3. s.card = cards[t].id /\ t \in Tokens
      BY <1>1, <1>2, <3>1
    <3> QED BY <3>2, <3>3 DEF CardIds
  <2> QED BY <2>1 DEF SalesHaveCards
<1> QED BY <1>3, <1>4, <1>5, <1>6, <1>7, <1>8, <1>9 DEF MarketInv

(* One of a token goes from a to b.                                        *)
LEMMA ChainMoved ==
    ASSUME held \in [Tokens -> [Holders -> Nat]], NEW t \in Tokens, NEW a \in Holders, NEW b \in Holders,
           ChainMoves(t, a, b)
    PROVE  /\ held' \in [Tokens -> [Holders -> Nat]]
           /\ held[t][a] > 0 /\ a # b
           /\ held'[t] = Moved(held[t], a, b)
           /\ \A x \in Tokens : x # t => held'[x] = held[x]
<1>1. /\ a # b /\ held[t][a] > 0
      /\ held' = [held EXCEPT ![t][a] = @ - 1, ![t][b] = @ + 1]
  BY DEF ChainMoves
<1>2. held[t] \in [Holders -> Nat]
  OBVIOUS
<1>3. held[t][a] - 1 \in Nat /\ held[t][b] + 1 \in Nat
  BY <1>1, <1>2
<1> DEFINE f == [held[t] EXCEPT ![a] = @ - 1, ![b] = @ + 1]
<1>4. f = Moved(held[t], a, b)
  <2>1. held[t] = [h \in Holders |-> held[t][h]]
    BY <1>2
  <2> QED BY <1>1, <2>1 DEF Moved
<1>5. f \in [Holders -> Nat]
  BY <1>2, <1>3
<1>6. held' = [held EXCEPT ![t] = f]
  BY <1>1
<1> HIDE DEF f
<1> QED BY <1>1, <1>4, <1>5, <1>6

LEMMA Flagged ==
    ASSUME SyncInv, NEW t \in Tokens, sync' = [sync EXCEPT !.tasks[t].unsettled = TRUE]
    PROVE  /\ sync'.at = sync.at /\ sync'.unused = sync.unused
           /\ \A x \in Tokens : /\ sync'.tasks[x].at = sync.tasks[x].at
                                /\ sync'.tasks[x].offset = sync.tasks[x].offset
                                /\ sync'.tasks[x].balances = sync.tasks[x].balances
                                /\ x # t => sync'.tasks[x] = sync.tasks[x]
           /\ sync'.tasks[t].unsettled = TRUE
<1> DEFINE w == [sync.tasks[t] EXCEPT !.unsettled = TRUE]
<1>1. sync' = [sync EXCEPT !.tasks = [sync.tasks EXCEPT ![t] = w]]
  OBVIOUS
<1>2. /\ sync'.at = sync.at /\ sync'.unused = sync.unused
      /\ sync'.tasks = [sync.tasks EXCEPT ![t] = w] /\ DOMAIN sync.tasks = Tokens
  BY <1>1 DEF SyncInv, TaskInv
<1>3. /\ w.at = sync.tasks[t].at /\ w.offset = sync.tasks[t].offset
      /\ w.balances = sync.tasks[t].balances /\ w.unsettled = TRUE
  BY DEF SyncInv, TaskInv
<1> HIDE DEF w
<1>4. sync'.tasks[t] = w /\ \A x \in Tokens : x # t => sync'.tasks[x] = sync.tasks[x]
  BY <1>2
<1>5. sync'.tasks[t].unsettled = TRUE
  BY <1>3, <1>4
<1>6. ASSUME NEW x \in Tokens
      PROVE  /\ sync'.tasks[x].at = sync.tasks[x].at
             /\ sync'.tasks[x].offset = sync.tasks[x].offset
             /\ sync'.tasks[x].balances = sync.tasks[x].balances
  BY <1>3, <1>4
<1> QED BY <1>2, <1>4, <1>5, <1>6

LEMMA TasksStay ==
    ASSUME SyncInv, TasksOK, NEW t \in Tokens,
           sync' = sync \/ sync' = [sync EXCEPT !.tasks[t].unsettled = TRUE]
    PROVE  TasksOK'
<1>1. CASE sync' = sync
  BY <1>1 DEF TasksOK
<1>2. CASE sync' = [sync EXCEPT !.tasks[t].unsettled = TRUE]
  <2>1. /\ sync'.at = sync.at
        /\ \A x \in Tokens : /\ sync'.tasks[x].offset = sync.tasks[x].offset
                             /\ sync'.tasks[x].balances = sync.tasks[x].balances
    BY <1>2, Flagged
  <2>2. ASSUME NEW x \in Tokens PROVE sync'.tasks[x].unsettled \in BOOLEAN
    <3>1. CASE x = t
      <4>1. sync'.tasks[x].unsettled = TRUE
        BY <1>2, <3>1, Flagged
      <4> QED BY <4>1
    <3>2. CASE x # t
      <4>1. sync'.tasks[x] = sync.tasks[x]
        BY <1>2, <3>2, Flagged
      <4> QED BY <4>1 DEF TasksOK
    <3> QED BY <3>1, <3>2
  <2> QED BY <2>1, <2>2 DEF TasksOK
<1> QED BY <1>1, <1>2

LEMMA GoneStays ==
    ASSUME SyncInv, GoneOK, SalesHaveCards, \A t \in Tokens : cards'[t].id = cards[t].id,
           sync' = sync \/ \E t \in Tokens : sync' = [sync EXCEPT !.tasks[t].unsettled = TRUE]
    PROVE  /\ GoneOK' /\ CardIds' = CardIds
           /\ orphaned' = orphaned /\ sales' \subseteq sales => SalesHaveCards'
<1>1. sync'.at = sync.at /\ sync'.unused = sync.unused
  BY DEF SyncInv, TaskInv
<1>2. CardIds' = CardIds
  BY DEF CardIds
<1> QED BY <1>1, <1>2 DEF GoneOK, SalesHaveCards

(* The sells when one more waits.                                          *)
LEMMA SellsAppend ==
    ASSUME SellsOK, SalesOK, NEW s \in sales, NEW b \in Holders, s.user # b,
           \A i \in DOMAIN sells : sells[i].num # s.num,
           sells' = Append(sells, [num |-> s.num, card |-> s.card, maker |-> s.user, taker |-> b]),
           UNCHANGED <<sales, ids>>
    PROVE  SellsOK'
<1> DEFINE e == [num |-> s.num, card |-> s.card, maker |-> s.user, taker |-> b]
           n == Len(sells)
<1>1. s \in Sale /\ s.num \in 1..ids.sale /\ s.card \in 1..ids.card
  BY DEF SalesOK
<1>2. e \in Sell
  BY <1>1 DEF Sale, Sell
<1>3. e.num = s.num /\ e.card = s.card /\ e.maker = s.user /\ e.taker = b
  OBVIOUS
<1>4. sells' = Append(sells, e)
  OBVIOUS
<1> HIDE DEF e
<1>5. /\ n \in Nat /\ DOMAIN sells = 1..n /\ sells' \in Seq(Sell) /\ Len(sells') = n + 1
      /\ \A i \in 1..n : sells'[i] = sells[i]
      /\ sells'[n + 1] = e
  BY <1>2, <1>4, AppendProperties, LenProperties DEF SellsOK
<1> HIDE DEF n
<1>6. \A i \in 1..(n + 1) : (i \in 1..n /\ sells'[i] = sells[i]) \/ (i = n + 1 /\ sells'[i] = e)
  BY <1>5
<1>7. ASSUME NEW i \in 1..(n + 1)
      PROVE  /\ sells'[i].num \in 1..ids.sale /\ sells'[i].card \in 1..ids.card
             /\ sells'[i].maker # sells'[i].taker
             /\ \A x \in sales : x.num = sells'[i].num => x.card = sells'[i].card /\ x.user = sells'[i].maker
  <2>1. CASE i \in 1..n /\ sells'[i] = sells[i]
    BY <1>5, <2>1 DEF SellsOK, n
  <2>2. CASE sells'[i] = e
    BY <1>1, <1>3, <2>2 DEF SalesOK
  <2> QED BY <1>6, <2>1, <2>2
<1>8. ASSUME NEW i \in 1..(n + 1), NEW j \in 1..(n + 1), sells'[i].num = sells'[j].num
      PROVE  i = j
  <2>1. \A x \in 1..n : sells[x].num # e.num
    BY <1>3, <1>5
  <2>2. \A x, y \in 1..n : sells[x].num = sells[y].num => x = y
    BY DEF SellsOK, n
  <2> QED BY <1>6, <1>8, <2>1, <2>2
<1> QED BY <1>5, <1>7, <1>8 DEF SellsOK

LEMMA MarketChain ==
    ASSUME SyncInv, MarketInv,
           \/ \E t \in Tokens, a, b \in Holders : Transfer(t, a, b)
           \/ \E s \in sales, b \in Holders : Fill(s, b)
           \/ \E t \in Tokens : RegistryMoves(t)
           \/ \E t \in Tokens, h \in Holders : CheckSale(t, h)
    PROVE  MarketInv'
<1>1. UNCHANGED <<cards, ids, sales, files, collection, apply, orphaned>>
  BY DEF Transfer, Fill, RegistryMoves, CheckSale, db, history
<1>2. /\ ChainOK /\ CardsOK /\ TasksOK /\ SalesOK /\ SellsOK /\ ApplyOK /\ ReqOK /\ GoneOK /\ SalesHaveCards
  BY DEF MarketInv
<1>3. CardsOK' /\ SalesOK' /\ ApplyOK'
  BY <1>1, <1>2 DEF CardsOK, SalesOK, ApplyOK
<1>4. ASSUME NEW t \in Tokens, sync' = sync \/ sync' = [sync EXCEPT !.tasks[t].unsettled = TRUE]
      PROVE  TasksOK' /\ GoneOK' /\ SalesHaveCards'
  BY <1>1, <1>2, <1>4, TasksStay, GoneStays
<1>5. ASSUME UNCHANGED sells PROVE SellsOK'
  BY <1>1, <1>2, <1>5 DEF SellsOK
<1>6. ASSUME NEW t \in Tokens, NEW h \in Holders, CheckSale(t, h) PROVE MarketInv'
  <2>1. UNCHANGED <<held, unsettled, sync, sells>> /\ req' = [at |-> "store", card |-> cards[t].id, user |-> h]
    BY <1>6 DEF CheckSale, chain, history
  <2>2. ChainOK' /\ ReqOK'
    BY <1>1, <1>2, <2>1 DEF ChainOK, ReqOK
  <2> QED BY <1>3, <1>4, <1>5, <2>1, <2>2 DEF MarketInv
<1>7. ASSUME NEW t \in Tokens, RegistryMoves(t) PROVE MarketInv'
  <2>1. UNCHANGED <<held, unsettled, sync, sells, req>>
    BY <1>7 DEF RegistryMoves, history
  <2>2. ChainOK' /\ ReqOK'
    BY <1>1, <1>2, <2>1 DEF ChainOK, ReqOK
  <2> QED BY <1>3, <1>4, <1>5, <2>1, <2>2 DEF MarketInv
<1>8. ASSUME NEW t \in Tokens, NEW a \in Holders, NEW b \in Holders, Transfer(t, a, b)
      PROVE  MarketInv'
  <2>1. /\ UNCHANGED <<sells, req>> /\ unsettled' = [unsettled EXCEPT ![t] = TRUE] /\ ChainMoves(t, a, b)
        /\ sync' = sync \/ sync' = [sync EXCEPT !.tasks[t].unsettled = TRUE]
    BY <1>8 DEF Transfer, Unsettle
  <2>2. held' \in [Tokens -> [Holders -> Nat]]
    BY <1>2, <2>1, ChainMoved DEF ChainOK
  <2>3. ChainOK' /\ ReqOK'
    BY <1>1, <1>2, <2>1, <2>2 DEF ChainOK, ReqOK
  <2> QED BY <1>3, <1>4, <1>5, <2>1, <2>3 DEF MarketInv
<1>9. ASSUME NEW s \in sales, NEW b \in Holders, Fill(s, b) PROVE MarketInv'
  <2> DEFINE t == TokenOf(s.card)
  <2>1. /\ UNCHANGED <<req, unsettled>> /\ t \in registry /\ ChainMoves(t, s.user, b)
        /\ sync' = sync \/ sync' = [sync EXCEPT !.tasks[t].unsettled = TRUE]
        /\ \A i \in DOMAIN sells : sells[i].num # s.num
        /\ sells' = Append(sells, [num |-> s.num, card |-> s.card, maker |-> s.user, taker |-> b])
    BY <1>9 DEF Fill, history
  <2>2. t \in Tokens
    BY <2>1 DEF SyncInv, TaskInv
  <2> HIDE DEF t
  <2>3. s.user \in Holders
    BY <1>2 DEF SalesOK, Sale
  <2>4. held' \in [Tokens -> [Holders -> Nat]] /\ s.user # b
    BY <1>2, <2>1, <2>2, <2>3, ChainMoved DEF ChainOK
  <2>5. ChainOK' /\ ReqOK'
    BY <1>1, <1>2, <2>1, <2>4 DEF ChainOK, ReqOK
  <2>6. SellsOK'
    BY <1>1, <1>2, <2>1, <2>4, SellsAppend
  <2> QED BY <1>3, <1>4, <2>1, <2>2, <2>5, <2>6 DEF MarketInv
<1> QED BY <1>6, <1>7, <1>8, <1>9

(* A card changed by one who has its id.                                   *)
LEMMA CardChanged ==
    ASSUME CardsOK, NEW id, NEW f,
           cards' = [t \in Tokens |-> IF cards[t].id = id THEN f[t] ELSE cards[t]],
           \A t \in Tokens : cards[t].id = id =>
               f[t].id = cards[t].id /\ f[t].balances \in Loose /\ f[t].hasSale \in BOOLEAN
    PROVE  CardsOK' /\ \A t \in Tokens : cards'[t].id = cards[t].id
<1>1. \A t \in Tokens : \/ cards[t].id = id /\ cards'[t] = f[t]
                        \/ cards[t].id # id /\ cards'[t] = cards[t]
  OBVIOUS
<1> QED BY <1>1 DEF CardsOK

LEMMA SaleStored ==
    ASSUME SalesOK, SellsOK, NEW new \in Sale, new.num = ids.sale + 1, new.card \in 1..ids.card,
           sales' = sales \cup {new}, ids'.sale = ids.sale + 1, ids'.card = ids.card, sells' = sells
    PROVE  SalesOK' /\ SellsOK'
<1>1. ids.sale \in Nat /\ \A s \in sales : s.num \in 1..ids.sale
  BY DEF SalesOK
<1>2. IsFiniteSet(sales') /\ sales' \subseteq Sale
  BY FS_AddElement DEF SalesOK
<1>3. \A n : n \in 1..ids.sale => n \in 1..ids'.sale /\ n # ids.sale + 1
  BY <1>1
<1>4. ids'.sale \in Nat /\ new.num \in 1..ids'.sale
  BY <1>1
<1>5. SalesOK'
  BY <1>1, <1>2, <1>3, <1>4 DEF SalesOK
<1>6. ASSUME NEW i \in 1..Len(sells)
      PROVE  \A s \in sales' : s.num = sells[i].num => s.card = sells[i].card /\ s.user = sells[i].maker
  BY <1>3 DEF SellsOK
<1> QED BY <1>3, <1>5, <1>6 DEF SellsOK

LEMMA MarketStores ==
    ASSUME SyncInv, MarketInv, StoreSale
    PROVE  MarketInv'
<1> DEFINE new == [num |-> ids.sale + 1, card |-> req.card, user |-> req.user, status |-> "sale"]
           f   == [t \in Tokens |-> [cards[t] EXCEPT !.hasSale = TRUE]]
<1>1. /\ ChainOK /\ CardsOK /\ TasksOK /\ SalesOK /\ SellsOK /\ ApplyOK /\ ReqOK /\ GoneOK /\ SalesHaveCards
  BY DEF MarketInv
<1>2. /\ req.at = "store" /\ req.card \in 1..ids.card /\ req.user \in Holders
      /\ ids' = [ids EXCEPT !.sale = @ + 1] /\ req' = NoReq
      /\ UNCHANGED <<held, unsettled, files, collection, sells, apply, sync>>
      /\ orphaned' = IF req.card \in CardIds THEN orphaned ELSE orphaned \cup {req.card}
  BY <1>1 DEF StoreSale, SyncInv, HandlesInv, ReqOK, chain
<1>3. ids'.sale = ids.sale + 1 /\ ids'.card = ids.card /\ ids.sale \in Nat /\ ids.card \in Nat
  BY <1>1, <1>2 DEF SyncInv, CardsInv, SalesOK
<1>4. sales' = sales \cup {new}
  BY <1>3 DEF StoreSale
<1>5. new \in Sale /\ new.num = ids.sale + 1 /\ new.card = req.card /\ new.user = req.user
  BY <1>2, <1>3 DEF Sale
<1> HIDE DEF new
<1>6. cards' = [t \in Tokens |-> IF cards[t].id = req.card THEN f[t] ELSE cards[t]]
  BY DEF StoreSale
<1>7. \A t \in Tokens : f[t].id = cards[t].id /\ f[t].balances \in Loose /\ f[t].hasSale \in BOOLEAN
  BY <1>1 DEF CardsOK, SyncInv, CardsInv
<1> HIDE DEF f
<1>8. CardsOK' /\ \A t \in Tokens : cards'[t].id = cards[t].id
  BY <1>1, <1>6, <1>7, CardChanged
<1>9. SalesOK' /\ SellsOK'
  BY <1>1, <1>2, <1>3, <1>4, <1>5, SaleStored
<1>10. ChainOK' /\ TasksOK' /\ ApplyOK'
  BY <1>1, <1>2 DEF ChainOK, TasksOK, ApplyOK
<1>11. ReqOK'
  BY <1>2 DEF ReqOK, NoReq
<1>12. GoneOK' /\ CardIds' = CardIds
  BY <1>1, <1>2, <1>8, GoneStays
<1>13. SalesHaveCards'
  <2>1. ASSUME NEW s \in sales'
        PROVE  \/ s.card \in CardIds \cup orphaned'
               \/ sync.at = "sales" /\ \E c \in sync.unused : c.id = s.card
    BY <1>1, <1>2, <1>4, <1>5 DEF SalesHaveCards
  <2> QED BY <1>2, <1>12, <2>1 DEF SalesHaveCards
<1> QED BY <1>8, <1>9, <1>10, <1>11, <1>12, <1>13 DEF MarketInv

(* A sale is sold: the sales are what they were, but for its status.       *)
LEMMA SalesSold ==
    ASSUME SalesOK, NEW sell, SoldOut(sell)
    PROVE  /\ IsFiniteSet(sales')  /\ sales' \subseteq Sale
           /\ \A x \in sales' : \E s \in sales :
                 /\ x.num = s.num /\ x.card = s.card /\ x.user = s.user
                 /\ IF s.num = sell.num THEN x.status = "sold" ELSE x = s
           /\ \A s \in sales : \E x \in sales' :
                 /\ x.num = s.num /\ x.card = s.card /\ x.user = s.user
                 /\ IF s.num = sell.num THEN x.status = "sold" ELSE x = s
           /\ \A x, y \in sales' : x.num = y.num => x = y
<1> DEFINE f == [s \in sales |-> IF s.num = sell.num THEN [s EXCEPT !.status = "sold"] ELSE s]
<1>1. sales' = {f[s] : s \in sales}
  BY DEF SoldOut
<1>2. ASSUME NEW s \in sales
      PROVE  /\ f[s] \in Sale /\ f[s].num = s.num /\ f[s].card = s.card /\ f[s].user = s.user
             /\ IF s.num = sell.num THEN f[s].status = "sold" ELSE f[s] = s
  BY DEF SalesOK, Sale
<1>3. f \in [sales -> sales']
  BY <1>1
<1> HIDE DEF f
<1>4. f \in Surjection(sales, sales')
  BY <1>1, <1>3 DEF Surjection
<1>5. IsFiniteSet(sales')
  BY <1>4, FS_Surjection DEF SalesOK
<1>6. \A x, y \in sales' : x.num = y.num => x = y
  BY <1>1, <1>2 DEF SalesOK
<1>7. sales' \subseteq Sale
  BY <1>1, <1>2
<1> QED BY <1>1, <1>2, <1>5, <1>6, <1>7

LEMMA MarketReadsSold ==
    ASSUME SyncInv, MarketInv, ReadSold
    PROVE  MarketInv'
<1> DEFINE sell == Head(sells)
           bal  == cards[TokenOf(sell.card)].balances
<1>1. /\ ChainOK /\ CardsOK /\ TasksOK /\ SalesOK /\ SellsOK /\ ApplyOK /\ ReqOK /\ GoneOK /\ SalesHaveCards
  BY DEF MarketInv
<1>2. /\ sells # <<>> /\ SoldOut(sell)
      /\ UNCHANGED <<held, unsettled, cards, files, collection, ids, req, sync, orphaned>>
      /\ \/ sells' = sells \/ sells' = Tail(sells)
      /\ \/ apply' = apply
         \/ sell.card \in CardIds /\ apply' = SaveOf(sell, bal)
  BY DEF ReadSold, chain, history
<1>3. sell \in Sell /\ sell = sells[1] /\ 1 \in 1..Len(sells) /\ sell.maker # sell.taker
  <2>1. sells \in Seq(Sell) /\ sells # <<>>
    BY <1>1, <1>2 DEF SellsOK
  <2>2. Len(sells) \in Nat /\ Len(sells) # 0 /\ Head(sells) = sells[1]
    BY <2>1, EmptySeq, LenProperties
  <2>3. 1 \in 1..Len(sells)
    BY <2>2
  <2>4. sells[1] \in Sell
    BY <2>1, <2>3, ElementOfSeq
  <2> QED BY <1>1, <2>2, <2>3, <2>4 DEF SellsOK
<1>4. ASSUME sell.card \in CardIds PROVE bal \in Loose
  <2>1. TokenOf(sell.card) \in Tokens
    BY <1>4 DEF TokenOf, CardIds
  <2> QED BY <1>1, <2>1 DEF CardsOK
<1> HIDE DEF sell, bal
<1>5. SalesOK'
  <2>1. \A x \in sales' : \E s \in sales : x.num = s.num /\ x.card = s.card
    BY <1>1, <1>2, SalesSold
  <2>2. \A x \in sales' : x.num \in 1..ids.sale /\ x.card \in 1..ids.card
    BY <1>1, <2>1 DEF SalesOK
  <2>3. IsFiniteSet(sales')  /\ sales' \subseteq Sale /\ \A x, y \in sales' : x.num = y.num => x = y
    BY <1>1, <1>2, SalesSold
  <2> QED BY <1>1, <1>2, <2>2, <2>3 DEF SalesOK
<1>6. SellsOK'
  <2>1. ASSUME NEW i \in 1..Len(sells), NEW x \in sales', x.num = sells[i].num
        PROVE  x.card = sells[i].card /\ x.user = sells[i].maker
    <3>1. PICK s \in sales : x.num = s.num /\ x.card = s.card /\ x.user = s.user
      BY <1>1, <1>2, SalesSold
    <3> QED BY <1>1, <2>1, <3>1 DEF SellsOK
  <2>2. CASE sells' = sells
    BY <1>1, <1>2, <2>1, <2>2 DEF SellsOK
  <2>3. CASE sells' = Tail(sells)
    <3>1. /\ Len(sells) \in Nat /\ sells' \in Seq(Sell) /\ Len(sells') = Len(sells) - 1
          /\ \A i \in 1..(Len(sells) - 1) : sells'[i] = sells[i + 1]
      BY <1>1, <1>2, <2>3, HeadTailProperties, LenProperties DEF SellsOK
    <3>2. \A i \in 1..Len(sells') : /\ i + 1 \in 1..Len(sells) /\ sells'[i] = sells[i + 1]
      BY <3>1
    <3>3. \A i \in 1..Len(sells') :
            /\ sells'[i].num \in 1..ids.sale /\ sells'[i].card \in 1..ids.card
            /\ sells'[i].maker # sells'[i].taker
            /\ \A s \in sales' : s.num = sells'[i].num => s.card = sells'[i].card /\ s.user = sells'[i].maker
      BY <1>1, <2>1, <3>2 DEF SellsOK
    <3>4. ASSUME NEW i \in 1..Len(sells'), NEW j \in 1..Len(sells'), sells'[i].num = sells'[j].num
          PROVE  i = j
      <4>1. i + 1 \in 1..Len(sells) /\ j + 1 \in 1..Len(sells) /\ sells[i + 1].num = sells[j + 1].num
        BY <3>2, <3>4
      <4>2. \A x, y \in 1..Len(sells) : sells[x].num = sells[y].num => x = y
        BY <1>1 DEF SellsOK
      <4>3. i + 1 = j + 1
        BY <4>1, <4>2
      <4> QED BY <3>1, <4>3
    <3> QED BY <1>2, <3>1, <3>3, <3>4 DEF SellsOK
  <2> QED BY <1>2, <2>2, <2>3
<1>7. ApplyOK'
  <2>1. CASE apply' = apply
    BY <1>1, <2>1 DEF ApplyOK
  <2>2. CASE sell.card \in CardIds /\ apply' = SaveOf(sell, bal)
    <3>1. sell.maker \in Holders /\ sell.taker \in Holders
      BY <1>3 DEF Sell
    <3>2. SaveOf(sell, bal).at \in {"save", "flag"} /\ Savable(SaveOf(sell, bal))
      BY <1>3, <1>4, <2>2, <3>1, SaveOfLoose
    <3> QED BY <2>2, <3>2 DEF ApplyOK
  <2> QED BY <1>2, <2>1, <2>2
<1>8. ChainOK' /\ CardsOK' /\ TasksOK' /\ ReqOK'
  BY <1>1, <1>2 DEF ChainOK, CardsOK, TasksOK, ReqOK
<1>9. GoneOK' /\ CardIds' = CardIds
  BY <1>1, <1>2, GoneStays
<1>10. SalesHaveCards'
  <2>1. ASSUME NEW x \in sales'
        PROVE  \/ x.card \in CardIds \cup orphaned
               \/ sync.at = "sales" /\ \E c \in sync.unused : c.id = x.card
    <3>1. PICK s \in sales : x.card = s.card
      BY <1>1, <1>2, SalesSold
    <3> QED BY <1>1, <3>1 DEF SalesHaveCards
  <2> QED BY <1>2, <1>9, <2>1 DEF SalesHaveCards
<1> QED BY <1>5, <1>6, <1>7, <1>8, <1>9, <1>10 DEF MarketInv

LEMMA MarketSaves ==
    ASSUME SyncInv, MarketInv, SaveSold \/ ProcessHasSale
    PROVE  MarketInv'
<1> DEFINE g == [t \in Tokens |-> [cards[t] EXCEPT !.balances = Saved(@, apply)]]
           hs == \E s \in sales : s.card = apply.card /\ s.status = "sale"
           h == [t \in Tokens |-> [cards[t] EXCEPT !.hasSale = hs]]
<1>1. /\ ChainOK /\ CardsOK /\ TasksOK /\ SalesOK /\ SellsOK /\ ApplyOK /\ ReqOK /\ GoneOK /\ SalesHaveCards
  BY DEF MarketInv
<1>2. /\ UNCHANGED <<held, unsettled, files, collection, ids, req, sync, orphaned, sales, sells>>
      /\ apply'.at \in {"idle", "flag"}
  <2>1. NoApply.at = "idle" /\ [NoApply EXCEPT !.at = "flag", !.card = apply.card].at = "flag"
    BY DEF NoApply
  <2> QED BY <2>1 DEF SaveSold, ProcessHasSale, chain, history
<1>3. CardsOK' /\ \A t \in Tokens : cards'[t].id = cards[t].id
  <2>1. CASE SaveSold
    <3>1. /\ apply.at = "save"
          /\ cards' = [t \in Tokens |-> IF cards[t].id = apply.card THEN g[t] ELSE cards[t]]
      BY <2>1 DEF SaveSold
    <3>2. \A t \in Tokens : /\ g[t].id = cards[t].id /\ g[t].hasSale = cards[t].hasSale
                            /\ g[t].balances = Saved(cards[t].balances, apply)
      BY DEF SyncInv, CardsInv
    <3>3. \A t \in Tokens : Saved(cards[t].balances, apply) \in Loose
      BY <1>1, <3>1, SavedLoose DEF CardsOK, ApplyOK
    <3> HIDE DEF g
    <3>4. \A t \in Tokens : /\ g[t].id = cards[t].id /\ g[t].hasSale \in BOOLEAN
                            /\ g[t].balances \in Loose
      BY <1>1, <3>2, <3>3 DEF CardsOK
    <3> QED BY <1>1, <3>1, <3>4, CardChanged
  <2>2. CASE ProcessHasSale
    <3>1. cards' = [t \in Tokens |-> IF cards[t].id = apply.card THEN h[t] ELSE cards[t]]
      BY <2>2 DEF ProcessHasSale
    <3>2. hs \in BOOLEAN
      OBVIOUS
    <3> HIDE DEF hs
    <3>3. \A t \in Tokens : /\ h[t].id = cards[t].id /\ h[t].balances \in Loose /\ h[t].hasSale \in BOOLEAN
      BY <1>1, <3>2 DEF SyncInv, CardsInv, CardsOK
    <3> HIDE DEF h
    <3> QED BY <1>1, <3>1, <3>3, CardChanged
  <2> QED BY <2>1, <2>2
<1>4. GoneOK' /\ SalesHaveCards'
  BY <1>1, <1>2, <1>3, GoneStays
<1>5. ChainOK' /\ TasksOK' /\ SalesOK' /\ SellsOK' /\ ReqOK'
  BY <1>1, <1>2 DEF ChainOK, TasksOK, SalesOK, SellsOK, ReqOK
<1>6. ApplyOK'
  BY <1>2 DEF ApplyOK, Savable
<1> QED BY <1>3, <1>4, <1>5, <1>6 DEF MarketInv

(* The holders page by page: what was read is the first of them, and all   *)
(* of them when a page is empty.                                           *)
PageAt(s, o, k) == SubSeq(s, o + 1, Min({o + k, Len(s)}))
FirstOf(s, o) == SubSeq(s, 1, Min({o, Len(s)}))

LEMMA PageRead ==
    ASSUME NEW S, NEW s \in Seq(S), NEW o \in Nat, NEW k \in Nat \ {0}
    PROVE  /\ PageAt(s, o, k) \in Seq(S)
           /\ PageAt(s, o, k) = <<>> => FirstOf(s, o) = s
           /\ FirstOf(s, o) \o PageAt(s, o, k) = FirstOf(s, o + k)
<1> DEFINE n == Len(s)
           page == PageAt(s, o, k)
<1>1. n \in Nat /\ \A i \in 1..n : s[i] \in S
  BY LenProperties, ElementOfSeq
<1>2. \A i \in Nat : Min({i, n}) = IF i <= n THEN i ELSE n
  BY <1>1 DEF Min
<1> DEFINE e == Min({o + k, n})
<1>3. e \in Nat /\ e <= n /\ (o < n => o < e) /\ (o >= n => e = n)
  BY <1>1, <1>2
<1>4. page = SubSeq(s, o + 1, e) /\ FirstOf(s, o + k) = SubSeq(s, 1, e)
  BY DEF PageAt, FirstOf
<1> HIDE DEF e, page
<1>5. page \in Seq(S)
  <2>1. \A i \in (o + 1)..e : s[i] \in S
    BY <1>1, <1>3
  <2>2. o + 1 \in Int /\ e \in Int
    BY <1>3
  <2> QED BY <1>4, <2>1, <2>2, SubSeqProperties
<1>6. CASE o < n
  <2>1. FirstOf(s, o) = SubSeq(s, 1, o)
    BY <1>1, <1>2, <1>6 DEF FirstOf
  <2>2. 1 \in 1..(n + 1) /\ o \in (1 - 1)..n /\ e \in o..n
    BY <1>1, <1>3, <1>6
  <2>3. SubSeq(s, 1, o) \o SubSeq(s, o + 1, e) = SubSeq(s, 1, e)
    BY <2>2, ConcatAdjacentSubSeq
  <2>4. page # <<>>
    <3>1. Len(page) = e - (o + 1) + 1
      <4>1. \A i \in (o + 1)..e : s[i] \in S
        BY <1>1, <1>3
      <4>2. o + 1 \in Int /\ e \in Int /\ o + 1 <= e
        BY <1>3, <1>6
      <4>3. Len(SubSeq(s, o + 1, e)) = IF o + 1 <= e THEN e - (o + 1) + 1 ELSE 0
        BY <4>1, <4>2, SubSeqProperties, Zenon
      <4> QED BY <1>4, <4>2, <4>3
    <3>2. Len(page) > 0
      <4>1. e - (o + 1) + 1 > 0
        BY <1>3, <1>6
      <4> QED BY <3>1, <4>1
    <3>3. Len(<<>>) = 0 /\ ~(0 > 0)
      OBVIOUS
    <3> QED BY <3>2, <3>3
  <2>5. FirstOf(s, o) \o page = FirstOf(s, o + k)
    BY <1>4, <2>1, <2>3
  <2> QED BY <1>5, <2>4, <2>5 DEF page
<1>7. CASE o >= n
  <2>1. FirstOf(s, o) = SubSeq(s, 1, n)
    <3>1. Min({o, n}) = n
      BY <1>1, <1>2, <1>7
    <3> QED BY <3>1 DEF FirstOf
  <2>2. o + 1 \in Int /\ e \in Int /\ e < o + 1
    BY <1>3, <1>7
  <2>3. page = <<>>
    BY <1>4, <2>2, SubSeqEmpty
  <2>4. SubSeq(s, 1, n) = s
    BY SubSeqFull
  <2>5. FirstOf(s, o + k) = s /\ FirstOf(s, o) = s
    BY <1>3, <1>4, <1>7, <2>1, <2>4
  <2>6. FirstOf(s, o) \o page = FirstOf(s, o + k)
    BY <2>3, <2>5, ConcatEmptySeq
  <2> QED BY <1>5, <2>5, <2>6 DEF page
<1>8. o < n \/ o >= n
  BY <1>1
<1> QED BY <1>6, <1>7, <1>8

LEMMA MarketReader ==
    ASSUME MarketInv, UNCHANGED imported
    PROVE  MarketInv'
BY DEF imported, chain, db, history, MarketInv, ChainOK, CardsOK, TasksOK, SalesOK, SellsOK, ApplyOK,
       ReqOK, GoneOK, SalesHaveCards, CardIds

(* The import begins, and lists what is to go; no card is touched.         *)
LEMMA MarketStarts ==
    ASSUME SyncInv, MarketInv, FetchTokens \/ FindOrCreateCollection \/ GetUnusedCards \/ SyncEnds \/ SyncFails
    PROVE  MarketInv'
<1>1. /\ ChainOK /\ CardsOK /\ TasksOK /\ SalesOK /\ SellsOK /\ ApplyOK /\ ReqOK /\ GoneOK /\ SalesHaveCards
  BY DEF MarketInv
<1>2. /\ UNCHANGED <<held, unsettled, cards, files, ids, req, apply, sales, sells>>
      /\ collection' \in BOOLEAN
  BY <1>1 DEF FetchTokens, FindOrCreateCollection, GetUnusedCards, SyncEnds, SyncFails, chain, db, history, ChainOK
<1>3. ChainOK' /\ CardsOK' /\ SalesOK' /\ SellsOK' /\ ReqOK' /\ ApplyOK' /\ CardIds' = CardIds
  BY <1>1, <1>2 DEF ChainOK, CardsOK, SalesOK, SellsOK, ReqOK, ApplyOK, CardIds
<1>4. NoTask.offset \in Nat /\ NoTask.balances \in Loose /\ NoTask.unsettled \in BOOLEAN
  BY EmptySeq DEF NoTask, Loose
<1>5. CASE FetchTokens
  <2>1. /\ sync.at = "idle" /\ orphaned' = orphaned
        /\ sync' = [NoSync EXCEPT !.at = "collection", !.list = registry]
    BY <1>5 DEF FetchTokens, history
  <2>2. sync'.at = "collection" /\ sync'.tasks = [t \in Tokens |-> NoTask]
    BY <2>1 DEF NoSync
  <2>3. TasksOK' /\ GoneOK'
    BY <1>4, <2>2 DEF TasksOK, GoneOK
  <2>4. SalesHaveCards'
    BY <1>1, <1>2, <1>3, <2>1 DEF SalesHaveCards
  <2> QED BY <1>3, <2>3, <2>4 DEF MarketInv
<1>6. CASE FindOrCreateCollection
  <2> DEFINE busy  == [NoTask EXCEPT !.at = "balances"]
             tasks == [t \in Tokens |-> IF t \in sync.list THEN busy ELSE NoTask]
  <2>1. /\ sync.at = "collection" /\ orphaned' = orphaned
        /\ sync' = [sync EXCEPT !.at = "cards", !.tasks = tasks]
    BY <1>6 DEF FindOrCreateCollection, history
  <2>2. busy.offset \in Nat /\ busy.balances \in Loose /\ busy.unsettled \in BOOLEAN
    BY <1>4 DEF NoTask
  <2> HIDE DEF busy
  <2>3. \A t \in Tokens : tasks[t] = busy \/ tasks[t] = NoTask
    OBVIOUS
  <2> HIDE DEF tasks
  <2>4. sync'.at = "cards" /\ sync'.tasks = tasks
    BY <2>1 DEF SyncInv, TaskInv
  <2>5. TasksOK' /\ GoneOK'
    BY <1>4, <2>2, <2>3, <2>4 DEF TasksOK, GoneOK
  <2>6. SalesHaveCards'
    BY <1>1, <1>2, <1>3, <2>1 DEF SalesHaveCards
  <2> QED BY <1>3, <2>5, <2>6 DEF MarketInv
<1>7. CASE GetUnusedCards
  <2> DEFINE unused == {[token |-> t, id |-> cards[t].id] : t \in UnusedCards(sync.list)}
  <2>1. /\ sync.at = "cards" /\ orphaned' = orphaned
        /\ sync' = [sync EXCEPT !.at = IF unused = {} THEN "done" ELSE "delete", !.unused = unused]
    BY <1>7 DEF GetUnusedCards, history
  <2> HIDE DEF unused
  <2>2. /\ sync'.at = IF unused = {} THEN "done" ELSE "delete"
        /\ sync'.tasks = sync.tasks /\ sync'.unused = unused
    BY <2>1 DEF SyncInv, TaskInv
  <2>3. TasksOK' /\ GoneOK'
    BY <1>1, <2>2 DEF TasksOK, GoneOK
  <2>4. SalesHaveCards'
    BY <1>1, <1>2, <1>3, <2>1 DEF SalesHaveCards
  <2> QED BY <1>3, <2>3, <2>4 DEF MarketInv
<1>8. CASE SyncEnds \/ SyncFails
  <2>1. /\ sync' = NoSync
        /\ sync.at # "sales" => orphaned' = orphaned
        /\ sync.at = "sales" => orphaned' = orphaned \cup {c.id : c \in sync.unused}
    BY <1>8 DEF SyncEnds, SyncFails, history
  <2>2. TasksOK' /\ GoneOK'
    BY <1>4, <2>1 DEF TasksOK, GoneOK, NoSync
  <2>3. SalesHaveCards'
    BY <1>1, <1>2, <1>3, <2>1 DEF SalesHaveCards
  <2> QED BY <1>3, <2>2, <2>3 DEF MarketInv
<1> QED BY <1>5, <1>6, <1>7, <1>8

LEMMA MarketReads ==
    ASSUME SyncInv, MarketInv, NEW t \in Tokens, ReadBalances(t)
    PROVE  MarketInv'
<1> DEFINE task == sync.tasks[t]
           all  == HoldersOf(t)
           page == PageAt(all, task.offset, PageSize)
           u    == [task EXCEPT !.at = "store"]
           v    == [task EXCEPT !.offset = NextOffset(@), !.balances = @ \o page]
<1>1. /\ ChainOK /\ CardsOK /\ TasksOK /\ SalesOK /\ SellsOK /\ ApplyOK /\ ReqOK /\ GoneOK /\ SalesHaveCards
  BY DEF MarketInv
<1>2. /\ UNCHANGED <<held, unsettled, cards, collection, ids, req, apply, sales, sells, orphaned>>
      /\ files' = files \cup {t}
      /\ sync' = [sync EXCEPT !.tasks[t] = u] \/ sync' = [sync EXCEPT !.tasks[t] = v]
      /\ task.at = "balances"
  BY DEF ReadBalances, TaskSet, chain, history, PageAt
<1>3. ChainOK' /\ CardsOK' /\ SalesOK' /\ SellsOK' /\ ReqOK' /\ ApplyOK' /\ CardIds' = CardIds
  BY <1>1, <1>2 DEF ChainOK, CardsOK, SalesOK, SellsOK, ReqOK, ApplyOK, CardIds
<1>4. page \in Loose
  <2>1. all \in Loose
    BY <1>1, HoldersAreTidy, TidyIsLoose DEF ChainOK
  <2>2. PageSize \in Nat \ {0} /\ task.offset \in Nat
    BY <1>1, SyncAssumption DEF TasksOK
  <2>3. \A q \in Loose, o \in Nat : PageAt(q, o, PageSize) \in Loose
    BY <2>2, PageRead DEF Loose
  <2> QED BY <2>1, <2>2, <2>3
<1>5. /\ DOMAIN task = {"at", "offset", "balances", "unsettled"}
      /\ task.offset \in Nat /\ task.balances \in Loose /\ task.unsettled \in BOOLEAN
  BY <1>1 DEF TasksOK, SyncInv, TaskInv
<1> HIDE DEF page
<1>6. u.offset \in Nat /\ u.balances \in Loose /\ u.unsettled \in BOOLEAN
  BY <1>5
<1>7. v.offset \in Nat /\ v.balances \in Loose /\ v.unsettled \in BOOLEAN
  <2>1. NextOffset(task.offset) \in Nat
    BY <1>5, SyncAssumption DEF NextOffset
  <2>2. task.balances \o page \in Loose
    BY <1>4, <1>5, ConcatProperties DEF Loose
  <2> QED BY <1>5, <2>1, <2>2
<1> HIDE DEF u, v
<1>8. PICK w : /\ sync' = [sync EXCEPT !.tasks[t] = w]
               /\ w.offset \in Nat /\ w.balances \in Loose /\ w.unsettled \in BOOLEAN
  BY <1>2, <1>6, <1>7
<1>9. /\ sync'.at = sync.at /\ sync'.unused = sync.unused /\ sync'.tasks[t] = w
      /\ \A x \in Tokens : x # t => sync'.tasks[x] = sync.tasks[x]
  BY <1>8 DEF SyncInv, TaskInv
<1>10. TasksOK' /\ GoneOK' /\ SalesHaveCards'
  BY <1>1, <1>2, <1>3, <1>8, <1>9 DEF TasksOK, GoneOK, SalesHaveCards
<1> QED BY <1>3, <1>10 DEF MarketInv

(* A card is stored while the cards are imported.                          *)
LEMMA MarketCards ==
    ASSUME SyncInv, MarketInv, NEW t \in Tokens, SyncCard(t)
    PROVE  MarketInv'
<1> DEFINE task == sync.tasks[t]
           c == SyncedCard(t, task.balances)
           w == [NoTask EXCEPT !.at = "done"]
<1>1. /\ ChainOK /\ CardsOK /\ TasksOK /\ SalesOK /\ SellsOK /\ ApplyOK /\ ReqOK /\ GoneOK /\ SalesHaveCards
  BY DEF MarketInv
<1>2. /\ task.at = "store" /\ cards' = [cards EXCEPT ![t] = c]
      /\ ids' = IF cards[t] = NoCard THEN [ids EXCEPT !.card = @ + 1] ELSE ids
      /\ unsettled' = [unsettled EXCEPT ![t] = task.unsettled \/ Pending(t)]
      /\ sync' = [sync EXCEPT !.tasks[t] = w]
      /\ UNCHANGED <<held, files, collection, sales, sells, apply, req, orphaned>>
  BY DEF SyncCard, TaskSet, chain
<1>3. /\ w.offset \in Nat /\ w.balances \in Loose /\ w.unsettled \in BOOLEAN
  BY EmptySeq DEF NoTask, Loose
<1> HIDE DEF w
<1>4. /\ sync.at = "cards" /\ sync'.at = "cards" /\ sync'.tasks[t] = w
      /\ \A x \in Tokens : x # t => sync'.tasks[x] = sync.tasks[x]
  BY <1>2 DEF SyncInv, TaskInv
<1>5. c.balances \in Loose /\ c.hasSale \in BOOLEAN /\ (cards[t] # NoCard => c.id = cards[t].id)
  BY <1>1 DEF SyncedCard, CardsOK, TasksOK, SyncInv, CardsInv
<1> HIDE DEF c
<1>6. /\ cards'[t] = c /\ \A x \in Tokens : x # t => cards'[x] = cards[x]
  BY <1>2 DEF SyncInv, CardsInv
<1>7. CardsOK'
  BY <1>1, <1>5, <1>6 DEF CardsOK
<1>8. TasksOK' /\ GoneOK'
  BY <1>1, <1>3, <1>4 DEF TasksOK, GoneOK
<1>9. CardIds \subseteq CardIds'
  <2>1. ASSUME NEW x \in Tokens, cards[x].id # 0 PROVE \E y \in Tokens : cards'[y].id = cards[x].id
    BY <1>5, <1>6, <2>1 DEF NoCard
  <2> QED BY <2>1 DEF CardIds
<1>10. SalesHaveCards'
  BY <1>1, <1>2, <1>4, <1>9 DEF SalesHaveCards
<1>11. ids'.sale = ids.sale /\ ids.card \in Nat /\ ids'.card \in Nat /\ ids.card <= ids'.card
  BY <1>2 DEF SyncInv, CardsInv
<1>12. \A n : n \in 1..ids.card => n \in 1..ids'.card
  BY <1>11
<1>13. SalesOK' /\ SellsOK'
  BY <1>1, <1>2, <1>11, <1>12 DEF SalesOK, SellsOK
<1>14. ChainOK'
  <2>1. (task.unsettled \/ Pending(t)) \in BOOLEAN
    OBVIOUS
  <2>2. \A x \in Tokens : unsettled'[x] \in BOOLEAN
    BY <1>1, <1>2 DEF ChainOK
  <2>3. unsettled' \in [Tokens -> BOOLEAN]
    BY <1>1, <1>2, <2>2 DEF ChainOK
  <2> QED BY <1>1, <1>2, <2>3 DEF ChainOK
<1>15. ApplyOK' /\ ReqOK'
  BY <1>1, <1>2 DEF ApplyOK, ReqOK
<1> QED BY <1>7, <1>8, <1>10, <1>13, <1>14, <1>15 DEF MarketInv

(* The cards that are not listed go, then their sales and files.           *)
LEMMA MarketDeletes ==
    ASSUME SyncInv, MarketInv, DeleteCards
    PROVE  MarketInv'
<1> DEFINE gone == {c.id : c \in sync.unused}
<1>1. /\ ChainOK /\ CardsOK /\ TasksOK /\ SalesOK /\ SellsOK /\ ApplyOK /\ ReqOK /\ GoneOK /\ SalesHaveCards
  BY DEF MarketInv
<1>2. /\ sync.at = "delete" /\ sync' = [sync EXCEPT !.at = "sales"]
      /\ cards' = [t \in Tokens |-> IF cards[t].id \in gone THEN NoCard ELSE cards[t]]
      /\ UNCHANGED <<held, unsettled, files, collection, ids, req, apply, sales, sells, orphaned>>
  BY DEF DeleteCards, chain, history
<1>3. sync'.at = "sales" /\ sync'.unused = sync.unused /\ sync'.tasks = sync.tasks
  BY <1>2 DEF SyncInv, TaskInv
<1>4. ChainOK' /\ TasksOK' /\ SalesOK' /\ SellsOK' /\ ReqOK' /\ ApplyOK'
  BY <1>1, <1>2, <1>3 DEF ChainOK, TasksOK, SalesOK, SellsOK, ReqOK, ApplyOK
<1>5. \A t \in Tokens : \/ cards[t].id \in gone /\ cards'[t] = NoCard
                        \/ cards[t].id \notin gone /\ cards'[t] = cards[t]
  BY <1>2
<1>6. NoCard.balances \in Loose /\ NoCard.hasSale \in BOOLEAN /\ NoCard.id = 0
  BY EmptySeq DEF NoCard, Loose
<1>7. CardsOK'
  BY <1>1, <1>5, <1>6 DEF CardsOK
<1>8. CardIds' = CardIds \ gone
  BY <1>5, <1>6 DEF CardIds
<1>9. GoneOK'
  BY <1>3, <1>8 DEF GoneOK
<1>10. SalesHaveCards'
  <2>1. ASSUME NEW s \in sales, s.card \notin CardIds' \cup orphaned
        PROVE  \E c \in sync.unused : c.id = s.card
    BY <1>1, <1>2, <1>8, <2>1 DEF SalesHaveCards
  <2> QED BY <1>2, <1>3, <2>1 DEF SalesHaveCards
<1> QED BY <1>4, <1>7, <1>9, <1>10 DEF MarketInv

LEMMA MarketCleans ==
    ASSUME SyncInv, MarketInv, DeleteSalesByCardIds \/ RemoveFiles
    PROVE  MarketInv'
<1> DEFINE gone == {c.id : c \in sync.unused}
<1>1. /\ ChainOK /\ CardsOK /\ TasksOK /\ SalesOK /\ SellsOK /\ ApplyOK /\ ReqOK /\ GoneOK /\ SalesHaveCards
  BY DEF MarketInv
<1>2. /\ UNCHANGED <<held, unsettled, cards, collection, ids, req, apply, sells, orphaned>>
      /\ files' \subseteq files
      /\ \/ /\ sync.at = "sales" /\ sync' = [sync EXCEPT !.at = "files"]
            /\ sales' = {s \in sales : s.card \notin gone}
         \/ /\ sync.at = "files" /\ sync' = [sync EXCEPT !.at = "done"] /\ sales' = sales
  BY DEF DeleteSalesByCardIds, RemoveFiles, chain, history
<1>3. /\ sync'.at \in {"files", "done"} /\ sync.at \in {"sales", "files"}
      /\ sync'.unused = sync.unused /\ sync'.tasks = sync.tasks
  BY <1>2 DEF SyncInv, TaskInv
<1>4. ChainOK' /\ CardsOK' /\ TasksOK' /\ ReqOK' /\ ApplyOK'
  BY <1>1, <1>2, <1>3 DEF ChainOK, CardsOK, TasksOK, ReqOK, ApplyOK
<1>5. sales' \subseteq sales
  BY <1>2
<1>6. SalesOK' /\ SellsOK'
  BY <1>1, <1>2, <1>5, FS_Subset DEF SalesOK, SellsOK
<1>7. CardIds' = CardIds
  BY <1>2 DEF CardIds
<1>8. GoneOK'
  BY <1>1, <1>3, <1>7 DEF GoneOK
<1>9. SalesHaveCards'
  <2>1. \A s \in sales' : s.card \in CardIds \cup orphaned
    BY <1>1, <1>2 DEF SalesHaveCards
  <2> QED BY <1>2, <1>7, <2>1 DEF SalesHaveCards
<1> QED BY <1>4, <1>6, <1>8, <1>9 DEF MarketInv

LEMMA MarketNext ==
    ASSUME SyncInv, MarketInv, [ListsNext]_allVars
    PROVE  MarketInv'
<1>1. CASE UNCHANGED imported
  BY <1>1, MarketReader
<1>2. CASE Next
  <2>1. CASE SyncStep \/ SyncFails
    BY <2>1, MarketStarts, MarketReads, MarketCards, MarketDeletes, MarketCleans DEF SyncStep
  <2>2. CASE StoreSale \/ SellStep
    BY <2>2, MarketStores, MarketReadsSold, MarketSaves DEF SellStep
  <2> QED BY <1>2, <2>1, <2>2, MarketChain DEF Next
<1> QED BY <1>1, <1>2, ListsStep

-----------------------------------------------------------------------------
(* What a task has read: the first holders, as far as its offset, and all  *)
(* of them in the end, unless one moved meanwhile.                         *)
ReadOf(task, all) ==
    ~task.unsettled =>
        /\ task.at = "balances" => task.balances = FirstOf(all, task.offset)
        /\ task.at = "store" => task.balances = all

ReadInv == \A t \in Tokens : ReadOf(sync.tasks[t], HoldersOf(t))

LEMMA SameHolders ==
    ASSUME NEW t \in Tokens, held'[t] = held[t]
    PROVE  HoldersOf(t)' = HoldersOf(t)
BY DEF HoldersOf

LEMMA ReadStays ==
    ASSUME \A t \in Tokens : \/ sync'.tasks[t].unsettled = TRUE
                             \/ sync'.tasks[t].at \in {"none", "done"}
                             \/ held'[t] = held[t] /\ ReadOf(sync'.tasks[t], HoldersOf(t))
    PROVE  ReadInv'
<1>1. ASSUME NEW t \in Tokens PROVE ReadOf(sync'.tasks[t], HoldersOf(t)')
  <2>1. CASE sync'.tasks[t].unsettled = TRUE
    BY <2>1 DEF ReadOf
  <2>2. CASE sync'.tasks[t].at \in {"none", "done"}
    BY <2>2 DEF ReadOf
  <2>3. CASE held'[t] = held[t] /\ ReadOf(sync'.tasks[t], HoldersOf(t))
    BY <2>3, SameHolders
  <2> QED BY <2>1, <2>2, <2>3
<1> QED BY <1>1 DEF ReadInv

(* A token that moves while it is read is flagged.                         *)
LEMMA MoveFlags ==
    ASSUME SyncInv, ChainOK, ReadInv, NEW t \in Tokens, NEW a \in Holders, NEW b \in Holders,
           ChainMoves(t, a, b),
           sync' = IF Reading(t) THEN [sync EXCEPT !.tasks[t].unsettled = TRUE] ELSE sync
    PROVE  ReadInv'
<1>1. \A x \in Tokens : x # t => held'[x] = held[x]
  BY ChainMoved DEF ChainOK
<1>2. CASE Reading(t)
  <2>1. /\ sync'.tasks[t].unsettled = TRUE
        /\ \A x \in Tokens : x # t => sync'.tasks[x] = sync.tasks[x]
    BY <1>2, Flagged
  <2> QED BY <1>1, <2>1, ReadStays DEF ReadInv
<1>3. CASE ~Reading(t)
  <2>1. sync'.tasks[t].at \in {"none", "done"} /\ sync' = sync
    BY <1>3 DEF Reading, SyncInv, TaskInv
  <2> QED BY <1>1, <2>1, ReadStays DEF ReadInv
<1> QED BY <1>2, <1>3

LEMMA ReadChain ==
    ASSUME SyncInv, MarketInv, ReadInv,
           \/ \E t \in Tokens, a, b \in Holders : Transfer(t, a, b)
           \/ \E s \in sales, b \in Holders : Fill(s, b)
    PROVE  ReadInv'
<1>1. CASE \E t \in Tokens, a, b \in Holders : Transfer(t, a, b)
  BY <1>1, MoveFlags DEF Transfer, Unsettle, MarketInv
<1>2. ASSUME NEW s \in sales, NEW b \in Holders, Fill(s, b) PROVE ReadInv'
  <2> DEFINE t == TokenOf(s.card)
  <2>1. /\ t \in registry /\ ChainMoves(t, s.user, b)
        /\ sync' = IF Reading(t) THEN [sync EXCEPT !.tasks[t].unsettled = TRUE] ELSE sync
    BY <1>2 DEF Fill
  <2>2. t \in Tokens /\ s.user \in Holders
    BY <2>1 DEF SyncInv, TaskInv, MarketInv, SalesOK, Sale
  <2> HIDE DEF t
  <2> QED BY <2>1, <2>2, MoveFlags DEF MarketInv
<1> QED BY <1>1, <1>2

LEMMA ReadReads ==
    ASSUME SyncInv, MarketInv, ReadInv, NEW t \in Tokens, ReadBalances(t)
    PROVE  ReadInv'
<1> DEFINE task == sync.tasks[t]
           all  == HoldersOf(t)
           page == PageAt(all, task.offset, PageSize)
           u    == [task EXCEPT !.at = "store"]
           v    == [task EXCEPT !.offset = NextOffset(@), !.balances = @ \o page]
           w    == IF page = <<>> THEN u ELSE v
<1>1. /\ held' = held /\ task.at = "balances"
      /\ sync' = [sync EXCEPT !.tasks[t] = w]
  BY DEF ReadBalances, TaskSet, chain, PageAt
<1>2. /\ DOMAIN task = {"at", "offset", "balances", "unsettled"} /\ task.offset \in Nat
  BY DEF MarketInv, TasksOK, SyncInv, TaskInv
<1>3. all \in Loose
  BY HoldersAreTidy, TidyIsLoose DEF MarketInv, ChainOK
<1>4. ~task.unsettled => task.balances = FirstOf(all, task.offset)
  BY <1>1 DEF ReadInv, ReadOf
<1>5. /\ page = <<>> => FirstOf(all, task.offset) = all
      /\ FirstOf(all, task.offset) \o page = FirstOf(all, task.offset + PageSize)
  <2>1. PageSize \in Nat \ {0}
    BY SyncAssumption
  <2>2. \A q \in Loose, o \in Nat :
          /\ PageAt(q, o, PageSize) = <<>> => FirstOf(q, o) = q
          /\ FirstOf(q, o) \o PageAt(q, o, PageSize) = FirstOf(q, o + PageSize)
    BY <2>1, PageRead DEF Loose
  <2> QED BY <1>2, <1>3, <2>2, Zenon
<1> HIDE DEF page, all
<1>6. ReadOf(w, all)
  <2>1. CASE page = <<>>
    <3>1. w.at = "store" /\ w.balances = task.balances /\ w.unsettled = task.unsettled
      BY <1>2, <2>1
    <3> QED BY <1>4, <1>5, <2>1, <3>1 DEF ReadOf
  <2>2. CASE page # <<>>
    <3>1. /\ w.at = "balances" /\ w.balances = task.balances \o page /\ w.unsettled = task.unsettled
          /\ w.offset = task.offset + PageSize
      BY <1>1, <1>2, <2>2 DEF NextOffset
    <3> QED BY <1>4, <1>5, <2>2, <3>1 DEF ReadOf
  <2> QED BY <2>1, <2>2
<1> HIDE DEF w
<1>7. sync'.tasks[t] = w /\ \A x \in Tokens : x # t => sync'.tasks[x] = sync.tasks[x]
  BY <1>1 DEF SyncInv, TaskInv
<1> QED BY <1>1, <1>6, <1>7, ReadStays DEF ReadInv, all

LEMMA ReadStarts ==
    ASSUME SyncInv, MarketInv, FindOrCreateCollection
    PROVE  ReadInv'
<1> DEFINE busy  == [NoTask EXCEPT !.at = "balances"]
           tasks == [t \in Tokens |-> IF t \in sync.list THEN busy ELSE NoTask]
<1>1. held' = held /\ sync' = [sync EXCEPT !.at = "cards", !.tasks = tasks]
  BY DEF FindOrCreateCollection, chain
<1>2. busy.at = "balances" /\ busy.offset = 0 /\ busy.balances = <<>> /\ NoTask.at = "none"
  BY DEF NoTask
<1> HIDE DEF busy
<1>3. \A t \in Tokens : tasks[t] = busy \/ tasks[t] = NoTask
  OBVIOUS
<1> HIDE DEF tasks
<1>4. sync'.tasks = tasks
  BY <1>1 DEF SyncInv, TaskInv
<1>5. ASSUME NEW t \in Tokens PROVE ReadOf(busy, HoldersOf(t))
  <2>1. Len(HoldersOf(t)) \in Nat
    BY HoldersAreTidy, TidyEntries DEF MarketInv, ChainOK
  <2>2. Min({0, Len(HoldersOf(t))}) = 0
    BY <2>1 DEF Min
  <2>3. SubSeq(HoldersOf(t), 1, 0) = <<>>
    BY SubSeqEmpty
  <2> QED BY <1>2, <2>2, <2>3 DEF ReadOf, FirstOf
<1> QED BY <1>1, <1>2, <1>3, <1>4, <1>5, ReadStays

LEMMA ReadSteps ==
    ASSUME SyncInv, MarketInv, ReadInv, [ListsNext]_allVars
    PROVE  ReadInv'
<1>1. CASE held' = held /\ sync'.tasks = sync.tasks
  BY <1>1, ReadStays DEF ReadInv
<1>2. CASE held' = held /\ sync'.tasks = [t \in Tokens |-> NoTask]
  <2>1. NoTask.at = "none"
    BY DEF NoTask
  <2> QED BY <1>2, <2>1, ReadStays
<1>3. ASSUME NEW t \in Tokens, SyncCard(t) PROVE ReadInv'
  <2> DEFINE w == [NoTask EXCEPT !.at = "done"]
  <2>1. held' = held /\ sync' = [sync EXCEPT !.tasks[t] = w] /\ w.at = "done"
    BY <1>3 DEF SyncCard, TaskSet, chain, NoTask
  <2> HIDE DEF w
  <2>2. sync'.tasks[t] = w /\ \A x \in Tokens : x # t => sync'.tasks[x] = sync.tasks[x]
    BY <2>1 DEF SyncInv, TaskInv
  <2> QED BY <2>1, <2>2, ReadStays DEF ReadInv
<1>4. CASE UNCHANGED imported \/ StoreSale \/ SellStep
           \/ (\E t \in Tokens : RegistryMoves(t)) \/ (\E t \in Tokens, h \in Holders : CheckSale(t, h))
  <2>1. held' = held /\ sync' = sync
    BY <1>4 DEF imported, chain, StoreSale, SellStep, ReadSold, SaveSold, ProcessHasSale, RegistryMoves, CheckSale
  <2> QED BY <1>1, <2>1
<1>5. CASE GetUnusedCards \/ DeleteCards \/ DeleteSalesByCardIds \/ RemoveFiles
  <2>1. held' = held /\ sync'.tasks = sync.tasks
    <3>1. DOMAIN sync = {"at", "list", "tasks", "unused"}
      BY DEF SyncInv, TaskInv
    <3>2. held' = held
      BY <1>5 DEF chain, GetUnusedCards, DeleteCards, DeleteSalesByCardIds, RemoveFiles
    <3>3. \/ \E x : sync' = [sync EXCEPT !.at = x]
          \/ \E x, y : sync' = [sync EXCEPT !.at = x, !.unused = y]
      BY <1>5 DEF GetUnusedCards, DeleteCards, DeleteSalesByCardIds, RemoveFiles
    <3> QED BY <3>1, <3>2, <3>3
  <2> QED BY <1>1, <2>1
<1>6. CASE FetchTokens \/ SyncEnds \/ SyncFails
  <2>1. held' = held /\ sync'.tasks = [t \in Tokens |-> NoTask]
    <3>1. /\ NoSync.tasks = [t \in Tokens |-> NoTask]
          /\ [NoSync EXCEPT !.at = "collection", !.list = registry].tasks = [t \in Tokens |-> NoTask]
      BY DEF NoSync
    <3> QED BY <1>6, <3>1 DEF chain, FetchTokens, SyncEnds, SyncFails
  <2> QED BY <1>2, <2>1
<1>7. CASE Next
  <2>1. CASE SyncStep \/ SyncFails
    BY <1>3, <1>5, <1>6, <2>1, ReadStarts, ReadReads DEF SyncStep
  <2> QED BY <1>4, <1>7, <2>1, ReadChain DEF Next
<1> QED BY <1>4, <1>7, ListsStep

LEMMA ReadInit == Init => ReadInv
BY DEF Init, ReadInv, ReadOf, NoSync, NoTask

-----------------------------------------------------------------------------
(* A settled card: tidy, as it is and as it will be when the save under    *)
(* way is made; that save is of a sale that is sold, every sell that waits *)
(* is of one that is still on sale, and the sells lead to what the chain   *)
(* has.                                                                    *)
Settled(t) == cards[t] # NoCard /\ ~unsettled[t]

Saves(upd, id) == upd.at = "save" /\ upd.card = id

RestOf(bal, upd, id) == IF Saves(upd, id) THEN Saved(bal, upd) ELSE bal

Orderly(c, upd, ss, q, has) ==
    /\ Tidy(c.balances) /\ Tidy(RestOf(c.balances, upd, c.id))
    /\ Saves(upd, c.id) => \E s \in ss :
          /\ s.card = c.id /\ s.status = "sold"
          /\ \A h \in Holders : AmountOf(RestOf(c.balances, upd, c.id), h)
                                  >= AmountOf(c.balances, h) - IF h = s.user THEN 1 ELSE 0
    /\ \A i \in 1..Len(q) : q[i].card = c.id =>
          \E s \in ss : s.num = q[i].num /\ s.card = c.id /\ s.status = "sale"
    /\ Traced(Amounts(RestOf(c.balances, upd, c.id)), q, c.id, has)

SettledInv == \A t \in Tokens : Settled(t) => Orderly(cards[t], apply, sales, sells, held[t])

LEMMA RestStays ==
    ASSUME NEW c, NEW d, d.id = c.id, d.balances = c.balances,
           NEW upd, NEW new, new = upd \/ (~Saves(upd, c.id) /\ ~Saves(new, c.id))
    PROVE  /\ RestOf(d.balances, new, d.id) = RestOf(c.balances, upd, c.id)
           /\ Saves(new, d.id) <=> Saves(upd, c.id)
BY DEF RestOf

LEMMA OrderlyStays ==
    ASSUME NEW c, NEW d, d.id = c.id, d.balances = c.balances,
           NEW upd, NEW new, new = upd \/ (~Saves(upd, c.id) /\ ~Saves(new, c.id)),
           NEW ss, NEW tt, \A s \in ss : s.card = c.id => s \in tt,
           NEW q, NEW has, Orderly(c, upd, ss, q, has)
    PROVE  Orderly(d, new, tt, q, has)
<1>1. /\ RestOf(d.balances, new, d.id) = RestOf(c.balances, upd, c.id)
      /\ Saves(new, d.id) <=> Saves(upd, c.id)
  BY RestStays
<1>2. Tidy(d.balances) /\ Tidy(RestOf(d.balances, new, d.id))
  BY <1>1 DEF Orderly
<1>3. Saves(new, d.id) => \E s \in tt :
          /\ s.card = d.id /\ s.status = "sold"
          /\ \A h \in Holders : AmountOf(RestOf(d.balances, new, d.id), h)
                                  >= AmountOf(d.balances, h) - IF h = s.user THEN 1 ELSE 0
  BY <1>1 DEF Orderly
<1>4. \A i \in 1..Len(q) : q[i].card = d.id =>
          \E s \in tt : s.num = q[i].num /\ s.card = d.id /\ s.status = "sale"
  BY DEF Orderly
<1>5. Traced(Amounts(RestOf(d.balances, new, d.id)), q, d.id, has)
  BY <1>1 DEF Orderly
<1> QED BY <1>2, <1>3, <1>4, <1>5 DEF Orderly

(* A card that no sell waits for and no save is made of.                   *)
LEMMA OrderlyStill ==
    ASSUME NEW c, NEW upd, ~Saves(upd, c.id), Tidy(c.balances), NEW S, NEW q \in Seq(S),
           \A i \in 1..Len(q) : q[i].card # c.id, NEW has \in [Holders -> Nat],
           Amounts(c.balances) = has, NEW ss
    PROVE  Orderly(c, upd, ss, q, has)
<1>1. RestOf(c.balances, upd, c.id) = c.balances
  BY DEF RestOf
<1>2. Traced(has, q, c.id, has)
  BY TraceStill
<1> QED BY <1>1, <1>2 DEF Orderly

LEMMA SettledInit == Init => SettledInv
<1> SUFFICES ASSUME Init, NEW t \in Tokens, Settled(t)
             PROVE  Orderly(cards[t], apply, sales, sells, held[t])
  BY DEF SettledInv
<1>1. cards[t].balances = HoldersOf(t)
  <2>1. PICK stored \in Databases :
          cards = [x \in Tokens |->
                     IF x \in stored
                     THEN [id |-> CardIdAt(stored, x), balances |-> HoldersOf(x), hasSale |-> Sellers[x] # {}]
                     ELSE NoCard]
    BY DEF Init
  <2>2. cards[t] = [id |-> CardIdAt(stored, t), balances |-> HoldersOf(t), hasSale |-> Sellers[t] # {}]
    BY <2>1 DEF Settled
  <2> QED BY <2>2
<1>2. held[t] \in [Holders -> Nat] /\ sells = <<>> /\ sells \in Seq(Sell) /\ apply.at = "idle"
  BY SyncAssumption, EmptySeq DEF Init, NoApply
<1>3. Tidy(cards[t].balances) /\ Amounts(cards[t].balances) = held[t]
  BY <1>1, <1>2, HoldersAreTidy
<1>4. \A i \in 1..Len(sells) : FALSE
  BY <1>2
<1> QED BY <1>2, <1>3, <1>4, OrderlyStill DEF Saves

(* A sell is filled: it waits, and the chain has moved.                    *)
LEMMA SettledFill ==
    ASSUME SyncInv, MarketInv, SettledInv, NEW s \in sales, NEW b \in Holders, Fill(s, b)
    PROVE  SettledInv'
<1> DEFINE x == TokenOf(s.card)
           e == [num |-> s.num, card |-> s.card, maker |-> s.user, taker |-> b]
<1>1. /\ s.status = "sale" /\ s.card \in CardIds
      /\ x \in registry /\ ChainMoves(x, s.user, b) /\ sells' = Append(sells, e)
      /\ UNCHANGED <<cards, sales, apply, unsettled>>
  BY DEF Fill, db, history
<1>2. e.num = s.num /\ e.card = s.card /\ e.maker = s.user /\ e.taker = b
  OBVIOUS
<1>3. s.user \in Holders /\ s.num \in Nat /\ s.card \in Nat /\ e \in Sell
  BY DEF MarketInv, SalesOK, Sale, Sell
<1>4. x \in Tokens /\ cards[x].id = s.card
  BY <1>1 DEF TokenOf, CardIds
<1> HIDE DEF x, e
<1>5. /\ held \in [Tokens -> [Holders -> Nat]] /\ held' \in [Tokens -> [Holders -> Nat]]
      /\ held[x][s.user] > 0 /\ held'[x] = Moved(held[x], s.user, b)
      /\ \A t \in Tokens : t # x => held'[t] = held[t]
  BY <1>1, <1>3, <1>4, ChainMoved DEF MarketInv, ChainOK
<1>6. sells \in Seq(Sell) /\ Len(sells') = Len(sells) + 1 /\ Len(sells) \in Nat
      /\ sells'[Len(sells) + 1] = e /\ \A i \in 1..Len(sells) : sells'[i] = sells[i]
  BY <1>1, <1>3, AppendProperties, LenProperties DEF MarketInv, SellsOK
<1>7. ASSUME NEW t \in Tokens, Settled(t)
      PROVE  Orderly(cards[t], apply, sales, sells', held'[t])
  <2> DEFINE id == cards[t].id
             f  == Amounts(RestOf(cards[t].balances, apply, id))
  <2>1. Orderly(cards[t], apply, sales, sells, held[t])
    BY <1>7 DEF SettledInv
  <2>2. Traced(f, sells, id, held[t])
    BY <2>1 DEF Orderly
  <2>3. IF e.card = id THEN held[t][e.maker] > 0 /\ held'[t] = Moved(held[t], e.maker, e.taker)
                       ELSE held'[t] = held[t]
    <3>1. CASE t = x
      BY <1>2, <1>4, <1>5, <3>1
    <3>2. CASE t # x
      <4>1. e.card # id
        BY <1>2, <1>4, <1>7, <3>2 DEF Settled, SyncInv, CardsInv
      <4> QED BY <1>5, <3>2, <4>1
    <3> QED BY <3>1, <3>2
  <2>4. held[t] \in [Holders -> Nat] /\ held'[t] \in [Holders -> Nat]
    BY <1>5
  <2>5. Traced(f, sells', id, held'[t])
    <3> HIDE DEF f, id
    <3> QED BY <1>1, <1>3, <1>6, <2>2, <2>3, <2>4, TraceAppend
  <2>6. ASSUME NEW i \in 1..Len(sells'), sells'[i].card = id
        PROVE  \E y \in sales : y.num = sells'[i].num /\ y.card = id /\ y.status = "sale"
    <3>1. CASE i = Len(sells) + 1
      BY <1>1, <1>2, <1>6, <2>6, <3>1
    <3>2. CASE i # Len(sells) + 1
      <4>1. i \in 1..Len(sells)
        BY <1>6, <3>2
      <4> QED BY <1>6, <2>1, <2>6, <4>1 DEF Orderly
    <3> QED BY <3>1, <3>2
  <2> QED BY <2>1, <2>5, <2>6 DEF Orderly
<1> QED BY <1>1, <1>7 DEF SettledInv, Settled

(* The sell listener takes the first sell of a settled card: its sale was  *)
(* on sale, its maker has one, and what it will save is what the chain did *)
(* first.                                                                  *)
LEMMA SoldApplied ==
    ASSUME SyncInv, MarketInv, SettledInv, ReadSold, NEW t \in Tokens, Settled(t),
           Head(sells).card = cards[t].id
    PROVE  LET sell == Head(sells)
               bal  == cards[t].balances
           IN  /\ sells' = Tail(sells) /\ apply'.at = "save" /\ apply'.card = cards[t].id
               /\ sell.maker \in Holders /\ sell.taker \in Holders /\ sell.maker # sell.taker
               /\ AmountOf(bal, sell.maker) > 0
               /\ Tidy(Saved(bal, apply'))
               /\ Amounts(Saved(bal, apply')) = Moved(Amounts(bal), sell.maker, sell.taker)
               /\ Traced(Amounts(Saved(bal, apply')), Tail(sells), cards[t].id, held[t])
               /\ \E s \in sales : /\ s.num = sell.num /\ s.card = cards[t].id /\ s.user = sell.maker
                                   /\ s.status = "sale"
<1> DEFINE sell == Head(sells)
           bal  == cards[t].balances
           id   == cards[t].id
<1>1. /\ apply.at = "idle" /\ sells # <<>> /\ sells \in Seq(Sell)
      /\ IF (\E s \in sales : s.num = sell.num) /\ sell.card \in CardIds
         THEN LET b == cards[TokenOf(sell.card)].balances
              IN  IF LastEntry(b, Nobody) # 0 THEN UNCHANGED <<apply, sells>>
                  ELSE apply' = SaveOf(sell, b) /\ sells' = Tail(sells)
         ELSE sells' = Tail(sells) /\ UNCHANGED apply
  BY DEF ReadSold, MarketInv, SellsOK
<1>2. Orderly(cards[t], apply, sales, sells, held[t])
  BY DEF SettledInv
<1>3. RestOf(bal, apply, id) = bal
  BY <1>1 DEF RestOf, Saves
<1>4. Tidy(bal) /\ Traced(Amounts(bal), sells, id, held[t])
  BY <1>2, <1>3 DEF Orderly
<1>5. sell = sells[1] /\ 1 \in 1..Len(sells) /\ sell \in Sell /\ sell.card = id
  <2>1. Len(sells) \in Nat /\ Len(sells) # 0 /\ Head(sells) = sells[1]
    BY <1>1, EmptySeq, LenProperties
  <2>2. 1 \in 1..Len(sells)
    BY <2>1
  <2> QED BY <1>1, <2>1, <2>2, ElementOfSeq
<1>6. sell.maker \in Holders /\ sell.taker \in Holders /\ sell.maker # sell.taker
  BY <1>5 DEF Sell, MarketInv, SellsOK
<1>7. \E s \in sales : s.num = sell.num /\ s.card = id /\ s.user = sell.maker /\ s.status = "sale"
  BY <1>2, <1>5 DEF Orderly, MarketInv, SellsOK
<1>8. sell.card \in CardIds /\ TokenOf(sell.card) = t
  <2>1. id # 0 /\ \A x \in Tokens : cards[x].id = id => x = t
    BY DEF Settled, SyncInv, CardsInv
  <2> QED BY <1>5, <2>1 DEF CardIds, TokenOf
<1>9. LastEntry(bal, Nobody) = 0
  BY <1>4, TidyEntries
<1>10. apply' = SaveOf(sell, bal) /\ sells' = Tail(sells)
  BY <1>1, <1>7, <1>8, <1>9
<1>11. \E h \in [Holders -> Nat] :
          /\ IF sell.card = id
             THEN Amounts(bal)[sell.maker] > 0 /\ h = Moved(Amounts(bal), sell.maker, sell.taker)
             ELSE h = Amounts(bal)
          /\ Traced(h, Tail(sells), id, held[t])
  <2> HIDE DEF bal, id
  <2> QED BY <1>1, <1>4, TraceTail
<1> HIDE DEF sell, bal, id
<1>12. /\ Amounts(bal)[sell.maker] > 0
       /\ Traced(Moved(Amounts(bal), sell.maker, sell.taker), Tail(sells), id, held[t])
  BY <1>5, <1>11
<1>13. AmountOf(bal, sell.maker) > 0
  BY <1>6, <1>12 DEF Amounts
<1>14. /\ SaveOf(sell, bal).at = "save"
       /\ Saved(bal, SaveOf(sell, bal)) = OwnersChanged(bal, sell.maker, sell.taker)
  BY <1>4, <1>6, <1>13, SavedTidy
<1>15. SaveOf(sell, bal).card = sell.card
  BY <1>4, <1>6, TidyIsLoose, SaveOfLoose
<1>16. /\ Tidy(OwnersChanged(bal, sell.maker, sell.taker))
       /\ Amounts(OwnersChanged(bal, sell.maker, sell.taker)) = Moved(Amounts(bal), sell.maker, sell.taker)
  BY <1>4, <1>6, <1>13, TidyExchange
<1>17. /\ sells' = Tail(sells) /\ apply'.at = "save" /\ apply'.card = id
       /\ Tidy(Saved(bal, apply'))
       /\ Amounts(Saved(bal, apply')) = Moved(Amounts(bal), sell.maker, sell.taker)
       /\ Traced(Amounts(Saved(bal, apply')), Tail(sells), id, held[t])
  BY <1>5, <1>10, <1>12, <1>14, <1>15, <1>16
<1> QED BY <1>6, <1>7, <1>13, <1>17 DEF sell, bal, id

LEMMA SettledSold ==
    ASSUME SyncInv, MarketInv, SettledInv, ReadSold
    PROVE  SettledInv'
<1> DEFINE sell == Head(sells)
<1>1. /\ apply.at = "idle" /\ sells # <<>> /\ sells \in Seq(Sell) /\ SoldOut(sell)
      /\ UNCHANGED <<held, cards, unsettled>>
      /\ sells' = sells \/ sells' = Tail(sells)
      /\ apply' = apply \/ \E b : apply' = SaveOf(sell, b)
  BY DEF ReadSold, MarketInv, SellsOK, chain, history
<1>2. /\ \A b : SaveOf(sell, b).card = sell.card
      /\ \A id : ~Saves(apply, id)
  BY <1>1 DEF SaveOf, NoApply, Saves
<1>3. /\ Len(sells) \in Nat /\ Len(sells) >= 1 /\ sell = sells[1]
      /\ Len(Tail(sells)) = Len(sells) - 1 /\ \A i \in 1..(Len(sells) - 1) : Tail(sells)[i] = sells[i + 1]
  <2>1. Len(sells) \in Nat /\ Len(sells) # 0 /\ Head(sells) = sells[1]
    BY <1>1, EmptySeq, LenProperties
  <2> QED BY <1>1, <2>1, HeadTailProperties
<1>4. \A i, j \in 1..Len(sells) : sells[i].num = sells[j].num => i = j
  BY DEF MarketInv, SellsOK
<1>5. SalesOK
  BY DEF MarketInv
<1> HIDE DEF sell
<1>6. ASSUME NEW i \in 1..Len(sells), NEW s \in sales, s.num = sells[i].num, s.status = "sale", i # 1
      PROVE  \E x \in sales' : x.num = s.num /\ x.card = s.card /\ x.status = "sale"
  <2>1. 1 \in 1..Len(sells)
    BY <1>3
  <2>2. s.num # sell.num
    BY <1>3, <1>4, <1>6, <2>1
  <2> QED BY <1>1, <1>5, <1>6, <2>2, SalesSold
<1>7. ASSUME NEW t \in Tokens, Settled(t)
      PROVE  Orderly(cards[t], apply', sales', sells', held[t])
  <2> DEFINE id  == cards[t].id
             bal == cards[t].balances
  <2>1. Orderly(cards[t], apply, sales, sells, held[t])
    BY <1>7 DEF SettledInv
  <2>2. RestOf(bal, apply, id) = bal
    BY <1>2 DEF RestOf
  <2>3. Tidy(bal) /\ Traced(Amounts(bal), sells, id, held[t])
        /\ \A i \in 1..Len(sells) : sells[i].card = id =>
              \E s \in sales : s.num = sells[i].num /\ s.card = id /\ s.status = "sale"
    BY <2>1, <2>2 DEF Orderly
  <2>4. \A i \in 1..Len(sells) : sells[i].card = id /\ i # 1 =>
           \E x \in sales' : x.num = sells[i].num /\ x.card = id /\ x.status = "sale"
    BY <1>6, <2>3
  <2>5. ASSUME sells' = Tail(sells)
        PROVE  \A i \in 1..Len(sells') : sells'[i].card = id =>
                  \E x \in sales' : x.num = sells'[i].num /\ x.card = id /\ x.status = "sale"
    <3>1. \A i \in 1..Len(sells') : i + 1 \in 1..Len(sells) /\ i + 1 # 1 /\ sells'[i] = sells[i + 1]
      BY <1>3, <2>5
    <3> QED BY <2>4, <3>1
  <2>6. CASE sell.card = id
    <3>1. /\ sells' = Tail(sells) /\ apply'.at = "save" /\ apply'.card = id
          /\ sell.maker \in Holders /\ sell.taker \in Holders /\ sell.maker # sell.taker
          /\ Tidy(Saved(bal, apply'))
          /\ Amounts(Saved(bal, apply')) = Moved(Amounts(bal), sell.maker, sell.taker)
          /\ Traced(Amounts(Saved(bal, apply')), Tail(sells), id, held[t])
          /\ \E s \in sales : s.num = sell.num /\ s.card = id /\ s.user = sell.maker /\ s.status = "sale"
      BY <1>7, <2>6, SoldApplied DEF sell
    <3>2. Saves(apply', id) /\ RestOf(bal, apply', id) = Saved(bal, apply')
      BY <3>1 DEF Saves, RestOf
    <3>3. \E x \in sales' : x.card = id /\ x.user = sell.maker /\ x.status = "sold"
      BY <1>1, <1>5, <3>1, SalesSold
    <3>4. ASSUME NEW h \in Holders
          PROVE  AmountOf(Saved(bal, apply'), h) >= AmountOf(bal, h) - IF h = sell.maker THEN 1 ELSE 0
      <4>1. /\ Amounts(Saved(bal, apply'))[h] = AmountOf(Saved(bal, apply'), h)
            /\ Amounts(bal)[h] = AmountOf(bal, h)
        BY DEF Amounts
      <4>2. Moved(Amounts(bal), sell.maker, sell.taker)[h]
              = IF h = sell.maker THEN Amounts(bal)[h] - 1
                ELSE IF h = sell.taker THEN Amounts(bal)[h] + 1 ELSE Amounts(bal)[h]
        BY DEF Moved
      <4>3. AmountOf(bal, h) \in Nat
        BY <2>3, TidyEntries
      <4>4. AmountOf(Saved(bal, apply'), h) = IF h = sell.maker THEN AmountOf(bal, h) - 1
                ELSE IF h = sell.taker THEN AmountOf(bal, h) + 1 ELSE AmountOf(bal, h)
        BY <3>1, <4>1, <4>2
      <4> HIDE DEF bal
      <4> QED BY <4>3, <4>4
    <3>5. \E x \in sales' : /\ x.card = id /\ x.status = "sold"
                            /\ \A h \in Holders : AmountOf(RestOf(bal, apply', id), h)
                                                    >= AmountOf(bal, h) - IF h = x.user THEN 1 ELSE 0
      BY <3>2, <3>3, <3>4
    <3> QED BY <2>3, <2>5, <3>1, <3>2, <3>5 DEF Orderly
  <2>7. CASE sell.card # id
    <3>1. ~Saves(apply', id)
      BY <1>1, <1>2, <2>7 DEF Saves
    <3>2. RestOf(bal, apply', id) = bal
      BY <3>1 DEF RestOf
    <3>3. Traced(Amounts(bal), Tail(sells), id, held[t])
      <4>1. \E h \in [Holders -> Nat] :
              /\ IF sell.card = id
                 THEN Amounts(bal)[sell.maker] > 0 /\ h = Moved(Amounts(bal), sell.maker, sell.taker)
                 ELSE h = Amounts(bal)
              /\ Traced(h, Tail(sells), id, held[t])
        <5> HIDE DEF bal, id
        <5> QED BY <1>1, <2>3, TraceTail DEF sell
      <4> QED BY <2>7, <4>1
    <3>4. \A i \in 1..Len(sells') : sells'[i].card = id =>
             \E x \in sales' : x.num = sells'[i].num /\ x.card = id /\ x.status = "sale"
      <4>1. CASE sells' = Tail(sells)
        BY <2>5, <4>1
      <4>2. CASE sells' = sells
        BY <1>3, <2>4, <2>7, <4>2
      <4> QED BY <1>1, <4>1, <4>2
    <3>5. Traced(Amounts(bal), sells', id, held[t])
      BY <1>1, <2>3, <3>3
    <3> QED BY <2>3, <3>1, <3>2, <3>4, <3>5 DEF Orderly
  <2> QED BY <2>6, <2>7
<1> QED BY <1>1, <1>7 DEF SettledInv, Settled

(* What changes neither the sells, the chain nor the balances of a settled *)
(* card, takes none of its sales away and saves nothing.                   *)
LEMMA SettledStays ==
    ASSUME SettledInv, sells' = sells,
           \A t \in Tokens : Settled(t)' =>
               /\ Settled(t) /\ held'[t] = held[t]
               /\ cards'[t].id = cards[t].id /\ cards'[t].balances = cards[t].balances
               /\ \A s \in sales : s.card = cards[t].id => s \in sales'
               /\ apply' = apply \/ (~Saves(apply, cards[t].id) /\ ~Saves(apply', cards[t].id))
    PROVE  SettledInv'
<1>1. ASSUME NEW t \in Tokens, Settled(t)'
      PROVE  Orderly(cards'[t], apply', sales', sells', held'[t])
  <2>1. Orderly(cards[t], apply, sales, sells, held[t])
    BY <1>1 DEF SettledInv
  <2> QED BY <1>1, <2>1, OrderlyStays
<1> QED BY <1>1 DEF SettledInv

LEMMA SettledChain ==
    ASSUME SyncInv, MarketInv, SettledInv,
           \/ UNCHANGED imported
           \/ \E t \in Tokens, a, b \in Holders : Transfer(t, a, b)
           \/ \E s \in sales, b \in Holders : Fill(s, b)
           \/ \E t \in Tokens : RegistryMoves(t)
           \/ \E t \in Tokens, h \in Holders : CheckSale(t, h)
           \/ FetchTokens \/ FindOrCreateCollection \/ (\E t \in Tokens : ReadBalances(t))
           \/ GetUnusedCards \/ RemoveFiles \/ SyncEnds \/ SyncFails
    PROVE  SettledInv'
<1>1. CASE UNCHANGED <<cards, apply, sales, sells, held, unsettled>>
  BY <1>1 DEF SettledInv, Settled
<1>2. ASSUME NEW t \in Tokens, NEW a \in Holders, NEW b \in Holders, Transfer(t, a, b)
      PROVE  SettledInv'
  <2>1. /\ UNCHANGED <<cards, apply, sales, sells>> /\ ChainMoves(t, a, b)
        /\ unsettled' = [unsettled EXCEPT ![t] = TRUE]
    BY <1>2 DEF Transfer, Unsettle, db
  <2>2. held' \in [Tokens -> [Holders -> Nat]] /\ \A x \in Tokens : x # t => held'[x] = held[x]
    BY <2>1, ChainMoved DEF MarketInv, ChainOK
  <2>3. unsettled'[t] = TRUE /\ \A x \in Tokens : x # t => unsettled'[x] = unsettled[x]
    BY <2>1 DEF MarketInv, ChainOK
  <2> QED BY <2>1, <2>2, <2>3 DEF SettledInv, Settled
<1>3. CASE \/ UNCHANGED imported \/ (\E t \in Tokens : RegistryMoves(t))
           \/ (\E t \in Tokens, h \in Holders : CheckSale(t, h))
           \/ FetchTokens \/ FindOrCreateCollection \/ (\E t \in Tokens : ReadBalances(t))
  BY <1>1, <1>3 DEF imported, chain, db, history, RegistryMoves, CheckSale, FetchTokens,
                    FindOrCreateCollection, ReadBalances
<1>4. CASE GetUnusedCards \/ RemoveFiles \/ SyncEnds \/ SyncFails
  BY <1>1, <1>4 DEF chain, db, history, GetUnusedCards, RemoveFiles, SyncEnds, SyncFails
<1> QED BY <1>2, <1>3, <1>4, SettledFill

LEMMA NoCardOf ==
    ASSUME SyncInv, NEW id \in 1..ids.card, NEW t \in Tokens, cards[t] = NoCard
    PROVE  cards[t].id # id
BY DEF NoCard, SyncInv, CardsInv

LEMMA SettledSales ==
    ASSUME SyncInv, MarketInv, SettledInv, StoreSale \/ SaveSold \/ ProcessHasSale
    PROVE  SettledInv'
<1>1. CASE StoreSale
  <2> DEFINE f == [t \in Tokens |-> [cards[t] EXCEPT !.hasSale = TRUE]]
  <2>1. /\ UNCHANGED <<held, sells, apply, unsettled>> /\ sales \subseteq sales'
        /\ cards' = [t \in Tokens |-> IF cards[t].id = req.card THEN f[t] ELSE cards[t]]
        /\ req.card \in 1..ids.card
    BY <1>1 DEF StoreSale, chain, SyncInv, HandlesInv
  <2>2. \A t \in Tokens : f[t].id = cards[t].id /\ f[t].balances = cards[t].balances
    BY DEF SyncInv, CardsInv
  <2> HIDE DEF f
  <2>3. \A t \in Tokens : /\ cards'[t].id = cards[t].id /\ cards'[t].balances = cards[t].balances
                          /\ cards[t] = NoCard => cards'[t] = NoCard
    BY <2>1, <2>2, NoCardOf
  <2> QED BY <2>1, <2>3, SettledStays DEF Settled
<1>2. CASE ProcessHasSale
  <2> DEFINE hs == \E s \in sales : s.card = apply.card /\ s.status = "sale"
             f  == [t \in Tokens |-> [cards[t] EXCEPT !.hasSale = hs]]
  <2>1. /\ UNCHANGED <<held, sells, sales, unsettled>>
        /\ cards' = [t \in Tokens |-> IF cards[t].id = apply.card THEN f[t] ELSE cards[t]]
        /\ apply.at = "flag" /\ apply' = NoApply /\ apply.card \in 1..ids.card
    BY <1>2 DEF ProcessHasSale, chain, history, SyncInv, HandlesInv
  <2>2. \A t \in Tokens : f[t].id = cards[t].id /\ f[t].balances = cards[t].balances
    BY DEF SyncInv, CardsInv
  <2> HIDE DEF f
  <2>3. \A t \in Tokens : /\ cards'[t].id = cards[t].id /\ cards'[t].balances = cards[t].balances
                          /\ cards[t] = NoCard => cards'[t] = NoCard
    BY <2>1, <2>2, NoCardOf
  <2>4. \A id : ~Saves(apply, id) /\ ~Saves(apply', id)
    BY <2>1 DEF Saves, NoApply
  <2> QED BY <2>1, <2>3, <2>4, SettledStays DEF Settled
<1>3. CASE SaveSold
  <2> DEFINE f == [t \in Tokens |-> [cards[t] EXCEPT !.balances = Saved(@, apply)]]
  <2>1. /\ UNCHANGED <<held, sells, sales, unsettled>>
        /\ cards' = [t \in Tokens |-> IF cards[t].id = apply.card THEN f[t] ELSE cards[t]]
        /\ apply.at = "save" /\ apply'.at = "flag" /\ apply.card \in 1..ids.card
    BY <1>3 DEF SaveSold, chain, history, SyncInv, HandlesInv, NoApply
  <2>2. \A t \in Tokens : f[t].id = cards[t].id /\ f[t].balances = Saved(cards[t].balances, apply)
    BY DEF SyncInv, CardsInv
  <2> HIDE DEF f
  <2>3. \A id : ~Saves(apply', id)
    BY <2>1 DEF Saves
  <2>4. ASSUME NEW t \in Tokens, Settled(t)'
        PROVE  Orderly(cards'[t], apply', sales', sells', held'[t])
    <3>1. Settled(t)
      BY <2>1, <2>4, NoCardOf DEF Settled
    <3>2. Orderly(cards[t], apply, sales, sells, held[t])
      BY <3>1 DEF SettledInv
    <3>3. /\ cards'[t].id = cards[t].id
          /\ cards'[t].balances = RestOf(cards[t].balances, apply, cards[t].id)
      BY <2>1, <2>2 DEF RestOf, Saves
    <3>4. RestOf(cards'[t].balances, apply', cards'[t].id) = RestOf(cards[t].balances, apply, cards[t].id)
      BY <2>3, <3>3 DEF RestOf
    <3>5. Tidy(cards'[t].balances) /\ Tidy(RestOf(cards'[t].balances, apply', cards'[t].id))
      BY <3>2, <3>3, <3>4 DEF Orderly
    <3>6. \A i \in 1..Len(sells) : sells[i].card = cards'[t].id =>
            \E s \in sales : s.num = sells[i].num /\ s.card = cards'[t].id /\ s.status = "sale"
      BY <3>2, <3>3 DEF Orderly
    <3>7. Traced(Amounts(RestOf(cards'[t].balances, apply', cards'[t].id)), sells, cards'[t].id, held[t])
      BY <3>2, <3>3, <3>4 DEF Orderly
    <3> QED BY <2>1, <2>3, <3>5, <3>6, <3>7 DEF Orderly
  <2> QED BY <2>4 DEF SettledInv
<1> QED BY <1>1, <1>2, <1>3

(* A card imported at rest has the holders of the chain.                   *)
LEMMA SyncedAtRest ==
    ASSUME SyncInv, MarketInv, ReadInv, NEW t \in Tokens, SyncCard(t), ~unsettled'[t]
    PROVE  /\ cards'[t].balances = HoldersOf(t) /\ held[t] \in [Holders -> Nat]
           /\ \A i \in 1..Len(sells) : sells[i].card # cards'[t].id
           /\ ~Saves(apply, cards'[t].id)
           /\ cards[t] # NoCard => cards'[t].id = cards[t].id
           /\ cards[t] = NoCard => cards'[t].id = ids.card + 1
<1> DEFINE task == sync.tasks[t]
           c    == SyncedCard(t, task.balances)
<1>1. /\ task.at = "store" /\ cards' = [cards EXCEPT ![t] = c]
      /\ unsettled' = [unsettled EXCEPT ![t] = task.unsettled \/ Pending(t)]
  BY DEF SyncCard
<1>2. ~task.unsettled /\ ~Pending(t)
  BY <1>1 DEF MarketInv, ChainOK
<1>3. task.balances = HoldersOf(t)
  BY <1>1, <1>2 DEF ReadInv, ReadOf
<1>4. /\ c.balances = task.balances
      /\ cards[t] # NoCard => c.id = cards[t].id
      /\ cards[t] = NoCard => c.id = ids.card + 1
  BY DEF SyncedCard, SyncInv, CardsInv
<1> HIDE DEF c
<1>5. cards'[t] = c
  BY <1>1 DEF SyncInv, CardsInv
<1>6. held[t] \in [Holders -> Nat]
  BY DEF MarketInv, ChainOK
<1>7. ids.card \in Nat /\ DOMAIN sells = 1..Len(sells)
  BY LenProperties DEF SyncInv, CardsInv, MarketInv, SellsOK
<1>8. (\A i \in 1..Len(sells) : sells[i].card # c.id) /\ ~Saves(apply, c.id)
  <2>1. CASE cards[t] # NoCard
    BY <1>2, <1>4, <1>7, <2>1 DEF Pending, Saves
  <2>2. CASE cards[t] = NoCard
    <3>1. \A n : n \in 1..ids.card => n # c.id
      BY <1>4, <1>7, <2>2
    <3> QED BY <3>1 DEF Saves, SyncInv, HandlesInv, MarketInv, SellsOK
  <2> QED BY <2>1, <2>2
<1> QED BY <1>3, <1>4, <1>5, <1>6, <1>8

LEMMA SettledCards ==
    ASSUME SyncInv, MarketInv, SettledInv, ReadInv, NEW t \in Tokens, SyncCard(t)
    PROVE  SettledInv'
<1>1. /\ UNCHANGED <<held, sells, sales, apply>>
      /\ \A x \in Tokens : x # t => cards'[x] = cards[x] /\ unsettled'[x] = unsettled[x]
  BY DEF SyncCard, chain, SyncInv, CardsInv, MarketInv, ChainOK
<1>2. ASSUME ~unsettled'[t]
      PROVE  Orderly(cards'[t], apply', sales', sells', held'[t])
  <2>1. /\ cards'[t].balances = HoldersOf(t) /\ held[t] \in [Holders -> Nat]
        /\ \A i \in 1..Len(sells) : sells[i].card # cards'[t].id
        /\ ~Saves(apply, cards'[t].id)
    BY <1>2, SyncedAtRest
  <2>2. Tidy(cards'[t].balances) /\ Amounts(cards'[t].balances) = held[t]
    BY <2>1, HoldersAreTidy
  <2>3. sells \in Seq(Sell)
    BY DEF MarketInv, SellsOK
  <2> QED BY <1>1, <2>1, <2>2, <2>3, OrderlyStill
<1>3. ASSUME NEW x \in Tokens, Settled(x)'
      PROVE  Orderly(cards'[x], apply', sales', sells', held'[x])
  BY <1>1, <1>2, <1>3 DEF SettledInv, Settled
<1> QED BY <1>3 DEF SettledInv

LEMMA SettledDeletes ==
    ASSUME SyncInv, MarketInv, SettledInv, DeleteCards \/ DeleteSalesByCardIds
    PROVE  SettledInv'
<1>1. UNCHANGED <<held, sells, apply, unsettled>>
  BY DEF DeleteCards, DeleteSalesByCardIds, chain, history
<1>2. CASE DeleteCards
  <2>1. sales' = sales /\ \A t \in Tokens : cards'[t] = NoCard \/ cards'[t] = cards[t]
    BY <1>2 DEF DeleteCards
  <2> QED BY <1>1, <2>1, SettledStays DEF Settled
<1>3. CASE DeleteSalesByCardIds
  <2>1. /\ cards' = cards /\ sync.at = "sales"
        /\ sales' = {s \in sales : s.card \notin {c.id : c \in sync.unused}}
    BY <1>3 DEF DeleteSalesByCardIds
  <2>2. ASSUME NEW t \in Tokens, Settled(t)
        PROVE  cards[t].id \notin {c.id : c \in sync.unused}
    <3>1. cards[t].id \in CardIds
      BY <2>2, CardThere DEF Settled, CardIds, SyncInv
    <3> QED BY <2>1, <3>1 DEF MarketInv, GoneOK
  <2> QED BY <1>1, <2>1, <2>2, SettledStays DEF Settled
<1> QED BY <1>2, <1>3

LEMMA SettledNext ==
    ASSUME SyncInv, MarketInv, SettledInv, ReadInv, [ListsNext]_allVars
    PROVE  SettledInv'
<1>1. CASE UNCHANGED imported
  BY <1>1, SettledChain
<1>2. CASE Next
  <2>1. CASE SyncStep \/ SyncFails
    BY <2>1, SettledChain, SettledCards, SettledDeletes DEF SyncStep
  <2>2. CASE StoreSale \/ SellStep
    BY <2>2, SettledSales, SettledSold DEF SellStep
  <2> QED BY <1>2, <2>1, <2>2, SettledChain DEF Next
<1> QED BY <1>1, <1>2, ListsStep

ImportInv == SyncInv /\ MarketInv /\ ReadInv /\ SettledInv

LEMMA ImportInit == ListsInit => ImportInv
BY SyncInit, MarketInit, ReadInit, SettledInit DEF ListsInit, ImportInv

LEMMA ImportNext == ImportInv /\ [ListsNext]_allVars => ImportInv'
BY SyncNext, MarketNext, ReadSteps, SettledNext DEF ImportInv

LEMMA ImportTypes ==
    ASSUME SyncInv, MarketInv
    PROVE  TypeOK
<1>1. ASSUME NEW t \in Tokens
      PROVE  /\ cards[t].id \in 0..ids.card /\ cards[t].hasSale \in BOOLEAN
             /\ cards[t].balances \in Seq([user : Holders \cup {Nobody}, amount : Nat])
             /\ \A x \in Tokens : cards[t].id = cards[x].id /\ cards[t] # NoCard => t = x
  <2>1. cards[t].id \in 0..ids.card
    BY DEF SyncInv, CardsInv, NoCard
  <2>2. \A x \in Tokens : cards[t].id = cards[x].id /\ cards[t] # NoCard => t = x
    BY DEF SyncInv, CardsInv
  <2> QED BY <2>1, <2>2 DEF MarketInv, CardsOK, Loose
<1>2. \A s \in sales : s.num \in 1..ids.sale /\ s.card \in 1..ids.card /\ s.status \in {"sale", "sold"}
  BY DEF MarketInv, SalesOK, Sale
<1>3. /\ sync.at \in {"idle", "collection", "cards", "delete", "sales", "files", "done"}
      /\ \A t \in Tokens : sync.tasks[t].at \in {"none", "balances", "store", "done"}
      /\ apply.at \in {"idle", "save", "flag"} /\ req.at \in {"idle", "store"}
  BY DEF MarketInv, TasksOK, ApplyOK, ReqOK, SyncInv, TaskInv
<1>4. /\ registry \subseteq Tokens /\ held \in [Tokens -> [Holders -> Nat]]
      /\ files \subseteq Tokens /\ collection \in BOOLEAN
  BY DEF SyncInv, TaskInv, MarketInv, ChainOK
<1> QED BY <1>1, <1>2, <1>3, <1>4 DEF TypeOK

LEMMA SettledMirrored ==
    ASSUME ImportInv
    PROVE  Mirrored
<1>1. ASSUME NEW t \in Tokens, Settled(t), ~Pending(t)
      PROVE  /\ Range(cards[t].balances) = Range(HoldersOf(t))
             /\ Len(cards[t].balances) = Len(HoldersOf(t))
  <2> DEFINE bal == cards[t].balances
  <2>1. Orderly(cards[t], apply, sales, sells, held[t])
    BY <1>1 DEF ImportInv, SettledInv
  <2>2. sells \in Seq(Sell) /\ DOMAIN sells = 1..Len(sells)
    BY LenProperties DEF ImportInv, MarketInv, SellsOK
  <2>3. ~Saves(apply, cards[t].id) /\ \A i \in 1..Len(sells) : sells[i].card # cards[t].id
    BY <1>1, <2>2 DEF Settled, Pending, Saves
  <2>4. Tidy(bal) /\ Traced(Amounts(bal), sells, cards[t].id, held[t])
    BY <2>1, <2>3 DEF Orderly, RestOf
  <2>5. Amounts(bal) = held[t]
    <3> HIDE DEF bal
    <3> QED BY <2>2, <2>3, <2>4, TraceEnd
  <2>6. Tidy(HoldersOf(t)) /\ Amounts(HoldersOf(t)) = held[t]
    BY HoldersAreTidy DEF ImportInv, MarketInv, ChainOK
  <2> QED BY <2>4, <2>5, <2>6, SameAmounts
<1> QED BY <1>1 DEF Mirrored, Settled

LEMMA SettledWellFormed ==
    ASSUME ImportInv
    PROVE  BalancesWellFormed
<1>1. ASSUME NEW t \in Tokens, ~unsettled[t]
      PROVE  /\ \A i, j \in DOMAIN cards[t].balances :
                   cards[t].balances[i].user = cards[t].balances[j].user => i = j
             /\ \A i \in DOMAIN cards[t].balances :
                   cards[t].balances[i].user # Nobody /\ cards[t].balances[i].amount > 0
  <2>1. CASE cards[t] = NoCard
    <3>1. cards[t].balances = <<>>
      BY <2>1 DEF NoCard
    <3> QED BY <3>1
  <2>2. CASE cards[t] # NoCard
    <3>1. Tidy(cards[t].balances)
      BY <1>1, <2>2 DEF ImportInv, SettledInv, Settled, Orderly
    <3>2. \A i \in DOMAIN cards[t].balances :
            cards[t].balances[i].user \in Holders /\ cards[t].balances[i].amount \in Nat \ {0}
      BY <3>1, TidyEntries
    <3>3. \A h \in Holders : h # Nobody
      BY SyncAssumption DEF Nobody
    <3> QED BY <3>1, <3>2, <3>3 DEF Tidy
  <2> QED BY <2>1, <2>2
<1> QED BY <1>1 DEF BalancesWellFormed

(* An import of moving data: a card whose holders stood still while they   *)
(* were read, page by page, and moved only by sells since, names exactly   *)
(* the holders the chain has once those sells are applied, each once and   *)
(* with something left, in whatever order the sell listener, the import    *)
(* and its failures come; and every part of the database has its type.     *)
THEOREM ImportsMirror == ListsSpec => []ImportMirrors
<1>1. ImportInv => ImportMirrors
  BY ImportTypes, SettledMirrored, SettledWellFormed DEF ImportInv, ImportMirrors
<1> QED BY <1>1, ImportInit, ImportNext, PTL DEF ListsSpec

-----------------------------------------------------------------------------
(* What a holder has on sale of a card or is putting on sale, he holds, as *)
(* the card is and as it will be saved.                                    *)
Claims(ss, r, id, h) ==
    Cardinality(LiveSales(ss, id, h)) + IF r.at = "store" /\ r.card = id /\ r.user = h THEN 1 ELSE 0

Backed(c, upd, ss, r) ==
    \A h \in Holders : /\ Claims(ss, r, c.id, h) <= AmountOf(c.balances, h)
                       /\ Claims(ss, r, c.id, h) <= AmountOf(RestOf(c.balances, upd, c.id), h)

CoveredInv ==
    \A t \in Tokens : Settled(t) /\ cards[t].id \notin exposed => Backed(cards[t], apply, sales, req)

LEMMA LiveFinite ==
    ASSUME NEW ss, IsFiniteSet(ss), NEW id, NEW h
    PROVE  /\ IsFiniteSet(LiveSales(ss, id, h)) /\ Cardinality(LiveSales(ss, id, h)) \in Nat
           /\ \A r : Claims(ss, r, id, h) \in Nat
<1>1. IsFiniteSet(LiveSales(ss, id, h)) /\ Cardinality(LiveSales(ss, id, h)) \in Nat
  BY FS_Subset, FS_CardinalityType DEF LiveSales
<1> QED BY <1>1 DEF Claims

(* Fewer sales are fewer claims.                                           *)
LEMMA ClaimsFall ==
    ASSUME NEW ss, IsFiniteSet(ss), NEW tt, NEW id, NEW h,
           LiveSales(tt, id, h) \subseteq LiveSales(ss, id, h),
           NEW r, NEW q, q = r \/ q.at # "store"
    PROVE  Claims(tt, q, id, h) <= Claims(ss, r, id, h) /\ Claims(tt, q, id, h) \in Nat
<1>1. /\ Cardinality(LiveSales(tt, id, h)) <= Cardinality(LiveSales(ss, id, h))
      /\ Cardinality(LiveSales(tt, id, h)) \in Nat /\ Cardinality(LiveSales(ss, id, h)) \in Nat
  BY LiveFinite, FS_Subset, FS_CardinalityType
<1> QED BY <1>1 DEF Claims

LEMMA BackedStays ==
    ASSUME NEW c, NEW d, d.id = c.id, d.balances = c.balances,
           Tidy(c.balances), NEW upd, Tidy(RestOf(c.balances, upd, c.id)),
           NEW new, new = upd \/ (~Saves(upd, c.id) /\ ~Saves(new, c.id)),
           NEW ss, IsFiniteSet(ss), NEW tt,
           \A h \in Holders : LiveSales(tt, c.id, h) \subseteq LiveSales(ss, c.id, h),
           NEW r, NEW q, q = r \/ q.at # "store",
           Backed(c, upd, ss, r)
    PROVE  Backed(d, new, tt, q)
<1>1. RestOf(d.balances, new, d.id) = RestOf(c.balances, upd, c.id)
  BY RestStays
<1>2. ASSUME NEW h \in Holders
      PROVE  /\ Claims(tt, q, c.id, h) <= AmountOf(c.balances, h)
             /\ Claims(tt, q, c.id, h) <= AmountOf(RestOf(c.balances, upd, c.id), h)
  <2>1. Claims(tt, q, c.id, h) <= Claims(ss, r, c.id, h) /\ Claims(tt, q, c.id, h) \in Nat
    BY ClaimsFall
  <2>2. Claims(ss, r, c.id, h) \in Nat
    BY LiveFinite
  <2>3. AmountOf(c.balances, h) \in Nat /\ AmountOf(RestOf(c.balances, upd, c.id), h) \in Nat
    BY TidyEntries
  <2>4. /\ Claims(ss, r, c.id, h) <= AmountOf(c.balances, h)
        /\ Claims(ss, r, c.id, h) <= AmountOf(RestOf(c.balances, upd, c.id), h)
    BY DEF Backed
  <2> QED BY <2>1, <2>2, <2>3, <2>4
<1> QED BY <1>1, <1>2 DEF Backed

LEMMA CoveredInit == Init => CoveredInv
<1> SUFFICES ASSUME Init, NEW t \in Tokens, Settled(t)
             PROVE  Backed(cards[t], apply, sales, req)
  BY DEF CoveredInv
<1>1. PICK stored \in Databases :
        /\ cards = [x \in Tokens |->
                      IF x \in stored
                      THEN [id |-> CardIdAt(stored, x), balances |-> HoldersOf(x), hasSale |-> Sellers[x] # {}]
                      ELSE NoCard]
        /\ sales = SalesAt(stored)
  BY DEF Init
<1>2. t \in stored
  BY <1>1 DEF Settled
<1>3. cards[t].id = CardIdAt(stored, t) /\ cards[t].balances = HoldersOf(t)
  BY <1>1, <1>2
<1>4. stored \subseteq Nat /\ IsFiniteSet(stored) /\ stored \subseteq Tokens
  BY SyncAssumption, FS_Subset
<1>5. \A x \in stored : CardIdAt(stored, x) = CardIdAt(stored, t) => x = t
  BY <1>2, <1>4, FirstIds
<1>6. held = Held /\ apply.at = "idle" /\ req.at = "idle"
  BY DEF Init, NoApply, NoReq
<1>7. Tidy(HoldersOf(t)) /\ Amounts(HoldersOf(t)) = Held[t] /\ Held[t] \in [Holders -> Nat]
  BY <1>6, HoldersAreTidy, SyncAssumption
<1>8. ASSUME NEW h \in Holders
      PROVE  Cardinality(LiveSales(sales, cards[t].id, h)) <= AmountOf(HoldersOf(t), h)
  <2> DEFINE L == LiveSales(sales, cards[t].id, h)
  <2>1. AmountOf(HoldersOf(t), h) = Held[t][h] /\ Held[t][h] \in Nat
    BY <1>7 DEF Amounts
  <2>2. CASE L = {}
    BY <2>1, <2>2, FS_EmptySet
  <2>3. CASE L # {}
    <3>1. PICK s \in L : TRUE
      BY <2>3
    <3>2. s \in SalesAt(stored) /\ s.card = CardIdAt(stored, t) /\ s.user = h
      BY <1>1, <1>3, <3>1 DEF LiveSales
    <3>3. \E x \in stored : s.card = CardIdAt(stored, x) /\ s.user \in Sellers[x]
      BY <3>2, FirstSales
    <3>4. h \in Sellers[t]
      BY <1>5, <3>2, <3>3
    <3>5. Held[t][h] > 0
      BY <3>4, SyncAssumption
    <3>6. \A x \in L : x = s
      BY <1>1, <1>3, <3>2, FirstSales DEF LiveSales
    <3>7. L = {s}
      BY <3>1, <3>6
    <3>8. Cardinality(L) = 1
      BY <3>7, FS_Singleton
    <3> QED BY <2>1, <3>5, <3>8
  <2> QED BY <2>2, <2>3
<1>9. IsFiniteSet(sales)
  BY <1>1, FirstSales
<1>10. RestOf(cards[t].balances, apply, cards[t].id) = HoldersOf(t)
  BY <1>3, <1>6 DEF RestOf, Saves
<1>11. ASSUME NEW h \in Holders
       PROVE  Claims(sales, req, cards[t].id, h) <= AmountOf(HoldersOf(t), h)
  <2>1. Claims(sales, req, cards[t].id, h) = Cardinality(LiveSales(sales, cards[t].id, h))
    BY <1>6, <1>9, LiveFinite DEF Claims
  <2> QED BY <1>8, <2>1
<1> QED BY <1>3, <1>10, <1>11 DEF Backed

(* What leaves the balances of a settled card alone, puts nothing of it on *)
(* sale and saves nothing.                                                 *)
LEMMA CoveredStays ==
    ASSUME MarketInv, SettledInv, CoveredInv,
           \A t \in Tokens : Settled(t)' =>
               /\ Settled(t) /\ (cards[t].id \in exposed => cards'[t].id \in exposed')
               /\ cards'[t].id = cards[t].id /\ cards'[t].balances = cards[t].balances
               /\ \A h \in Holders : LiveSales(sales', cards[t].id, h) \subseteq LiveSales(sales, cards[t].id, h)
               /\ apply' = apply \/ (~Saves(apply, cards[t].id) /\ ~Saves(apply', cards[t].id))
               /\ req' = req \/ req'.at # "store"
    PROVE  CoveredInv'
<1>1. ASSUME NEW t \in Tokens, Settled(t)', cards'[t].id \notin exposed'
      PROVE  Backed(cards'[t], apply', sales', req')
  <2>1. /\ Settled(t) /\ cards[t].id \notin exposed
        /\ cards'[t].id = cards[t].id /\ cards'[t].balances = cards[t].balances
        /\ \A h \in Holders : LiveSales(sales', cards[t].id, h) \subseteq LiveSales(sales, cards[t].id, h)
        /\ apply' = apply \/ (~Saves(apply, cards[t].id) /\ ~Saves(apply', cards[t].id))
        /\ req' = req \/ req'.at # "store"
    BY <1>1
  <2>2. Tidy(cards[t].balances) /\ Tidy(RestOf(cards[t].balances, apply, cards[t].id))
    BY <2>1 DEF SettledInv, Orderly
  <2>3. Backed(cards[t], apply, sales, req)
    BY <2>1 DEF CoveredInv
  <2>4. IsFiniteSet(sales)
    BY DEF MarketInv, SalesOK
  <2> QED BY <2>1, <2>2, <2>3, <2>4, BackedStays
<1> QED BY <1>1 DEF CoveredInv

LEMMA CoveredChain ==
    ASSUME SyncInv, MarketInv, SettledInv, CoveredInv,
           \/ UNCHANGED imported
           \/ \E t \in Tokens, a, b \in Holders : Transfer(t, a, b)
           \/ \E s \in sales, b \in Holders : Fill(s, b)
           \/ \E t \in Tokens : RegistryMoves(t)
           \/ FetchTokens \/ FindOrCreateCollection \/ (\E t \in Tokens : ReadBalances(t))
           \/ GetUnusedCards \/ RemoveFiles \/ SyncEnds \/ SyncFails
    PROVE  CoveredInv'
<1>1. CASE UNCHANGED <<cards, apply, sales, req, unsettled, exposed>>
  BY <1>1 DEF CoveredInv, Settled
<1>2. ASSUME NEW t \in Tokens, NEW a \in Holders, NEW b \in Holders, Transfer(t, a, b)
      PROVE  CoveredInv'
  <2>1. /\ UNCHANGED <<cards, apply, sales, req, exposed>>
        /\ unsettled' = [unsettled EXCEPT ![t] = TRUE]
    BY <1>2 DEF Transfer, Unsettle, db
  <2>2. unsettled'[t] = TRUE /\ \A x \in Tokens : x # t => unsettled'[x] = unsettled[x]
    BY <2>1 DEF MarketInv, ChainOK
  <2> QED BY <2>1, <2>2 DEF CoveredInv, Settled
<1>3. CASE \/ UNCHANGED imported \/ (\E t \in Tokens : RegistryMoves(t))
           \/ (\E s \in sales, b \in Holders : Fill(s, b))
           \/ FetchTokens \/ FindOrCreateCollection \/ (\E t \in Tokens : ReadBalances(t))
  BY <1>1, <1>3 DEF imported, chain, db, history, RegistryMoves, Fill, FetchTokens,
                    FindOrCreateCollection, ReadBalances
<1>4. CASE GetUnusedCards \/ RemoveFiles \/ SyncEnds \/ SyncFails
  BY <1>1, <1>4 DEF chain, db, history, GetUnusedCards, RemoveFiles, SyncEnds, SyncFails
<1> QED BY <1>2, <1>3, <1>4

(* createSale checks: what the holder has beyond his sales, sold ones      *)
(* among them, is enough for one more, also when a save is under way.      *)
LEMMA CoveredCheck ==
    ASSUME SyncInv, MarketInv, SettledInv, CoveredInv, NEW x \in Tokens, NEW k \in Holders, CheckSale(x, k)
    PROVE  CoveredInv'
<1>1. /\ req.at = "idle" /\ AmountOf(cards[x].balances, k) - OnSale(cards[x].id, k) >= 1
      /\ req' = [at |-> "store", card |-> cards[x].id, user |-> k]
      /\ UNCHANGED <<cards, apply, sales, unsettled, exposed>>
  BY DEF CheckSale, db, history
<1>2. cards[x] # NoCard /\ IsFiniteSet(sales) /\ CardsInv
  BY DEF CheckSale, MarketInv, SalesOK, SyncInv
<1>3. ASSUME NEW t \in Tokens, Settled(t), cards[t].id \notin exposed
      PROVE  Backed(cards[t], apply, sales, req')
  <2> DEFINE id   == cards[t].id
             bal  == cards[t].balances
             rest == RestOf(bal, apply, id)
  <2>1. Backed(cards[t], apply, sales, req) /\ Orderly(cards[t], apply, sales, sells, held[t])
    BY <1>3 DEF CoveredInv, SettledInv
  <2>2. ASSUME NEW h \in Holders
        PROVE  /\ Claims(sales, req', id, h) <= AmountOf(bal, h)
               /\ Claims(sales, req', id, h) <= AmountOf(rest, h)
    <3> DEFINE L == LiveSales(sales, id, h)
               A == {s \in sales : s.card = id /\ s.user = h}
    <3>1. IsFiniteSet(L) /\ Cardinality(L) \in Nat
      BY <1>2, LiveFinite
    <3>2. IsFiniteSet(A) /\ Cardinality(A) \in Nat /\ Cardinality(L) <= Cardinality(A)
      <4>1. A \subseteq sales /\ L \subseteq A
        BY DEF LiveSales
      <4> HIDE DEF A, L
      <4> QED BY <1>2, <4>1, FS_Subset, FS_CardinalityType
    <3>3. AmountOf(bal, h) \in Nat /\ AmountOf(rest, h) \in Nat
      BY <2>1, TidyEntries DEF Orderly
    <3>4. Cardinality(L) <= AmountOf(bal, h) /\ Cardinality(L) <= AmountOf(rest, h)
      <4>1. Claims(sales, req, id, h) = Cardinality(L)
        BY <1>1, <3>1 DEF Claims
      <4> QED BY <2>1, <4>1 DEF Backed
    <3>5. CASE id # cards[x].id \/ h # k
      <4>1. Claims(sales, req', id, h) = Cardinality(L)
        BY <1>1, <3>1, <3>5 DEF Claims
      <4> QED BY <3>4, <4>1
    <3>6. CASE id = cards[x].id /\ h = k
      <4>1. Claims(sales, req', id, h) = Cardinality(L) + 1
        BY <1>1, <3>6 DEF Claims
      <4>2. t = x
        BY <1>2, <3>6 DEF CardsInv
      <4>3. AmountOf(bal, h) - Cardinality(A) >= 1
        BY <1>1, <3>6, <4>2 DEF OnSale
      <4>4. CASE ~Saves(apply, id)
        <5>1. rest = bal
          BY <4>4 DEF RestOf
        <5> HIDE DEF A, L, bal, rest
        <5> QED BY <3>1, <3>2, <3>3, <4>1, <4>3, <5>1
      <4>5. CASE Saves(apply, id)
        <5>1. PICK s \in sales : /\ s.card = id /\ s.status = "sold"
                                 /\ AmountOf(rest, h) >= AmountOf(bal, h) - IF h = s.user THEN 1 ELSE 0
          BY <2>1, <4>5 DEF Orderly
        <5>2. CASE h # s.user
          <6>1. AmountOf(rest, h) >= AmountOf(bal, h)
            BY <3>3, <5>1, <5>2
          <6> HIDE DEF A, L, bal, rest
          <6> QED BY <3>1, <3>2, <3>3, <4>1, <4>3, <6>1
        <5>3. CASE h = s.user
          <6>1. s \in A /\ s \notin L /\ L \cup {s} \subseteq A
            BY <5>1, <5>3 DEF LiveSales
          <6>2. AmountOf(rest, h) >= AmountOf(bal, h) - 1
            BY <5>1, <5>3
          <6> HIDE DEF A, L, bal, rest
          <6>3. Cardinality(L \cup {s}) = Cardinality(L) + 1 /\ IsFiniteSet(L \cup {s})
            BY <3>1, <6>1, FS_AddElement
          <6>4. Cardinality(L) + 1 <= Cardinality(A)
            BY <3>2, <6>1, <6>3, FS_Subset
          <6> QED BY <3>1, <3>2, <3>3, <4>1, <4>3, <6>2, <6>4
        <5> QED BY <5>2, <5>3
      <4> QED BY <4>4, <4>5
    <3> QED BY <3>5, <3>6
  <2> QED BY <2>2 DEF Backed
<1> QED BY <1>1, <1>3 DEF CoveredInv, Settled

(* createSale stores: what was being put on sale is on sale.               *)
LEMMA CoveredStore ==
    ASSUME SyncInv, MarketInv, SettledInv, CoveredInv, StoreSale
    PROVE  CoveredInv'
<1> DEFINE f   == [t \in Tokens |-> [cards[t] EXCEPT !.hasSale = TRUE]]
           new == [num |-> ids'.sale, card |-> req.card, user |-> req.user, status |-> "sale"]
<1>1. /\ UNCHANGED <<apply, unsettled, exposed>> /\ sales' = sales \cup {new} /\ req' = NoReq /\ req.at = "store"
      /\ cards' = [t \in Tokens |-> IF cards[t].id = req.card THEN f[t] ELSE cards[t]]
      /\ req.card \in 1..ids.card
  BY DEF StoreSale, SyncInv, HandlesInv
<1>2. \A t \in Tokens : f[t].id = cards[t].id /\ f[t].balances = cards[t].balances
  BY DEF SyncInv, CardsInv
<1>3. new.card = req.card /\ new.user = req.user
  OBVIOUS
<1> HIDE DEF f, new
<1>4. \A t \in Tokens : /\ cards'[t].id = cards[t].id /\ cards'[t].balances = cards[t].balances
                        /\ cards[t] = NoCard => cards'[t] = NoCard
  BY <1>1, <1>2, NoCardOf
<1>5. IsFiniteSet(sales) /\ req'.at # "store"
  BY <1>1 DEF MarketInv, SalesOK, NoReq
<1>6. ASSUME NEW t \in Tokens, NEW h \in Holders
      PROVE  Claims(sales', req', cards[t].id, h) <= Claims(sales, req, cards[t].id, h)
  <2> DEFINE id == cards[t].id
             L  == LiveSales(sales, id, h)
             M  == LiveSales(sales', id, h)
  <2>1. IsFiniteSet(L) /\ Cardinality(L) \in Nat
    BY <1>5, LiveFinite
  <2>2. Claims(sales', req', id, h) = Cardinality(M)
    <3>1. IsFiniteSet(sales')
      BY <1>1, <1>5, FS_AddElement
    <3>2. Cardinality(M) \in Nat
      BY <3>1, LiveFinite
    <3> QED BY <1>5, <3>2 DEF Claims
  <2>3. CASE req.card = id /\ req.user = h
    <3>1. Claims(sales, req, id, h) = Cardinality(L) + 1
      BY <1>1, <2>3 DEF Claims
    <3>2. M \subseteq L \cup {new}
      BY <1>1 DEF LiveSales
    <3> HIDE DEF L, M
    <3>3. IsFiniteSet(L \cup {new}) /\ Cardinality(L \cup {new}) <= Cardinality(L) + 1
      BY <2>1, FS_AddElement
    <3>4. Cardinality(M) <= Cardinality(L \cup {new}) /\ Cardinality(M) \in Nat /\ Cardinality(L \cup {new}) \in Nat
      BY <3>2, <3>3, FS_Subset, FS_CardinalityType
    <3> QED BY <2>1, <2>2, <3>1, <3>3, <3>4
  <2>4. CASE req.card # id \/ req.user # h
    <3>1. Claims(sales, req, id, h) = Cardinality(L)
      BY <2>1, <2>4 DEF Claims
    <3>2. M = L
      BY <1>1, <1>3, <2>4 DEF LiveSales
    <3> QED BY <2>1, <2>2, <3>1, <3>2
  <2> QED BY <2>3, <2>4
<1>7. ASSUME NEW t \in Tokens, Settled(t)', cards'[t].id \notin exposed'
      PROVE  Backed(cards'[t], apply', sales', req')
  <2>1. Settled(t) /\ cards[t].id \notin exposed
    BY <1>1, <1>4, <1>7 DEF Settled
  <2>2. Backed(cards[t], apply, sales, req) /\ Orderly(cards[t], apply, sales, sells, held[t])
    BY <2>1 DEF CoveredInv, SettledInv
  <2>3. RestOf(cards'[t].balances, apply', cards'[t].id) = RestOf(cards[t].balances, apply, cards[t].id)
    BY <1>1, <1>4
  <2>4. ASSUME NEW h \in Holders
        PROVE  /\ Claims(sales', req', cards[t].id, h) <= AmountOf(cards[t].balances, h)
               /\ Claims(sales', req', cards[t].id, h) <= AmountOf(RestOf(cards[t].balances, apply, cards[t].id), h)
    <3>1. Claims(sales', req', cards[t].id, h) \in Nat /\ Claims(sales, req, cards[t].id, h) \in Nat
      <4>1. IsFiniteSet(sales')
        BY <1>1, <1>5, FS_AddElement
      <4> QED BY <1>5, <4>1, LiveFinite
    <3>2. AmountOf(cards[t].balances, h) \in Nat /\ AmountOf(RestOf(cards[t].balances, apply, cards[t].id), h) \in Nat
      BY <2>2, TidyEntries DEF Orderly
    <3>3. /\ Claims(sales, req, cards[t].id, h) <= AmountOf(cards[t].balances, h)
          /\ Claims(sales, req, cards[t].id, h) <= AmountOf(RestOf(cards[t].balances, apply, cards[t].id), h)
      BY <2>2 DEF Backed
    <3>4. Claims(sales', req', cards[t].id, h) <= Claims(sales, req, cards[t].id, h)
      BY <1>6
    <3> QED BY <3>1, <3>2, <3>3, <3>4
  <2> QED BY <1>4, <2>3, <2>4 DEF Backed
<1> QED BY <1>7 DEF CoveredInv

(* The sell listener reads: the sale is sold, and the save under way takes *)
(* from its maker the one he had on sale.                                  *)
LEMMA CoveredSold ==
    ASSUME SyncInv, MarketInv, SettledInv, CoveredInv, ReadSold
    PROVE  CoveredInv'
<1> DEFINE sell == Head(sells)
<1>1. /\ apply.at = "idle" /\ SoldOut(sell)
      /\ UNCHANGED <<cards, unsettled, exposed, req>>
      /\ apply' = apply \/ \E b : apply' = SaveOf(sell, b)
  BY DEF ReadSold, history
<1>2. /\ \A b : SaveOf(sell, b).card = sell.card
      /\ \A id : ~Saves(apply, id)
  BY <1>1 DEF SaveOf, NoApply, Saves
<1>3. SalesOK /\ IsFiniteSet(sales) /\ IsFiniteSet(sales')
  BY <1>1, SalesSold DEF MarketInv, SalesOK
<1>4. ASSUME NEW id, NEW h
      PROVE  LiveSales(sales', id, h) \subseteq {s \in LiveSales(sales, id, h) : s.num # sell.num}
  <2>1. ASSUME NEW x \in sales', x.status = "sale"
        PROVE  x \in sales /\ x.num # sell.num
    <3>1. PICK s \in sales : x.num = s.num /\ IF s.num = sell.num THEN x.status = "sold" ELSE x = s
      <4> HIDE DEF sell
      <4> QED BY <1>1, <1>3, SalesSold
    <3> QED BY <2>1, <3>1
  <2> QED BY <2>1 DEF LiveSales
<1>5. ASSUME NEW t \in Tokens, Settled(t), cards[t].id \notin exposed
      PROVE  Backed(cards[t], apply', sales', req)
  <2> DEFINE id  == cards[t].id
             bal == cards[t].balances
  <2>1. Backed(cards[t], apply, sales, req) /\ Orderly(cards[t], apply, sales, sells, held[t])
    BY <1>5 DEF CoveredInv, SettledInv
  <2>2. RestOf(bal, apply, id) = bal /\ Tidy(bal)
    BY <1>2, <2>1 DEF Orderly, RestOf
  <2>3. CASE sell.card # id
    <3>1. ~Saves(apply', id)
      BY <1>1, <1>2, <2>3 DEF Saves
    <3>2. \A h \in Holders : LiveSales(sales', id, h) \subseteq LiveSales(sales, id, h)
      BY <1>4
    <3> HIDE DEF sell
    <3> QED BY <1>2, <1>3, <2>1, <2>2, <3>1, <3>2, BackedStays
  <2>4. CASE sell.card = id
    <3>1. /\ Saves(apply', id) /\ sell.maker \in Holders /\ sell.taker \in Holders /\ sell.maker # sell.taker
          /\ Tidy(Saved(bal, apply'))
          /\ Amounts(Saved(bal, apply')) = Moved(Amounts(bal), sell.maker, sell.taker)
          /\ \E s \in sales : /\ s.num = sell.num /\ s.card = id /\ s.user = sell.maker
                              /\ s.status = "sale"
      BY <1>5, <2>4, SoldApplied DEF Saves
    <3>2. RestOf(bal, apply', id) = Saved(bal, apply')
      BY <3>1 DEF RestOf
    <3>3. ASSUME NEW h \in Holders
          PROVE  /\ Claims(sales', req, id, h) <= AmountOf(bal, h)
                 /\ Claims(sales', req, id, h) <= AmountOf(Saved(bal, apply'), h)
      <4> DEFINE L == LiveSales(sales, id, h)
                 M == LiveSales(sales', id, h)
      <4>1. M \subseteq L /\ IsFiniteSet(L) /\ Cardinality(L) \in Nat
        BY <1>3, <1>4, LiveFinite
      <4>2. Claims(sales', req, id, h) <= Claims(sales, req, id, h)
        BY <1>3, <4>1, ClaimsFall
      <4>3. Claims(sales', req, id, h) \in Nat /\ Claims(sales, req, id, h) \in Nat
        BY <1>3, LiveFinite
      <4>4. Claims(sales, req, id, h) <= AmountOf(bal, h)
        BY <2>1 DEF Backed
      <4>5. AmountOf(bal, h) \in Nat /\ AmountOf(Saved(bal, apply'), h) \in Nat
        BY <2>2, <3>1, TidyEntries
      <4>6. AmountOf(Saved(bal, apply'), h) = Amounts(Saved(bal, apply'))[h] /\ Amounts(bal)[h] = AmountOf(bal, h)
        BY DEF Amounts
      <4>7. CASE h = sell.maker
        <5>1. PICK s \in sales : /\ s.num = sell.num /\ s.card = id /\ s.user = sell.maker
                                 /\ s.status = "sale"
          BY <3>1
        <5>2. s \in L /\ M \subseteq L \ {s}
          BY <1>4, <4>7, <5>1 DEF LiveSales
        <5>3. Cardinality(M) <= Cardinality(L) - 1 /\ Cardinality(M) \in Nat
          <6> HIDE DEF L, M
          <6>1. Cardinality(L \ {s}) = Cardinality(L) - 1 /\ IsFiniteSet(L \ {s})
            BY <4>1, <5>2, FS_RemoveElement
          <6> QED BY <5>2, <6>1, FS_Subset, FS_CardinalityType
        <5>4. Claims(sales', req, id, h) <= Claims(sales, req, id, h) - 1
          <6> DEFINE n == IF req.at = "store" /\ req.card = id /\ req.user = h THEN 1 ELSE 0
          <6>1. Claims(sales', req, id, h) = Cardinality(M) + n /\ Claims(sales, req, id, h) = Cardinality(L) + n
            BY DEF Claims
          <6>2. n \in Nat
            OBVIOUS
          <6> HIDE DEF L, M, n
          <6> QED BY <4>1, <5>3, <6>1, <6>2
        <5>5. AmountOf(Saved(bal, apply'), h) = AmountOf(bal, h) - 1
          BY <3>1, <4>6, <4>7 DEF Moved
        <5> HIDE DEF bal, id
        <5> QED BY <4>2, <4>3, <4>4, <4>5, <5>4, <5>5
      <4>8. CASE h # sell.maker
        <5>1. AmountOf(Saved(bal, apply'), h) >= AmountOf(bal, h)
          BY <3>1, <4>5, <4>6, <4>8 DEF Moved
        <5> HIDE DEF bal, id
        <5> QED BY <4>2, <4>3, <4>4, <4>5, <5>1
      <4> QED BY <4>7, <4>8
    <3> QED BY <3>2, <3>3 DEF Backed
  <2> QED BY <2>3, <2>4
<1> QED BY <1>1, <1>5 DEF CoveredInv, Settled

(* The sell listener saves, and looks up hasSale.                          *)
LEMMA CoveredSaves ==
    ASSUME SyncInv, MarketInv, SettledInv, CoveredInv, SaveSold \/ ProcessHasSale
    PROVE  CoveredInv'
<1>1. CASE ProcessHasSale
  <2> DEFINE hs == \E s \in sales : s.card = apply.card /\ s.status = "sale"
             f  == [t \in Tokens |-> [cards[t] EXCEPT !.hasSale = hs]]
  <2>1. /\ UNCHANGED <<sales, req, unsettled, exposed>>
        /\ cards' = [t \in Tokens |-> IF cards[t].id = apply.card THEN f[t] ELSE cards[t]]
        /\ apply.at = "flag" /\ apply' = NoApply /\ apply.card \in 1..ids.card
    BY <1>1 DEF ProcessHasSale, history, SyncInv, HandlesInv
  <2>2. \A t \in Tokens : f[t].id = cards[t].id /\ f[t].balances = cards[t].balances
    BY DEF SyncInv, CardsInv
  <2> HIDE DEF f
  <2>3. \A t \in Tokens : /\ cards'[t].id = cards[t].id /\ cards'[t].balances = cards[t].balances
                          /\ cards[t] = NoCard => cards'[t] = NoCard
    BY <2>1, <2>2, NoCardOf
  <2>4. \A id : ~Saves(apply, id) /\ ~Saves(apply', id)
    BY <2>1 DEF Saves, NoApply
  <2> QED BY <2>1, <2>3, <2>4, CoveredStays DEF Settled
<1>2. CASE SaveSold
  <2> DEFINE f == [t \in Tokens |-> [cards[t] EXCEPT !.balances = Saved(@, apply)]]
  <2>1. /\ UNCHANGED <<sales, req, unsettled, exposed>>
        /\ cards' = [t \in Tokens |-> IF cards[t].id = apply.card THEN f[t] ELSE cards[t]]
        /\ apply.at = "save" /\ apply'.at = "flag" /\ apply.card \in 1..ids.card
    BY <1>2 DEF SaveSold, history, SyncInv, HandlesInv, NoApply
  <2>2. \A t \in Tokens : f[t].id = cards[t].id /\ f[t].balances = Saved(cards[t].balances, apply)
    BY DEF SyncInv, CardsInv
  <2> HIDE DEF f
  <2>3. ASSUME NEW t \in Tokens, Settled(t)', cards'[t].id \notin exposed'
        PROVE  Backed(cards'[t], apply', sales', req')
    <3>1. /\ cards'[t].id = cards[t].id
          /\ cards'[t].balances = RestOf(cards[t].balances, apply, cards[t].id)
      BY <2>1, <2>2 DEF RestOf, Saves
    <3>2. Settled(t) /\ cards[t].id \notin exposed
      BY <2>1, <2>3, <3>1, NoCardOf DEF Settled
    <3>3. Backed(cards[t], apply, sales, req)
      BY <3>2 DEF CoveredInv
    <3>4. RestOf(cards'[t].balances, apply', cards'[t].id) = RestOf(cards[t].balances, apply, cards[t].id)
      BY <2>1, <3>1 DEF RestOf, Saves
    <3> QED BY <2>1, <3>1, <3>3, <3>4 DEF Backed
  <2> QED BY <2>3 DEF CoveredInv
<1> QED BY <1>1, <1>2

(* A card is imported: unless it is exposed, its holders have what they    *)
(* have on sale.                                                           *)
LEMMA CoveredCards ==
    ASSUME SyncInv, MarketInv, SettledInv, ReadInv, CoveredInv, NEW t \in Tokens, SyncCard(t)
    PROVE  CoveredInv'
<1>1. /\ UNCHANGED <<sales, apply, req>>
      /\ \A x \in Tokens : x # t => cards'[x] = cards[x] /\ unsettled'[x] = unsettled[x]
      /\ exposed' = IF \/ req.at = "store" /\ req.card = cards[t].id
                       \/ cards'[t].id \in Exposed(cards', sales)
                    THEN exposed \cup {cards'[t].id} ELSE exposed \ {cards'[t].id}
  BY DEF SyncCard, chain, SyncInv, CardsInv, MarketInv, ChainOK
<1>2. CardsInv'
  BY ImportStores DEF SyncInv
<1>3. IsFiniteSet(sales) /\ ids.card \in Nat
  BY DEF MarketInv, SalesOK, SyncInv, CardsInv
<1>4. ASSUME Settled(t)', cards'[t].id \notin exposed'
      PROVE  Backed(cards'[t], apply, sales, req)
  <2> DEFINE id  == cards'[t].id
             bal == cards'[t].balances
  <2>1. cards'[t] # NoCard /\ ~unsettled'[t]
    BY <1>4 DEF Settled
  <2>2. /\ bal = HoldersOf(t) /\ held[t] \in [Holders -> Nat]
        /\ ~Saves(apply, id)
        /\ cards[t] # NoCard => id = cards[t].id
        /\ cards[t] = NoCard => id = ids.card + 1
    BY <2>1, SyncedAtRest
  <2>3. ~(req.at = "store" /\ req.card = cards[t].id) /\ id \notin Exposed(cards', sales)
    BY <1>1, <1>4
  <2>4. ~(req.at = "store" /\ req.card = id)
    <3>1. req.at = "store" => req.card \in 1..ids.card
      BY DEF SyncInv, HandlesInv
    <3>2. \A n \in 1..ids.card : n # ids.card + 1
      BY <1>3
    <3> QED BY <2>2, <2>3, <3>1, <3>2
  <2>5. Tidy(bal) /\ RestOf(bal, apply, id) = bal
    BY <2>2, HoldersAreTidy DEF RestOf
  <2>6. ASSUME NEW h \in Holders
        PROVE  Claims(sales, req, id, h) <= AmountOf(bal, h)
    <3>1. ~(Cardinality(LiveSales(sales, id, h)) > AmountOf(bal, h))
      BY <2>1, <2>3 DEF Exposed
    <3>2. Cardinality(LiveSales(sales, id, h)) \in Nat /\ AmountOf(bal, h) \in Nat
      BY <1>3, <2>5, LiveFinite, TidyEntries
    <3>3. Claims(sales, req, id, h) = Cardinality(LiveSales(sales, id, h))
      BY <2>4, <3>2 DEF Claims
    <3> HIDE DEF id, bal
    <3> QED BY <3>1, <3>2, <3>3
  <2> QED BY <2>5, <2>6 DEF Backed
<1>5. ASSUME NEW x \in Tokens, x # t, Settled(x)', cards'[x].id \notin exposed'
      PROVE  Backed(cards'[x], apply, sales, req)
  <2>1. cards'[x] = cards[x] /\ Settled(x)
    BY <1>1, <1>5 DEF Settled
  <2>2. cards'[x].id # cards'[t].id
    BY <1>2, <1>5 DEF CardsInv, Settled
  <2>3. cards[x].id \notin exposed
    BY <1>1, <1>5, <2>1, <2>2
  <2> QED BY <2>1, <2>3 DEF CoveredInv
<1> QED BY <1>1, <1>4, <1>5 DEF CoveredInv

LEMMA CoveredDeletes ==
    ASSUME SyncInv, MarketInv, SettledInv, CoveredInv, DeleteCards \/ DeleteSalesByCardIds
    PROVE  CoveredInv'
<1>1. UNCHANGED <<req, apply, unsettled, exposed>>
  BY DEF DeleteCards, DeleteSalesByCardIds, history
<1>2. CASE DeleteCards
  <2>1. sales' = sales /\ \A t \in Tokens : cards'[t] = NoCard \/ cards'[t] = cards[t]
    BY <1>2 DEF DeleteCards
  <2> QED BY <1>1, <2>1, CoveredStays DEF Settled
<1>3. CASE DeleteSalesByCardIds
  <2>1. cards' = cards /\ sales' \subseteq sales
    BY <1>3 DEF DeleteSalesByCardIds
  <2>2. \A id, h : LiveSales(sales', id, h) \subseteq LiveSales(sales, id, h)
    BY <2>1 DEF LiveSales
  <2> QED BY <1>1, <2>1, <2>2, CoveredStays DEF Settled
<1> QED BY <1>2, <1>3

LEMMA CoveredNext ==
    ASSUME ImportInv, CoveredInv, [ListsNext]_allVars
    PROVE  CoveredInv'
<1>1. SyncInv /\ MarketInv /\ ReadInv /\ SettledInv
  BY DEF ImportInv
<1>2. CASE UNCHANGED imported
  BY <1>1, <1>2, CoveredChain
<1>3. CASE Next
  <2>1. CASE SyncStep \/ SyncFails
    BY <1>1, <2>1, CoveredChain, CoveredCards, CoveredDeletes DEF SyncStep
  <2>2. CASE StoreSale \/ SellStep
    BY <1>1, <2>2, CoveredStore, CoveredSold, CoveredSaves DEF SellStep
  <2>3. CASE \E t \in Tokens, h \in Holders : CheckSale(t, h)
    BY <1>1, <2>3, CoveredCheck
  <2> QED BY <1>1, <1>3, <2>1, <2>2, <2>3, CoveredChain DEF Next
<1> QED BY <1>2, <1>3, ListsStep

LEMMA CoveredAreBacked ==
    ASSUME ImportInv, CoveredInv
    PROVE  SalesBacked
<1>1. ASSUME NEW t \in Tokens, cards[t].id \in Exposed(cards, sales), ~unsettled[t], cards[t].id \notin exposed
      PROVE  FALSE
  <2>1. PICK x \in Tokens :
          /\ cards[x] # NoCard /\ cards[x].id = cards[t].id
          /\ \E h \in Holders : Cardinality(LiveSales(sales, cards[x].id, h)) > AmountOf(cards[x].balances, h)
    BY <1>1 DEF Exposed
  <2>2. x = t
    BY <2>1 DEF ImportInv, SyncInv, CardsInv
  <2>3. Settled(t)
    BY <1>1, <2>1, <2>2 DEF Settled
  <2>4. Backed(cards[t], apply, sales, req) /\ Tidy(cards[t].balances) /\ IsFiniteSet(sales)
    BY <1>1, <2>3 DEF CoveredInv, ImportInv, SettledInv, Orderly, MarketInv, SalesOK
  <2>5. PICK h \in Holders : Cardinality(LiveSales(sales, cards[t].id, h)) > AmountOf(cards[t].balances, h)
    BY <2>1, <2>2
  <2>6. Cardinality(LiveSales(sales, cards[t].id, h)) \in Nat /\ AmountOf(cards[t].balances, h) \in Nat
    BY <2>4, LiveFinite, TidyEntries
  <2>7. Claims(sales, req, cards[t].id, h) <= AmountOf(cards[t].balances, h)
    BY <2>4 DEF Backed
  <2>8. Claims(sales, req, cards[t].id, h) >= Cardinality(LiveSales(sales, cards[t].id, h))
    BY <2>6 DEF Claims
  <2>9. Claims(sales, req, cards[t].id, h) \in Nat
    BY <2>4, LiveFinite
  <2> QED BY <2>5, <2>6, <2>7, <2>8, <2>9
<1>2. SalesCovered
  BY <1>1 DEF SalesCovered
<1>3. SalesHaveCards
  BY DEF ImportInv, MarketInv
<1> QED BY <1>2, <1>3 DEF SalesBacked

(* Whatever the users, the chain, the sell listener and the import do, in  *)
(* any order and with any failures: a sale has its card, but for those     *)
(* whose card an import has just deleted, lost to a failure or removed     *)
(* before they were stored; and nobody has more live sales of a card than  *)
(* he holds of it, unless an import took the tokens from under them or met *)
(* the card in motion, though the check of a sale and its store are two    *)
(* steps, and so are the reading and the saving of a sell.                 *)
THEOREM SalesStayBacked == ListsSpec => []SalesBacked
<1>1. ListsInit => ImportInv /\ CoveredInv
  BY ImportInit, CoveredInit DEF ListsInit
<1>2. ImportInv /\ CoveredInv /\ [ListsNext]_allVars => (ImportInv /\ CoveredInv)'
  BY ImportNext, CoveredNext
<1>3. ImportInv /\ CoveredInv => SalesBacked
  BY CoveredAreBacked
<1> QED BY <1>1, <1>2, <1>3, PTL DEF ListsSpec

-----------------------------------------------------------------------------
(* Lists and pages.  A match, and what comes before it in a list.          *)
Found == [id : Nat, key : Nat]

AllLists == CardLists \cup SaleLists

Ahead(list, S, m) == {n \in S : Before(list, n, m)}

Level(list, m, n) == m # n /\ ~Before(list, m, n) /\ ~Before(list, n, m)

LEMMA BeforeOrders ==
    ASSUME NEW list \in AllLists, NEW m \in Found, NEW n \in Found
    PROVE  ~Before(list, m, m) /\ (Before(list, m, n) => ~Before(list, n, m))
<1>1. m.id \in Nat /\ m.key \in Nat /\ n.id \in Nat /\ n.key \in Nat
  BY DEF Found
<1>2. CASE list \in CardLists
  <2>1. \A x, y : Before(list, x, y) <=> x.id > y.id
    BY <1>2 DEF Before, CardLists
  <2> QED BY <1>1, <2>1
<1>3. CASE list = "byPrice"
  <2>1. \A x, y : Before(list, x, y) <=> x.key < y.key
    BY <1>3 DEF Before, CardLists
  <2> QED BY <1>1, <2>1
<1>4. CASE list = "listed"
  <2>1. \A x, y : Before(list, x, y) <=> x.id < y.id
    BY <1>4 DEF Before, CardLists
  <2> QED BY <1>1, <2>1
<1> QED BY <1>2, <1>3, <1>4 DEF AllLists, SaleLists

(* In a list in order a match has its place: as many before it as come     *)
(* before, when none is level with it.                                     *)
LEMMA Position ==
    ASSUME NEW list \in AllLists, NEW S, IsFiniteSet(S), S \subseteq Found, NEW q \in Sorted(list, S)
    PROVE  LET n == Cardinality(S)
           IN  /\ n \in Nat /\ q \in [1..n -> S]
               /\ \A i, j \in 1..n : q[i] = q[j] => i = j
               /\ \A m \in S : \E i \in 1..n : q[i] = m
               /\ \A i \in 1..n : (\A x \in S : ~Level(list, q[i], x)) =>
                     Cardinality(Ahead(list, S, q[i])) = i - 1
<1> DEFINE n == Cardinality(S)
<1>1. n \in Nat
  BY FS_CardinalityType
<1>2. /\ q \in [1..n -> S] /\ \A i, j \in 1..n : q[i] = q[j] => i = j
      /\ \A i, j \in 1..n : Before(list, q[i], q[j]) => i < j
  BY DEF Sorted, SetToSeqs
<1>3. \A m \in S : \E i \in 1..n : q[i] = m
  <2>1. q \in Injection(1..n, S)
    BY <1>2 DEF Injection, IsInjective
  <2>2. IsFiniteSet(1..n) /\ Cardinality(1..n) = n
    BY <1>1, UpTo
  <2>3. q \in Surjection(1..n, S)
    BY <2>1, <2>2, FS_Injection
  <2> QED BY <2>3 DEF Surjection
<1> HIDE DEF n
<1>4. ASSUME NEW i \in 1..n, \A x \in S : ~Level(list, q[i], x)
      PROVE  Cardinality(Ahead(list, S, q[i])) = i - 1
  <2> DEFINE A == Ahead(list, S, q[i])
             f == [j \in 1..(i - 1) |-> q[j]]
  <2>1. i - 1 \in Nat /\ 1..(i - 1) \subseteq 1..n
    BY <1>1
  <2>2. \A j \in 1..(i - 1) : q[j] \in A
    <3>1. ASSUME NEW j \in 1..(i - 1) PROVE q[j] \in A
      <4>1. j \in 1..n /\ q[j] \in S /\ q[i] \in S /\ j # i /\ ~(i < j)
        BY <1>2, <2>1
      <4>2. q[i] # q[j] /\ ~Before(list, q[i], q[j])
        BY <1>2, <4>1
      <4>3. Before(list, q[j], q[i])
        BY <1>4, <4>1, <4>2 DEF Level
      <4> QED BY <4>1, <4>3 DEF Ahead
    <3> QED BY <3>1
  <2>3. \A m \in A : \E j \in 1..(i - 1) : q[j] = m
    <3>1. ASSUME NEW m \in A PROVE \E j \in 1..(i - 1) : q[j] = m
      <4>1. m \in S /\ Before(list, m, q[i])
        BY DEF Ahead
      <4>2. PICK j \in 1..n : q[j] = m
        BY <1>3, <4>1
      <4>3. j < i
        BY <1>2, <4>1, <4>2
      <4>4. j \in 1..(i - 1)
        BY <1>1, <4>3
      <4> QED BY <4>2, <4>4
    <3> QED BY <3>1
  <2> HIDE DEF A
  <2>4. f \in Surjection(1..(i - 1), A)
    BY <2>2, <2>3 DEF Surjection
  <2>5. f \in Injection(1..(i - 1), A)
    BY <1>2, <2>1, <2>2 DEF Injection, IsInjective
  <2>6. IsFiniteSet(1..(i - 1)) /\ Cardinality(1..(i - 1)) = i - 1
    BY <2>1, UpTo
  <2> HIDE DEF f
  <2>7. Cardinality(A) = Cardinality(1..(i - 1))
    BY <2>4, <2>5, <2>6, FS_Surjection
  <2> QED BY <2>6, <2>7 DEF A
<1> QED BY <1>1, <1>2, <1>3, <1>4 DEF n

(* A page has the ids of its places, and of no other.                      *)
Listed(q, n, S) == q \in [1..n -> S]

Paged(p, q, n, o) ==
    /\ p \in Seq(Nat) /\ Len(p) \in Nat /\ DOMAIN p = 1..Len(p)
    /\ \A k \in 1..Len(p) : o + k \in 1..n /\ k <= Limit /\ p[k] = q[o + k].id
    /\ \A i \in 1..n : o < i /\ i <= o + Limit => i - o \in 1..Len(p) /\ p[i - o] = q[i].id

LEMMA PageIds ==
    ASSUME NEW S, S \subseteq Found, NEW n \in Nat, NEW q, Listed(q, n, S), NEW o \in Nat
    PROVE  Paged(Page(q, o), q, n, o)
<1> DEFINE e == Min({o + Limit, Len(q)})
           s == SubSeq(q, o + 1, e)
           p == Page(q, o)
<1>0. q \in [1..n -> S]
  BY DEF Listed
<1>1. Limit \in Nat \ {0}
  BY ListsAssumption
<1>2. Len(q) = n /\ \A i \in 1..n : q[i] \in S /\ q[i].id \in Nat
  BY <1>0, FunctionIsSeq DEF Found
<1>3. \A i \in Nat : Min({i, n}) = IF i <= n THEN i ELSE n
  BY DEF Min
<1>4. o + Limit \in Nat
  BY <1>1
<1>5. e \in Nat /\ e <= n /\ (o + Limit <= n => e = o + Limit) /\ (o + Limit > n => e = n)
  BY <1>2, <1>3, <1>4
<1> HIDE DEF e
<1>6. \A i \in (o + 1)..e : q[i] \in S
  BY <1>2, <1>5
<1>7. o + 1 \in Int /\ e \in Int
  BY <1>5
<1>8. /\ s \in Seq(S) /\ Len(s) = IF o + 1 <= e THEN e - (o + 1) + 1 ELSE 0
      /\ \A i \in 1..(e - (o + 1) + 1) : s[i] = q[o + 1 + i - 1]
  <2>1. s \in Seq(S)
    BY <1>6, <1>7, SubSeqProperties, Zenon
  <2>2. Len(s) = IF o + 1 <= e THEN e - (o + 1) + 1 ELSE 0
    BY <1>6, <1>7, SubSeqProperties, Zenon
  <2>3. \A i \in 1..(e - (o + 1) + 1) : s[i] = q[o + 1 + i - 1]
    BY <1>6, <1>7, SubSeqProperties, SMTT(30)
  <2> QED BY <2>1, <2>2, <2>3
<1> DEFINE l == Len(s)
<1>9. l \in Nat /\ DOMAIN s = 1..l /\ l = IF o < e THEN e - o ELSE 0
  <2>1. Len(s) \in Nat /\ DOMAIN s = 1..Len(s)
    BY <1>8, LenProperties
  <2>2. Len(s) = IF o < e THEN e - o ELSE 0
    BY <1>5, <1>8
  <2> QED BY <2>1, <2>2
<1>10. p = [i \in 1..l |-> s[i].id]
  BY <1>9 DEF Page, e
<1> HIDE DEF s, l
<1>11. \A i \in 1..l : o + i \in 1..n /\ i <= Limit /\ s[i] = q[o + i]
  <2>1. ASSUME NEW i \in 1..l PROVE o + i \in 1..n /\ i <= Limit /\ s[i] = q[o + i]
    <3>1. o < e /\ l = e - o
      BY <1>9
    <3>2. i \in 1..(e - (o + 1) + 1) /\ o + 1 + i - 1 = o + i
      BY <1>5, <3>1
    <3>3. s[i] = q[o + i]
      BY <1>8, <3>2 DEF s
    <3>4. o + i \in 1..n /\ i <= Limit
      BY <1>1, <1>5, <3>1
    <3> QED BY <3>3, <3>4
  <2> QED BY <2>1
<1>12. \A i \in 1..l : p[i] = q[o + i].id /\ p[i] \in Nat
  BY <1>2, <1>10, <1>11
<1>13. p \in Seq(Nat) /\ Len(p) = l /\ DOMAIN p = 1..l
  <2>1. p \in [1..l -> Nat]
    BY <1>10, <1>12
  <2> HIDE DEF p
  <2> QED BY <1>9, <2>1, FunctionIsSeq
<1>14. ASSUME NEW i \in 1..n, o < i, i <= o + Limit
       PROVE  i - o \in 1..l /\ p[i - o] = q[i].id
  <2>1. i <= e
    BY <1>1, <1>5, <1>14
  <2>2. i - o \in 1..l
    BY <1>5, <1>9, <1>14, <2>1
  <2>3. o + (i - o) = i
    OBVIOUS
  <2> QED BY <1>12, <2>2, <2>3
<1> QED BY <1>9, <1>11, <1>12, <1>13, <1>14 DEF p, Paged

(* The ids that are still there.                                           *)
LEMMA StillThereIds ==
    ASSUME NEW p \in Seq(Nat)
    PROVE  LET s == StillThere(p)
           IN  /\ s \in Seq(Nat) /\ Len(s) \in Nat /\ DOMAIN s = 1..Len(s)
               /\ \A j \in 1..Len(s) : s[j] \in CardIds /\ \E i \in 1..Len(p) : s[j] = p[i]
               /\ \A i \in 1..Len(p) : p[i] \in CardIds => \E j \in 1..Len(s) : s[j] = p[i]
               /\ \A j, k \in 1..Len(s) : s[j] = s[k] /\ j # k =>
                     \E a, b \in 1..Len(p) : a # b /\ p[a] = s[j] /\ p[b] = s[j]
<1> DEFINE A == {i \in DOMAIN p : p[i] \in CardIds}
           n == Cardinality(A)
           q == InOrder(A)
           s == StillThere(p)
<1>1. Len(p) \in Nat /\ DOMAIN p = 1..Len(p) /\ \A i \in 1..Len(p) : p[i] \in Nat
  BY LenProperties, ElementOfSeq
<1>2. IsFiniteSet(A) /\ A \subseteq Nat /\ A \subseteq 1..Len(p)
  <2>1. IsFiniteSet(1..Len(p)) /\ A \subseteq 1..Len(p) /\ 1..Len(p) \subseteq Nat
    BY <1>1, UpTo
  <2> HIDE DEF A
  <2> QED BY <2>1, FS_Subset
<1>3. /\ n \in Nat /\ q \in [1..n -> A]
      /\ \A i, j \in 1..n : q[i] = q[j] => i = j
      /\ \A x \in A : \E i \in 1..n : q[i] = x
  <2> HIDE DEF A
  <2> QED BY <1>2, Ordered
<1>4. s = [j \in 1..n |-> p[q[j]]]
  <2>1. DOMAIN q = 1..n
    BY <1>3
  <2>2. s = [j \in DOMAIN q |-> p[q[j]]]
    BY DEF StillThere
  <2> QED BY <2>1, <2>2
<1> HIDE DEF n, q
<1>5. \A j \in 1..n : q[j] \in 1..Len(p) /\ s[j] = p[q[j]] /\ s[j] \in CardIds /\ s[j] \in Nat
  BY <1>1, <1>3, <1>4
<1>6. s \in Seq(Nat) /\ Len(s) = n /\ DOMAIN s = 1..n
  <2>1. s \in [1..n -> Nat]
    BY <1>4, <1>5
  <2> HIDE DEF s
  <2> QED BY <1>3, <2>1, FunctionIsSeq
<1>7. \A i \in 1..Len(p) : p[i] \in CardIds => \E j \in 1..n : s[j] = p[i]
  <2>1. ASSUME NEW i \in 1..Len(p), p[i] \in CardIds PROVE \E j \in 1..n : s[j] = p[i]
    <3>1. i \in A
      BY <1>1, <2>1
    <3>2. PICK j \in 1..n : q[j] = i
      BY <1>3, <3>1
    <3> QED BY <1>5, <3>2
  <2> QED BY <2>1
<1>8. ASSUME NEW j \in 1..n, NEW k \in 1..n, s[j] = s[k], j # k
      PROVE  \E a, b \in 1..Len(p) : a # b /\ p[a] = s[j] /\ p[b] = s[j]
  <2>1. q[j] # q[k] /\ q[j] \in 1..Len(p) /\ q[k] \in 1..Len(p) /\ p[q[j]] = s[j] /\ p[q[k]] = s[j]
    BY <1>3, <1>5, <1>8
  <2> QED BY <2>1
<1> HIDE DEF s
<1> QED BY <1>3, <1>5, <1>6, <1>7, <1>8 DEF s

(* A set of numbers has a least one.                                       *)
LEMMA Least ==
    ASSUME NEW S, IsFiniteSet(S), S \subseteq Nat, S # {}
    PROVE  Min(S) \in S
<1>1. Cardinality(S) \in Nat /\ \A t \in S : CardIdAt(S, t) \in 1..Cardinality(S)
  BY FirstIds
<1>2. 1 \in 1..Cardinality(S)
  BY <1>1, FS_EmptySet
<1>3. PICK m \in S : CardIdAt(S, m) = 1
  BY <1>2, Ranks
<1>4. ASSUME NEW x \in S PROVE m <= x
  <2>1. ~(CardIdAt(S, x) < CardIdAt(S, m))
    BY <1>1, <1>3
  <2>2. ~(x < m)
    BY <2>1, Ranks
  <2>3. m \in Nat /\ x \in Nat
    OBVIOUS
  <2> QED BY <2>2, <2>3
<1> QED BY <1>4 DEF Min

LEMMA Images ==
    ASSUME NEW S, IsFiniteSet(S), NEW f
    PROVE  IsFiniteSet({f[x] : x \in S})
<1> DEFINE T == {f[x] : x \in S}
           g == [x \in S |-> f[x]]
<1>1. g \in Surjection(S, T)
  BY DEF Surjection
<1> HIDE DEF g, T
<1> QED BY <1>1, FS_Surjection DEF T

(* The matches of a list: finitely many, one for a card, whose ids are     *)
(* those of cards, and of a live sale of the viewer in the list of his.    *)
Cardlike(cs, k) == \A t \in Tokens : cs[t].id \in 0..k /\ (cs[t] # NoCard => cs[t].id # 0)

Salelike(ss, k) ==
    /\ IsFiniteSet(ss) /\ ss \subseteq Sale
    /\ \A s \in ss : s.card \in 1..k

MatchedIn(list, cs, ss, k) ==
    LET S == Matches(list, cs, ss)
    IN  /\ IsFiniteSet(S) /\ S \subseteq Found
        /\ \A m \in S : m.id \in 1..k /\ \E t \in Tokens : cs[t].id = m.id
        /\ \A m, n \in S : m.id = n.id => m = n
        /\ list = "listed" => \A m \in S : \E s \in ss : s.card = m.id /\ s.user = Viewer /\ s.status = "sale"

LEMMA FoundByCards ==
    ASSUME NEW list, NEW cs, NEW k \in Nat, Cardlike(cs, k)
    PROVE  LET S == Find(list, cs)
           IN  /\ IsFiniteSet(S) /\ S \subseteq Found
               /\ \A m \in S : m.id \in 1..k /\ \E t \in Tokens : cs[t].id = m.id
               /\ \A m, n \in S : m.id = n.id => m = n
<1> DEFINE P(x) == /\ cs[x] # NoCard
                   /\ list = "onSale" => cs[x].hasSale
                   /\ list = "held" => \E i \in DOMAIN cs[x].balances : cs[x].balances[i].user = Viewer
           T == {x \in Tokens : P(x)}
           S == Find(list, cs)
<1>1. S = {Match(cs[t].id, 0) : t \in T}
  BY DEF Find
<1>2. IsFiniteSet(T) /\ T \subseteq Tokens /\ \A t \in T : cs[t] # NoCard
  BY SyncAssumption, FS_Subset
<1> HIDE DEF P, T, S
<1>3. IsFiniteSet(S)
  <2> DEFINE f == [t \in T |-> Match(cs[t].id, 0)]
  <2>1. S = {f[t] : t \in T}
    BY <1>1
  <2> HIDE DEF f
  <2> QED BY <1>2, <2>1, Images
<1>4. \A m \in S : \E t \in Tokens : m = Match(cs[t].id, 0) /\ cs[t].id \in 1..k
  <2>1. \A t \in T : cs[t].id \in 1..k
    BY <1>2 DEF Cardlike
  <2> QED BY <1>1, <1>2, <2>1
<1>5. \A m \in S : m.id \in 1..k /\ m \in Found /\ m = Match(m.id, 0) /\ \E t \in Tokens : cs[t].id = m.id
  BY <1>4 DEF Match, Found
<1>6. \A m, n \in S : m.id = n.id => m = n
  BY <1>5
<1> QED BY <1>3, <1>5, <1>6 DEF S

LEMMA FoundBySales ==
    ASSUME NEW list, NEW cs, NEW ss, NEW k \in Nat, Cardlike(cs, k), Salelike(ss, k)
    PROVE  LET S == FindBySales(list, cs, ss)
           IN  /\ IsFiniteSet(S) /\ S \subseteq Found
               /\ \A m \in S : m.id \in 1..k /\ \E t \in Tokens : cs[t].id = m.id
               /\ \A m, n \in S : m.id = n.id => m = n
               /\ list = "listed" => \A m \in S : \E s \in ss : s.card = m.id /\ s.user = Viewer
                                                                 /\ s.status = "sale"
<1> DEFINE live == {s \in Live(ss) : list = "listed" => s.user = Viewer}
           on(id) == {s \in live : s.card = id}
           key(id) == IF list = "byPrice" THEN Min({PriceOf[s.user] : s \in on(id)}) ELSE 0
           I == {s.card : s \in live} \cap {cs[t].id : t \in Tokens}
           S == FindBySales(list, cs, ss)
<1>1. S = {Match(id, key(id)) : id \in I}
  BY DEF FindBySales
<1>2. IsFiniteSet(live) /\ live \subseteq ss
  BY FS_Subset DEF Salelike, Live
<1>3. \A s \in live : s.status = "sale" /\ (list = "listed" => s.user = Viewer) /\ s.user \in Holders
  BY DEF Live, Salelike, Sale
<1>4. IsFiniteSet({s.card : s \in live})
  <2> DEFINE f == [s \in live |-> s.card]
  <2>1. {s.card : s \in live} = {f[s] : s \in live}
    OBVIOUS
  <2> HIDE DEF f, live
  <2> QED BY <1>2, <2>1, Images
<1>5. IsFiniteSet(I)
  BY <1>4, FS_Subset
<1>6. \A id \in I : id \in 1..k /\ (\E t \in Tokens : cs[t].id = id) /\ \E s \in live : s.card = id
  BY <1>2 DEF Salelike
<1> HIDE DEF live, I, S
<1>7. \A id \in I : key(id) \in Nat
  <2>1. ASSUME NEW id \in I PROVE Min({PriceOf[s.user] : s \in on(id)}) \in Nat
    <3>1. IsFiniteSet(on(id)) /\ on(id) # {}
      BY <1>2, <1>6, FS_Subset
    <3>2. \A s \in on(id) : PriceOf[s.user] \in Nat
      BY <1>3, ListsAssumption
    <3> DEFINE O == on(id)
    <3> HIDE DEF on, O
    <3>3. IsFiniteSet({PriceOf[s.user] : s \in O}) /\ {PriceOf[s.user] : s \in O} # {}
      <4> DEFINE f == [s \in O |-> PriceOf[s.user]]
                 F == {f[s] : s \in O}
      <4>1. {PriceOf[s.user] : s \in O} = F /\ F # {}
        BY <3>1 DEF O
      <4>2. IsFiniteSet(O)
        BY <3>1 DEF O
      <4>3. IsFiniteSet(F)
        <5> HIDE DEF f
        <5> QED BY <4>2, Images
      <4> HIDE DEF F
      <4> QED BY <4>1, <4>3
    <3>4. {PriceOf[s.user] : s \in O} \subseteq Nat
      BY <3>2 DEF O
    <3>5. Min({PriceOf[s.user] : s \in O}) \in {PriceOf[s.user] : s \in O}
      BY <3>3, <3>4, Least
    <3> QED BY <3>4, <3>5 DEF O
  <2> QED BY <2>1
<1> HIDE DEF key
<1>8. IsFiniteSet(S)
  <2> DEFINE f == [id \in I |-> Match(id, key(id))]
  <2>1. S = {f[id] : id \in I}
    BY <1>1
  <2> HIDE DEF f
  <2> QED BY <1>5, <2>1, Images
<1>9. \A m \in S : m.id \in I /\ m.key = key(m.id) /\ m = Match(m.id, key(m.id)) /\ m \in Found
  <2>1. \A id \in I : Match(id, key(id)) \in Found
    BY <1>6, <1>7 DEF Match, Found
  <2> QED BY <1>1, <2>1 DEF Match
<1>10. \A m, n \in S : m.id = n.id => m = n
  BY <1>9
<1>11. \A m \in S : m.id \in 1..k /\ \E t \in Tokens : cs[t].id = m.id
  BY <1>6, <1>9
<1>12. list = "listed" => \A m \in S : \E s \in ss : s.card = m.id /\ s.user = Viewer /\ s.status = "sale"
  BY <1>2, <1>3, <1>6, <1>9
<1> QED BY <1>8, <1>9, <1>10, <1>11, <1>12 DEF S

LEMMA MatchesFound ==
    ASSUME NEW list, NEW cs, NEW ss, NEW k \in Nat, Cardlike(cs, k), Salelike(ss, k)
    PROVE  MatchedIn(list, cs, ss, k)
<1>1. CASE list \in CardLists
  BY <1>1, FoundByCards DEF MatchedIn, Matches, CardLists
<1>2. CASE list \notin CardLists
  BY <1>2, FoundBySales DEF MatchedIn, Matches
<1> QED BY <1>1, <1>2

LEMMA MatchesNow ==
    ASSUME SyncInv, MarketInv, NEW list
    PROVE  MatchedIn(list, cards, sales, ids.card)
<1>1. Cardlike(cards, ids.card) /\ ids.card \in Nat
  BY CardThere DEF Cardlike, SyncInv, CardsInv, NoCard
<1>2. Salelike(sales, ids.card)
  BY DEF Salelike, MarketInv, SalesOK
<1> QED BY <1>1, <1>2, MatchesFound

LEMMA MatchesNext ==
    ASSUME SyncInv', MarketInv', NEW list
    PROVE  MatchedIn(list, cards', sales', ids'.card)
<1>1. ids'.card \in Nat /\ \A t \in Tokens : cards'[t] # NoCard => cards'[t].id \in 1..ids'.card
  BY DEF SyncInv, CardsInv
<1>2. Cardlike(cards', ids'.card)
  BY <1>1 DEF Cardlike, NoCard
<1>3. Salelike(sales', ids'.card)
  BY DEF Salelike, MarketInv, SalesOK
<1> QED BY <1>1, <1>2, <1>3, MatchesFound

-----------------------------------------------------------------------------
(* The walk of a list, S being what matches now.                           *)
Walks ==
    [at : {"idle", "page", "count", "cards", "ended", "failed"}, list : AllLists, offset : Nat,
     page : Seq(Nat), total : Nat, shown : Seq(Nat),
     start : SUBSET Found, entered : SUBSET Found, gone : SUBSET Found]

Walking(w) == w.at \in {"page", "count", "cards"}

Lies(s, id) == \E i \in 1..Len(s) : s[i] = id

Single(s, id) == \A i, j \in 1..Len(s) : s[i] = id /\ s[j] = id => i = j

WalkShape(w, k) ==
    /\ w \in Walks /\ w.list \in Lists \cup {"all"}
    /\ \A id \in Nat : Lies(w.page, id) \/ Lies(w.shown, id) => id \in 1..k
    /\ w.at = "count" => w.list \in CardLists
    /\ w.at = "cards" => w.list \in SaleLists
    /\ w.at \in {"page", "ended"} => w.page = <<>>

(* What matched at the start matches or left the list; what matches did so *)
(* at the start or entered; the cards to be read matched just now.         *)
Kept(w, S) ==
    /\ w.start \subseteq w.gone \cup S
    /\ S \subseteq w.start \cup w.entered
    /\ \A m, n \in w.start : m.id = n.id => m = n
    /\ w.at = "cards" => \A id \in Nat : Lies(w.page, id) => \E m \in w.gone \cup S : m.id = id

(* A match that nothing ahead of it left, nor anything level with it.      *)
Firm(w, m) ==
    /\ m \in w.start \ w.gone
    /\ \A n \in w.gone : Before(w.list, m, n)
    /\ \A n \in w.start \cup w.entered : ~Level(w.list, m, n)

(* A card that nothing entered the list ahead of, nor level with it.       *)
Sole(w, id) ==
    \A m \in w.start \cup w.entered : m.id = id =>
        /\ \A n \in w.entered : Before(w.list, m, n)
        /\ \A n \in w.start : ~Level(w.list, m, n)

Reach(w) == IF w.at = "page" THEN w.offset ELSE w.offset + Limit

Has(w, id) == Lies(w.shown, id) \/ Lies(w.page, id)

Once(w, id) ==
    Single(w.shown, id) /\ Single(w.page, id) /\ ~(Lies(w.shown, id) /\ Lies(w.page, id))

(* It is among what was read, or its place is beyond that, and the client  *)
(* will ask for more.                                                      *)
NoneMissed(w, S) ==
    \A m \in Found : Firm(w, m) =>
        \/ Has(w, m.id)
        \/ /\ Cardinality(Ahead(w.list, S, m)) >= Reach(w)
           /\ w.at = "cards" => w.total > Reach(w)

(* It is there once, and then its place is not beyond what was read.       *)
NoneTwice(w, S) ==
    \A id \in Nat : Sole(w, id) =>
        /\ Once(w, id)
        /\ Has(w, id) => \E m \in w.start : m.id = id /\ Cardinality(Ahead(w.list, S, m)) < Reach(w)

Complete(w) ==
    /\ \A m \in Found : Firm(w, m) => Has(w, m.id)
    /\ \A id \in Nat : Sole(w, id) => Once(w, id)

LEMMA AheadSize ==
    ASSUME NEW list, NEW S, IsFiniteSet(S), NEW m
    PROVE  IsFiniteSet(Ahead(list, S, m)) /\ Cardinality(Ahead(list, S, m)) \in Nat
BY FS_Subset, FS_CardinalityType DEF Ahead

LEMMA Joined ==
    ASSUME NEW s \in Seq(Nat), NEW p \in Seq(Nat), NEW id
    PROVE  /\ s \o p \in Seq(Nat)
           /\ Lies(s \o p, id) <=> Lies(s, id) \/ Lies(p, id)
           /\ Single(s, id) /\ Single(p, id) /\ ~(Lies(s, id) /\ Lies(p, id)) => Single(s \o p, id)
<1> DEFINE l == Len(s)
           k == Len(p)
           q == s \o p
<1>1. l \in Nat /\ k \in Nat
  BY LenProperties
<1>2. /\ q \in Seq(Nat) /\ Len(q) = l + k
      /\ \A i \in 1..(l + k) : q[i] = IF i <= l THEN s[i] ELSE p[i - l]
  BY ConcatProperties
<1> HIDE DEF l, k, q
<1>3. ASSUME Lies(q, id) PROVE Lies(s, id) \/ Lies(p, id)
  <2>1. PICK i \in 1..(l + k) : q[i] = id
    BY <1>2, <1>3 DEF Lies
  <2>2. CASE i <= l
    <3>1. i \in 1..l /\ s[i] = id
      BY <1>1, <1>2, <2>1, <2>2
    <3> QED BY <3>1 DEF Lies, l
  <2>3. CASE i > l
    <3>1. i - l \in 1..k /\ p[i - l] = id
      BY <1>1, <1>2, <2>1, <2>3
    <3> QED BY <3>1 DEF Lies, k
  <2> QED BY <1>1, <2>2, <2>3
<1>4. ASSUME Lies(s, id) PROVE Lies(q, id)
  <2>1. PICK i \in 1..l : s[i] = id
    BY <1>4 DEF Lies, l
  <2>2. i \in 1..(l + k) /\ i <= l
    BY <1>1
  <2> QED BY <1>2, <2>1, <2>2 DEF Lies
<1>5. ASSUME Lies(p, id) PROVE Lies(q, id)
  <2>1. PICK i \in 1..k : p[i] = id
    BY <1>5 DEF Lies, k
  <2>2. l + i \in 1..(l + k) /\ ~(l + i <= l) /\ (l + i) - l = i
    BY <1>1
  <2> QED BY <1>2, <2>1, <2>2 DEF Lies
<1>6. ASSUME Single(s, id), Single(p, id), ~(Lies(s, id) /\ Lies(p, id)) PROVE Single(q, id)
  <2>1. ASSUME NEW i \in 1..(l + k), NEW j \in 1..(l + k), q[i] = id, q[j] = id PROVE i = j
    <3>1. \A x \in 1..(l + k) : x <= l => x \in 1..l /\ q[x] = s[x]
      BY <1>1, <1>2
    <3>2. \A x \in 1..(l + k) : ~(x <= l) => x - l \in 1..k /\ q[x] = p[x - l]
      BY <1>1, <1>2
    <3>3. CASE i <= l /\ j <= l
      BY <1>6, <2>1, <3>1, <3>3 DEF Single, l
    <3>4. CASE ~(i <= l) /\ ~(j <= l)
      <4>1. i - l = j - l
        BY <1>6, <2>1, <3>2, <3>4 DEF Single, k
      <4> QED BY <1>1, <4>1
    <3>5. CASE i <= l /\ ~(j <= l)
      BY <1>6, <2>1, <3>1, <3>2, <3>5 DEF Lies, l, k
    <3>6. CASE ~(i <= l) /\ j <= l
      BY <1>6, <2>1, <3>1, <3>2, <3>6 DEF Lies, l, k
    <3> QED BY <3>3, <3>4, <3>5, <3>6
  <2> QED BY <1>2, <2>1 DEF Single
<1> QED BY <1>2, <1>3, <1>4, <1>5, <1>6 DEF q

LEMMA NothingLies ==
    ASSUME NEW id
    PROVE  ~Lies(<<>>, id) /\ Single(<<>>, id)
BY DEF Lies, Single

LEMMA WalkFields ==
    ASSUME NEW w \in Walks
    PROVE  /\ w.at \in {"idle", "page", "count", "cards", "ended", "failed"} /\ w.list \in AllLists
           /\ w.offset \in Nat /\ w.total \in Nat /\ w.page \in Seq(Nat) /\ w.shown \in Seq(Nat)
           /\ w.start \subseteq Found /\ w.entered \subseteq Found /\ w.gone \subseteq Found
           /\ Reach(w) \in Nat
<1>1. Limit \in Nat
  BY ListsAssumption
<1> QED BY <1>1 DEF Walks, Reach

(* What matches changes while a list is walked.                            *)
LEMMA WalkTracked ==
    ASSUME NEW w \in Walks, Walking(w),
           NEW S, IsFiniteSet(S), S \subseteq Found, NEW T, IsFiniteSet(T), T \subseteq Found,
           Kept(w, S), NoneMissed(w, S), NoneTwice(w, S)
    PROVE  LET v == [w EXCEPT !.entered = @ \cup (T \ S), !.gone = @ \cup (S \ T)]
           IN  v \in Walks /\ Kept(v, T) /\ NoneMissed(v, T) /\ NoneTwice(v, T)
<1> DEFINE v == [w EXCEPT !.entered = @ \cup (T \ S), !.gone = @ \cup (S \ T)]
<1>1. /\ w.list \in AllLists /\ w.start \subseteq Found /\ w.entered \subseteq Found /\ w.gone \subseteq Found
      /\ Reach(w) \in Nat
  BY WalkFields
<1>2. /\ v.at = w.at /\ v.list = w.list /\ v.offset = w.offset /\ v.page = w.page /\ v.total = w.total
      /\ v.shown = w.shown /\ v.start = w.start
      /\ v.entered = w.entered \cup (T \ S) /\ v.gone = w.gone \cup (S \ T)
  BY DEF Walks
<1>3. v \in Walks
  BY <1>1 DEF Walks
<1> HIDE DEF v
<1>4. Reach(v) = Reach(w) /\ \A id : (Has(v, id) <=> Has(w, id)) /\ (Once(v, id) <=> Once(w, id))
  BY <1>2 DEF Reach, Has, Once
<1>5. Kept(v, T)
  <2>1. w.start \subseteq w.gone \cup S /\ S \subseteq w.start \cup w.entered
    BY DEF Kept
  <2>2. v.start \subseteq v.gone \cup T /\ T \subseteq v.start \cup v.entered
    BY <1>2, <2>1
  <2>3. \A m, n \in v.start : m.id = n.id => m = n
    BY <1>2 DEF Kept
  <2>4. w.gone \cup S \subseteq v.gone \cup T
    BY <1>2
  <2>5. v.at = "cards" => \A id \in Nat : Lies(v.page, id) => \E m \in v.gone \cup T : m.id = id
    BY <1>2, <2>4 DEF Kept
  <2> QED BY <2>2, <2>3, <2>5 DEF Kept
<1>6. ASSUME NEW m \in Found, Firm(v, m)
      PROVE  \/ Has(v, m.id)
             \/ /\ Cardinality(Ahead(v.list, T, m)) >= Reach(v)
                /\ v.at = "cards" => v.total > Reach(v)
  <2>1. Firm(w, m)
    BY <1>2, <1>6 DEF Firm
  <2>2. CASE Has(w, m.id)
    BY <1>4, <2>2
  <2>3. CASE /\ Cardinality(Ahead(w.list, S, m)) >= Reach(w)
             /\ w.at = "cards" => w.total > Reach(w)
    <3>1. Ahead(w.list, S, m) \subseteq Ahead(w.list, T, m)
      <4>1. ASSUME NEW n \in Ahead(w.list, S, m), n \notin T PROVE FALSE
        <5>1. n \in v.gone /\ Before(w.list, n, m) /\ n \in Found
          BY <1>2, <4>1 DEF Ahead
        <5>2. Before(w.list, m, n)
          BY <1>2, <1>6, <5>1 DEF Firm
        <5> QED BY <1>1, <5>1, <5>2, BeforeOrders
      <4> QED BY <4>1 DEF Ahead
    <3>2. /\ Cardinality(Ahead(w.list, S, m)) <= Cardinality(Ahead(w.list, T, m))
          /\ Cardinality(Ahead(w.list, S, m)) \in Nat /\ Cardinality(Ahead(w.list, T, m)) \in Nat
      BY <3>1, AheadSize, FS_Subset
    <3>3. Cardinality(Ahead(w.list, T, m)) >= Reach(w)
      BY <1>1, <2>3, <3>2
    <3> QED BY <1>2, <1>4, <2>3, <3>3
  <2> QED BY <2>1, <2>2, <2>3 DEF NoneMissed
<1>7. ASSUME NEW id \in Nat, Sole(v, id)
      PROVE  /\ Once(v, id)
             /\ Has(v, id) => \E m \in v.start : m.id = id /\ Cardinality(Ahead(v.list, T, m)) < Reach(v)
  <2>1. Sole(w, id)
    BY <1>2, <1>7 DEF Sole
  <2>2. Once(v, id)
    BY <1>4, <2>1 DEF NoneTwice
  <2>3. ASSUME Has(v, id)
        PROVE  \E m \in v.start : m.id = id /\ Cardinality(Ahead(v.list, T, m)) < Reach(v)
    <3>1. PICK m \in w.start : m.id = id /\ Cardinality(Ahead(w.list, S, m)) < Reach(w)
      BY <1>4, <2>1, <2>3 DEF NoneTwice
    <3>2. Ahead(w.list, T, m) \subseteq Ahead(w.list, S, m)
      <4>1. ASSUME NEW n \in Ahead(w.list, T, m), n \notin S PROVE FALSE
        <5>1. n \in v.entered /\ Before(w.list, n, m) /\ n \in Found /\ m \in Found
          BY <1>1, <1>2, <4>1 DEF Ahead
        <5>2. Before(w.list, m, n)
          BY <1>2, <1>7, <3>1, <5>1 DEF Sole
        <5> QED BY <1>1, <5>1, <5>2, BeforeOrders
      <4> QED BY <4>1 DEF Ahead
    <3>3. /\ Cardinality(Ahead(w.list, T, m)) <= Cardinality(Ahead(w.list, S, m))
          /\ Cardinality(Ahead(w.list, S, m)) \in Nat /\ Cardinality(Ahead(w.list, T, m)) \in Nat
      BY <3>2, AheadSize, FS_Subset
    <3>4. Cardinality(Ahead(w.list, T, m)) < Reach(w)
      BY <1>1, <3>1, <3>3
    <3> QED BY <1>2, <1>4, <3>1, <3>4
  <2> QED BY <2>2, <2>3
<1> QED BY <1>3, <1>5, <1>6, <1>7 DEF v, NoneMissed, NoneTwice

(* A page is read.                                                         *)
LEMMA WalkPaged ==
    ASSUME NEW w \in Walks, w.at = "page", w.page = <<>>,
           NEW S, IsFiniteSet(S), S \subseteq Found, \A m, n \in S : m.id = n.id => m = n,
           Kept(w, S), NoneMissed(w, S), NoneTwice(w, S),
           NEW q \in Sorted(w.list, S), NEW v \in Walks, v.at \in {"count", "cards"},
           v.list = w.list, v.offset = w.offset, v.shown = w.shown, v.start = w.start,
           v.entered = w.entered, v.gone = w.gone, v.page = Page(q, w.offset),
           v.at = "cards" => v.total = Cardinality(S)
    PROVE  /\ \A id \in Nat : Lies(v.page, id) => \E m \in S : m.id = id
           /\ Kept(v, S) /\ NoneMissed(v, S) /\ NoneTwice(v, S)
<1> DEFINE n == Cardinality(S)
           o == w.offset
           p == Page(q, o)
<1>1. /\ w.list \in AllLists /\ o \in Nat /\ Limit \in Nat \ {0}
      /\ Reach(w) = o /\ Reach(v) = o + Limit
      /\ w.start \subseteq Found /\ w.entered \subseteq Found
  BY WalkFields, ListsAssumption DEF Reach
<1>2. /\ n \in Nat /\ q \in [1..n -> S]
      /\ \A i, j \in 1..n : q[i] = q[j] => i = j
      /\ \A m \in S : \E i \in 1..n : q[i] = m
      /\ \A i \in 1..n : (\A x \in S : ~Level(w.list, q[i], x)) =>
            Cardinality(Ahead(w.list, S, q[i])) = i - 1
  BY <1>1, Position
<1>3. p = Page(q, o) /\ o \in Nat /\ v.page = p /\ w.offset = o /\ w.page = <<>>
  BY <1>1
<1> HIDE DEF n, o, p
<1>4. /\ p \in Seq(Nat) /\ Len(p) \in Nat
      /\ \A k \in 1..Len(p) : o + k \in 1..n /\ k <= Limit /\ p[k] = q[o + k].id
      /\ \A i \in 1..n : o < i /\ i <= o + Limit => i - o \in 1..Len(p) /\ p[i - o] = q[i].id
  <2>1. S \subseteq Found /\ n \in Nat /\ Listed(q, n, S)
    BY <1>2 DEF Listed
  <2>2. Paged(Page(q, o), q, n, o)
    BY <1>3, <2>1, PageIds
  <2> QED BY <1>3, <2>2 DEF Paged
<1>5. ASSUME NEW id \in Nat, Lies(p, id)
      PROVE  \E i \in 1..n : o < i /\ i <= o + Limit /\ q[i] \in S /\ q[i].id = id
  <2>1. PICK k \in 1..Len(p) : p[k] = id
    BY <1>5 DEF Lies
  <2>2. o + k \in 1..n /\ k <= Limit /\ q[o + k].id = id /\ k >= 1 /\ k \in Nat
    BY <1>4, <2>1
  <2>3. o < o + k /\ o + k <= o + Limit
    BY <1>1, <2>2
  <2> QED BY <1>2, <2>2, <2>3
<1>6. \A id \in Nat : Lies(v.page, id) => \E m \in S : m.id = id
  BY <1>3, <1>5
<1>7. Kept(v, S)
  <2>1. v.at = "cards" => \A id \in Nat : Lies(v.page, id) => \E m \in v.gone \cup S : m.id = id
    BY <1>6
  <2> QED BY <2>1 DEF Kept
<1>8. ASSUME NEW m \in Found, Firm(v, m)
      PROVE  \/ Has(v, m.id)
             \/ /\ Cardinality(Ahead(v.list, S, m)) >= Reach(v)
                /\ v.at = "cards" => v.total > Reach(v)
  <2>1. Firm(w, m) /\ m \in S /\ \A x \in S : ~Level(w.list, m, x)
    BY <1>8 DEF Firm, Kept
  <2>2. PICK i \in 1..n : q[i] = m
    BY <1>2, <2>1
  <2>3. Cardinality(Ahead(w.list, S, m)) = i - 1
    BY <1>2, <2>1, <2>2
  <2>4. CASE Has(w, m.id)
    <3>1. Lies(w.shown, m.id)
      BY <1>3, <2>4, NothingLies DEF Has
    <3> QED BY <3>1 DEF Has
  <2>5. CASE Cardinality(Ahead(w.list, S, m)) >= Reach(w)
    <3>1. o < i
      BY <1>1, <2>3, <2>5
    <3>2. CASE i <= o + Limit
      <4>1. i - o \in 1..Len(p) /\ p[i - o] = m.id
        BY <1>4, <2>2, <3>1, <3>2
      <4>2. Lies(v.page, m.id)
        BY <1>3, <4>1 DEF Lies
      <4> QED BY <4>2 DEF Has
    <3>3. CASE ~(i <= o + Limit)
      <4>1. i - 1 >= o + Limit /\ n > o + Limit
        BY <1>1, <1>2, <3>3
      <4> QED BY <1>1, <2>3, <4>1 DEF n
    <3> QED BY <3>2, <3>3
  <2> QED BY <2>1, <2>4, <2>5 DEF NoneMissed
<1>9. ASSUME NEW id \in Nat, Sole(v, id)
      PROVE  /\ Once(v, id)
             /\ Has(v, id) => \E m \in v.start : m.id = id /\ Cardinality(Ahead(v.list, S, m)) < Reach(v)
  <2>1. Sole(w, id)
    BY <1>9 DEF Sole
  <2>2. /\ Once(w, id)
        /\ Has(w, id) => \E m \in w.start : m.id = id /\ Cardinality(Ahead(w.list, S, m)) < Reach(w)
    BY <2>1 DEF NoneTwice
  <2>3. ASSUME Lies(p, id)
        PROVE  \E i \in 1..n : /\ o < i /\ i <= o + Limit /\ q[i].id = id /\ q[i] \in w.start
                               /\ Cardinality(Ahead(w.list, S, q[i])) = i - 1
    <3>1. PICK i \in 1..n : o < i /\ i <= o + Limit /\ q[i] \in S /\ q[i].id = id
      BY <1>5, <2>3
    <3>2. q[i] \in w.start \cup w.entered /\ q[i] \in Found
      BY <3>1 DEF Kept
    <3>3. \A x \in w.entered : Before(w.list, q[i], x)
      BY <2>1, <3>1, <3>2 DEF Sole
    <3>4. q[i] \notin w.entered
      BY <1>1, <3>2, <3>3, BeforeOrders
    <3>5. \A x \in S : ~Level(w.list, q[i], x)
      <4>1. \A x \in w.start : ~Level(w.list, q[i], x)
        BY <2>1, <3>1, <3>2 DEF Sole
      <4>2. \A x \in w.entered : ~Level(w.list, q[i], x)
        BY <3>3 DEF Level
      <4> QED BY <4>1, <4>2 DEF Kept
    <3> QED BY <1>2, <3>1, <3>2, <3>4, <3>5
  <2>4. Single(p, id)
    <3>1. ASSUME NEW a \in 1..Len(p), NEW b \in 1..Len(p), p[a] = id, p[b] = id PROVE a = b
      <4>1. q[o + a] \in S /\ q[o + b] \in S /\ q[o + a].id = q[o + b].id /\ o + a \in 1..n /\ o + b \in 1..n
        BY <1>2, <1>4, <3>1
      <4>2. o + a = o + b
        BY <1>2, <4>1
      <4> QED BY <1>1, <4>2
    <3> QED BY <3>1 DEF Single
  <2>5. ~(Lies(w.shown, id) /\ Lies(p, id))
    <3>1. ASSUME Lies(w.shown, id), Lies(p, id) PROVE FALSE
      <4>1. PICK m \in w.start : m.id = id /\ Cardinality(Ahead(w.list, S, m)) < o
        BY <1>1, <2>2, <3>1 DEF Has
      <4>2. PICK i \in 1..n : /\ o < i /\ q[i].id = id /\ q[i] \in w.start
                              /\ Cardinality(Ahead(w.list, S, q[i])) = i - 1
        BY <2>3, <3>1
      <4>3. q[i] = m
        BY <4>1, <4>2 DEF Kept
      <4>4. i - 1 < o
        BY <4>1, <4>2, <4>3
      <4> QED BY <1>1, <1>2, <4>2, <4>4
    <3> QED BY <3>1
  <2>6. Once(v, id)
    BY <1>3, <2>2, <2>4, <2>5 DEF Once
  <2>7. ASSUME Has(v, id)
        PROVE  \E m \in v.start : m.id = id /\ Cardinality(Ahead(v.list, S, m)) < Reach(v)
    <3>1. CASE Lies(w.shown, id)
      <4>1. PICK m \in w.start : m.id = id /\ Cardinality(Ahead(w.list, S, m)) < o
        BY <1>1, <2>2, <3>1 DEF Has
      <4>2. Cardinality(Ahead(w.list, S, m)) < o + Limit
        BY <1>1, <4>1, AheadSize
      <4> QED BY <1>1, <4>1, <4>2
    <3>2. CASE Lies(p, id)
      <4>1. PICK i \in 1..n : /\ o < i /\ i <= o + Limit /\ q[i].id = id /\ q[i] \in w.start
                              /\ Cardinality(Ahead(w.list, S, q[i])) = i - 1
        BY <2>3, <3>2
      <4>2. i - 1 < o + Limit
        BY <1>1, <4>1
      <4> QED BY <1>1, <4>1, <4>2
    <3> QED BY <1>3, <2>7, <3>1, <3>2 DEF Has
  <2> QED BY <2>6, <2>7
<1> QED BY <1>6, <1>7, <1>8, <1>9 DEF NoneMissed, NoneTwice

(* Those of a page that are still there.                                   *)
LEMMA StillThereOnce ==
    ASSUME NEW p \in Seq(Nat)
    PROVE  LET s == StillThere(p)
           IN  /\ s \in Seq(Nat)
               /\ \A id : Lies(s, id) <=> Lies(p, id) /\ id \in CardIds
               /\ \A id : Single(p, id) => Single(s, id)
<1> DEFINE s == StillThere(p)
<1>1. /\ s \in Seq(Nat) /\ Len(s) \in Nat /\ DOMAIN s = 1..Len(s)
      /\ \A j \in 1..Len(s) : s[j] \in CardIds /\ \E i \in 1..Len(p) : s[j] = p[i]
      /\ \A i \in 1..Len(p) : p[i] \in CardIds => \E j \in 1..Len(s) : s[j] = p[i]
      /\ \A j, k \in 1..Len(s) : s[j] = s[k] /\ j # k =>
            \E a, b \in 1..Len(p) : a # b /\ p[a] = s[j] /\ p[b] = s[j]
  BY StillThereIds
<1> HIDE DEF s
<1>2. \A id : Lies(s, id) <=> Lies(p, id) /\ id \in CardIds
  BY <1>1 DEF Lies
<1>3. ASSUME NEW id, Single(p, id) PROVE Single(s, id)
  <2>1. ASSUME NEW j \in 1..Len(s), NEW k \in 1..Len(s), s[j] = id, s[k] = id, j # k PROVE FALSE
    <3>1. PICK a, b \in 1..Len(p) : a # b /\ p[a] = s[j] /\ p[b] = s[j]
      BY <1>1, <2>1
    <3> QED BY <1>3, <2>1, <3>1 DEF Single
  <2> QED BY <2>1 DEF Single
<1> QED BY <1>1, <1>2, <1>3 DEF s

(* A part of a page, with what matches.                                    *)
PartOf(page, p, S) ==
    /\ \A id : /\ Lies(page, id) => Lies(p, id)
               /\ Single(p, id) => Single(page, id)
    /\ \A m \in S : Lies(p, m.id) => Lies(page, m.id)

Shown(w, page, total) ==
    [w EXCEPT !.shown = @ \o page, !.page = <<>>, !.total = total, !.offset = @ + Limit,
              !.at = IF w.offset + Limit >= total THEN "ended" ELSE "page"]

(* What was read is shown.                                                 *)
LEMMA WalkDelivered ==
    ASSUME NEW w \in Walks, w.at \in {"count", "cards"},
           NEW S, IsFiniteSet(S), S \subseteq Found,
           Kept(w, S), NoneMissed(w, S), NoneTwice(w, S),
           NEW page \in Seq(Nat), PartOf(page, w.page, S),
           NEW total \in Nat, total = IF w.at = "count" THEN Cardinality(S) ELSE w.total
    PROVE  LET v == Shown(w, page, total)
           IN  /\ v \in Walks /\ v.page = <<>> /\ v.at \in {"ended", "page"} /\ v.list = w.list
               /\ \A id : Lies(v.shown, id) => Lies(w.shown, id) \/ Lies(w.page, id)
               /\ Kept(v, S) /\ (v.at = "page" => NoneMissed(v, S) /\ NoneTwice(v, S))
               /\ v.at = "ended" => Complete(v)
<1> DEFINE v == Shown(w, page, total)
<1>1. /\ w.list \in AllLists /\ w.start \subseteq Found /\ w.offset \in Nat /\ Limit \in Nat \ {0}
      /\ w.page \in Seq(Nat) /\ w.shown \in Seq(Nat) /\ Reach(w) = w.offset + Limit
  BY WalkFields, ListsAssumption DEF Reach
<1>2. w.shown \o page \in Seq(Nat) /\ <<>> \in Seq(Nat) /\ w.offset + Limit \in Nat
  BY <1>1, Joined
<1>3. /\ v.at = (IF w.offset + Limit >= total THEN "ended" ELSE "page") /\ v.list = w.list
      /\ v.offset = w.offset + Limit /\ v.page = <<>> /\ v.total = total /\ v.shown = w.shown \o page
      /\ v.start = w.start /\ v.entered = w.entered /\ v.gone = w.gone
  BY DEF Walks, Shown
<1>4. v \in Walks
  BY <1>2 DEF Walks, Shown
<1> HIDE DEF v
<1>5. \A id : /\ Lies(v.shown, id) <=> Lies(w.shown, id) \/ Lies(page, id)
              /\ Lies(v.shown, id) => Has(w, id) /\ Has(v, id)
              /\ Has(v, id) => Lies(v.shown, id)
              /\ Once(w, id) => Once(v, id)
  <2>1. ASSUME NEW id
        PROVE  /\ Lies(v.shown, id) <=> Lies(w.shown, id) \/ Lies(page, id)
               /\ Lies(v.shown, id) => Has(w, id) /\ Has(v, id)
               /\ Has(v, id) => Lies(v.shown, id)
               /\ Once(w, id) => Once(v, id)
    <3>1. /\ Lies(v.shown, id) <=> Lies(w.shown, id) \/ Lies(page, id)
          /\ Single(w.shown, id) /\ Single(page, id) /\ ~(Lies(w.shown, id) /\ Lies(page, id)) =>
                Single(v.shown, id)
      BY <1>1, <1>3, Joined DEF PartOf
    <3>2. ~Lies(v.page, id) /\ Single(v.page, id)
      BY <1>3, NothingLies
    <3>3. (Lies(page, id) => Lies(w.page, id)) /\ (Single(w.page, id) => Single(page, id))
      BY DEF PartOf
    <3> QED BY <3>1, <3>2, <3>3 DEF Has, Once
  <2> QED BY <2>1
<1>6. Kept(v, S) /\ (v.at = "page" => Reach(v) = Reach(w)) /\ v.at \in {"ended", "page"}
  BY <1>1, <1>3 DEF Kept, Reach
<1>7. ASSUME NEW m \in Found, Firm(v, m)
      PROVE  \/ Has(v, m.id)
             \/ v.at = "page" /\ Cardinality(Ahead(v.list, S, m)) >= Reach(v)
  <2>1. Firm(w, m) /\ m \in S
    BY <1>3, <1>7 DEF Firm, Kept
  <2>2. CASE Has(w, m.id)
    BY <1>5, <2>1, <2>2 DEF Has, PartOf
  <2>3. CASE /\ Cardinality(Ahead(w.list, S, m)) >= Reach(w)
             /\ w.at = "cards" => w.total > Reach(w)
    <3>1. /\ Ahead(w.list, S, m) \subseteq S /\ Ahead(w.list, S, m) # S
      BY <1>1, <2>1, BeforeOrders DEF Ahead
    <3>2. Cardinality(Ahead(w.list, S, m)) < Cardinality(S)
      <4>1. /\ Cardinality(Ahead(w.list, S, m)) <= Cardinality(S)
            /\ Cardinality(Ahead(w.list, S, m)) # Cardinality(S)
            /\ Cardinality(S) \in Nat /\ Cardinality(Ahead(w.list, S, m)) \in Nat
        BY <3>1, AheadSize, FS_Subset, FS_CardinalityType
      <4> QED BY <4>1
    <3>3. total > w.offset + Limit
      <4>1. Cardinality(S) \in Nat /\ Cardinality(Ahead(w.list, S, m)) \in Nat
        BY AheadSize, FS_CardinalityType
      <4> QED BY <1>1, <1>2, <2>3, <3>2, <4>1
    <3>4. v.at = "page"
      BY <1>2, <1>3, <3>3
    <3> QED BY <1>3, <1>6, <2>3, <3>4
  <2> QED BY <2>1, <2>2, <2>3 DEF NoneMissed
<1>8. ASSUME NEW id \in Nat, Sole(v, id)
      PROVE  /\ Once(v, id)
             /\ v.at = "page" /\ Has(v, id) =>
                   \E m \in v.start : m.id = id /\ Cardinality(Ahead(v.list, S, m)) < Reach(v)
  <2>1. Sole(w, id)
    BY <1>3, <1>8 DEF Sole
  <2> QED BY <1>3, <1>5, <1>6, <2>1 DEF NoneTwice
<1>9. v.at = "page" => NoneMissed(v, S) /\ NoneTwice(v, S)
  BY <1>7, <1>8 DEF NoneMissed, NoneTwice
<1>10. v.at = "ended" => Complete(v)
  BY <1>7, <1>8 DEF Complete
<1> QED BY <1>3, <1>4, <1>5, <1>6, <1>9, <1>10 DEF v, Has

(* A walk begins.                                                          *)
LEMMA WalkBegun ==
    ASSUME NEW list \in Lists, NEW S, IsFiniteSet(S), S \subseteq Found,
           \A m, n \in S : m.id = n.id => m = n
    PROVE  LET v == [NoWalk EXCEPT !.at = "page", !.list = list, !.start = S]
           IN  /\ v \in Walks /\ v.at = "page" /\ v.list = list /\ v.page = <<>> /\ v.shown = <<>>
               /\ Kept(v, S) /\ NoneMissed(v, S) /\ NoneTwice(v, S)
<1> DEFINE v == [NoWalk EXCEPT !.at = "page", !.list = list, !.start = S]
<1>1. /\ v.at = "page" /\ v.list = list /\ v.offset = 0 /\ v.page = <<>> /\ v.total = 0 /\ v.shown = <<>>
      /\ v.start = S /\ v.entered = {} /\ v.gone = {}
  BY DEF NoWalk
<1>2. v \in Walks
  <2>1. list \in AllLists
    BY ListsAssumption DEF AllLists
  <2>2. NoWalk \in Walks
    BY DEF NoWalk, Walks, AllLists, CardLists
  <2> QED BY <2>1, <2>2 DEF Walks
<1> HIDE DEF v
<1>3. Kept(v, S)
  BY <1>1 DEF Kept
<1>4. Reach(v) = 0
  BY <1>1 DEF Reach
<1>5. NoneMissed(v, S)
  <2>1. \A m \in Found : Cardinality(Ahead(v.list, S, m)) >= 0
    BY AheadSize
  <2> QED BY <1>1, <1>4, <2>1 DEF NoneMissed
<1>6. \A id : ~Has(v, id) /\ Once(v, id)
  BY <1>1, NothingLies DEF Has, Once
<1>7. NoneTwice(v, S)
  BY <1>6 DEF NoneTwice
<1> QED BY <1>1, <1>2, <1>3, <1>5, <1>7 DEF v

WalkState(w, S, k) ==
    /\ WalkShape(w, k)
    /\ Walking(w) => Kept(w, S) /\ NoneMissed(w, S) /\ NoneTwice(w, S)
    /\ w.at = "ended" => Complete(w)

Current == Matches(walk.list, cards, sales)

WalkInv == WalkState(walk, Current, ids.card)

LEMMA PageNat ==
    ASSUME NEW list \in AllLists, NEW S, IsFiniteSet(S), S \subseteq Found, NEW q \in Sorted(list, S),
           NEW o \in Nat
    PROVE  Page(q, o) \in Seq(Nat)
<1>1. Cardinality(S) \in Nat /\ Listed(q, Cardinality(S), S)
  BY Position DEF Listed
<1>2. Paged(Page(q, o), q, Cardinality(S), o)
  BY <1>1, PageIds
<1> QED BY <1>2 DEF Paged

(* Card ids are given, never taken back.                                   *)
LEMMA IdsGiven ==
    ASSUME SyncInv, Next
    PROVE  ids'.card \in Nat /\ ids.card \in Nat /\ ids'.card >= ids.card
<1>1. DOMAIN ids = {"card", "sale"} /\ ids.card \in Nat
  BY DEF SyncInv, CardsInv
<1>2. CASE ids' = ids
  BY <1>1, <1>2
<1>3. CASE StoreSale
  <2>1. ids'.card = ids.card
    BY <1>1, <1>3 DEF StoreSale
  <2> QED BY <1>1, <2>1
<1>4. CASE \E t \in Tokens : SyncCard(t)
  <2>1. ids' = [ids EXCEPT !.card = @ + 1] \/ ids' = ids
    BY <1>4 DEF SyncCard
  <2>2. ids'.card = ids.card + 1 \/ ids'.card = ids.card
    BY <1>1, <2>1
  <2> QED BY <1>1, <2>2
<1>5. ids' = ids \/ StoreSale \/ \E t \in Tokens : SyncCard(t)
  BY DEF Next, db, chain, Transfer, Fill, RegistryMoves, CheckSale, SellStep, ReadSold, SaveSold,
         ProcessHasSale, SyncStep, FetchTokens, FindOrCreateCollection, GetUnusedCards, DeleteCards,
         DeleteSalesByCardIds, RemoveFiles, SyncEnds, ReadBalances, SyncFails
<1> QED BY <1>2, <1>3, <1>4, <1>5

LEMMA WalkSame ==
    ASSUME WalkInv, UNCHANGED <<walk, cards, sales, ids>>
    PROVE  WalkInv'
BY DEF WalkInv, Current

LEMMA WalkInit == ListsInit => WalkInv
<1> SUFFICES ASSUME ListsInit PROVE WalkInv
  OBVIOUS
<1>1. walk = NoWalk
  BY DEF ListsInit
<1>2. NoWalk \in Walks /\ NoWalk.at = "idle" /\ NoWalk.list = "all" /\ NoWalk.page = <<>> /\ NoWalk.shown = <<>>
  BY DEF NoWalk, Walks, AllLists, CardLists
<1> QED BY <1>1, <1>2, NothingLies DEF WalkInv, WalkState, WalkShape, Walking

LEMMA WalkTracks ==
    ASSUME SyncInv, MarketInv, SyncInv', MarketInv', WalkInv, Next, Track
    PROVE  WalkInv'
<1> DEFINE S == Current
           T == Matches(walk.list, cards', sales')
<1>1. ids'.card \in Nat /\ ids.card \in Nat /\ ids'.card >= ids.card
  BY IdsGiven
<1>2. \A id \in 1..ids.card : id \in 1..ids'.card
  BY <1>1
<1>3. CASE ~Walking(walk)
  <2>1. walk' = walk
    BY <1>3 DEF Track, Walking
  <2> QED BY <1>2, <1>3, <2>1 DEF WalkInv, WalkState, WalkShape, Walking
<1>4. CASE Walking(walk)
  <2>1. IsFiniteSet(S) /\ S \subseteq Found /\ IsFiniteSet(T) /\ T \subseteq Found
    BY MatchesNow, MatchesNext DEF MatchedIn, Current
  <2>2. walk \in Walks /\ Kept(walk, S) /\ NoneMissed(walk, S) /\ NoneTwice(walk, S)
    BY <1>4 DEF WalkInv, WalkState, WalkShape
  <2>3. walk' = [walk EXCEPT !.entered = @ \cup (T \ S), !.gone = @ \cup (S \ T)]
    BY <1>4 DEF Track, Walking, Current
  <2>4. /\ walk'.at = walk.at /\ walk'.list = walk.list /\ walk'.page = walk.page
        /\ walk'.shown = walk.shown
    BY <2>3
  <2>5. T = Current'
    BY <2>4 DEF Current
  <2> HIDE DEF S, T
  <2>6. walk' \in Walks /\ Kept(walk', T) /\ NoneMissed(walk', T) /\ NoneTwice(walk', T)
    BY <1>4, <2>1, <2>2, <2>3, WalkTracked
  <2>7. WalkShape(walk', ids'.card)
    BY <1>2, <2>4, <2>6 DEF WalkInv, WalkState, WalkShape
  <2>8. walk'.at # "ended"
    BY <1>4, <2>4 DEF Walking
  <2> QED BY <2>5, <2>6, <2>7, <2>8 DEF WalkInv, WalkState
<1> QED BY <1>3, <1>4

LEMMA WalkBegins ==
    ASSUME SyncInv, MarketInv, WalkInv, NEW list \in Lists, BeginWalk(list)
    PROVE  WalkInv'
<1> DEFINE S == Matches(list, cards, sales)
<1>1. IsFiniteSet(S) /\ S \subseteq Found /\ \A m, n \in S : m.id = n.id => m = n
  BY MatchesNow DEF MatchedIn
<1>2. walk' = [NoWalk EXCEPT !.at = "page", !.list = list, !.start = S] /\ UNCHANGED <<cards, sales, ids>>
  BY DEF BeginWalk, db
<1>3. Current' = Matches(walk'.list, cards, sales)
  BY <1>2 DEF Current
<1> HIDE DEF S
<1>4. /\ walk' \in Walks /\ walk'.at = "page" /\ walk'.list = list /\ walk'.page = <<>> /\ walk'.shown = <<>>
      /\ Kept(walk', S) /\ NoneMissed(walk', S) /\ NoneTwice(walk', S)
  BY <1>1, <1>2, WalkBegun
<1>5. WalkShape(walk', ids'.card)
  BY <1>4, NothingLies DEF WalkShape
<1>6. S = Current'
  BY <1>3, <1>4 DEF S
<1> QED BY <1>4, <1>5, <1>6 DEF WalkInv, WalkState

(* A page is read, by either branch.                                       *)
LEMMA WalkReads ==
    ASSUME SyncInv, MarketInv, WalkInv, UNCHANGED <<cards, sales, ids>>, walk.at = "page",
           NEW q \in Sorted(walk.list, Current),
           \/ /\ walk.list \in CardLists
              /\ walk' = [walk EXCEPT !.at = "count", !.page = Page(q, walk.offset)]
           \/ /\ walk.list \in SaleLists
              /\ walk' = [walk EXCEPT !.at = "cards", !.page = Page(q, walk.offset),
                                      !.total = Cardinality(Current)]
    PROVE  WalkInv'
<1> DEFINE S == Current
<1>1. /\ IsFiniteSet(S) /\ S \subseteq Found /\ \A m, n \in S : m.id = n.id => m = n
      /\ \A m \in S : m.id \in 1..ids.card
  BY MatchesNow DEF MatchedIn, Current
<1>2. /\ walk \in Walks /\ walk.page = <<>> /\ Kept(walk, S) /\ NoneMissed(walk, S) /\ NoneTwice(walk, S)
      /\ walk.list \in Lists \cup {"all"} /\ \A id \in Nat : Lies(walk.shown, id) => id \in 1..ids.card
  BY DEF WalkInv, WalkState, WalkShape, Walking
<1>3. /\ walk'.at \in {"count", "cards"} /\ walk'.list = walk.list /\ walk'.offset = walk.offset
      /\ walk'.shown = walk.shown /\ walk'.start = walk.start /\ walk'.entered = walk.entered
      /\ walk'.gone = walk.gone /\ walk'.page = Page(q, walk.offset)
      /\ walk'.at = "cards" => walk'.total = Cardinality(S) /\ walk.list \in SaleLists
      /\ walk'.at = "count" => walk.list \in CardLists
  BY <1>2 DEF Walks
<1>4. walk.list \in AllLists /\ walk.offset \in Nat /\ Cardinality(S) \in Nat
  BY <1>1, <1>2, WalkFields, FS_CardinalityType
<1>5. Page(q, walk.offset) \in Seq(Nat)
  BY <1>1, <1>4, PageNat
<1>6. walk' \in Walks
  BY <1>2, <1>4, <1>5 DEF Walks
<1>7. Current' = S
  BY <1>3 DEF Current
<1>8. q \in Sorted(walk.list, S)
  OBVIOUS
<1> HIDE DEF S
<1>9. /\ \A id \in Nat : Lies(walk'.page, id) => \E m \in S : m.id = id
      /\ Kept(walk', S) /\ NoneMissed(walk', S) /\ NoneTwice(walk', S)
  BY <1>1, <1>2, <1>3, <1>6, <1>8, WalkPaged
<1>10. WalkShape(walk', ids'.card)
  BY <1>1, <1>2, <1>3, <1>6, <1>9 DEF WalkShape
<1> QED BY <1>3, <1>7, <1>9, <1>10 DEF WalkInv, WalkState

(* It is shown.                                                            *)
LEMMA WalkDelivers ==
    ASSUME SyncInv, MarketInv, WalkInv, UNCHANGED <<cards, sales, ids>>, walk.at \in {"count", "cards"},
           NEW page \in Seq(Nat), PartOf(page, walk.page, Current),
           NEW total \in Nat,
           total = IF walk.at = "count" THEN Cardinality(Current) ELSE walk.total,
           Deliver(page, total)
    PROVE  WalkInv'
<1> DEFINE S == Current
<1>1. IsFiniteSet(S) /\ S \subseteq Found
  BY MatchesNow DEF MatchedIn, Current
<1>2. /\ walk \in Walks /\ Kept(walk, S) /\ NoneMissed(walk, S) /\ NoneTwice(walk, S)
      /\ walk.list \in Lists \cup {"all"}
      /\ \A id \in Nat : Lies(walk.page, id) \/ Lies(walk.shown, id) => id \in 1..ids.card
  BY DEF WalkInv, WalkState, WalkShape, Walking
<1>3. walk' = Shown(walk, page, total)
  BY DEF Deliver, Shown
<1>4. /\ PartOf(page, walk.page, S)
      /\ total = IF walk.at = "count" THEN Cardinality(S) ELSE walk.total
  OBVIOUS
<1>5. walk'.list = walk.list
  BY <1>3 DEF Shown
<1>6. Current' = S
  BY <1>5 DEF Current
<1> HIDE DEF S
<1>7. /\ walk' \in Walks /\ walk'.page = <<>> /\ walk'.at \in {"ended", "page"} /\ walk'.list = walk.list
      /\ \A id : Lies(walk'.shown, id) => Lies(walk.shown, id) \/ Lies(walk.page, id)
      /\ Kept(walk', S) /\ (walk'.at = "page" => NoneMissed(walk', S) /\ NoneTwice(walk', S))
      /\ walk'.at = "ended" => Complete(walk')
  BY <1>1, <1>2, <1>3, <1>4, WalkDelivered
<1>8. WalkShape(walk', ids'.card)
  BY <1>2, <1>7, NothingLies DEF WalkShape
<1> QED BY <1>6, <1>7, <1>8 DEF WalkInv, WalkState, Walking

-----------------------------------------------------------------------------
(* The sums, as Marketplace_proofs has them.  What holds of a subset of a  *)
(* finite set whenever it holds of the smaller ones holds of all: the      *)
(* subsets it holds of are given as a set.                                 *)
LEMMA SubsetsBySize ==
    ASSUME NEW S, IsFiniteSet(S), NEW Q,
           \A T \in SUBSET S : (\A U \in SUBSET T : U # T => U \in Q) => T \in Q
    PROVE  \A T \in SUBSET S : T \in Q
<1> SUFFICES ASSUME NEW W \in SUBSET S, W \notin Q PROVE FALSE
  OBVIOUS
<1> DEFINE Bad == {T \in SUBSET S : T \notin Q}
<1>1. IsWellFoundedOn(StrictSubsetOrdering(S), FiniteSubsetsOf(S))
  BY FS_StrictSubsetOrderingWellFounded
<1>2. Bad \subseteq FiniteSubsetsOf(S) /\ Bad # {}
  <2>1. \A T \in SUBSET S : IsFiniteSet(T)
    BY FS_Subset
  <2> QED BY <2>1 DEF FiniteSubsetsOf
<1>3. PICK T \in Bad : \A U \in Bad : <<U, T>> \notin StrictSubsetOrdering(S)
  <2> HIDE DEF Bad
  <2> QED BY <1>1, <1>2, WFMin
<1>4. \A U \in SUBSET T : U # T => U \in Q
  BY <1>3 DEF StrictSubsetOrdering
<1> QED BY <1>3, <1>4

-----------------------------------------------------------------------------
(* The sums of the model are folds over the subsets of a set: g is the fold *)
(* that adds up the numbers v.                                              *)
Adds(g, v, S) ==
    g = [s \in SUBSET S |-> IF s = {} THEN 0
                            ELSE v[CHOOSE x \in s : TRUE] + g[s \ {CHOOSE x \in s : TRUE}]]

LEMMA AddsSame ==
    ASSUME NEW v, NEW S, IsFiniteSet(S), NEW g, Adds(g, v, S),
           NEW T, NEW h, Adds(h, v, T)
    PROVE  \A s \in SUBSET S : s \in SUBSET T => g[s] = h[s]
<1> DEFINE Q == {s \in SUBSET S : s \in SUBSET T => g[s] = h[s]}
<1>1. ASSUME NEW s \in SUBSET S, \A r \in SUBSET s : r # s => r \in Q
      PROVE  s \in Q
  <2> SUFFICES ASSUME s \in SUBSET T PROVE g[s] = h[s]
    OBVIOUS
  <2>1. CASE s = {}
    BY <2>1 DEF Adds
  <2>2. CASE s # {}
    <3> DEFINE x == CHOOSE y \in s : TRUE
    <3>1. x \in s
      BY <2>2
    <3>2. g[s] = v[x] + g[s \ {x}] /\ h[s] = v[x] + h[s \ {x}]
      BY <2>2 DEF Adds
    <3> HIDE DEF x
    <3>3. s \ {x} \in Q /\ s \ {x} \in SUBSET T
      BY <1>1, <3>1
    <3> QED BY <3>2, <3>3
  <2> QED BY <2>1, <2>2
<1> HIDE DEF Q
<1>2. \A s \in SUBSET S : s \in Q
  BY <1>1, SubsetsBySize
<1> QED BY <1>2 DEF Q

LEMMA AddsExists ==
    ASSUME NEW v, NEW S, IsFiniteSet(S)
    PROVE  \E g : Adds(g, v, S)
<1> DEFINE Q == {s \in SUBSET S : \E g : Adds(g, v, s)}
<1>1. ASSUME NEW T \in SUBSET S, \A r \in SUBSET T : r # T => r \in Q
      PROVE  T \in Q
  <2> DEFINE fold(r) == CHOOSE h : Adds(h, v, r)
             g == [s \in SUBSET T |->
                     IF s = {} THEN 0
                     ELSE v[CHOOSE x \in s : TRUE]
                            + fold(s \ {CHOOSE x \in s : TRUE})[s \ {CHOOSE x \in s : TRUE}]]
  <2>1. ASSUME NEW r \in SUBSET T, r # T
        PROVE  g[r] = fold(r)[r]
    <3>1. Adds(fold(r), v, r)
      BY <1>1, <2>1
    <3>2. CASE r = {}
      BY <3>1, <3>2 DEF Adds
    <3>3. CASE r # {}
      <4> DEFINE x == CHOOSE y \in r : TRUE
                 q == r \ {x}
      <4>1. x \in r
        BY <3>3
      <4>2. g[r] = v[x] + fold(q)[q]
        BY <3>3
      <4>3. fold(r)[r] = v[x] + fold(r)[q]
        <5> HIDE DEF fold
        <5> QED BY <3>1, <3>3 DEF Adds
      <4> HIDE DEF x
      <4>4. q \in SUBSET T /\ q # T /\ q \in SUBSET r
        BY <4>1
      <4>5. Adds(fold(q), v, q)
        BY <1>1, <4>4
      <4>6. IsFiniteSet(q)
        BY <4>4, FS_Subset
      <4> HIDE DEF fold, q, g
      <4>7. fold(q)[q] = fold(r)[q]
        BY <3>1, <4>4, <4>5, <4>6, AddsSame
      <4> QED BY <4>2, <4>3, <4>7
    <3> QED BY <3>2, <3>3
  <2>2. ASSUME NEW s \in SUBSET T, s # {}
        PROVE  LET x == CHOOSE y \in s : TRUE
               IN  fold(s \ {x})[s \ {x}] = g[s \ {x}]
    <3> DEFINE x == CHOOSE y \in s : TRUE
    <3>1. x \in s
      BY <2>2
    <3> HIDE DEF x, g, fold
    <3>2. s \ {x} \in SUBSET T /\ s \ {x} # T
      BY <3>1
    <3>3. fold(s \ {x})[s \ {x}] = g[s \ {x}]
      BY <2>1, <3>2
    <3> QED BY <3>3 DEF x
  <2>3. Adds(g, v, T)
    <3> DEFINE w(s) == IF s = {} THEN 0
                       ELSE v[CHOOSE x \in s : TRUE] + g[s \ {CHOOSE x \in s : TRUE}]
    <3>1. \A s \in SUBSET T : g[s] = w(s)
      <4> SUFFICES ASSUME NEW s \in SUBSET T PROVE g[s] = w(s)
        OBVIOUS
      <4>1. CASE s = {}
        BY <4>1
      <4>2. CASE s # {}
        <5>1. g[s] = v[CHOOSE x \in s : TRUE]
                       + fold(s \ {CHOOSE x \in s : TRUE})[s \ {CHOOSE x \in s : TRUE}]
          BY <4>2
        <5> HIDE DEF g, fold
        <5> QED BY <4>2, <5>1, <2>2
      <4> QED BY <4>1, <4>2
    <3>2. g = [s \in SUBSET T |-> g[s]]
      OBVIOUS
    <3> HIDE DEF g, fold
    <3> QED BY <3>1, <3>2 DEF Adds
  <2> QED BY <2>3
<1> HIDE DEF Q
<1>2. \A s \in SUBSET S : s \in Q
  BY <1>1, SubsetsBySize
<1> QED BY <1>2 DEF Q

LEMMA AddsNat ==
    ASSUME NEW S, IsFiniteSet(S), NEW v, \A x \in S : v[x] \in Nat, NEW g, Adds(g, v, S)
    PROVE  \A s \in SUBSET S : g[s] \in Nat
<1> DEFINE Q == {s \in SUBSET S : g[s] \in Nat}
<1>1. ASSUME NEW s \in SUBSET S, \A r \in SUBSET s : r # s => r \in Q
      PROVE  s \in Q
  <2>1. CASE s = {}
    BY <2>1 DEF Adds
  <2>2. CASE s # {}
    <3> DEFINE x == CHOOSE y \in s : TRUE
    <3>1. x \in s
      BY <2>2
    <3>2. g[s] = v[x] + g[s \ {x}]
      BY <2>2 DEF Adds
    <3> HIDE DEF x
    <3>3. s \ {x} \in Q /\ v[x] \in Nat
      BY <1>1, <3>1
    <3> QED BY <3>2, <3>3
  <2> QED BY <2>1, <2>2
<1> HIDE DEF Q
<1>2. \A s \in SUBSET S : s \in Q
  BY <1>1, SubsetsBySize
<1> QED BY <1>2 DEF Q

(* Whichever element the fold chose, any can be taken out of the sum.      *)
LEMMA AddsRemove ==
    ASSUME NEW S, IsFiniteSet(S), NEW v, \A x \in S : v[x] \in Nat, NEW g, Adds(g, v, S)
    PROVE  \A s \in SUBSET S : \A x \in s : g[s] = v[x] + g[s \ {x}]
<1> DEFINE Q == {s \in SUBSET S : \A x \in s : g[s] = v[x] + g[s \ {x}]}
<1>1. ASSUME NEW s \in SUBSET S, \A r \in SUBSET s : r # s => r \in Q
      PROVE  s \in Q
  <2> SUFFICES ASSUME NEW x \in s PROVE g[s] = v[x] + g[s \ {x}]
    OBVIOUS
  <2> DEFINE c == CHOOSE y \in s : TRUE
  <2>1. c \in s /\ g[s] = v[c] + g[s \ {c}]
    BY DEF Adds
  <2> HIDE DEF c
  <2>2. CASE c = x
    BY <2>1, <2>2
  <2>3. CASE c # x
    <3>1. g[s \ {c}] = v[x] + g[(s \ {c}) \ {x}]
      <4>1. s \ {c} \in SUBSET s /\ s \ {c} # s /\ x \in s \ {c}
        BY <2>1, <2>3
      <4> QED BY <1>1, <4>1
    <3>2. g[s \ {x}] = v[c] + g[(s \ {x}) \ {c}]
      <4>1. s \ {x} \in SUBSET s /\ s \ {x} # s /\ c \in s \ {x}
        BY <2>1, <2>3
      <4> QED BY <1>1, <4>1
    <3>3. (s \ {c}) \ {x} = (s \ {x}) \ {c}
      OBVIOUS
    <3>4. v[c] \in Nat /\ v[x] \in Nat /\ g[(s \ {c}) \ {x}] \in Nat
      <4>1. (s \ {c}) \ {x} \in SUBSET S
        OBVIOUS
      <4> QED BY <2>1, <4>1, AddsNat
    <3> DEFINE m == g[(s \ {c}) \ {x}]
    <3>5. g[s \ {x}] = v[c] + m
      BY <3>2, <3>3
    <3>6. g[s] = v[c] + (v[x] + m) /\ m \in Nat
      BY <2>1, <3>1, <3>4
    <3> HIDE DEF m
    <3> QED BY <3>4, <3>5, <3>6
  <2> QED BY <2>2, <2>3
<1> HIDE DEF Q
<1>2. \A s \in SUBSET S : s \in Q
  BY <1>1, SubsetsBySize
<1> QED BY <1>2 DEF Q

(* The sum of the values of a function on a set.                           *)
SumOver(v, S) == MapThenSumSet(LAMBDA x : v[x], S)

LEMMA SumIsFold ==
    ASSUME NEW v, NEW S, IsFiniteSet(S)
    PROVE  \E g : Adds(g, v, S) /\ SumOver(v, S) = g[S]
<1>1. \E g : Adds(g, v, S)
  BY AddsExists
<1>2. SumOver(v, S) = (CHOOSE g : Adds(g, v, S))[S]
  BY DEF SumOver, MapThenSumSet, MapThenFoldSet, Adds
<1>3. Adds(CHOOSE g : Adds(g, v, S), v, S)
  BY <1>1
<1> QED BY <1>2, <1>3

(* One can be taken out, and there is nothing else to know.                *)
LEMMA SumParts ==
    ASSUME NEW S, IsFiniteSet(S), NEW v, \A x \in S : v[x] \in Nat
    PROVE  /\ SumOver(v, S) \in Nat
           /\ SumOver(v, {}) = 0
           /\ \A x \in S : SumOver(v, S) = v[x] + SumOver(v, S \ {x})
<1>1. PICK g : Adds(g, v, S) /\ SumOver(v, S) = g[S]
  BY SumIsFold
<1>2. \A s \in SUBSET S : g[s] \in Nat
  BY <1>1, AddsNat
<1>3. SumOver(v, {}) = 0
  <2>1. PICK h : Adds(h, v, {}) /\ SumOver(v, {}) = h[{}]
    BY SumIsFold, FS_EmptySet
  <2> QED BY <2>1 DEF Adds
<1>4. ASSUME NEW x \in S PROVE SumOver(v, S) = v[x] + SumOver(v, S \ {x})
  <2>1. IsFiniteSet(S \ {x}) /\ S \ {x} \in SUBSET S
    BY FS_Subset
  <2>2. PICK h : Adds(h, v, S \ {x}) /\ SumOver(v, S \ {x}) = h[S \ {x}]
    BY <2>1, SumIsFold
  <2>3. h[S \ {x}] = g[S \ {x}]
    <3> DEFINE D == S \ {x}
    <3>1. IsFiniteSet(D) /\ D \in SUBSET D /\ D \in SUBSET S /\ Adds(h, v, D)
      BY <2>1, <2>2
    <3> HIDE DEF D
    <3>2. \A s \in SUBSET D : s \in SUBSET S => h[s] = g[s]
      BY <1>1, <3>1, AddsSame
    <3>3. h[D] = g[D]
      BY <3>1, <3>2
    <3> QED BY <3>3 DEF D
  <2>4. g[S] = v[x] + g[S \ {x}]
    BY <1>1, AddsRemove
  <2> QED BY <1>1, <2>2, <2>3, <2>4
<1> QED BY <1>1, <1>2, <1>3, <1>4

(* The sum depends on the values on the set.                               *)
LEMMA SumSame ==
    ASSUME NEW S, IsFiniteSet(S), NEW v, NEW w, \A x \in S : v[x] \in Nat /\ w[x] = v[x]
    PROVE  SumOver(v, S) = SumOver(w, S)
<1> DEFINE Q == {s \in SUBSET S : SumOver(v, s) = SumOver(w, s)}
<1>1. ASSUME NEW s \in SUBSET S, \A r \in SUBSET s : r # s => r \in Q
      PROVE  s \in Q
  <2>1. IsFiniteSet(s) /\ (\A x \in s : v[x] \in Nat) /\ \A x \in s : w[x] \in Nat
    BY FS_Subset
  <2>2. CASE s = {}
    <3>1. SumOver(v, {}) = 0 /\ SumOver(w, {}) = 0
      BY <2>1, SumParts
    <3> QED BY <2>2, <3>1
  <2>3. ASSUME NEW x \in s PROVE SumOver(v, s) = SumOver(w, s)
    <3>1. SumOver(v, s) = v[x] + SumOver(v, s \ {x}) /\ SumOver(w, s) = w[x] + SumOver(w, s \ {x})
      BY <2>1, SumParts
    <3>2. s \ {x} \in Q
      BY <1>1
    <3> QED BY <3>1, <3>2
  <2> QED BY <2>2, <2>3
<1> HIDE DEF Q
<1>2. \A s \in SUBSET S : s \in Q
  BY <1>1, SubsetsBySize
<1> QED BY <1>2 DEF Q

-----------------------------------------------------------------------------
(* The page of a card.                                                     *)
Views == [at : {"idle", "balance", "listings", "shown"}, card : Nat, user : Holders \cup {Nobody},
          balances : Loose, amount : Int, free : [Holders -> Nat], sales : SUBSET Sale, moved : BOOLEAN]

UsersSales(live, h) == {s \in live : s.user = h}

FreeOf(balances, live, i) == Max({0, balances[i].amount - Cardinality(UsersSales(live, balances[i].user))})

LEMMA LargerThanNone ==
    ASSUME NEW n \in Int
    PROVE  Max({0, n}) = IF n > 0 THEN n ELSE 0
BY DEF Max

(* What of an entry is free; nothing is not shown.                         *)
LEMMA FreeAsSum ==
    ASSUME NEW b \in Loose, NEW live, IsFiniteSet(live), NEW h
    PROVE  LET v == [i \in 1..Len(b) |-> FreeOf(b, live, i)]
           IN  /\ \A i \in 1..Len(b) : v[i] \in Nat
               /\ IsFiniteSet(EntriesOf(b, h)) /\ EntriesOf(b, h) \subseteq 1..Len(b)
               /\ Free(b, live, h) = SumOver(v, EntriesOf(b, h))
<1> DEFINE v == [i \in 1..Len(b) |-> FreeOf(b, live, i)]
           n == Cardinality(UsersSales(live, h))
           E == EntriesOf(b, h)
<1>1. /\ Len(b) \in Nat /\ DOMAIN b = 1..Len(b)
      /\ \A i \in 1..Len(b) : b[i].amount \in Nat
  BY LooseEntries
<1>2. ASSUME NEW u PROVE Cardinality(UsersSales(live, u)) \in Nat
  BY FS_Subset, FS_CardinalityType DEF UsersSales
<1>3. \A i \in 1..Len(b) : FreeOf(b, live, i) \in Nat
  <2>1. ASSUME NEW i \in 1..Len(b) PROVE FreeOf(b, live, i) \in Nat
    <3>1. b[i].amount - Cardinality(UsersSales(live, b[i].user)) \in Int
      BY <1>1, <1>2
    <3> QED BY <3>1, LargerThanNone DEF FreeOf
  <2> QED BY <2>1
<1>4. IsFiniteSet(E) /\ E \subseteq 1..Len(b)
  <2>1. E \subseteq 1..Len(b)
    BY <1>1 DEF EntriesOf
  <2> QED BY <1>1, <2>1, UpTo, FS_Subset
<1>5. \A i \in E : b[i].user = h /\ v[i] = Max({0, b[i].amount - n})
  BY <1>4 DEF EntriesOf, FreeOf
<1>6. Free(b, live, h) = SumOver([i \in E |-> Max({0, b[i].amount - n})], E)
  <2> DEFINE F(g) == g = [s \in SUBSET E |->
                            IF s = {} THEN 0
                            ELSE Max({0, b[CHOOSE x \in s : TRUE].amount - n})
                                   + g[s \ {CHOOSE x \in s : TRUE}]]
             w == [i \in E |-> Max({0, b[i].amount - n})]
  <2>1. \A g : Adds(g, w, E) <=> F(g)
    <3> SUFFICES ASSUME NEW g PROVE Adds(g, w, E) <=> F(g)
      OBVIOUS
    <3>1. \A s \in SUBSET E : s # {} =>
            w[CHOOSE x \in s : TRUE] = Max({0, b[CHOOSE x \in s : TRUE].amount - n})
      OBVIOUS
    <3> HIDE DEF w, E, n
    <3> QED BY <3>1 DEF Adds
  <2>2. Free(b, live, h) = (CHOOSE g : F(g))[E]
    BY DEF Free, MapThenSumSet, MapThenFoldSet, UsersSales
  <2> HIDE DEF w, F, E, n
  <2>3. F(CHOOSE g : F(g))
    BY <1>4, <2>1, AddsExists
  <2>4. PICK g : Adds(g, w, E) /\ SumOver(w, E) = g[E]
    BY <1>4, SumIsFold
  <2>5. Adds(CHOOSE k : F(k), w, E)
    BY <2>1, <2>3
  <2>6. (CHOOSE k : F(k))[E] = g[E]
    BY <1>4, <2>4, <2>5, AddsSame
  <2> QED BY <2>2, <2>4, <2>6 DEF w
<1>7. SumOver(v, E) = SumOver([i \in E |-> Max({0, b[i].amount - n})], E)
  <2> DEFINE w == [i \in E |-> Max({0, b[i].amount - n})]
  <2>1. \A i \in E : w[i] = v[i]
    BY <1>5
  <2>2. \A i \in E : v[i] \in Nat
    BY <1>3, <1>4
  <2> HIDE DEF v, w, E
  <2>3. SumOver(v, E) = SumOver(w, E)
    BY <1>4, <2>1, <2>2, SumSame
  <2> QED BY <2>3 DEF w
<1> QED BY <1>3, <1>4, <1>6, <1>7

(* For a tidy card whose live sales are covered, a holder at a time: what  *)
(* is free of his entry and his sales make its amount.                     *)
LEMMA FreeOfTidy ==
    ASSUME NEW b, Tidy(b), NEW live, IsFiniteSet(live), NEW h \in Holders,
           Cardinality(UsersSales(live, h)) <= AmountOf(b, h)
    PROVE  /\ Cardinality(UsersSales(live, h)) \in Nat /\ AmountOf(b, h) \in Nat /\ Free(b, live, h) \in Nat
           /\ Free(b, live, h) + Cardinality(UsersSales(live, h)) = AmountOf(b, h)
<1> DEFINE v == [i \in 1..Len(b) |-> FreeOf(b, live, i)]
           n == Cardinality(UsersSales(live, h))
           E == EntriesOf(b, h)
<1>1. n \in Nat
  BY FS_Subset, FS_CardinalityType DEF UsersSales
<1>2. b \in Loose
  BY TidyIsLoose
<1>3. /\ DOMAIN b = 1..Len(b) /\ AmountOf(b, h) \in Nat
      /\ \A i \in 1..Len(b) : AmountOf(b, b[i].user) = b[i].amount
      /\ \/ AmountOf(b, h) = 0 /\ \A i \in 1..Len(b) : b[i].user # h
         \/ \E i \in 1..Len(b) : b[i].user = h
  BY TidyEntries
<1>4. (\A i \in 1..Len(b) : v[i] \in Nat) /\ IsFiniteSet(E) /\ E \subseteq 1..Len(b) /\ Free(b, live, h) = SumOver(v, E)
  BY <1>2, FreeAsSum
<1>5. CASE \A i \in 1..Len(b) : b[i].user # h
  <2>1. E = {} /\ AmountOf(b, h) = 0
    BY <1>3, <1>5 DEF EntriesOf
  <2> HIDE DEF v
  <2>2. Free(b, live, h) = 0
    BY <1>4, <2>1, SumParts, FS_EmptySet
  <2>3. n = 0
    BY <1>1, <2>1
  <2> QED BY <1>1, <2>1, <2>2, <2>3
<1>6. CASE \E i \in 1..Len(b) : b[i].user = h
  <2>1. PICK i \in 1..Len(b) : b[i].user = h
    BY <1>6
  <2>2. E = {i}
    BY <1>3, <2>1 DEF Tidy, EntriesOf
  <2>3. v[i] = Max({0, AmountOf(b, h) - n})
    BY <1>3, <2>1 DEF FreeOf
  <2>4. v[i] = AmountOf(b, h) - n
    BY <1>1, <1>3, <2>3, LargerThanNone
  <2> HIDE DEF v, E, n
  <2>5. SumOver(v, E) = v[i] + SumOver(v, {}) /\ SumOver(v, {}) = 0
    <3>1. E \ {i} = {} /\ i \in E /\ IsFiniteSet(E) /\ \A x \in E : v[x] \in Nat
      BY <1>4, <2>2
    <3>2. SumOver(v, E) = v[i] + SumOver(v, E \ {i}) /\ SumOver(v, {}) = 0
      BY <3>1, SumParts
    <3> QED BY <3>1, <3>2
  <2> QED BY <1>1, <1>3, <1>4, <2>4, <2>5 DEF n
<1> QED BY <1>1, <1>3, <1>5, <1>6

(* All together: the sales and what is free make the balances.             *)
SalesOf(live, W) == {s \in live : s.user \in W}

EntriesOfAll(b, W) == {i \in 1..Len(b) : b[i].user \in W}

LEMMA FreeAddsUp ==
    ASSUME NEW b, Tidy(b), NEW live, IsFiniteSet(live),
           \A h \in Holders : Cardinality(UsersSales(live, h)) <= AmountOf(b, h),
           NEW free, \A h \in Holders : free[h] = Free(b, live, h),
           NEW amount, \A i \in 1..Len(b) : amount[i] = b[i].amount
    PROVE  \A W \in SUBSET Holders :
              SumOver(free, W) + Cardinality(SalesOf(live, W)) = SumOver(amount, EntriesOfAll(b, W))
<1> DEFINE Q == {W \in SUBSET Holders :
                   SumOver(free, W) + Cardinality(SalesOf(live, W)) = SumOver(amount, EntriesOfAll(b, W))}
<1>1. IsFiniteSet(Holders)
  BY SyncAssumption
<1>2. /\ Len(b) \in Nat /\ DOMAIN b = 1..Len(b)
      /\ \A i \in 1..Len(b) : b[i].user \in Holders /\ amount[i] \in Nat /\ AmountOf(b, b[i].user) = amount[i]
      /\ \A h : \/ AmountOf(b, h) = 0 /\ \A i \in 1..Len(b) : b[i].user # h
                \/ \E i \in 1..Len(b) : b[i].user = h
  BY TidyEntries
<1>3. \A h \in Holders : /\ Cardinality(UsersSales(live, h)) \in Nat /\ AmountOf(b, h) \in Nat /\ free[h] \in Nat
                         /\ free[h] + Cardinality(UsersSales(live, h)) = AmountOf(b, h)
  BY FreeOfTidy
<1>4. ASSUME NEW W
      PROVE  /\ IsFiniteSet(SalesOf(live, W)) /\ Cardinality(SalesOf(live, W)) \in Nat
             /\ IsFiniteSet(EntriesOfAll(b, W)) /\ EntriesOfAll(b, W) \subseteq 1..Len(b)
  <2>1. IsFiniteSet(SalesOf(live, W)) /\ Cardinality(SalesOf(live, W)) \in Nat
    BY FS_Subset, FS_CardinalityType DEF SalesOf
  <2>2. EntriesOfAll(b, W) \subseteq 1..Len(b)
    BY DEF EntriesOfAll
  <2>3. IsFiniteSet(1..Len(b))
    BY <1>2, UpTo
  <2>4. IsFiniteSet(EntriesOfAll(b, W))
    BY <2>2, <2>3, FS_Subset
  <2> QED BY <2>1, <2>2, <2>4
<1>5. ASSUME NEW W \in SUBSET Holders, \A U \in SUBSET W : U # W => U \in Q
      PROVE  W \in Q
  <2>1. CASE W = {}
    <3>1. SalesOf(live, W) = {} /\ EntriesOfAll(b, W) = {}
      BY <2>1 DEF SalesOf, EntriesOfAll
    <3>2. SumOver(free, {}) = 0 /\ SumOver(amount, {}) = 0 /\ Cardinality({}) = 0
      BY SumParts, FS_EmptySet
    <3>3. SumOver(free, W) = 0 /\ Cardinality(SalesOf(live, W)) = 0 /\ SumOver(amount, EntriesOfAll(b, W)) = 0
      BY <2>1, <3>1, <3>2
    <3> QED BY <3>3
  <2>2. ASSUME NEW h \in W
        PROVE  SumOver(free, W) + Cardinality(SalesOf(live, W)) = SumOver(amount, EntriesOfAll(b, W))
    <3> DEFINE U == W \ {h}
    <3>1. U \in SUBSET W /\ U # W /\ h \in Holders /\ U \in SUBSET Holders /\ U = W \ {h}
      OBVIOUS
    <3> HIDE DEF U
    <3>2. SumOver(free, U) + Cardinality(SalesOf(live, U)) = SumOver(amount, EntriesOfAll(b, U))
      <4>1. U \in Q
        BY <1>5, <3>1
      <4> QED BY <4>1
    <3>3. IsFiniteSet(W) /\ \A x \in W : free[x] \in Nat
      BY <1>1, <1>3, FS_Subset
    <3>4. SumOver(free, W) = free[h] + SumOver(free, U)
      BY <3>1, <3>3, SumParts
    <3>5. SumOver(free, U) \in Nat
      <4>1. IsFiniteSet(U) /\ \A x \in U : free[x] \in Nat
        BY <3>1, <3>3, FS_Subset
      <4> QED BY <4>1, SumParts
    <3>6. Cardinality(SalesOf(live, W)) = Cardinality(UsersSales(live, h)) + Cardinality(SalesOf(live, U))
      <4>1. /\ SalesOf(live, W) = UsersSales(live, h) \cup SalesOf(live, U)
            /\ UsersSales(live, h) \cap SalesOf(live, U) = {}
        BY <3>1 DEF SalesOf, UsersSales
      <4>2. IsFiniteSet(UsersSales(live, h)) /\ IsFiniteSet(SalesOf(live, U))
        BY <1>4, FS_Subset DEF UsersSales
      <4>3. Cardinality({}) = 0
        BY FS_EmptySet
      <4>4. Cardinality(UsersSales(live, h)) \in Nat /\ Cardinality(SalesOf(live, U)) \in Nat
        BY <4>2, FS_CardinalityType
      <4>5. Cardinality(UsersSales(live, h) \cup SalesOf(live, U))
              = Cardinality(UsersSales(live, h)) + Cardinality(SalesOf(live, U))
                  - Cardinality(UsersSales(live, h) \cap SalesOf(live, U))
        BY <4>2, FS_Union
      <4>6. Cardinality(UsersSales(live, h) \cap SalesOf(live, U)) = 0
        BY <4>1, <4>3
      <4>7. Cardinality(SalesOf(live, W)) = Cardinality(UsersSales(live, h) \cup SalesOf(live, U))
        BY <4>1
      <4> QED BY <4>4, <4>5, <4>6, <4>7
    <3>7. SumOver(amount, EntriesOfAll(b, W)) = AmountOf(b, h) + SumOver(amount, EntriesOfAll(b, U))
      <4>1. CASE \A i \in 1..Len(b) : b[i].user # h
        <5>1. EntriesOfAll(b, W) = EntriesOfAll(b, U)
          BY <3>1, <4>1 DEF EntriesOfAll
        <5>2. AmountOf(b, h) = 0
          BY <1>2, <4>1
        <5>3. SumOver(amount, EntriesOfAll(b, U)) \in Nat
          <6>1. IsFiniteSet(EntriesOfAll(b, U)) /\ \A x \in EntriesOfAll(b, U) : amount[x] \in Nat
            BY <1>2, <1>4
          <6> QED BY <6>1, SumParts
        <5> QED BY <5>1, <5>2, <5>3
      <4>2. CASE \E i \in 1..Len(b) : b[i].user = h
        <5>1. PICK i \in 1..Len(b) : b[i].user = h
          BY <4>2
        <5>2. i \in EntriesOfAll(b, W) /\ EntriesOfAll(b, W) \ {i} = EntriesOfAll(b, U)
          BY <1>2, <3>1, <5>1 DEF EntriesOfAll, Tidy
        <5>3. IsFiniteSet(EntriesOfAll(b, W)) /\ \A x \in EntriesOfAll(b, W) : amount[x] \in Nat
          BY <1>2, <1>4
        <5>4. SumOver(amount, EntriesOfAll(b, W)) = amount[i] + SumOver(amount, EntriesOfAll(b, W) \ {i})
          BY <5>2, <5>3, SumParts
        <5> QED BY <1>2, <5>1, <5>2, <5>4
      <4> QED BY <4>1, <4>2
    <3>8. SumOver(amount, EntriesOfAll(b, U)) \in Nat /\ Cardinality(SalesOf(live, U)) \in Nat
      BY <1>4, <3>2, <3>5
    <3> QED BY <1>3, <3>1, <3>2, <3>4, <3>5, <3>6, <3>7, <3>8
  <2> QED BY <2>1, <2>2
<1> HIDE DEF Q
<1>6. \A W \in SUBSET Holders : W \in Q
  BY <1>1, <1>5, SubsetsBySize
<1> QED BY <1>6 DEF Q

(* The reading actions.                                                    *)
LEMMA WalkNext ==
    ASSUME SyncInv, MarketInv, SyncInv', MarketInv', WalkInv, [ListsNext]_allVars
    PROVE  WalkInv'
<1>1. CASE Next /\ Track
  BY <1>1, WalkTracks
<1>2. CASE \E list \in Lists : BeginWalk(list)
  BY <1>2, WalkBegins
<1>3. CASE UNCHANGED <<walk, cards, sales, ids>>
  BY <1>3, WalkSame
<1>4. CASE GetCards
  <2>1. walk.at = "page" /\ walk.list \in CardLists /\ UNCHANGED <<cards, sales, ids>>
    BY <1>4 DEF GetCards, vars, db
  <2>2. PICK q \in Sorted(walk.list, Find(walk.list, cards)) :
          walk' = [walk EXCEPT !.at = "count", !.page = Page(q, walk.offset)]
    BY <1>4 DEF GetCards
  <2>3. q \in Sorted(walk.list, Current)
    BY <2>1, <2>2 DEF Current, Matches
  <2> QED BY <2>1, <2>2, <2>3, WalkReads
<1>5. CASE GetCardsIdsBySortingPrice
  <2>1. walk.at = "page" /\ walk.list \in SaleLists /\ UNCHANGED <<cards, sales, ids>>
    BY <1>5 DEF GetCardsIdsBySortingPrice, vars, db
  <2>2. Current = FindBySales(walk.list, cards, sales)
    BY <2>1 DEF Current, Matches, SaleLists, CardLists
  <2>3. PICK q \in Sorted(walk.list, FindBySales(walk.list, cards, sales)) :
          walk' = [walk EXCEPT !.at = "cards", !.page = Page(q, walk.offset),
                               !.total = Cardinality(FindBySales(walk.list, cards, sales))]
    BY <1>5 DEF GetCardsIdsBySortingPrice
  <2> QED BY <2>1, <2>2, <2>3, WalkReads
<1>6. CASE GetCardsCount
  <2>1. walk.at = "count" /\ UNCHANGED <<cards, sales, ids>>
    BY <1>6 DEF GetCardsCount, vars, db
  <2>2. walk.list \in CardLists /\ walk.page \in Seq(Nat)
    BY <2>1 DEF WalkInv, WalkState, WalkShape, Walks
  <2>3. Current = Find(walk.list, cards) /\ IsFiniteSet(Current) /\ Cardinality(Current) \in Nat
    BY <2>2, MatchesNow, FS_CardinalityType DEF Current, Matches, MatchedIn
  <2>4. Deliver(walk.page, Cardinality(Current))
    BY <1>6, <2>3 DEF GetCardsCount
  <2>5. PartOf(walk.page, walk.page, Current)
    BY DEF PartOf
  <2> QED BY <2>1, <2>2, <2>3, <2>4, <2>5, WalkDelivers
<1>7. CASE GetCardsByIds
  <2> DEFINE there == StillThere(walk.page)
  <2>1. walk.at = "cards" /\ UNCHANGED <<cards, sales, ids>>
    BY <1>7 DEF GetCardsByIds, vars, db
  <2>2. walk.page \in Seq(Nat) /\ walk.total \in Nat /\ walk \in Walks
    BY DEF WalkInv, WalkState, WalkShape, Walks
  <2>3. /\ there \in Seq(Nat)
        /\ \A id : Lies(there, id) <=> Lies(walk.page, id) /\ id \in CardIds
        /\ \A id : Single(walk.page, id) => Single(there, id)
    BY <2>2, StillThereOnce
  <2>4. \A m \in Current : m.id \in CardIds
    BY MatchesNow DEF Current, MatchedIn, CardIds
  <2> HIDE DEF there
  <2>5. PartOf(there, walk.page, Current)
    BY <2>3, <2>4 DEF PartOf
  <2>6. walk' = [walk EXCEPT !.at = "failed"] \/ Deliver(there, walk.total)
    BY <1>7 DEF GetCardsByIds, there
  <2>7. CASE Deliver(there, walk.total)
    BY <2>1, <2>2, <2>3, <2>5, <2>7, WalkDelivers
  <2>8. CASE walk' = [walk EXCEPT !.at = "failed"]
    <3>1. /\ walk' \in Walks /\ walk'.at = "failed" /\ walk'.list = walk.list
          /\ walk'.page = walk.page /\ walk'.shown = walk.shown
      BY <2>2, <2>8 DEF Walks
    <3> QED BY <2>1, <3>1 DEF WalkInv, WalkState, WalkShape, Walking
  <2> QED BY <2>6, <2>7, <2>8
<1>8. CASE WalkEnds
  <2>1. walk' = NoWalk
    BY <1>8 DEF WalkEnds
  <2>2. NoWalk \in Walks /\ NoWalk.at = "idle" /\ NoWalk.list = "all" /\ NoWalk.page = <<>> /\ NoWalk.shown = <<>>
    BY DEF NoWalk, Walks, AllLists, CardLists
  <2> QED BY <2>1, <2>2, NothingLies DEF WalkInv, WalkState, WalkShape, Walking
<1>9. (\E t \in Tokens, h \in Holders : GetCard(t, h)) => UNCHANGED <<walk, cards, sales, ids>>
  BY DEF GetCard, db
<1>10. FindBalanceByUserId \/ GetListingsByCard \/ ViewEnds => UNCHANGED <<walk, cards, sales, ids>>
  BY DEF FindBalanceByUserId, GetListingsByCard, ViewEnds, vars, db
<1>11. UNCHANGED allVars => UNCHANGED <<walk, cards, sales, ids>>
  BY DEF allVars, reader, vars, db
<1> QED BY <1>1, <1>2, <1>3, <1>4, <1>5, <1>6, <1>7, <1>8, <1>9, <1>10, <1>11 DEF ListsNext, ReadStep

(* What a walk that has ended promises.                                    *)
LEMMA WalkIsComplete ==
    ASSUME WalkInv, walk.at = "ended"
    PROVE  NothingMissed /\ NothingTwice
<1>1. /\ walk \in Walks /\ walk.page = <<>> /\ Complete(walk)
      /\ walk.start \subseteq Found /\ walk.shown \in Seq(Nat)
  BY WalkFields DEF WalkInv, WalkState, WalkShape
<1>2. /\ Len(walk.shown) \in Nat /\ DOMAIN walk.shown = 1..Len(walk.shown)
      /\ \A i \in 1..Len(walk.shown) : walk.shown[i] \in Nat
  BY <1>1, LenProperties, ElementOfSeq
<1>3. \A m, n : Tied(m, n) <=> Level(walk.list, m, n)
  BY DEF Tied, Level
<1>4. ASSUME NEW m \in walk.start \ walk.gone,
             ~ \E n \in walk.gone : ~Before(walk.list, m, n),
             ~ \E n \in walk.start \cup walk.entered : Tied(m, n)
      PROVE  m.id \in Range(walk.shown)
  <2>1. Firm(walk, m) /\ m \in Found
    BY <1>1, <1>3, <1>4 DEF Firm
  <2>2. Lies(walk.shown, m.id)
    BY <1>1, <2>1, NothingLies DEF Complete, Has
  <2> QED BY <1>2, <2>2 DEF Lies, Range
<1>5. ASSUME NEW i \in DOMAIN walk.shown, NEW j \in DOMAIN walk.shown, i < j, walk.shown[i] = walk.shown[j],
             ~ \E m \in {x \in walk.start \cup walk.entered : x.id = walk.shown[i]} :
                  \/ \E n \in walk.entered : ~Before(walk.list, m, n)
                  \/ \E n \in walk.start : Tied(m, n)
      PROVE  FALSE
  <2>1. Sole(walk, walk.shown[i])
    BY <1>3, <1>5 DEF Sole
  <2>2. Single(walk.shown, walk.shown[i])
    BY <1>1, <1>2, <2>1 DEF Complete, Once
  <2>3. i = j /\ i \in Nat
    BY <1>2, <1>5, <2>2 DEF Single
  <2> QED BY <1>5, <2>3
<1>6. NothingMissed
  BY <1>4 DEF NothingMissed
<1>7. NothingTwice
  BY <1>5 DEF NothingTwice
<1> QED BY <1>6, <1>7

LEMMA LooseAmount ==
    ASSUME NEW b \in Loose, NEW h
    PROVE  AmountOf(b, h) \in Nat
<1> DEFINE at == {i \in DOMAIN b : b[i].user = h}
<1>1. Len(b) \in Nat /\ DOMAIN b = 1..Len(b) /\ \A i \in 1..Len(b) : b[i].amount \in Nat
  BY LooseEntries
<1>2. CASE at = {}
  BY <1>2 DEF AmountOf
<1>3. CASE at # {}
  <2>1. at \subseteq 1..Len(b) /\ at \subseteq Nat
    BY <1>1
  <2>2. IsFiniteSet(at)
    BY <1>1, <2>1, UpTo, FS_Subset
  <2>3. AmountOf(b, h) = b[Min(at)].amount
    BY <1>3 DEF AmountOf
  <2> HIDE DEF at
  <2>4. Min(at) \in at
    BY <1>3, <2>1, <2>2, Least
  <2> QED BY <1>1, <2>1, <2>3, <2>4
<1> QED BY <1>2, <1>3

LEMMA AmountsAsSum ==
    ASSUME NEW b
    PROVE  MapThenSumSet(LAMBDA i : b[i].amount, DOMAIN b) = SumOver([i \in DOMAIN b |-> b[i].amount], DOMAIN b)
<1> DEFINE D == DOMAIN b
           v == [i \in D |-> b[i].amount]
           F(g) == g = [s \in SUBSET D |->
                          IF s = {} THEN 0
                          ELSE b[CHOOSE x \in s : TRUE].amount + g[s \ {CHOOSE x \in s : TRUE}]]
<1>1. \A g : Adds(g, v, D) <=> F(g)
  <2> SUFFICES ASSUME NEW g PROVE Adds(g, v, D) <=> F(g)
    OBVIOUS
  <2>1. \A s \in SUBSET D : s # {} => v[CHOOSE x \in s : TRUE] = b[CHOOSE x \in s : TRUE].amount
    OBVIOUS
  <2> HIDE DEF v, D
  <2> QED BY <2>1 DEF Adds
<1>2. MapThenSumSet(LAMBDA i : b[i].amount, D) = (CHOOSE g : F(g))[D]
  BY DEF MapThenSumSet, MapThenFoldSet
<1>3. SumOver(v, D) = (CHOOSE g : Adds(g, v, D))[D]
  BY DEF SumOver, MapThenSumSet, MapThenFoldSet, Adds
<1> HIDE DEF v, F
<1>4. (CHOOSE g : Adds(g, v, D)) = (CHOOSE g : F(g))
  BY <1>1
<1> QED BY <1>2, <1>3, <1>4 DEF v

(* What a client who looks at a card knows of it, unless it moved.         *)
ViewKnows ==
    /\ CardAt(cards, view.card) = {view.balances}
    /\ view.at = "listings" => view.amount = AmountOf(view.balances, view.user) - OnSale(view.card, view.user)

ViewInv ==
    /\ view \in Views /\ view.card \in 0..ids.card
    /\ view.at \in {"balance", "listings"} =>
         view.card # 0 /\ view.user \in Holders /\ (~view.moved => ViewKnows)

LEMMA NoViewTyped == NoView \in Views /\ NoView.at = "idle" /\ NoView.card = 0
<1>1. <<>> \in Loose
  BY DEF Loose
<1> QED BY <1>1 DEF NoView, Views

LEMMA ViewInit == ListsInit => ViewInv
<1> SUFFICES ASSUME ListsInit PROVE ViewInv
  OBVIOUS
<1>1. view = NoView /\ SyncInv
  BY SyncInit DEF ListsInit
<1>2. ids.card \in Nat
  BY <1>1 DEF SyncInv, CardsInv
<1> QED BY <1>1, <1>2, NoViewTyped DEF ViewInv

LEMMA OnSaleNat ==
    ASSUME MarketInv, NEW id, NEW h
    PROVE  OnSale(id, h) \in Nat
BY FS_Subset, FS_CardinalityType DEF MarketInv, SalesOK, OnSale

LEMMA ViewTracks ==
    ASSUME SyncInv, ViewInv, Next, Track
    PROVE  ViewInv'
<1>1. ids'.card \in Nat /\ ids.card \in Nat /\ ids'.card >= ids.card
  BY IdsGiven
<1>2. \A id \in 0..ids.card : id \in 0..ids'.card
  BY <1>1
<1>3. CASE view.at \notin {"balance", "listings"}
  <2>1. view' = view
    BY <1>3 DEF Track
  <2> QED BY <1>2, <1>3, <2>1 DEF ViewInv
<1>4. CASE view.at \in {"balance", "listings"}
  <2> DEFINE differs == \/ CardAt(cards', view.card) # CardAt(cards, view.card)
                        \/ SalesAtCard(sales', view.card) # SalesAtCard(sales, view.card)
  <2>1. view' = [view EXCEPT !.moved = (@ \/ differs)]
    BY <1>4 DEF Track
  <2>2. view \in Views
    BY DEF ViewInv
  <2> HIDE DEF differs
  <2>3. /\ view'.at = view.at /\ view'.card = view.card /\ view'.user = view.user
        /\ view'.balances = view.balances /\ view'.amount = view.amount
        /\ view'.moved = (view.moved \/ differs)
    BY <2>1, <2>2 DEF Views
  <2>4. view' \in Views
    BY <2>1, <2>2 DEF Views
  <2>5. ASSUME ~view'.moved PROVE ViewKnows'
    <3>1. /\ ~view.moved
          /\ CardAt(cards', view.card) = CardAt(cards, view.card)
          /\ SalesAtCard(sales', view.card) = SalesAtCard(sales, view.card)
      BY <2>3, <2>5 DEF differs
    <3>2. ViewKnows
      BY <1>4, <3>1 DEF ViewInv
    <3>3. \A h : {s \in sales' : s.card = view.card /\ s.user = h} = {s \in sales : s.card = view.card /\ s.user = h}
      BY <3>1 DEF SalesAtCard
    <3>4. OnSale(view.card, view.user)' = OnSale(view.card, view.user)
      BY <2>3, <3>3 DEF OnSale
    <3> QED BY <2>3, <3>1, <3>2, <3>4 DEF ViewKnows
  <2> QED BY <1>2, <1>4, <2>3, <2>4, <2>5 DEF ViewInv
<1> QED BY <1>3, <1>4

LEMMA ViewSame ==
    ASSUME ViewInv, UNCHANGED <<view, cards, sales, ids>>
    PROVE  ViewInv'
BY DEF ViewInv, ViewKnows, OnSale

LEMMA ViewEnded ==
    ASSUME SyncInv, view' = NoView, UNCHANGED ids
    PROVE  ViewInv'
<1>1. ids'.card \in Nat
  BY DEF SyncInv, CardsInv
<1> QED BY <1>1, NoViewTyped DEF ViewInv

LEMMA ViewStarts ==
    ASSUME SyncInv, MarketInv, ViewInv, NEW t \in Tokens, NEW h \in Holders, GetCard(t, h)
    PROVE  ViewInv'
<1> DEFINE id == cards[t].id
           bal == cards[t].balances
<1>1. /\ cards[t] # NoCard /\ UNCHANGED <<cards, sales, ids>>
      /\ view' = [NoView EXCEPT !.at = "balance", !.card = id, !.user = h, !.balances = bal]
  BY DEF GetCard, db
<1>2. id \in 1..ids.card /\ id \in Nat /\ ids.card \in Nat
  BY <1>1 DEF SyncInv, CardsInv
<1>3. bal \in Loose
  BY DEF MarketInv, CardsOK
<1>4. CardAt(cards, id) = {bal}
  <2>1. {x \in Tokens : cards[x].id = id} = {t}
    BY <1>1 DEF SyncInv, CardsInv
  <2> QED BY <2>1 DEF CardAt
<1> HIDE DEF id, bal
<1>5. view'.at = "balance" /\ view'.card = id /\ view'.user = h /\ view'.balances = bal
  BY <1>1 DEF NoView
<1>6. view' \in Views
  BY <1>1, <1>2, <1>3, NoViewTyped DEF Views
<1>7. CardAt(cards', view'.card) = {view'.balances}
  BY <1>1, <1>4, <1>5
<1> QED BY <1>1, <1>2, <1>5, <1>6, <1>7 DEF ViewInv, ViewKnows

LEMMA ViewBalance ==
    ASSUME SyncInv, MarketInv, ViewInv, FindBalanceByUserId
    PROVE  ViewInv'
<1>1. view.at = "balance" /\ UNCHANGED <<cards, sales, ids>>
  BY DEF FindBalanceByUserId, vars, db
<1>2. \/ view' = NoView
      \/ view' = [view EXCEPT !.at = "listings",
                              !.amount = AmountOf(view.balances, view.user) - OnSale(view.card, view.user)]
  BY DEF FindBalanceByUserId
<1>3. CASE view' = NoView
  BY <1>1, <1>3, ViewEnded
<1>4. CASE view' = [view EXCEPT !.at = "listings",
                                !.amount = AmountOf(view.balances, view.user) - OnSale(view.card, view.user)]
  <2>1. view \in Views /\ view.balances \in Loose
    BY DEF ViewInv, Views
  <2>2. AmountOf(view.balances, view.user) - OnSale(view.card, view.user) \in Int
    BY <2>1, LooseAmount, OnSaleNat
  <2>3. /\ view'.at = "listings" /\ view'.card = view.card /\ view'.user = view.user
        /\ view'.balances = view.balances /\ view'.moved = view.moved
        /\ view'.amount = AmountOf(view.balances, view.user) - OnSale(view.card, view.user)
    BY <1>4, <2>1 DEF Views
  <2>4. view' \in Views
    BY <1>4, <2>1, <2>2 DEF Views
  <2>5. OnSale(view.card, view.user)' = OnSale(view.card, view.user)
    BY <1>1, <2>3 DEF OnSale
  <2>6. ~view.moved => ViewKnows'
    BY <1>1, <2>3, <2>5 DEF ViewInv, ViewKnows
  <2> QED BY <1>1, <2>3, <2>4, <2>6 DEF ViewInv
<1> QED BY <1>2, <1>3, <1>4

LiveAt(id) == {s \in Live(sales) : s.card = id}

LEMMA LiveAtTyped ==
    ASSUME MarketInv, NEW id
    PROVE  IsFiniteSet(LiveAt(id)) /\ LiveAt(id) \subseteq Sale
<1>1. LiveAt(id) \subseteq sales
  BY DEF LiveAt, Live
<1> QED BY <1>1, FS_Subset DEF MarketInv, SalesOK

LEMMA ViewListings ==
    ASSUME SyncInv, MarketInv, ViewInv, GetListingsByCard
    PROVE  ViewInv'
<1> DEFINE live == LiveAt(view.card)
           free == [h \in Holders |-> Free(view.balances, live, h)]
<1>1. /\ view.at = "listings" /\ UNCHANGED <<cards, sales, ids>>
      /\ view' = [view EXCEPT !.at = "shown", !.sales = live, !.free = free]
  BY DEF GetListingsByCard, LiveAt, vars, db
<1>2. view \in Views /\ view.balances \in Loose
  BY DEF ViewInv, Views
<1>3. IsFiniteSet(live) /\ live \subseteq Sale
  BY LiveAtTyped
<1> HIDE DEF live
<1>4. \A h \in Holders : Free(view.balances, live, h) \in Nat
  <2>1. ASSUME NEW h \in Holders PROVE Free(view.balances, live, h) \in Nat
    <3> DEFINE b == view.balances
               v == [i \in 1..Len(b) |-> FreeOf(b, live, i)]
    <3>1. b \in Loose
      BY <1>2
    <3> HIDE DEF b
    <3>2. /\ \A i \in 1..Len(b) : v[i] \in Nat
          /\ IsFiniteSet(EntriesOf(b, h)) /\ EntriesOf(b, h) \subseteq 1..Len(b)
          /\ Free(b, live, h) = SumOver(v, EntriesOf(b, h))
      BY <1>3, <3>1, FreeAsSum
    <3> HIDE DEF v
    <3>3. Free(b, live, h) \in Nat
      <4>1. \A i \in EntriesOf(b, h) : v[i] \in Nat
        BY <3>2
      <4> QED BY <3>2, <4>1, SumParts
    <3> QED BY <3>3 DEF b
  <2> QED BY <2>1
<1>5. free \in [Holders -> Nat]
  BY <1>4
<1> HIDE DEF free
<1>6. view'.at = "shown" /\ view'.card = view.card
  BY <1>1, <1>2 DEF Views
<1>7. view' \in Views
  BY <1>1, <1>2, <1>3, <1>5 DEF Views
<1> QED BY <1>1, <1>6, <1>7 DEF ViewInv

LEMMA ViewNext ==
    ASSUME SyncInv, MarketInv, ViewInv, [ListsNext]_allVars
    PROVE  ViewInv'
<1>1. CASE Next /\ Track
  BY <1>1, ViewTracks
<1>2. CASE \E t \in Tokens, h \in Holders : GetCard(t, h)
  BY <1>2, ViewStarts
<1>3. CASE FindBalanceByUserId \/ GetListingsByCard
  BY <1>3, ViewBalance, ViewListings
<1>4. CASE ViewEnds
  BY <1>4, ViewEnded DEF ViewEnds, vars, db
<1>5. CASE UNCHANGED <<view, cards, sales, ids>>
  BY <1>5, ViewSame
<1>6. (\E list \in Lists : BeginWalk(list)) => UNCHANGED <<view, cards, sales, ids>>
  BY DEF BeginWalk, db
<1>7. GetCards \/ GetCardsCount \/ GetCardsIdsBySortingPrice \/ GetCardsByIds \/ WalkEnds =>
        UNCHANGED <<view, cards, sales, ids>>
  BY DEF GetCards, GetCardsCount, GetCardsIdsBySortingPrice, GetCardsByIds, WalkEnds, vars, db
<1>8. UNCHANGED allVars => UNCHANGED <<view, cards, sales, ids>>
  BY DEF allVars, reader, vars, db
<1> QED BY <1>1, <1>2, <1>3, <1>4, <1>5, <1>6, <1>7, <1>8 DEF ListsNext, ReadStep

-----------------------------------------------------------------------------
ReaderInv == ImportInv /\ CoveredInv /\ WalkInv /\ ViewInv

LEMMA ReaderInit == ListsInit => ReaderInv
BY ImportInit, CoveredInit, WalkInit, ViewInit DEF ReaderInv, ListsInit

LEMMA ReaderNext == ReaderInv /\ [ListsNext]_allVars => ReaderInv'
<1> SUFFICES ASSUME ReaderInv, [ListsNext]_allVars PROVE ReaderInv'
  OBVIOUS
<1>1. SyncInv /\ MarketInv /\ ImportInv /\ CoveredInv /\ WalkInv /\ ViewInv
  BY DEF ReaderInv, ImportInv
<1>2. ImportInv' /\ CoveredInv'
  BY <1>1, ImportNext, CoveredNext
<1>3. SyncInv' /\ MarketInv'
  BY <1>2 DEF ImportInv
<1>4. WalkInv' /\ ViewInv'
  BY <1>1, <1>3, WalkNext, ViewNext
<1> QED BY <1>2, <1>4 DEF ReaderInv

LEMMA ReaderTypes ==
    ASSUME ReaderInv
    PROVE  ListsTypeOK
<1>1. /\ walk \in Walks /\ walk.list \in Lists \cup {"all"}
      /\ \A id \in Nat : Lies(walk.page, id) \/ Lies(walk.shown, id) => id \in 1..ids.card
      /\ view \in Views /\ view.card \in 0..ids.card
  BY DEF ReaderInv, WalkInv, WalkState, WalkShape, ViewInv
<1>2. /\ walk.at \in {"idle", "page", "count", "cards", "ended", "failed"}
      /\ walk.offset \in Nat /\ walk.total \in Nat /\ walk.page \in Seq(Nat) /\ walk.shown \in Seq(Nat)
  BY <1>1, WalkFields
<1>3. ASSUME NEW p \in Seq(Nat), \A id \in Nat : Lies(p, id) => id \in 1..ids.card
      PROVE  Range(p) \subseteq 1..ids.card
  <2>1. DOMAIN p = 1..Len(p) /\ \A i \in 1..Len(p) : p[i] \in Nat
    BY LenProperties, ElementOfSeq
  <2> QED BY <1>3, <2>1 DEF Lies, Range
<1>4. Range(walk.page) \subseteq 1..ids.card /\ Range(walk.shown) \subseteq 1..ids.card
  BY <1>1, <1>2, <1>3
<1>5. view.at \in {"idle", "balance", "listings", "shown"} /\ view.free \in [Holders -> Nat]
  BY <1>1 DEF Views
<1> QED BY <1>1, <1>2, <1>4, <1>5 DEF ListsTypeOK

(* The walk of a list of cards, of a user's or sorted by price, page by    *)
(* page while sales, fills and imports change it, for any page size, any   *)
(* number of cards and any order of the steps: a card that was in the list *)
(* all along is missed only when one that was not behind it left or had    *)
(* its place, and is shown twice only when one that is not behind it came. *)
THEOREM WalksComplete == ListsSpec => []WalkComplete
<1>1. ReaderInv => WalkComplete
  <2> SUFFICES ASSUME ReaderInv PROVE WalkComplete
    OBVIOUS
  <2>1. walk.at # "ended" => NothingMissed /\ NothingTwice
    BY DEF NothingMissed, NothingTwice
  <2> QED BY <2>1, ReaderTypes, WalkIsComplete DEF ReaderInv, WalkComplete
<1> QED BY <1>1, ReaderInit, ReaderNext, PTL DEF ListsSpec

-----------------------------------------------------------------------------
(* A settled card no import exposed: what is on sale of it is held.        *)
LEMMA HeldOnSale ==
    ASSUME ImportInv, CoveredInv, NEW t \in Tokens, Settled(t), cards[t].id \notin exposed, NEW h \in Holders
    PROVE  /\ Tidy(cards[t].balances) /\ AmountOf(cards[t].balances, h) \in Nat
           /\ Cardinality(LiveSales(sales, cards[t].id, h)) \in Nat
           /\ Cardinality(LiveSales(sales, cards[t].id, h)) <= AmountOf(cards[t].balances, h)
<1>1. Backed(cards[t], apply, sales, req) /\ Tidy(cards[t].balances) /\ IsFiniteSet(sales)
  BY DEF CoveredInv, ImportInv, SettledInv, Orderly, MarketInv, SalesOK
<1>2. Cardinality(LiveSales(sales, cards[t].id, h)) \in Nat /\ AmountOf(cards[t].balances, h) \in Nat
  BY <1>1, LiveFinite, TidyEntries
<1>3. Claims(sales, req, cards[t].id, h) <= AmountOf(cards[t].balances, h)
  BY <1>1 DEF Backed
<1>4. /\ Claims(sales, req, cards[t].id, h) >= Cardinality(LiveSales(sales, cards[t].id, h))
      /\ Claims(sales, req, cards[t].id, h) \in Nat
  BY <1>1, <1>2, LiveFinite DEF Claims
<1> QED BY <1>1, <1>2, <1>3, <1>4

(* Only the read of the cards by their ids fails.                          *)
LEMMA WhoFails ==
    ASSUME WalkInv, [ListsNext]_allVars, walk.at # "failed", walk'.at = "failed"
    PROVE  GetCardsByIds /\ walk.list = "listed"
<1>1. walk \in Walks
  BY DEF WalkInv, WalkState, WalkShape
<1>2. ASSUME NEW v, v = [walk EXCEPT !.at = "failed"] PROVE v.at = "failed"
  BY <1>1, <1>2 DEF Walks
<1>3. CASE Next /\ Track
  <2>1. walk'.at = walk.at
    BY <1>3 DEF Track
  <2> QED BY <2>1
<1>4. CASE \E list \in Lists : BeginWalk(list)
  <2>1. walk'.at = "page"
    BY <1>4 DEF BeginWalk, NoWalk
  <2> QED BY <2>1
<1>5. CASE UNCHANGED walk
  BY <1>5
<1>6. CASE GetCards \/ GetCardsIdsBySortingPrice
  <2>1. walk'.at \in {"count", "cards"}
    BY <1>1, <1>6 DEF GetCards, GetCardsIdsBySortingPrice, Walks
  <2> QED BY <2>1
<1>7. \A page, total : Deliver(page, total) => walk'.at \in {"ended", "page"}
  BY <1>1 DEF Deliver, Walks
<1>8. CASE GetCardsCount
  BY <1>7, <1>8 DEF GetCardsCount
<1>9. CASE GetCardsByIds
  BY <1>7, <1>9 DEF GetCardsByIds
<1>10. CASE WalkEnds
  BY <1>10 DEF WalkEnds, NoWalk
<1>11. (\E t \in Tokens, h \in Holders : GetCard(t, h)) \/ FindBalanceByUserId \/ GetListingsByCard \/ ViewEnds
         \/ UNCHANGED allVars => UNCHANGED walk
  BY DEF GetCard, FindBalanceByUserId, GetListingsByCard, ViewEnds, allVars, reader
<1> QED BY <1>3, <1>4, <1>5, <1>6, <1>8, <1>9, <1>10, <1>11 DEF ListsNext, ReadStep

LEMMA FailsUncovered ==
    ASSUME ReaderInv, [ListsNext]_allVars, walk.at # "failed", walk'.at = "failed",
           NEW id \in Range(walk.page) \cap CardIds, ~Shows(cards[TokenOf(id)].balances, Viewer)
    PROVE  (\E m \in walk.gone : m.id = id) \/ id \in exposed \/ unsettled[TokenOf(id)]
<1> DEFINE t == TokenOf(id)
           b == cards[t].balances
<1>1. SyncInv /\ MarketInv /\ ImportInv /\ CoveredInv /\ WalkInv
  BY DEF ReaderInv, ImportInv
<1>2. walk.at = "cards" /\ walk.list = "listed"
  BY <1>1, WhoFails DEF GetCardsByIds
<1>3. walk.page \in Seq(Nat) /\ Kept(walk, Current)
  BY <1>1, <1>2 DEF WalkInv, WalkState, WalkShape, Walks, Walking
<1>4. id \in Nat /\ Lies(walk.page, id)
  <2>1. DOMAIN walk.page = 1..Len(walk.page) /\ \A i \in 1..Len(walk.page) : walk.page[i] \in Nat
    BY <1>3, LenProperties, ElementOfSeq
  <2> QED BY <2>1 DEF Range, Lies
<1>5. PICK m \in walk.gone \cup Current : m.id = id
  BY <1>2, <1>3, <1>4 DEF Kept
<1>6. t \in Tokens /\ cards[t].id = id /\ id # 0
  BY DEF TokenOf, CardIds
<1>7. ASSUME m \in Current, id \notin exposed, ~unsettled[t] PROVE FALSE
  <2>1. PICK s \in sales : s.card = id /\ s.user = Viewer /\ s.status = "sale"
    BY <1>1, <1>2, <1>5, <1>7, MatchesNow DEF MatchedIn, Current
  <2>2. Settled(t)
    BY <1>1, <1>6, <1>7, CardThere DEF Settled, SyncInv
  <2>3. Viewer \in Holders /\ \A h \in Holders : h # Nobody
    BY ListsAssumption, SyncAssumption DEF Nobody
  <2> HIDE DEF t
  <2>4. /\ Tidy(b) /\ AmountOf(b, Viewer) \in Nat
        /\ Cardinality(LiveSales(sales, id, Viewer)) \in Nat
        /\ Cardinality(LiveSales(sales, id, Viewer)) <= AmountOf(b, Viewer)
    BY <1>1, <1>6, <1>7, <2>2, <2>3, HeldOnSale
  <2>5. LiveSales(sales, id, Viewer) # {} /\ IsFiniteSet(LiveSales(sales, id, Viewer))
    <3>1. IsFiniteSet(sales)
      BY <1>1 DEF MarketInv, SalesOK
    <3>2. IsFiniteSet(LiveSales(sales, id, Viewer))
      BY <3>1, LiveFinite
    <3>3. s \in LiveSales(sales, id, Viewer)
      BY <2>1 DEF LiveSales
    <3> QED BY <3>2, <3>3
  <2>6. AmountOf(b, Viewer) # 0
    BY <2>4, <2>5, FS_EmptySet
  <2> HIDE DEF b
  <2>7. /\ DOMAIN b = 1..Len(b) /\ Len(b) \in Nat
        /\ \A i \in 1..Len(b) : b[i].user \in Holders
        /\ \E i \in 1..Len(b) : b[i].user = Viewer
    BY <2>4, <2>6, TidyEntries
  <2>8. PICK i \in 1..Len(b) : b[i].user = Viewer
    BY <2>7
  <2>9. \A j \in 1..i : b[j].user # Nobody
    <3>1. \A j \in 1..i : j \in 1..Len(b)
      BY <2>7, <2>8
    <3> QED BY <2>3, <2>7, <3>1
  <2>10. Shows(b, Viewer)
    BY <2>7, <2>8, <2>9 DEF Shows
  <2> QED BY <2>10 DEF b, t
<1> QED BY <1>5, <1>7

(* The list of what a user has on sale, read in two steps while cards are  *)
(* sold and imported: it only fails for a card whose sales of his ended in *)
(* between, or whose balance an import took or read in motion.             *)
THEOREM ListsFailUncovered == ListsSpec => ListFailsOnlyUncovered
<1>1. ReaderInv /\ [ListsNext]_allVars =>
        [walk.at # "failed" /\ walk'.at = "failed" =>
           \A id \in Range(walk.page) \cap CardIds : ~Shows(cards[TokenOf(id)].balances, Viewer) =>
              \/ \E m \in walk.gone : m.id = id
              \/ id \in exposed \/ unsettled[TokenOf(id)]]_allVars
  BY FailsUncovered
<1> QED BY <1>1, ReaderInit, ReaderNext, PTL DEF ListsSpec, ListFailsOnlyUncovered

-----------------------------------------------------------------------------
(* Only the read of the listings shows the page of a card.                 *)
LEMMA WhoShows ==
    ASSUME ViewInv, [ListsNext]_allVars, view.at # "shown", view'.at = "shown"
    PROVE  GetListingsByCard
<1>1. view \in Views
  BY DEF ViewInv
<1>2. CASE Next /\ Track
  <2>1. view'.at = view.at
    BY <1>2 DEF Track
  <2> QED BY <2>1
<1>3. CASE \E t \in Tokens, h \in Holders : GetCard(t, h)
  <2>1. view'.at = "balance"
    BY <1>3 DEF GetCard, NoView
  <2> QED BY <2>1
<1>4. CASE FindBalanceByUserId
  <2>1. view'.at \in {"idle", "listings"}
    BY <1>1, <1>4 DEF FindBalanceByUserId, NoView, Views
  <2> QED BY <2>1
<1>5. CASE ViewEnds
  BY <1>5 DEF ViewEnds, NoView
<1>6. (\E list \in Lists : BeginWalk(list)) \/ GetCards \/ GetCardsCount \/ GetCardsIdsBySortingPrice
        \/ GetCardsByIds \/ WalkEnds \/ UNCHANGED allVars => UNCHANGED view
  BY DEF BeginWalk, GetCards, GetCardsCount, GetCardsIdsBySortingPrice, GetCardsByIds, WalkEnds,
         allVars, reader
<1> QED BY <1>2, <1>3, <1>4, <1>5, <1>6 DEF ListsNext, ReadStep

LEMMA ShownAddsUp ==
    ASSUME ReaderInv, [ListsNext]_allVars, view.at # "shown", view'.at = "shown", ~view'.moved,
           view'.card \notin exposed, \A t \in Tokens : cards[t].id = view'.card => ~unsettled[t]
    PROVE  AddsUp(view')
<1> DEFINE b == view.balances
           live == LiveAt(view.card)
           free == [h \in Holders |-> Free(b, live, h)]
           amount == [i \in DOMAIN b |-> b[i].amount]
<1>1. SyncInv /\ MarketInv /\ ImportInv /\ CoveredInv /\ ViewInv
  BY DEF ReaderInv, ImportInv
<1>2. GetListingsByCard
  BY <1>1, WhoShows
<1>3. view \in Views /\ view.at = "listings"
  BY <1>1, <1>2 DEF ViewInv, GetListingsByCard
<1>4. view' = [view EXCEPT !.at = "shown", !.sales = live, !.free = free]
  BY <1>2 DEF GetListingsByCard, LiveAt
<1> HIDE DEF live, free
<1>5. /\ view'.card = view.card /\ view'.user = view.user /\ view'.balances = b /\ view'.amount = view.amount
      /\ view'.moved = view.moved /\ view'.free = free /\ view'.sales = live
  BY <1>3, <1>4 DEF Views
<1>6. view.card # 0 /\ view.user \in Holders /\ ViewKnows
  BY <1>1, <1>3, <1>5 DEF ViewInv
<1>7. PICK t \in Tokens : cards[t].id = view.card /\ cards[t].balances = b
  BY <1>6 DEF ViewKnows, CardAt
<1>8. Settled(t) /\ cards[t].id \notin exposed
  BY <1>1, <1>5, <1>6, <1>7, CardThere DEF Settled, SyncInv
<1>9. IsFiniteSet(live) /\ live \subseteq Sale
  BY <1>1, LiveAtTyped DEF live
<1>10. \A h \in Holders : UsersSales(live, h) = LiveSales(sales, view.card, h)
  BY DEF UsersSales, LiveSales, live, LiveAt, Live
<1> HIDE DEF b
<1>11. Tidy(b) /\ \A h \in Holders : Cardinality(UsersSales(live, h)) <= AmountOf(b, h)
  BY <1>1, <1>6, <1>7, <1>8, <1>10, HeldOnSale
<1>12. DOMAIN b = 1..Len(b) /\ \A i \in 1..Len(b) : b[i].user \in Holders
  BY <1>11, TidyEntries
<1>13. SumOver(free, Holders) + Cardinality(SalesOf(live, Holders)) = SumOver(amount, EntriesOfAll(b, Holders))
  <2>1. (\A h \in Holders : free[h] = Free(b, live, h)) /\ Holders \in SUBSET Holders
    BY DEF free
  <2>2. \A i \in 1..Len(b) : amount[i] = b[i].amount
    BY <1>12
  <2> HIDE DEF amount
  <2> QED BY <1>9, <1>11, <2>1, <2>2, FreeAddsUp
<1>14. SalesOf(live, Holders) = live
  BY <1>9 DEF SalesOf, Sale
<1>15. EntriesOfAll(b, Holders) = DOMAIN b
  BY <1>12 DEF EntriesOfAll
<1>16. MapThenSumSet(LAMBDA i : b[i].amount, DOMAIN b) = SumOver(amount, DOMAIN b)
  BY AmountsAsSum
<1> HIDE DEF amount
<1>17. MapThenSumSet(LAMBDA h : free[h], Holders) + Cardinality(live)
         = MapThenSumSet(LAMBDA i : b[i].amount, DOMAIN b)
  <2>1. MapThenSumSet(LAMBDA h : free[h], Holders) = SumOver(free, Holders)
    BY DEF SumOver
  <2> QED BY <1>13, <1>14, <1>15, <1>16, <2>1
<1>18. view.amount <= free[view.user]
  <2> DEFINE u == view.user
             n == Cardinality(UsersSales(live, u))
  <2>1. /\ n \in Nat /\ AmountOf(b, u) \in Nat /\ Free(b, live, u) \in Nat
        /\ Free(b, live, u) + n = AmountOf(b, u)
    BY <1>6, <1>9, <1>11, FreeOfTidy
  <2>2. n <= OnSale(view.card, u) /\ OnSale(view.card, u) \in Nat
    <3> DEFINE his == {s \in sales : s.card = view.card /\ s.user = u}
    <3>1. UsersSales(live, u) \subseteq his
      BY <1>6, <1>10 DEF LiveSales
    <3>2. IsFiniteSet(his)
      <4>1. IsFiniteSet(sales)
        BY <1>1 DEF MarketInv, SalesOK
      <4> QED BY <4>1, FS_Subset
    <3>3. OnSale(view.card, u) = Cardinality(his)
      BY DEF OnSale
    <3>4. OnSale(view.card, u) \in Nat
      BY <1>1, OnSaleNat
    <3> HIDE DEF his, u
    <3>5. n <= Cardinality(his)
      BY <3>1, <3>2, FS_Subset
    <3> QED BY <3>3, <3>4, <3>5
  <2>3. view.amount = AmountOf(b, u) - OnSale(view.card, u)
    BY <1>3, <1>6 DEF ViewKnows, b
  <2>4. free[u] = Free(b, live, u)
    BY <1>6 DEF free
  <2> HIDE DEF n, u
  <2>5. view.amount <= free[u]
    BY <2>1, <2>2, <2>3, <2>4
  <2> QED BY <2>5 DEF u
<1> QED BY <1>5, <1>17, <1>18 DEF AddsUp

(* The page of a card, read in two steps while sales, sells and imports go *)
(* on: when the card did not change between them and an import neither     *)
(* exposed it nor met it in motion, its live sales and what its holders    *)
(* have beyond them make its balances, whoever they are, and a user is     *)
(* told of no more than the page shows as free.                            *)
THEOREM PagesAddUp == ListsSpec => ListingsAddUp
<1>1. ReaderInv /\ [ListsNext]_allVars =>
        [view.at # "shown" /\ view'.at = "shown" /\ ~view'.moved /\ view'.card \notin exposed
         /\ (\A t \in Tokens : cards[t].id = view'.card => ~unsettled[t]) => AddsUp(view')]_allVars
  BY ShownAddsUp
<1> QED BY <1>1, ReaderInit, ReaderNext, PTL DEF ListsSpec, ListingsAddUp
=============================================================================
