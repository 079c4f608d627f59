# A verification project for the NFT marketplace back end

TLA+ models of the back end in `src/` (NestJS, MongoDB through mongoose, a set of
scheduled AWS lambdas), model-checked with TLC and in part proved with TLAPS.

## 1. The system

Two kinds of processes work on one MongoDB:

- the **API** (`src/serverless.yml`, function `main`): HTTP requests, any number at
  once, each a chain of awaited database calls with no transaction and no lock;
- the **listeners**, scheduled once a minute, each reserved to one instance:
  they replay the events of a chain, block by block, as a subgraph reports them.

| Component | State | Operations | Interacts with |
|---|---|---|---|
| Listener loop and jobs | `jobs`: one cursor (`processingBlockNumber`) per network and type | `getProcessingBlockNumberByType`, `increaseJobBlockNumber`, the loop of every `*Listener.ts` | subgraph (latest block), every block handler |
| Card balances | `cards`: `balances[]`, `totalSupply`, `__v` | `changeOwnerships`, `burnCard`, `createCards` | transfer, burn, sell, created-token listeners |
| Transfer and burn listeners | - | `processTransferTokens`, `processBurnedTokens`, `processSaleByChangeOwnership` | cards, sales, users |
| Sales | `cardsales`; `cards.hasSale` | `createSale`, deletion, `processSell`, `processHasSale` | cards, exchange rates, order hash |
| Created token / contract listeners | `cards`, `tokencollections`, metadata | `processCreatedTokens`, `processCreatedContracts` | metadata, users |
| Metadata | `tokenmetadata`, `contractmetadata` | store; identifiers are the largest one plus one | created-token listener |
| Reactions, viewers, follows | `cards.likes/dislikes/viewersCount`, `cardviewers`, `follows` | toggle, count, follow | - |
| Store fronts | `storefronts` | create, cards and collections, slug, publish, pages and blocks | cards |
| Users, sessions, signature requests, nonce | `users`, `usersessions`, `usersignaturerequests`, `nonces` | sign-in, sign-out, expiry | every authenticated request |
| Currencies and prices | `cryptocurrencies`, `cardsales.priceUsd` | two scheduled updates | exchange service |
| Import of a contract (`syncContract`) | `cards`, `cardsales`, `tokencollections`, files | pages through the holders of every token, overwrites, deletes what the subgraph does not list | subgraph, sell listener, sales |
| Card lists | - | lists by offset, sorted in the database or by their sales; the page of a card | cards, sales |
| External collectibles | `collectibles`, `clients`, `tokenmetadata` | a client's request, retried | users, metadata |
| Categories, search, files, encoding, shell | see PROJECT.json | queries, I/O, pure encoding | - |

### What is hard in it

- **Read, change in memory, save.** Balances are changed by loading a whole card
  and calling `save()`. mongoose sends positional `$set`s conditional on `__v`,
  and counts `__v` up only when the array is replaced; several lambdas, and the
  tasks of one `Promise.all`, do this to one card at once.
- **At-least-once blocks.** A block's effects and the increment of its cursor are
  separate writes; a failure between them replays the block, and the handlers
  are not idempotent.
- **Check, then store.** The free tokens of a sale, `hasSale`, identifiers, slugs,
  viewers: a query and, some awaits later, a write that trusts its answer.
- **Two writes for one fact**: the cards of a front and its collections, a viewer and
  the counter, the cards an import deletes and their sales, each with an await between.
- **Lists that move while they are read**: the pages of the subgraph's holders, the
  pages a client walks by offset, an answer put together from two queries.
- **Listeners are not ordered among each other**: the burn of a block may be
  applied before a transfer of an earlier one.
- **Failures**: a `VersionError`, a lost connection, the 30 seconds of a lambda.

PROJECT.json lists each hazard at its line with the properties aimed at it; a hazard the code does nothing
against has none, and a note that names the configuration in which it goes wrong.

## 2. The modules

| Module | What it is |
|---|---|
| `InOrderDelivery` | abstract specification: blocks delivered one after another, at least once, none left out |
| `BlockListener` | one listener and its cursor, await by await; implements `InOrderDelivery` |
| `BlockListener_proofs` | proofs about it |
| `CardDocument` | the balances of a card as operators: debit, credit, burn, what a `save()` sends, when the database accepts it, what it leaves |
| `CardStore` | abstract specification of the `cards` collection under any number of writers that read and save later |
| `CardStore_proofs` | proofs about it |
| `Marketplace` | the transfer, burn and sell listeners and the sale requests, one step per database call; implements `CardStore` |
| `Marketplace_proofs` | the proof that it does, what follows from `CardStore`'s theorems, and proofs about its sales when the handlers run one after another |
| `Catalogue` | how collections and cards come to be: the metadata requests, the created-contract and created-token listeners |
| `Catalogue_proofs` | proofs about it |
| `Members` | users, signature requests, sessions, profiles, reactions, viewers, follows: one step per await of a request |
| `Members_proofs` | proofs about `Members` and `Collectibles` |
| `Collectibles` | the collectibles of external clients, on top of `Members`, whose users it creates |
| `StoreFronts` | the fronts: cards and collections, slug, publication, pages, beside changes of the cards' holders |
| `StoreFronts_proofs` | proofs about it: the slugs, the list of collections, the pages, what a release shows |
| `Prices` | the daily list of coins, the hourly prices, and sales stored meanwhile |
| `Prices_proofs` | proofs about it |
| `ContractSync` | the import of a contract beside the sell listener and new sales |
| `CardLists` | what a client is shown meanwhile: extends `ContractSync` by the readers |
| `CardLists_proofs` | proofs about the import, the sales beside it, and what the readers are shown |
| `MC*` | the small instances TLC checks |

`Mutant:` operators next to a definition are plausible bugs of the code it
translates; no specification uses them. They show that each property can fail.

### BlockListener

`job` is `jobs.processingBlockNumber`, `head` the subgraph's `_meta.block.number`,
`pc`, `left`, `block` the local state of an invocation. `Invoke` is the schedule,
`ReadJob` and `ReadHead` are `getProcessingBlockNumberByType` split at its two
awaits (a cursor of 0 throws: `!processingBlockNumber`; a cursor above the head
ends the iteration), `Process` is the block handler, `ProcessThrows` a handler that
throws half-way, `Increase` the `$inc`, `Fail` any exception or timeout elsewhere.
`done`, `attempts`, `failures` are history variables.

### CardDocument and CardStore

A save is a record: `set` (amounts of entries in place), `replace` (the array) or
`delete`; `v` is the version it was computed from. `Accepts`, `NextVersion` and `Saved`
model mongoose as the code uses it (external). `ChangeOwnerships` and `BurnCard`
are the two functions of the DAO that change balances. `CardStore` lets any number
of writers read, compute, and send or lose a save at any later time.

### Marketplace

`chain` is what the subgraph has indexed, `cursor` the jobs, `cards`, `hasSale`, `sales`
the collections. `walk` holds the transfer and the burn listener: both go through the
events of a block one after another and end each with
`processSaleByChangeOwnership`; `pc` names the next database call (`find`, `save`, `sum`,
`load`, `dropCard`, `drop`, `exists`, `flag`, `increase`). `sell` is the sell listener:
`mark`, then `apply` with one task per sale found (`Promise.all`), then `flags` with
one task per sale found (`processHasSale`; the `Set` of card ids drops none of these objects), then `increase`. `strays` are tasks of a `Promise.all` that was
rejected by another one: nothing cancels them. `req` are the API requests that
create and delete a sale. `Crash` ends any handler between two of its steps.

Abstracted: addresses, prices, currencies, the order's encoding and signature (an
order is a model value with a card, a maker and a token count); the creation of
unknown users (`syncUsers`), which no property is about; tokens of contracts the
collection does not know, which the listeners skip. What a block holds is an input:
its transfers, burns and fills, chosen so that the holders can afford them (a transfer at its
moment: out of what the sender held before the block, bought in it or got in it so far, or the token
contract would have reverted) and an
order is filled once and only after it was shown to somebody. Orders are filled as
a whole: the exchange contract does not fill in part.

### Catalogue

`contractMetadata`, `tokenMetadata`, `tokenCollections` and `cards` are the collections, named
by their unique keys (slug, address, address and identifier; `tokenMetadata` keeps the
identifiers of a slug in insertion order), `files` the logos in S3. A request is a record
in `req` whose `op` names its next database call: `createMetadata`; `nextIdentifier`,
`createToken`; `removeLogo`, `updateMetadata`, `updateCollection`. Each listener has a cursor and
one task per contract of the block (`Promise.all`): `find`, `create`, `attach` for contracts,
`find`, `insert` for tokens. `ContractListenerFails`, `TokenListenerFails` and `RequestFails` end
one of them between two awaits. `chain` is external: what was deployed and minted, and
under which kind of URI; the head of the subgraph and the loop are `BlockListener`'s.

Abstracted: of the fields a collection copies from its metadata only the logo, the one
with a life of its own, is kept; of the files of a token, that storing them may fail;
users exist already (`syncUsers`); `insertMany` is one step, as one ordered batch of the
server; tasks of an invocation that threw have ended, or have run on, before the throw.

### Members and Collectibles

Users, sessions and texts to sign are sequences in the order of creation; `likes`, `dislikes` and
`follows` count how often somebody is in an array or has a document, so that twice is
a state the model has. Unique indexes (the address and the slug of a user, the pair of
a viewer and of a follow) are part of the write: the loser's request throws. A request
is a record of `req`; what was read before the await stays in it (`listed`: he was in
the array, `user`: who was found). `SyncUser` is the listeners' upsert of one address.
`RequestFails` ends a request between two awaits. A profile may name a slug, leave it as it is (`SameSlug`: the
body has none) or clear it (`NoSlug`: null or empty). `reactedTwice` is history: a user stored a like beside another of his,
or a dislike beside a dislike, and neither request had found him there. A good signature is an input: the
model does not verify one, it only knows which text is signed and when it expires.
With an empty list `syncUsers` rejects (`bulkWrite([])`), so the model has no such call.

`Collectibles` adds the request of a client, which creates a user, the metadata of its slug, the token's file
(`StoreTokenFileFromUrl`), a token under the next identifier and the collectible, each in its own call, with what it lost or left
in `outrun` and `cutShort`. `Taken` are the tokens somebody has: a collectible, a request about to store it (`Underway`), or
the history.

### StoreFronts

A front has cards, the collections derived from them, pages of blocks and a `release`, the copy
visitors see. A request reads the cards (`find`), decides, writes the cards, then the collections.
`PUT` of a page validates, then stores to the page that is there or adds one; publishing checks, then
copies. Two requests of the owner interleave; the holders of a card change or the card
goes. `seen`, `dropped`, `midway` are history: which overlap or failure befell a front.
Texts, colours and files of a block are left out; which parts a kind of block keeps
is not, since the validation drops the others.

### Prices

A price is the coin and the quote it was multiplied by. `GetCurrenciesList`, one upsert per coin, and
the deletion are the daily job; reading the currencies on sale, the rates, and one update per
currency are the hourly one; a request looks its coin up, asks the rate and stores the sale.
The exchange is external: it moves quotes, adds and drops coins, may not answer. When it lists no coin the
upserts reject (`bulkWrite([])`), the job ends before the deletion and the coins it last listed stay
(`EmptyListRejected`); `ListFollows`, that the stored list follows the exchange's, excuses that answer only.

### ContractSync and CardLists

`sync` is `syncContract`: registry, one task per token (`Promise.all`) with a page of holders per
call, the save, then the deletion of unused cards, of their sales, of their files, and the collection.
`apply` is a sell in two steps, the read and the positional save of `CardDocument`'s kind, here with
one token per sale; `req` is `createSale`. The chain moves at any time and the sells reach the
listener in order. `CardLists` adds a client who walks a list to its end (`walk`) and one who opens the
page of a card (`view`), in the two reads each takes; the cards of a page read by their ids are those still there
(`StillThere`). That a list fails, or a page does not add up, is a property of the step that shows it
(`ListFailsOnlyUncovered`, `ListingsAddUp`): of a state it would depend on what an import does to `exposed` afterwards.

`SyncAssumption` says of the constants that tokens and holders are finitely many, that every token has a holder
(`syncUsers` rejects an empty list) and that who has something on sale at first holds it (`createSale` checks it).

Left out: `removeMany` throws on a card whose original file is null (the fixtures have none);
in the reader of token metadata the branch for EIP-721 throws in every case, so such
cards never come to be and the import is of the other kind; the paging of registries,
which the code ends at the first page.

## 3. What the runs check

| Run | Shows |
|---|---|
| `listener` | blocks are handled in order, at least once, none skipped, never ahead of the subgraph; a handler repeats only after a failure; the listener catches up; a block that always throws stops it for ever |
| `card_store` | however reads and late saves interleave: one positive entry per holder, an accepted positional save finds the entries it was computed from, a removed card stays removed |
| `market_serial` | handlers one after another, in any order: nobody offers more than the balances say he holds; `hasSale` is right at rest; a listener drops a covered live sale only of an owner who has sold some of the card |
| `market_ledger` | each listener on its own reproduces the balances of the chain; amounts add up to `totalSupply` |
| `market_contended` | all listeners on one card at once, two sales in one block, a crash: `Marketplace` implements `CardStore`; every listener consumes every block, unless the card a transfer moves was burned |
| `collections` | a slug has one collection and its metadata is attached to that one, although two contracts of a block may name it; what stays unattached, out of step or without its logo comes from a failure or an overlap that the history variables name; a described contract gets a collection in the end |
| `tokens` | identifiers are 1, 2, 3, ... under concurrent requests; a card has a minted token of the marketplace's domain and stored metadata behind it; a block cut short after an insert stops the listener for good; every other described token becomes a card |
| `two_sales` | violated: of two sales of a card to one holder in one block the second save writes over the first, and the balances are no longer the chain's |
| `storefronts` | fronts list the collections of their cards, have slugs of their own, publish only what can be reached, show no card that is not counted, and have each page once, but for the overlap or failure each invariant names |
| `members` | one user per address and slug, sessions that stay their signer's until he signs out, never a like beside a dislike and more than one of either only from requests that overlapped, counters that count each viewer and follower once; a client's collectible is stored once and its tokens accounted for |
| `prices` | no coin vanishes while the list is replaced; a sale is priced by its own coin, never by an older quote unless it was stored while the job ran; prices and list get there in the end |
| `lists` | an import at rest mirrors the chain; a sale without card, balance or place in a list, and a card a walk misses or shows twice, need the interleaving the invariant names; the sell listener gets through |

The properties of a run are often the conjunction of invariants that answer one question
(`AccountsSound`, `CollectionsFollowCards`, ...); each part has its own name and comment in the module.

`two_sales` states what a test of the repository expects of a block with one sale, in a block
with two; `findings` in PROJECT.json quotes the line. Both tasks read the card before either saves, both save amounts by
position, and such a save does not count `__v` up, so that the second is accepted as well. Seven more
disagreements of the kind can be seen
with configurations that no run lists (`tlc -config X.cfg MCMarketplace`), each a violation
of the invariant it names: a sold sale counts as tokens on sale (`Marketplace_soldCounted.cfg`);
a crash before the increment applies a block twice (`Marketplace_saleRepeated.cfg`); two requests
pass the balance check together (`Marketplace_oversell.cfg`); the same signed order stored twice
is debited twice (`Marketplace_resubmitted.cfg`); two requests store their answers about `hasSale`
in the wrong order (`Marketplace_staleHasSale.cfg`); of two sales in a block one save replaces
the array, which counts `__v` up, the other's `VersionError` rejects the `Promise.all`, and the replay of the block applies
the first a second time, so that tokens are made (`Marketplace_salesReplayed.cfg`); a whole balance transferred to its owner
disappears (`Marketplace_selfTransfer.cfg`).

Two things `collections` and `tokens` pass on are no virtues of the code. A collection whose
task ended between its two writes is never attached (`AttachedUnlessCutShort`), and a block
of tokens whose cards were inserted before the invocation ended can never be replayed:
the unique `tokenId` makes every further invocation throw (`HalfCreatedNeverPassed`). No
text of the repository says otherwise, so they are stated as what happens.

### Bounds

- `listener`: four blocks, the last of them poisonous, two iterations per
  invocation, three failures: enough for an invocation to end between two blocks,
  to reach the head, and to fail before, in and after a handler.
- `card_store`: one card, three users (interchangeable: SYMMETRY), two saves under
  way, two versions. The card is a document of its own, so a second one adds
  nothing but interleavings of unrelated steps. The bounds are in `MCWithin`; the theorems
  hold for any `Within`, so without bounds too.
- `market_*`: one card, three users, three orders of two makers, two or three
  blocks. `MaxInFlight` is how many handlers run at once; 1 makes them run one
  after another, which is the question of `market_serial`. `two_sales` has one block of two fills
  of one maker's orders by one taker, both of whom hold something before and after.
- `market_ledger` gives each listener chains of its own kind of event, because
  the code does not order listeners among each other (see the hazards).

- `collections`: one slug, two contracts, two blocks, two requests at once, three logos
  (one that is there and two updates that replace it), one failure. Links name the
  owner or a second user, a foreign domain, or are no links.
- `tokens`: two identifiers, two requests at once, three blocks (the contracts, and two of
  tokens, so that a block after a stopped one exists), one failure. No logos: they do not
  meet the tokens.

- `storefronts`: two fronts of two owners who want one slug, three cards of two collections, two
  requests at once and three in all, one transfer, one failure; from no front, and from a furnished one.
  Three requests are what an overlap and what comes after it take.
- `members`: two addresses, three users (two, and one a listener or a client makes), two requests at
  once and four in all, one failure, a clock of two ticks for texts that expire after one; from no
  user and from two who are signed in. One client, two collectibles, two of its requests
  at once. The constraint `ClientsApart` leaves out states in which a client has asked *and* somebody has
  used a session: requests of clients touch no state of members but the users, which a listener
  makes in the same way. `ClientsDisturbNobody` proves it without the constraint.
- `prices`: two coins of one symbol, both listed at first, two sales there and one more, one move of the
  quotes, two of the list (one coin dropped, or both, or one and back), one failure.
- `lists`: two tokens, one not listed, two holders on pages of one, so that the pages of a token
  are read apart; lists with pages of one card. What a behaviour may have is one of five budgets: an
  import that follows a failed one; moves and a sale during one; a reader during an import and a
  move or a sale, or during two moves and a sale. Everything at once is out of reach,
  and the hazards are of two actors each.

Runs switch deadlock checking off where the system rests once its bounds are spent and no user sends a
request: all but `listener` and `card_store`.

### Fairness

The schedule fires every minute whatever happened before, so a listener that ended
starts again and a running one goes on: weak fairness of its steps. `Process` is fair,
its exceptions are not: they are bounded by `MaxFailures` (`MaxCrashes`), the assumption
that failures do not last for ever. Nothing is assumed of the chain, of users, or of
tasks left behind by a dead invocation. In `prices` the steps of the two scheduled jobs are fair,
for the same reason, and neither the requests nor the exchange's moves are. In `lists` a running
import, the sell listener and the reads of a request that has begun are fair: an await
that does not fail returns.

## 4. What is proved

With TLAPS, for every value of the constants that satisfies the named assumptions
(`CountAssumption`, `StoreAssumption`, `NewCardsAssumption`, `MarketAssumption`, `NamesAssumption`,
`CreatorsAssumption`, `DocsAssumption`, `MembersAssumption`, `ClientsAssumption`, `FrontsAssumption`,
`PricesAssumption`, `ImportedAssumption`, `SyncAssumption`, `ListsAssumption`, the `BlocksAssumption` of `BlockListener` and of
`StoreFronts`, and the `BodiesAssumption` of `Members` and of `StoreFronts`; TLC evaluates each in the runs):

- `BlockListener_proofs`: `TypeCorrect`, `NothingSkipped`, `FollowsSubgraph`, `CursorStaysSound`, `RepeatsBounded`,
  and `ImplementsDelivery` (refinement). The inductive invariant says where the cursor
  is while an invocation works on a block: from `readHead` to `increase` the local `block` *is*
  the cursor, from `process` on it is not above the head, and at `increase` it is done.
  Without it `NoBlockSkipped` is not inductive: the step that increments must know that
  the block it leaves behind was handled.
- `CardStore_proofs`: `StoreTyped`, `OneEntry`, `PositionsFixed`, `VersionedPositions`,
  `NothingResurrected`. The inductive invariant adds `PendingFromThePast`: a pending save
  was computed from a version that is not above the document's, and at the same
  version its entries are the document's. This is why positional saves are safe as
  far as *whose* entry is written goes; what they are not safe for is the amount,
  which is the run `two_sales`.
- `Marketplace_proofs`: `MarketplaceIsAStore`, that `Marketplace` implements `CardStore` with the saves its
  handlers hold as `pending`, whatever the chain, the crashes and the number of handlers at
  once; and `HandlersKeepTheStore`, which carries the five theorems above over to the handlers.
  The invariant says who holds what: a listener holds a save only between its read and its
  `save()`, one at a time, a task of the sell listener too and never a delete, and both work on events of
  the chain and on orders, whose cards, users and amounts are those `CardStore` knows. A read maps to
  `ReadForTransfer` or `ReadForBurn`, a save that is accepted to `Save` or `Delete`, a `VersionError`,
  a crash and a rejected `Promise.all` to `Lose`; every other step is a stutter.
  `Marketplace` sets no bound on `CardStore` (`Unhindered`), having its own.

  Three more theorems have a hypothesis, `Serial`: handlers run one after another and are not killed
  (`MaxInFlight = 1`, `MaxCrashes = 0`), no signed order is sent twice (`~Resubmits`, and none is listed twice at
  first), and a block fills at most one order of a card (`OneFillPerCard`). These are the constants of
  `market_serial`, for any number of cards, users, orders, blocks and requests. Each excludes an interleaving that the
  run `two_sales` or a configuration of section 3 shows to spoil balances, sales or `hasSale`. Then `NobodyOversells`
  (if nobody does at first), `HasSaleStaysAccurate` and `DropsFollowSold` hold. `SerialInv` says whose turn it is (`Alone`); that
  an order has one sale and one fill (`OrdersInv`, `FillsInv`); that what a handler carries from one call to
  the next is still so when it is used (`SellInv`, `WalksInv`, `RequestsInv`: the save it computed is of the
  document as it is, the sum it compared is of the sales as they are); and that `hasSale` is right of every card nobody is
  about to look at again (`FlagsInv`). `CoverInv` is `NoOversell` in every state: live sales are covered, but
  for those of the owner a listener is about to look at, whose tokens just went; and a sold order whose tokens
  have not moved yet is covered on top of the live ones, which is why applying it later uncovers nobody.
  The sums are folds over finite sets. The induction theorems of the library cannot be instantiated, having an operator as a
  parameter, but the strict subsets of a finite set are well-founded, and what holds of a subset can be given as the *set* of
  those it holds of: `SubsetsBySize` is induction in this form, and `AddsRemove` and `AddsMonotone` follow from it.

  `LedgerStaysSound` says that the stored balances are those of the chain, for any number of cards, users, orders and blocks:
  with the listeners at rest, what a card document says somebody holds is what he had at first, changed by the blocks
  each listener has consumed. Its hypothesis `Apart` names what makes this true, and holds of the constants of
  `market_ledger`: the blocks of one chain are all for one of the three listeners, as nothing in the code orders these among
  each other and a burn applied before the transfer that feeds it finds no holder; nobody transfers to himself or buys
  from himself (`Marketplace_selfTransfer.cfg` shows what `changeOwnerships` makes of it); a block fills at most one order of a card
  (`two_sales`); no order is listed twice; nothing is killed and no request comes in; and the totals are right at first.
  The several sales of a block are still applied by concurrent tasks, each between its own read and save.
  `LedgerInv` strengthens the invariant. `Balanced` says it of every state: the balances are those after the
  blocks consumed, plus what is applied so far of the block a listener is in, a sum over the front of its events or over the
  fills that have no task any more. `Covered`: a block takes from nobody more than he has, event by event, so that a
  listener finds the card and the holder, and no save is refused. `Working` and `Selling`: a listener's place in its block, and that
  a save it is about to make was computed from the document as it is. `OrdersSound`: a fill finds its sale in the
  collection. `DocumentsSound`: a document's total is the sum of its entries, of which there is one at least.

- `Catalogue_proofs`: `IdentifiersStayInOrder`, for any number of collections, requests at
  once and failures. The inductive invariant adds `HeldBelowNext`: the identifier a
  request has read, however long ago, is at most one above what is stored. With the
  identifiers being 1..n, one that the unique index lets in is then exactly n + 1.
  `AttachmentsStaySound`, `CardsStaySound` and `UpdatesStayConfined` rest on `Typed` and one invariant each.
  `Attachments`: a task about to attach has a collection in the store whose metadata is attached to nothing
  yet (`Attaching`), so the second write of a task never meets another's, and metadata that is
  attached leads to a collection of its own slug (`AttachedBack`).
  `CardsOfTokens`: what a token task has found is described (`TokenTasksMeant`), and of a block cut short there is a card in
  the store that the task of its contract will find again and cannot insert (`Hole`): every retry
  throws before the cursor moves. `Updates`: a logo belongs to one slug (`OneOwner`); the one a request has uploaded is
  nobody else's until it is written (`FreshLogos`), so that what a request removes is what its own slug showed; and what
  is shown and gone, or differs, is about to be overwritten by a request under way (`StoredOrOverwritten`, `AgreeOrOverwritten`).

- `Members_proofs`: `MembersTyped`, `AccountsStaySound`, `ReactionsStaySound`, `EachCountedOnce`, for any
  number of clients, users, cards and failures. `TInv` adds to the types what a request in
  progress relies on (`Relies`): the user and the session it has read exist, and no account ever
  goes. On it rest three invariants, one per theorem. `RInv`: a request that read that the
  user is *not* in the array finds him not in it at the write, unless `reactedTwice` names
  him, the card and the kind of reaction. `VInv`: the stored viewers of a card are those counted, those a request at
  `countViewer` is about to count, and those whose request was cut short, each in one of
  the three. `AInv`: a login between finding its user and making the session has the user
  of the address that signed, and only stored sessions are signed out.
  These theorems are about `Members!Spec`, which starts from no users; the run also starts from
  two signed-in ones.

  `ClientsDisturbNobody` and `CollectiblesStaySound` are about `CollectiblesSpec`, members and clients together in any
  interleaving. To the members a step of a client is a step of `SyncUser`, or only moves a bound, which the three
  invariants above do not mention. Of the clients, `Has` says what a request relies on: the user it found has the address of
  the marketplace's key, and the metadata it goes on with is his. Both last (`Lasting`): no user goes
  or changes his address, and metadata stored under a slug is never replaced. The identifier a request read was at most one more than there
  were then, so at the write it is taken, and the request ends, or it is the next: hence tokens
  count up from 1 and the one just stored is in nobody else's hands (`Given`). From then on it is with the request, and
  goes to the collectible, to `outrun` or to `cutShort`, to one of them (`Apart`).

- `StoreFronts_proofs`: `SlugsLeadToReleases`. Of a publication under way the invariant `PubReq` says
  that it or its front has a slug, and once it is checked that its copy has a page, a card
  and a collection; a slug, once given, is never lost, so it is still there at the write.
  Uniqueness rests on the index at the write, not on the check before it.
  `ListsFollowCards` proves the two halves of `CollectionsFollowCards`, front by front.
  The list is written from what was read up to four awaits before, so the invariant says
  what every read still means when it is used. `EveryListed`: what an addition holds covers
  the cards *it* added, what a deletion holds covers *all* the cards left, and a card not
  listed yet is one of an addition under way. `NoneEmpty`: a deletion is under way alone,
  has read the list as it is, and is about to remove every collection it emptied. Several
  additions at once are harmless, as are several deletions for the first half: that is
  why the two halves except different events.
  `PagesStayOfTheFront`: `PagesSound` says of the blocks a request has validated so far what the stored pages
  promise, complete and of cards the front has or had (`Known`, which only grows: a card that leaves is
  in `dropped`); `PagesAlone` that page requests that never overlapped are one at a time, and the one about to add
  a page has seen that there is none, which is still so.
  `ShownCardsStayCounted`: a release is a copy, and nothing repairs it when the front changes. `ReleasesSound` says of every
  release and of every copy under way that it lists the collections of those of its cards that still exist, unless it was read
  amid a card request (`midway`) or its front was disturbed. Cards only go, so the copy stays good; where it is
  read, the front is at rest and `EveryListed` gives it. The counts of the collections then add up to the number
  of cards because each card shown is in exactly one of them (`CountedOnceEach`, by induction over the collections).
- `CardLists_proofs`, of `ListsSpec`, so of the import and its readers together, for any number of tokens, holders,
  pages, moves, imports and failures:

  `ImportsEndExact`. `CardsInv`: no two cards have an id in common, and
  nobody holds the id 0 of no card, without which a late `StoreSale` would touch cards that are gone.
  `TaskInv` and `UnusedInv`: a task that is done has its card and its files, once all are done the unused
  cards are exactly those of tokens not listed, and from their deletion on none of these is there.

  `ImportsMirror`. A card that was imported at rest is not the chain's token while sells wait, so the
  invariant relates the two by the sells in between. `ReadInv`: what a task has read of a token that did not move is the
  first `offset` of its holders. `SettledInv`: starting from the card (or, when a save is under way, from what it will
  become) and applying the waiting sells of this card one after another leads to what the chain has, and each maker has
  one to give when his turn comes (`Traced`); such a sell is of a sale still on sale. That a save
  by position is then one of the array it was computed from is part of it (`Orderly`). The lemmas on
  `OwnersChanged` and `Saved` say what a credit, a debit and `splice` do to the amounts of a tidy array, and that a tidy array
  is given by its amounts up to the order.

  `SalesStayBacked`. `CoveredInv` counts claims: on a settled card that is not exposed, the live sales of a
  holder and the sale he is about to store are covered by the balances as they are *and* as the save under way will leave
  them, without which the check of `createSale` would pass between the two steps of a sell.

  `WalksComplete`. `WalkInv`: what matched at the start matches still or is in `gone`, what matches now did at
  the start or is in `entered` (`Kept`). Of a match that nothing not behind it left (`Firm`), either it was read or its
  place in the list is beyond what was, and the client will ask for more (`NoneMissed`); of a card that nothing
  not behind it entered (`Sole`), it was read once at most, and then its place is not beyond what was read (`NoneTwice`).
  The place of a match is the number of those before it, which only a match that comes or goes changes.

  `ListsFailUncovered` and `PagesAddUp` are action properties. A reader's first read is only worth what holds of it at
  the second (`ViewInv`: unless it moved, the card is as it was read and what the user was told is what he has beyond
  his sales); that every holder's sales fit into his entry is `CoveredInv`; the page adds up by the sums.
- `Prices_proofs`: `PricesStaySound`, `PricesMoveForward`. The invariant `PInv` adds to the types: the coin
  and quote a request holds are of its symbol and not ahead of the exchange (`ReqInv`); the
  daily job's answer contains every coin listed ever since (`ListInv`); no sale but the overtaken ones is of a
  newer quote than the one the hourly job holds for its coin (`QuoteInv`).

The theorems about `StoreFronts` are about `StoreFronts!Spec`, which starts without fronts; the run
starts from furnished ones too.

Only model-checked: liveness (`EveryBlockHandled`, `WedgesAtPoison`, `EveryBlockConsumed`,
`EveryDescribedContractListed`, `EveryDescribedTokenListed`, `JobsGetThrough`, `SellsConsumed`), which is out of
the prover's reach. Every invariant the runs check is stated by a theorem.

## 5. Not modelled, and the plan

PROJECT.json lists every component with its status. Not modelled, with the reason:

- the launchpad listener: a stub. `getLaunchpadSaleData` returns nothing yet, so `data.length` throws in
  every invocation and its cursor never moves, which is `BlockListener` with a poison block at the start;
- the nonce: read by the API, increased by nothing outside the tests;
- categories and search: queries; a category is written by the seeders only;
- file storage, ABI encoding and order hashes, the web shell: no state, or no rule about it
  beyond a single request. The logos, which are removed again, are in `Catalogue`;
- the fakers: test data.

Partly: of the subgraph client the paging of holders is modelled, the queries by block
are inputs of the listeners; of the seeders the import is.

Worth doing next: a listener composed with `Marketplace`'s handlers, so that the two notions of a crash are one.
