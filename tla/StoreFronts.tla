----------------------------- MODULE StoreFronts -----------------------------
(***************************************************************************)
(* The store fronts: a user picks cards for a front, gives it a slug and   *)
(* pages made of blocks, and publishes it; a publication is a copy of the  *)
(* front that visitors see.  The list of collections of a front is derived *)
(* from its cards by a second write, each time cards are added or deleted. *)
(*                                                                         *)
(* A request runs from one await to the next; the requests of a user       *)
(* interleave with one another and with the listeners, which change the    *)
(* holders of the cards (CardStore).  What a client asks for is a member   *)
(* of Bodies.                                                              *)
(***************************************************************************)
EXTENDS Integers, FiniteSets, SequencesExt, FiniteSetsExt

CONSTANTS
    Fronts, Users, Cards, Collections,
    Owner,          \* front -> user
    CollectionOf,   \* card -> collection
    FirstHolder,    \* card -> user
    NoSlug, None,
    Bodies,         \* what the clients ask for
    Requests,       \* bound: requests served at once
    MaxBegun,       \* bound: requests in all
    MaxTransfers,   \* bound: changes of the holders of a card
    MaxFailures     \* bound: requests that end half-way

ASSUME FrontsAssumption ==
    /\ Owner \in [Fronts -> Users]
    /\ CollectionOf \in [Cards -> Collections]
    /\ FirstHolder \in [Cards -> Users]
    /\ IsFiniteSet(Cards) /\ IsFiniteSet(Collections)

(* The ids in a request are ids of cards, and the route names a front.     *)
ASSUME BodiesAssumption ==
    \A b \in Bodies : b.front \in Fronts /\ b.cards \subseteq Cards

VARIABLES
    front,      \* front, of those created -> the document
    holders,    \* card -> the users with a balance; a card without is deleted
    req,        \* the requests
    transfers, begun, failures,
    seen,       \* history: pairs of an event and the front it befell
    dropped,    \* history: front -> the cards deleted from it and not added since
    midway      \* history: fronts whose release was read amid a card request

vars == <<front, holders, req, transfers, begun, failures, seen, dropped, midway>>

NewFront == [slug |-> NoSlug, cards |-> {}, collections |-> {}, pages |-> <<>>, release |-> None]
NoReq    == [at |-> "idle", kind |-> "none", front |-> None, cards |-> {}, slug |-> NoSlug,
             listed |-> {}, present |-> {}, collections |-> {}, blocks |-> <<>>, next |-> 0,
             doc |-> None, midway |-> FALSE]

Init ==
    /\ front = <<>>
    /\ holders = [c \in Cards |-> {FirstHolder[c]}]
    /\ req = [r \in Requests |-> NoReq]
    /\ transfers = 0 /\ begun = 0 /\ failures = 0
    /\ seen = {}
    /\ dropped = [f \in Fronts |-> {}]
    /\ midway = {}

-----------------------------------------------------------------------------
Created        == DOMAIN front
Existing(cs)   == {c \in cs : holders[c] # {}}
ListedFor(cs)  == {CollectionOf[c] : c \in cs}
Answered(r)    == req' = [req EXCEPT ![r] = NoReq]

(* The requests of these kinds that are under way on a front.              *)
UnderWay(f, kinds) == {r \in Requests : req[r].front = f /\ req[r].kind \in kinds}

CardKinds == {"add", "delete"}

(* A request of a kind that passes the pipe, the front exists, and the     *)
(* handler's first check, the user owns it.                                *)
Asks(b, kind) == b.kind = kind /\ b.front \in Created /\ b.user = Owner[b.front]

Begins(r, b, first) ==
    /\ req[r] = NoReq
    /\ begun < MaxBegun
    /\ begun' = begun + 1
    /\ req' = [req EXCEPT ![r] = first]

(* The fronts a card is in, and those a request names it for.              *)
Naming(c) ==
    {f \in Created : c \in front[f].cards} \cup
    {req[r].front : r \in {q \in Requests : c \in req[q].cards}}

(* A listener moves a token, or burns the last of a card (processBurned-   *)
(* Tokens deletes the card).                                               *)
CardChangesHands(c, to) ==
    /\ transfers < MaxTransfers
    /\ holders[c] # {} /\ to # holders[c]
    /\ transfers' = transfers + 1
    /\ holders' = [holders EXCEPT ![c] = to]
    /\ seen' = IF to = {} THEN seen \cup {<<"burned", f>> : f \in Naming(c)} ELSE seen
    /\ UNCHANGED <<front, req, begun, failures, dropped, midway>>

(* POST: the logo is uploaded and the document created.                    *)
CreateStoreFront(f) ==
    /\ f \notin Created
    /\ front' = [g \in Created \cup {f} |-> IF g = f THEN NewFront ELSE front[g]]
    /\ UNCHANGED <<holders, req, transfers, begun, failures, seen, dropped, midway>>

-----------------------------------------------------------------------------
(* PUT :id/cards, up to the first write: of the cards named, those that    *)
(* exist; the user must have a balance of each.                            *)
AddCards(r, b) ==
    LET found == Existing(b.cards)
    IN  /\ Asks(b, "add")
        /\ found # {} /\ \A c \in found : b.user \in holders[c]
        /\ Begins(r, b, [NoReq EXCEPT !.at = "store", !.kind = "add",
                                      !.front = b.front, !.cards = found])
        /\ seen' = seen \cup
               {<<"crossed", b.front>> : q \in UnderWay(b.front, {"delete"})} \cup
               {<<"overlapped", b.front>> : q \in UnderWay(b.front, {"delete"})}
        /\ UNCHANGED <<front, holders, transfers, failures, dropped, midway>>

StoreCards(r) ==
    LET f == req[r].front
    IN  /\ req[r].at = "store"
        /\ front' = [front EXCEPT ![f].cards = @ \cup req[r].cards]
        /\ dropped' = [dropped EXCEPT ![f] = @ \ req[r].cards]
        /\ req' = [req EXCEPT ![r].at = "read"]
        /\ UNCHANGED <<holders, transfers, begun, failures, seen, midway>>

(* DELETE :id/cards: the cards are pulled whether the front has them or    *)
(* not, and whether they exist or not.                                     *)
DeleteCards(r, b) ==
    LET f == b.front
    IN  /\ Asks(b, "delete")
        /\ Begins(r, b, [NoReq EXCEPT !.at = "read", !.kind = "delete",
                                      !.front = f, !.cards = b.cards])
        /\ front' = [front EXCEPT ![f].cards = @ \ b.cards]
        /\ dropped' = [dropped EXCEPT ![f] = @ \cup (b.cards \cap front[f].cards)]
        /\ seen' = seen \cup
               {<<"crossed", f>> : q \in UnderWay(f, {"add"})} \cup
               {<<"overlapped", f>> : q \in UnderWay(f, CardKinds)} \cup
               {<<"strayed", f>> : c \in b.cards \ front[f].cards}
        /\ UNCHANGED <<holders, transfers, failures, midway>>

(* updateCollectionsByCards: the front as it is now ...                    *)
ReadStoreFront(r) ==
    LET f == req[r].front
    IN  /\ req[r].at = "read"
        /\ req' = [req EXCEPT ![r].at = "find",
                              ![r].listed = front[f].collections,
                              ![r].present = front[f].cards]
        /\ UNCHANGED <<front, holders, transfers, begun, failures, seen, dropped, midway>>

(* ... the collections of those of its cards that exist ...                *)
FindExistingCards(r) ==
    /\ req[r].at = "find"
    /\ req' = [req EXCEPT ![r].at = "decide",
                          ![r].present = {},
                          ![r].collections = ListedFor(Existing(req[r].present))]
    /\ UNCHANGED <<front, holders, transfers, begun, failures, seen, dropped, midway>>

(* Mutant: the collections are derived for an empty list only.             *)
DecideOnlyWhenEmpty(r) ==
    LET q       == req[r]
        touched == ListedFor(Existing(q.cards))
    IN  /\ q.at = "decide"
        /\ IF q.listed = {} /\ touched # {}
             THEN req' = [req EXCEPT ![r].at = "listFirst", ![r].collections = touched]
             ELSE Answered(r)
        /\ UNCHANGED <<front, holders, transfers, begun, failures, seen, dropped, midway>>

(* Mutant: a collection is dropped as soon as one of its cards is.         *)
DecideWithoutOthers(r) ==
    LET q       == req[r]
        touched == ListedFor(Existing(q.cards))
        emptied == q.listed \cap touched
        change  == IF touched \subseteq q.listed
                     THEN [at |-> IF emptied = {} THEN "done" ELSE "unlist", ids |-> emptied]
                     ELSE [at |-> IF q.listed = {} THEN "listFirst" ELSE "list",
                           ids |-> q.listed \cup touched]
    IN  /\ q.at = "decide"
        /\ IF change.at = "done" THEN Answered(r)
             ELSE req' = [req EXCEPT ![r].at = change.at, ![r].collections = change.ids]
        /\ UNCHANGED <<front, holders, transfers, begun, failures, seen, dropped, midway>>

(* ... and those of the cards of the request: when any of them is          *)
(* not listed, all are listed, for a deletion too; else the listed ones    *)
(* of which the front has no card left are removed.                        *)
DecideCollections(r) ==
    LET q       == req[r]
        touched == ListedFor(Existing(q.cards))
        emptied == (q.listed \cap touched) \ q.collections
        change  == IF touched \subseteq q.listed
                     THEN [at |-> IF emptied = {} THEN "done" ELSE "unlist", ids |-> emptied]
                     ELSE [at |-> IF q.listed = {} THEN "listFirst" ELSE "list",
                           ids |-> q.listed \cup touched]
    IN  /\ q.at = "decide"
        /\ IF change.at = "done" THEN Answered(r)
             ELSE req' = [req EXCEPT ![r].at = change.at, ![r].collections = change.ids]
        /\ UNCHANGED <<front, holders, transfers, begun, failures, seen, dropped, midway>>

(* $addToSet of the collections; to an empty list they are added twice.    *)
AddCollections(r) ==
    /\ req[r].at \in {"listFirst", "list"}
    /\ front' = [front EXCEPT ![req[r].front].collections = @ \cup req[r].collections]
    /\ IF req[r].at = "listFirst" THEN req' = [req EXCEPT ![r].at = "list"] ELSE Answered(r)
    /\ UNCHANGED <<holders, transfers, begun, failures, seen, dropped, midway>>

DeleteCollections(r) ==
    /\ req[r].at = "unlist"
    /\ front' = [front EXCEPT ![req[r].front].collections = @ \ req[r].collections]
    /\ Answered(r)
    /\ UNCHANGED <<holders, transfers, begun, failures, seen, dropped, midway>>

-----------------------------------------------------------------------------
(* getBySlug finds none; no slug is looked for when none is given.         *)
SlugFree(s) == s = NoSlug \/ \A f \in Created : front[f].slug # s

(* The unique index on slug, for the documents that have one.              *)
Collides(f, s) == s # NoSlug /\ \E g \in Created \ {f} : front[g].slug = s

(* PUT :id/settings up to the upload of the logo.                          *)
UpdateSettings(r, b) ==
    /\ Asks(b, "settings")
    /\ SlugFree(b.slug)
    /\ Begins(r, b, [NoReq EXCEPT !.at = "settings", !.kind = "settings",
                                  !.front = b.front, !.slug = b.slug])
    /\ UNCHANGED <<front, holders, transfers, failures, seen, dropped, midway>>

(* Mutant: the slug has no unique index.                                   *)
StoreSettingsUnchecked(r) ==
    /\ req[r].at = "settings"
    /\ front' = [front EXCEPT ![req[r].front].slug =
                   IF req[r].slug = NoSlug THEN @ ELSE req[r].slug]
    /\ Answered(r)
    /\ UNCHANGED <<holders, transfers, begun, failures, seen, dropped, midway>>

(* The settings given are stored; a slug taken meanwhile makes the write   *)
(* throw.                                                                  *)
StoreSettings(r) ==
    /\ req[r].at = "settings"
    /\ IF req[r].slug = NoSlug \/ Collides(req[r].front, req[r].slug)
         THEN UNCHANGED front
         ELSE front' = [front EXCEPT ![req[r].front].slug = req[r].slug]
    /\ Answered(r)
    /\ UNCHANGED <<holders, transfers, begun, failures, seen, dropped, midway>>

-----------------------------------------------------------------------------
(* PUT :id/publish: the front as the pipe loads it is what gets released.  *)
PublishStoreFront(r, b) ==
    LET f == b.front
    IN  /\ Asks(b, "publish")
        /\ front[f].slug # NoSlug \/ b.slug # NoSlug
        /\ Begins(r, b, [NoReq EXCEPT !.at = "check", !.kind = "publish",
                              !.front = f, !.slug = b.slug,
                              !.doc = [slug |-> front[f].slug, cards |-> front[f].cards,
                                       collections |-> front[f].collections,
                                       pages |-> front[f].pages],
                              !.midway = UnderWay(f, CardKinds) # {}])
        /\ UNCHANGED <<front, holders, transfers, failures, seen, dropped, midway>>

(* A slug that exists, the front's own too, and an empty front are refused.*)
CheckRelease(r) ==
    LET d == req[r].doc
    IN  /\ req[r].at = "check"
        /\ IF SlugFree(req[r].slug) /\ d.pages # <<>> /\ d.cards # {} /\ d.collections # {}
             THEN req' = [req EXCEPT ![r].at = "release"] ELSE Answered(r)
        /\ UNCHANGED <<front, holders, transfers, begun, failures, seen, dropped, midway>>

StoreRelease(r) ==
    LET f == req[r].front
    IN  /\ req[r].at = "release"
        /\ IF Collides(f, req[r].slug)
             THEN UNCHANGED <<front, midway>>
             ELSE /\ front' = [front EXCEPT ![f].release = req[r].doc,
                                            ![f].slug = IF req[r].slug = NoSlug
                                                          THEN @ ELSE req[r].slug]
                  /\ midway' = IF req[r].midway THEN midway \cup {f} ELSE midway \ {f}
        /\ Answered(r)
        /\ UNCHANGED <<holders, transfers, begun, failures, seen, dropped>>

-----------------------------------------------------------------------------
(* The blocks of a page.  A block is [type, parts, cards, collections,     *)
(* placed]: which parts of the settings were sent, the cards and the       *)
(* collections its collectibles name (None: not sent), and whether it has  *)
(* a position or a visibility of its own.                                  *)
HeaderParts            == {"texts", "collectibles"}
MostPopularParts       == {"texts", "collectibles", "itemSize", "rows", "settings"}
DigitalCollectionParts == {"texts", "collectibles", "itemSize", "settings"}
WhatIsParts            == {"texts", "settings"}
AboutParts             == {"texts", "settings"}
SubscribeParts         == {"texts", "links", "settings"}

RequiredParts ==
    [header |-> HeaderParts, most_popular |-> MostPopularParts,
     digital_collection |-> DigitalCollectionParts, what_is |-> WhatIsParts,
     about |-> AboutParts, subscribe |-> SubscribeParts]

(* What a client may send as a block.                                      *)
Blocks ==
    [type : STRING, parts : SUBSET STRING, cards : {None} \cup SUBSET Cards,
     collections : {None} \cup SUBSET Collections, placed : BOOLEAN]

ASSUME BlocksAssumption == \A b \in Bodies : b.blocks \in Seq(Blocks)

(* $all of the ids; of an empty list it matches no document.               *)
ExistCardsInStoreFront(ids, f)       == ids # {} /\ ids \subseteq front[f].cards
ExistCollectionsInStoreFront(ids, f) == ids # {} /\ ids \subseteq front[f].collections

(* Mutant: the cards of a block are not looked for in the front.           *)
BlockValidUnchecked(blk, f) ==
    /\ blk.type \in DOMAIN RequiredParts
    /\ RequiredParts[blk.type] \subseteq blk.parts
    /\ blk.type = "header" => ~blk.placed
    /\ "collectibles" \in RequiredParts[blk.type] =>
         /\ blk.collections = None => blk.type # "digital_collection"
         /\ blk.collections # None => ExistCollectionsInStoreFront(blk.collections, f)

(* The DTO of the block's type.                                            *)
BlockValid(blk, f) ==
    /\ blk.type \in DOMAIN RequiredParts
    /\ RequiredParts[blk.type] \subseteq blk.parts
    /\ blk.type = "header" => ~blk.placed
    /\ "collectibles" \in RequiredParts[blk.type] =>
         /\ blk.collections = None => blk.type # "digital_collection"
         /\ blk.collections # None => ExistCollectionsInStoreFront(blk.collections, f)
         /\ blk.cards # None /\ blk.type # "digital_collection" =>
              ExistCardsInStoreFront(blk.cards, f)

(* What a type does not know is stripped.                                  *)
Stripped(blk) ==
    LET keeps == "collectibles" \in RequiredParts[blk.type]
    IN  [blk EXCEPT !.cards = IF keeps /\ blk.type # "digital_collection" THEN @ ELSE None,
                    !.collections = IF keeps THEN @ ELSE None,
                    !.parts = @ \cap RequiredParts[blk.type]]

(* PUT :id/:page/settings.                                                 *)
UpdatePageSettings(r, b) ==
    /\ Asks(b, "page")
    /\ Begins(r, b, [NoReq EXCEPT !.at = "validate", !.kind = "page",
                                  !.front = b.front, !.blocks = b.blocks, !.next = 1])
    /\ seen' = seen \cup {<<"pagedTogether", b.front>> : q \in UnderWay(b.front, {"page"})}
    /\ UNCHANGED <<front, holders, transfers, failures, dropped, midway>>

(* PageBlockSettingsPipe validates block after block; the first invalid    *)
(* one refuses the request.                                                *)
ValidateBlock(r) ==
    LET q == req[r]
    IN  /\ q.at = "validate" /\ q.next <= Len(q.blocks)
        /\ IF BlockValid(q.blocks[q.next], q.front)
             THEN req' = [req EXCEPT ![r].next = @ + 1,
                                     ![r].blocks[q.next] = Stripped(@)]
             ELSE Answered(r)
        /\ UNCHANGED <<front, holders, transfers, begun, failures, seen, dropped, midway>>

(* storePageSetting: the blocks of the first page of the name, of which    *)
(* there is one only (home) ...                                            *)
StorePageSetting(r) ==
    LET q == req[r]
    IN  /\ q.at = "validate" /\ q.next > Len(q.blocks)
        /\ IF front[q.front].pages # <<>>
             THEN /\ front' = [front EXCEPT ![q.front].pages[1] = q.blocks]
                  /\ Answered(r)
             ELSE /\ req' = [req EXCEPT ![r].at = "addPage"]
                  /\ UNCHANGED front
        /\ UNCHANGED <<holders, transfers, begun, failures, seen, dropped, midway>>

(* ... and if there was none, a new page: every one has an _id of its own, *)
(* so that $addToSet always adds it.                                       *)
AddPage(r) ==
    /\ req[r].at = "addPage"
    /\ front' = [front EXCEPT ![req[r].front].pages = Append(@, req[r].blocks)]
    /\ Answered(r)
    /\ UNCHANGED <<holders, transfers, begun, failures, seen, dropped, midway>>

-----------------------------------------------------------------------------
(* What GET :id/cards, :id/collections and :id/:page answer, of the front  *)
(* or of its release (None: 404).                                          *)
Shown(f, user, release) ==
    IF release THEN front[f].release ELSE IF user = Owner[f] THEN front[f] ELSE None

ShownCards(doc) == Existing(doc.cards)

(* A collection is never deleted.                                          *)
CollectionsListByIds(ids) == {k \in Collections : k \in ids}

CardsByIdsAndCollectionIds(ids, shown) == {c \in Existing(ids) : CollectionOf[c] \in shown}

ShownCollections(doc) ==
    LET shown == CollectionsListByIds(doc.collections)
        cards == CardsByIdsAndCollectionIds(doc.cards, shown)
    IN  [k \in shown |-> Cardinality({c \in cards : CollectionOf[c] = k})]

ShownPage(doc) == Head(doc.pages)

-----------------------------------------------------------------------------
(* A rejected call, or the end of the process, between two awaits.         *)
RequestFails(r) ==
    /\ req[r].at # "idle"
    /\ failures < MaxFailures
    /\ failures' = failures + 1
    /\ seen' = IF req[r].kind \in CardKinds /\ req[r].at # "store"
                 THEN seen \cup {<<"cutShort", req[r].front>>} ELSE seen
    /\ Answered(r)
    /\ UNCHANGED <<front, holders, transfers, begun, dropped, midway>>

Begin(r, b) ==
    \/ AddCards(r, b) \/ DeleteCards(r, b)
    \/ UpdateSettings(r, b) \/ PublishStoreFront(r, b) \/ UpdatePageSettings(r, b)

Continue(r) ==
    \/ StoreCards(r) \/ ReadStoreFront(r) \/ FindExistingCards(r) \/ DecideCollections(r)
    \/ AddCollections(r) \/ DeleteCollections(r)
    \/ StoreSettings(r)
    \/ CheckRelease(r) \/ StoreRelease(r)
    \/ ValidateBlock(r)
    \/ StorePageSetting(r) \/ AddPage(r)

Next ==
    \/ \E f \in Fronts : CreateStoreFront(f)
    \/ \E r \in Requests, b \in Bodies : Begin(r, b)
    \/ \E r \in Requests : Continue(r) \/ RequestFails(r)
    \/ \E c \in Cards : \E to \in {{}} \cup {{u} : u \in Users} : CardChangesHands(c, to)

Spec == Init /\ [][Next]_vars

-----------------------------------------------------------------------------
TypeOK ==
    /\ Created \subseteq Fronts
    /\ \A f \in Created :
         /\ front[f].cards \subseteq Cards /\ front[f].collections \subseteq Collections
         /\ \A i \in DOMAIN front[f].pages : \A j \in DOMAIN front[f].pages[i] :
              LET blk == front[f].pages[i][j]
              IN  blk.type \in DOMAIN RequiredParts /\ blk.parts = RequiredParts[blk.type]
    /\ holders \in [Cards -> SUBSET Users]
    /\ \A r \in Requests : req[r].at # "idle" => req[r].front \in Created
    /\ dropped \in [Fronts -> SUBSET Cards]

Resting(f)        == UnderWay(f, CardKinds) = {}
Spared(f, events) == \A e \in events : <<e, f>> \notin seen

(* A front lists the collection of every card it has, whatever the order   *)
(* of the writes, once no card request is under way: only an addition and  *)
(* a deletion at once, or a request that ended between its two writes,     *)
(* leave a card without (addCards and updateCollectionsByCards).           *)
CollectionOfEveryCardListed ==
    \A f \in Created : Resting(f) /\ Spared(f, {"crossed", "cutShort"})
        => ListedFor(Existing(front[f].cards)) \subseteq front[f].collections

(* It lists no collection without a card, unless a deletion overlapped     *)
(* with another request, ended half-way or named cards the front did not   *)
(* have (they are listed, not removed), or a card was burned, which no     *)
(* request notices.                                                        *)
NoEmptyCollectionListed ==
    \A f \in Created :
        Resting(f) /\ Spared(f, {"overlapped", "cutShort", "strayed", "burned"})
          => front[f].collections \subseteq ListedFor(Existing(front[f].cards))

(* Two fronts never have the same slug, also when both asked for it before *)
(* either had it.                                                          *)
SlugNamesOneFront ==
    \A f, g \in Created : front[f].slug = front[g].slug /\ front[f].slug # NoSlug => f = g

(* A released front is found by its slug, now and after any change of the  *)
(* settings, and has a page, a card and a collection to show, however the  *)
(* front changes between the read of the publication and its write.        *)
ReleaseReachable ==
    \A f \in Created : front[f].release # None =>
        /\ front[f].slug # NoSlug
        /\ front[f].release.pages # <<>>
        /\ front[f].release.cards # {} /\ front[f].release.collections # {}

(* Every card a visitor is shown is counted in one of the collections he   *)
(* is shown (getCards and userCardsCount of getCollections), unless the    *)
(* release was read in the middle of a card request or of a front where    *)
(* one went wrong.                                                         *)
EveryShownCardCounted ==
    \A f \in Created :
        LET doc == Shown(f, None, TRUE)
        IN  doc # None /\ f \notin midway /\ Spared(f, {"crossed", "cutShort"})
              => MapThenSumSet(LAMBDA k : ShownCollections(doc)[k], doc.collections)
                   = Cardinality(ShownCards(doc))

(* A front has one page of a name, unless two requests that set it were    *)
(* under way at once: then the second one is stored and never shown.       *)
OnePageOfAName ==
    \A f \in Created : Spared(f, {"pagedTogether"}) => Len(front[f].pages) <= 1

(* A block of a page names only cards that are in the front or were        *)
(* deleted from it: the validation and the write are apart, but no card    *)
(* that never was in the front gets through.                               *)
BlocksNameCardsOfTheFront ==
    \A f \in Created : \A i \in DOMAIN front[f].pages :
        \A j \in DOMAIN front[f].pages[i] :
            LET named == front[f].pages[i][j].cards
            IN  named = None \/ named \subseteq front[f].cards \cup dropped[f]

(* The collections a front shows are those of its cards, however changes   *)
(* of the cards overlap, fail and meet burned cards.                       *)
CollectionsFollowCards == CollectionOfEveryCardListed /\ NoEmptyCollectionListed

(* A name leads to one front, and to what that front published.            *)
PublishedUnderItsSlug == SlugNamesOneFront /\ ReleaseReachable

(* The pages of a front: each once, of the parts their kind has, with the  *)
(* cards of the front.                                                     *)
PagesOfTheFront == TypeOK /\ OnePageOfAName /\ BlocksNameCardsOfTheFront
=============================================================================
