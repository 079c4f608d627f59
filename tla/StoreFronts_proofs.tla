-------------------------- MODULE StoreFronts_proofs --------------------------
(***************************************************************************)
(* Proofs about StoreFronts: a slug names one front and a release can be   *)
(* reached, the collections of a front are those of its cards, its pages   *)
(* hold complete blocks of its cards, and a release shows collections that *)
(* count its cards, for any number of fronts, requests at once, failures   *)
(* and changes of holders.                                                 *)
(***************************************************************************)
EXTENDS StoreFronts, FiniteSetTheorems, WellFoundedInduction, TLAPS

(* A document and a request have these fields, whatever is in them.        *)
Doc(d) == d = [slug |-> d.slug, cards |-> d.cards, collections |-> d.collections,
               pages |-> d.pages, release |-> d.release]

Ask(q) == q = [at |-> q.at, kind |-> q.kind, front |-> q.front, cards |-> q.cards,
               slug |-> q.slug, listed |-> q.listed, present |-> q.present,
               collections |-> q.collections, blocks |-> q.blocks, next |-> q.next,
               doc |-> q.doc, midway |-> q.midway]

(* The steps of a request of each kind.                                    *)
Stage(q) ==
    \/ q.at = "store" /\ q.kind = "add"
    \/ /\ q.at \in {"read", "find", "decide", "listFirst", "list", "unlist"}
       /\ q.kind \in CardKinds
    \/ q.at = "settings" /\ q.kind = "settings"
    \/ q.at \in {"check", "release"} /\ q.kind = "publish"
    \/ q.at \in {"validate", "addPage"} /\ q.kind = "page"

SInv ==
    /\ DOMAIN req = Requests /\ DOMAIN holders = Cards
    /\ \A f \in Created : Doc(front[f]) /\ front[f].cards \subseteq Cards
    /\ \A r \in Requests :
         /\ Ask(req[r])
         /\ \/ req[r] = NoReq
            \/ Stage(req[r]) /\ req[r].front \in Created /\ req[r].cards \subseteq Cards

Others(r)      == DOMAIN req' = Requests /\ \A p \in Requests : p # r => req'[p] = req[p]
OtherFronts(f) == Created' = Created /\ \A g \in Created : g # f => front'[g] = front[g]

(* The request is still the same one, at whatever step.                    *)
Same(r) ==
    /\ Ask(req'[r])
    /\ req'[r].kind = req[r].kind /\ req'[r].front = req[r].front
    /\ req'[r].cards = req[r].cards /\ req'[r].slug = req[r].slug /\ req'[r].doc = req[r].doc

LEMMA NoReqFields ==
    /\ Ask(NoReq) /\ NoReq.at = "idle" /\ NoReq.kind = "none" /\ NoReq.cards = {}
BY DEF Ask, NoReq

LEMMA Idle ==
    ASSUME SInv, NEW r \in Requests
    PROVE  /\ req[r].at # "idle" =>
                Stage(req[r]) /\ req[r].front \in Created /\ req[r].cards \subseteq Cards
           /\ req[r].kind \in CardKinds => req[r].at # "idle" /\ req[r] # NoReq
BY NoReqFields DEF SInv, Stage, CardKinds

LEMMA Answers ==
    ASSUME SInv, NEW r \in Requests, Answered(r)
    PROVE  req'[r] = NoReq /\ Others(r)
BY DEF SInv, Answered, Others

LEMMA Replaced ==
    ASSUME SInv, NEW r \in Requests, NEW q, req' = [req EXCEPT ![r] = q]
    PROVE  req'[r] = q /\ Others(r)
BY DEF SInv, Others

LEMMA FrontReplaced ==
    ASSUME SInv, NEW f \in Created, NEW d, front' = [front EXCEPT ![f] = d]
    PROVE  front'[f] = d /\ OtherFronts(f)
BY DEF SInv, OtherFronts, Created

-----------------------------------------------------------------------------
(* What each step does.                                                    *)
LEMMA AtSet ==
    ASSUME NEW q, Ask(q), NEW x
    PROVE  LET e == [q EXCEPT !.at = x]
           IN  /\ Ask(e) /\ e.at = x /\ e.kind = q.kind /\ e.front = q.front /\ e.cards = q.cards
               /\ e.slug = q.slug /\ e.doc = q.doc /\ e.listed = q.listed
               /\ e.present = q.present /\ e.collections = q.collections
               /\ e.blocks = q.blocks /\ e.next = q.next
BY DEF Ask

LEMMA ListedSet ==
    ASSUME NEW q, Ask(q), NEW x
    PROVE  LET e == [q EXCEPT !.listed = x]
           IN  /\ Ask(e) /\ e.at = q.at /\ e.kind = q.kind /\ e.front = q.front /\ e.cards = q.cards
               /\ e.slug = q.slug /\ e.doc = q.doc /\ e.listed = x
               /\ e.present = q.present /\ e.collections = q.collections
BY DEF Ask

LEMMA PresentSet ==
    ASSUME NEW q, Ask(q), NEW x
    PROVE  LET e == [q EXCEPT !.present = x]
           IN  /\ Ask(e) /\ e.at = q.at /\ e.kind = q.kind /\ e.front = q.front /\ e.cards = q.cards
               /\ e.slug = q.slug /\ e.doc = q.doc /\ e.listed = q.listed
               /\ e.present = x /\ e.collections = q.collections
BY DEF Ask

LEMMA CollectionsSet ==
    ASSUME NEW q, Ask(q), NEW x
    PROVE  LET e == [q EXCEPT !.collections = x]
           IN  /\ Ask(e) /\ e.at = q.at /\ e.kind = q.kind /\ e.front = q.front /\ e.cards = q.cards
               /\ e.slug = q.slug /\ e.doc = q.doc /\ e.listed = q.listed
               /\ e.present = q.present /\ e.collections = x
BY DEF Ask

LEMMA ReadEffect ==
    ASSUME SInv, NEW r \in Requests, ReadStoreFront(r)
    PROVE  /\ req[r].at = "read" /\ Others(r) /\ Same(r) /\ req'[r].at = "find"
           /\ req'[r].listed = front[req[r].front].collections
           /\ req'[r].present = front[req[r].front].cards
           /\ UNCHANGED <<front, holders, seen>>
<1> DEFINE q1 == [req[r] EXCEPT !.at = "find"]
           q2 == [q1 EXCEPT !.listed = front[req[r].front].collections]
           q3 == [q2 EXCEPT !.present = front[req[r].front].cards]
<1>1. req' = [req EXCEPT ![r] = q3]
  BY DEF ReadStoreFront, SInv
<1>2. Ask(req[r])
  BY DEF SInv
<1>3. req'[r] = q3 /\ Others(r)
  BY <1>1, Replaced
<1>4. /\ Ask(q1) /\ q1.at = "find" /\ q1.kind = req[r].kind /\ q1.front = req[r].front
      /\ q1.cards = req[r].cards /\ q1.slug = req[r].slug /\ q1.doc = req[r].doc
  BY <1>2, AtSet
<1> HIDE DEF q1
<1>5. /\ Ask(q2) /\ q2.at = "find" /\ q2.kind = req[r].kind /\ q2.front = req[r].front
      /\ q2.cards = req[r].cards /\ q2.slug = req[r].slug /\ q2.doc = req[r].doc
      /\ q2.listed = front[req[r].front].collections
  BY <1>4, ListedSet
<1> HIDE DEF q2
<1>6. /\ Ask(q3) /\ q3.at = "find" /\ q3.kind = req[r].kind /\ q3.front = req[r].front
      /\ q3.cards = req[r].cards /\ q3.slug = req[r].slug /\ q3.doc = req[r].doc
      /\ q3.listed = front[req[r].front].collections
      /\ q3.present = front[req[r].front].cards
  BY <1>5, PresentSet
<1> QED BY <1>3, <1>6 DEF ReadStoreFront, Same

LEMMA FindEffect ==
    ASSUME SInv, NEW r \in Requests, FindExistingCards(r)
    PROVE  /\ req[r].at = "find" /\ Others(r) /\ Same(r) /\ req'[r].at = "decide"
           /\ req'[r].listed = req[r].listed
           /\ req'[r].collections = ListedFor(Existing(req[r].present))
           /\ UNCHANGED <<front, holders, seen>>
<1> DEFINE q1 == [req[r] EXCEPT !.at = "decide"]
           q2 == [q1 EXCEPT !.present = {}]
           q3 == [q2 EXCEPT !.collections = ListedFor(Existing(req[r].present))]
<1>1. req' = [req EXCEPT ![r] = q3]
  BY DEF FindExistingCards, SInv
<1>2. Ask(req[r])
  BY DEF SInv
<1>3. req'[r] = q3 /\ Others(r)
  BY <1>1, Replaced
<1>4. /\ Ask(q1) /\ q1.at = "decide" /\ q1.kind = req[r].kind /\ q1.front = req[r].front
      /\ q1.cards = req[r].cards /\ q1.slug = req[r].slug /\ q1.doc = req[r].doc
      /\ q1.listed = req[r].listed
  BY <1>2, AtSet
<1> HIDE DEF q1
<1>5. /\ Ask(q2) /\ q2.at = "decide" /\ q2.kind = req[r].kind /\ q2.front = req[r].front
      /\ q2.cards = req[r].cards /\ q2.slug = req[r].slug /\ q2.doc = req[r].doc
      /\ q2.listed = req[r].listed
  BY <1>4, PresentSet
<1> HIDE DEF q2
<1>6. /\ Ask(q3) /\ q3.at = "decide" /\ q3.kind = req[r].kind /\ q3.front = req[r].front
      /\ q3.cards = req[r].cards /\ q3.slug = req[r].slug /\ q3.doc = req[r].doc
      /\ q3.listed = req[r].listed
      /\ q3.collections = ListedFor(Existing(req[r].present))
  BY <1>5, CollectionsSet
<1> QED BY <1>3, <1>6 DEF FindExistingCards, Same

(* The change of the list that DecideCollections decides on.               *)
LEMMA DecideEffect ==
    ASSUME SInv, NEW r \in Requests, DecideCollections(r)
    PROVE  LET touched == ListedFor(Existing(req[r].cards))
               emptied == (req[r].listed \cap touched) \ req[r].collections
           IN  /\ req[r].at = "decide" /\ Others(r) /\ UNCHANGED <<front, holders, seen>>
               /\ \/ touched \subseteq req[r].listed /\ emptied = {} /\ req'[r] = NoReq
                  \/ /\ touched \subseteq req[r].listed /\ emptied # {} /\ Same(r)
                     /\ req'[r].at = "unlist" /\ req'[r].collections = emptied
                  \/ /\ ~(touched \subseteq req[r].listed) /\ Same(r)
                     /\ req'[r].at \in {"listFirst", "list"}
                     /\ req'[r].collections = req[r].listed \cup touched
<1> DEFINE touched == ListedFor(Existing(req[r].cards))
           emptied == (req[r].listed \cap touched) \ req[r].collections
           Next2(at, ids) == [[req[r] EXCEPT !.at = at] EXCEPT !.collections = ids]
<1>1. ASSUME NEW at, NEW ids, req' = [req EXCEPT ![r] = Next2(at, ids)]
      PROVE  Others(r) /\ Same(r) /\ req'[r].at = at /\ req'[r].collections = ids
  <2> DEFINE q1 == [req[r] EXCEPT !.at = at]
             q2 == [q1 EXCEPT !.collections = ids]
  <2>1. req' = [req EXCEPT ![r] = q2]
    BY <1>1
  <2>2. Ask(req[r])
    BY DEF SInv
  <2>3. req'[r] = q2 /\ Others(r)
    BY <2>1, Replaced
  <2>4. /\ Ask(q1) /\ q1.at = at /\ q1.kind = req[r].kind /\ q1.front = req[r].front
        /\ q1.cards = req[r].cards /\ q1.slug = req[r].slug /\ q1.doc = req[r].doc
    BY <2>2, AtSet
  <2> HIDE DEF q1
  <2>5. /\ Ask(q2) /\ q2.at = at /\ q2.kind = req[r].kind /\ q2.front = req[r].front
        /\ q2.cards = req[r].cards /\ q2.slug = req[r].slug /\ q2.doc = req[r].doc
        /\ q2.collections = ids
    BY <2>4, CollectionsSet
  <2> QED BY <2>3, <2>5 DEF Same
<1>2. \/ touched \subseteq req[r].listed /\ emptied = {} /\ Answered(r)
      \/ /\ touched \subseteq req[r].listed /\ emptied # {}
         /\ req' = [req EXCEPT ![r] = Next2("unlist", emptied)]
      \/ /\ ~(touched \subseteq req[r].listed)
         /\ \E at \in {"listFirst", "list"} :
              req' = [req EXCEPT ![r] = Next2(at, req[r].listed \cup touched)]
  BY DEF DecideCollections, SInv
<1>3. req[r].at = "decide" /\ UNCHANGED <<front, holders, seen>>
  BY DEF DecideCollections
<1> HIDE DEF Next2, touched, emptied
<1>4. CASE touched \subseteq req[r].listed /\ emptied = {} /\ Answered(r)
  BY <1>3, <1>4, Answers DEF touched, emptied
<1>5. CASE /\ touched \subseteq req[r].listed /\ emptied # {}
           /\ req' = [req EXCEPT ![r] = Next2("unlist", emptied)]
  BY <1>1, <1>3, <1>5 DEF touched, emptied
<1>6. CASE /\ ~(touched \subseteq req[r].listed)
           /\ \E at \in {"listFirst", "list"} :
                req' = [req EXCEPT ![r] = Next2(at, req[r].listed \cup touched)]
  BY <1>1, <1>3, <1>6 DEF touched, emptied
<1> QED BY <1>2, <1>4, <1>5, <1>6

(* One field of a document replaced.                                       *)
LEMMA CardsField ==
    ASSUME NEW d, Doc(d), NEW x
    PROVE  LET e == [d EXCEPT !.cards = x]
           IN  /\ Doc(e) /\ e.slug = d.slug /\ e.cards = x /\ e.collections = d.collections
               /\ e.pages = d.pages /\ e.release = d.release
BY DEF Doc

LEMMA CardsSet ==
    ASSUME SInv, NEW f \in Created, NEW x, front' = [front EXCEPT ![f].cards = x]
    PROVE  /\ OtherFronts(f) /\ Doc(front'[f])
           /\ front'[f].slug = front[f].slug /\ front'[f].cards = x
           /\ front'[f].collections = front[f].collections /\ front'[f].pages = front[f].pages /\ front'[f].release = front[f].release
<1> DEFINE d == [front[f] EXCEPT !.cards = x]
<1>1. Doc(front[f])
  BY DEF SInv
<1>2. front' = [front EXCEPT ![f] = d]
  OBVIOUS
<1>3. /\ Doc(d) /\ d.slug = front[f].slug /\ d.cards = x /\ d.collections = front[f].collections
      /\ d.pages = front[f].pages /\ d.release = front[f].release
  BY <1>1, CardsField
<1> HIDE DEF d
<1>4. front'[f] = d /\ OtherFronts(f)
  BY <1>2, FrontReplaced
<1> QED BY <1>3, <1>4

LEMMA ListField ==
    ASSUME NEW d, Doc(d), NEW x
    PROVE  LET e == [d EXCEPT !.collections = x]
           IN  /\ Doc(e) /\ e.slug = d.slug /\ e.cards = d.cards /\ e.collections = x
               /\ e.pages = d.pages /\ e.release = d.release
BY DEF Doc

LEMMA ListSet ==
    ASSUME SInv, NEW f \in Created, NEW x, front' = [front EXCEPT ![f].collections = x]
    PROVE  /\ OtherFronts(f) /\ Doc(front'[f])
           /\ front'[f].slug = front[f].slug /\ front'[f].cards = front[f].cards
           /\ front'[f].collections = x /\ front'[f].pages = front[f].pages /\ front'[f].release = front[f].release
<1> DEFINE d == [front[f] EXCEPT !.collections = x]
<1>1. Doc(front[f])
  BY DEF SInv
<1>2. front' = [front EXCEPT ![f] = d]
  OBVIOUS
<1>3. /\ Doc(d) /\ d.slug = front[f].slug /\ d.cards = front[f].cards /\ d.collections = x
      /\ d.pages = front[f].pages /\ d.release = front[f].release
  BY <1>1, ListField
<1> HIDE DEF d
<1>4. front'[f] = d /\ OtherFronts(f)
  BY <1>2, FrontReplaced
<1> QED BY <1>3, <1>4

LEMMA PagesField ==
    ASSUME NEW d, Doc(d), NEW x
    PROVE  LET e == [d EXCEPT !.pages = x]
           IN  /\ Doc(e) /\ e.slug = d.slug /\ e.cards = d.cards /\ e.collections = d.collections
               /\ e.pages = x /\ e.release = d.release
BY DEF Doc

LEMMA PagesSet ==
    ASSUME SInv, NEW f \in Created, NEW x, front' = [front EXCEPT ![f].pages = x]
    PROVE  /\ OtherFronts(f) /\ Doc(front'[f])
           /\ front'[f].slug = front[f].slug /\ front'[f].cards = front[f].cards
           /\ front'[f].collections = front[f].collections /\ front'[f].pages = x /\ front'[f].release = front[f].release
<1> DEFINE d == [front[f] EXCEPT !.pages = x]
<1>1. Doc(front[f])
  BY DEF SInv
<1>2. front' = [front EXCEPT ![f] = d]
  OBVIOUS
<1>3. /\ Doc(d) /\ d.slug = front[f].slug /\ d.cards = front[f].cards /\ d.collections = front[f].collections
      /\ d.pages = x /\ d.release = front[f].release
  BY <1>1, PagesField
<1> HIDE DEF d
<1>4. front'[f] = d /\ OtherFronts(f)
  BY <1>2, FrontReplaced
<1> QED BY <1>3, <1>4

LEMMA SlugField ==
    ASSUME NEW d, Doc(d), NEW x
    PROVE  LET e == [d EXCEPT !.slug = x]
           IN  /\ Doc(e) /\ e.slug = x /\ e.cards = d.cards /\ e.collections = d.collections
               /\ e.pages = d.pages /\ e.release = d.release
BY DEF Doc

LEMMA SlugSet ==
    ASSUME SInv, NEW f \in Created, NEW x, front' = [front EXCEPT ![f].slug = x]
    PROVE  /\ OtherFronts(f) /\ Doc(front'[f])
           /\ front'[f].slug = x /\ front'[f].cards = front[f].cards
           /\ front'[f].collections = front[f].collections /\ front'[f].pages = front[f].pages /\ front'[f].release = front[f].release
<1> DEFINE d == [front[f] EXCEPT !.slug = x]
<1>1. Doc(front[f])
  BY DEF SInv
<1>2. front' = [front EXCEPT ![f] = d]
  OBVIOUS
<1>3. /\ Doc(d) /\ d.slug = x /\ d.cards = front[f].cards /\ d.collections = front[f].collections
      /\ d.pages = front[f].pages /\ d.release = front[f].release
  BY <1>1, SlugField
<1> HIDE DEF d
<1>4. front'[f] = d /\ OtherFronts(f)
  BY <1>2, FrontReplaced
<1> QED BY <1>3, <1>4

LEMMA ReleaseField ==
    ASSUME NEW d, Doc(d), NEW x
    PROVE  LET e == [d EXCEPT !.release = x]
           IN  /\ Doc(e) /\ e.slug = d.slug /\ e.cards = d.cards /\ e.collections = d.collections
               /\ e.pages = d.pages /\ e.release = x
BY DEF Doc

LEMMA ReleaseSet ==
    ASSUME SInv, NEW f \in Created, NEW x, front' = [front EXCEPT ![f].release = x]
    PROVE  /\ OtherFronts(f) /\ Doc(front'[f])
           /\ front'[f].slug = front[f].slug /\ front'[f].cards = front[f].cards
           /\ front'[f].collections = front[f].collections /\ front'[f].pages = front[f].pages /\ front'[f].release = x
<1> DEFINE d == [front[f] EXCEPT !.release = x]
<1>1. Doc(front[f])
  BY DEF SInv
<1>2. front' = [front EXCEPT ![f] = d]
  OBVIOUS
<1>3. /\ Doc(d) /\ d.slug = front[f].slug /\ d.cards = front[f].cards /\ d.collections = front[f].collections
      /\ d.pages = front[f].pages /\ d.release = x
  BY <1>1, ReleaseField
<1> HIDE DEF d
<1>4. front'[f] = d /\ OtherFronts(f)
  BY <1>2, FrontReplaced
<1> QED BY <1>3, <1>4

LEMMA GoesTo ==
    ASSUME SInv, NEW r \in Requests, NEW at, req' = [req EXCEPT ![r].at = at]
    PROVE  /\ Others(r) /\ Same(r) /\ req'[r].at = at
           /\ req'[r].listed = req[r].listed /\ req'[r].present = req[r].present
           /\ req'[r].collections = req[r].collections
           /\ req'[r].blocks = req[r].blocks /\ req'[r].next = req[r].next
<1> DEFINE q == [req[r] EXCEPT !.at = at]
<1>1. req' = [req EXCEPT ![r] = q] /\ Ask(req[r])
  BY DEF SInv
<1>2. req'[r] = q /\ Others(r)
  BY <1>1, Replaced
<1>3. /\ Ask(q) /\ q.at = at /\ q.kind = req[r].kind /\ q.front = req[r].front
      /\ q.cards = req[r].cards /\ q.slug = req[r].slug /\ q.doc = req[r].doc
      /\ q.listed = req[r].listed /\ q.present = req[r].present
      /\ q.collections = req[r].collections
      /\ q.blocks = req[r].blocks /\ q.next = req[r].next
  BY <1>1, AtSet
<1> HIDE DEF q
<1> QED BY <1>2, <1>3 DEF Same

LEMMA StoreCardsEffect ==
    ASSUME SInv, NEW r \in Requests, StoreCards(r)
    PROVE  LET f == req[r].front
           IN  /\ req[r].at = "store" /\ Others(r) /\ Same(r) /\ req'[r].at = "read"
               /\ f \in Created /\ OtherFronts(f) /\ Doc(front'[f])
               /\ front'[f].cards = front[f].cards \cup req[r].cards
               /\ front'[f].collections = front[f].collections
               /\ front'[f].pages = front[f].pages
               /\ front'[f].slug = front[f].slug /\ front'[f].release = front[f].release
               /\ UNCHANGED <<holders, seen>>
<1> DEFINE f == req[r].front
<1>1. req[r].at = "store" /\ f \in Created
  BY Idle DEF StoreCards
<1>2. /\ front' = [front EXCEPT ![f].cards = front[f].cards \cup req[r].cards]
      /\ req' = [req EXCEPT ![r].at = "read"] /\ UNCHANGED <<holders, seen>>
  BY DEF StoreCards
<1> HIDE DEF f
<1>3. /\ OtherFronts(f) /\ Doc(front'[f]) /\ front'[f].cards = front[f].cards \cup req[r].cards
      /\ front'[f].collections = front[f].collections
      /\ front'[f].pages = front[f].pages
      /\ front'[f].slug = front[f].slug /\ front'[f].release = front[f].release
  BY <1>1, <1>2, CardsSet
<1>4. Others(r) /\ Same(r) /\ req'[r].at = "read"
  BY <1>2, GoesTo
<1> QED BY <1>1, <1>2, <1>3, <1>4 DEF f

LEMMA AddCollectionsEffect ==
    ASSUME SInv, NEW r \in Requests, AddCollections(r)
    PROVE  LET f == req[r].front
           IN  /\ req[r].at \in {"listFirst", "list"} /\ Others(r)
               /\ \/ /\ Same(r) /\ req'[r].at = "list"
                     /\ req'[r].collections = req[r].collections
                  \/ req'[r] = NoReq
               /\ f \in Created /\ OtherFronts(f) /\ Doc(front'[f])
               /\ front'[f].cards = front[f].cards
               /\ front'[f].collections = front[f].collections \cup req[r].collections
               /\ front'[f].pages = front[f].pages
               /\ front'[f].slug = front[f].slug /\ front'[f].release = front[f].release
               /\ UNCHANGED <<holders, seen>>
<1> DEFINE f == req[r].front
<1>1. req[r].at \in {"listFirst", "list"} /\ f \in Created
  BY Idle DEF AddCollections
<1>2. /\ front' = [front EXCEPT ![f].collections = front[f].collections \cup req[r].collections]
      /\ req' = [req EXCEPT ![r].at = "list"] \/ Answered(r)
      /\ UNCHANGED <<holders, seen>>
  BY DEF AddCollections
<1> HIDE DEF f
<1>3. /\ OtherFronts(f) /\ Doc(front'[f]) /\ front'[f].cards = front[f].cards
      /\ front'[f].collections = front[f].collections \cup req[r].collections
      /\ front'[f].pages = front[f].pages
      /\ front'[f].slug = front[f].slug /\ front'[f].release = front[f].release
  BY <1>1, <1>2, ListSet
<1>4. /\ Others(r)
      /\ \/ Same(r) /\ req'[r].at = "list" /\ req'[r].collections = req[r].collections
         \/ req'[r] = NoReq
  BY <1>2, GoesTo, Answers
<1> QED BY <1>1, <1>2, <1>3, <1>4 DEF f

LEMMA DeleteCollectionsEffect ==
    ASSUME SInv, NEW r \in Requests, DeleteCollections(r)
    PROVE  LET f == req[r].front
           IN  /\ req[r].at = "unlist" /\ Others(r) /\ req'[r] = NoReq
               /\ f \in Created /\ OtherFronts(f) /\ Doc(front'[f])
               /\ front'[f].cards = front[f].cards
               /\ front'[f].collections = front[f].collections \ req[r].collections
               /\ front'[f].pages = front[f].pages
               /\ front'[f].slug = front[f].slug /\ front'[f].release = front[f].release
               /\ UNCHANGED <<holders, seen>>
<1> DEFINE f == req[r].front
<1>1. req[r].at = "unlist" /\ f \in Created
  BY Idle DEF DeleteCollections
<1>2. /\ front' = [front EXCEPT ![f].collections = front[f].collections \ req[r].collections]
      /\ Answered(r) /\ UNCHANGED <<holders, seen>>
  BY DEF DeleteCollections
<1> HIDE DEF f
<1>3. /\ OtherFronts(f) /\ Doc(front'[f]) /\ front'[f].cards = front[f].cards
      /\ front'[f].collections = front[f].collections \ req[r].collections
      /\ front'[f].pages = front[f].pages
      /\ front'[f].slug = front[f].slug /\ front'[f].release = front[f].release
  BY <1>1, <1>2, ListSet
<1> QED BY <1>1, <1>2, <1>3, Answers DEF f

LEMMA KindSet ==
    ASSUME NEW q, Ask(q), NEW x
    PROVE  LET e == [q EXCEPT !.kind = x]
           IN  /\ Ask(e) /\ e.at = q.at /\ e.kind = x /\ e.front = q.front /\ e.cards = q.cards
               /\ e.slug = q.slug /\ e.doc = q.doc /\ e.listed = q.listed
               /\ e.present = q.present /\ e.collections = q.collections
BY DEF Ask

LEMMA AskedOf ==
    ASSUME NEW q, Ask(q), NEW x
    PROVE  LET e == [q EXCEPT !.front = x]
           IN  /\ Ask(e) /\ e.at = q.at /\ e.kind = q.kind /\ e.front = x /\ e.cards = q.cards
               /\ e.slug = q.slug /\ e.doc = q.doc /\ e.listed = q.listed
               /\ e.present = q.present /\ e.collections = q.collections
BY DEF Ask

LEMMA CardsOfAsk ==
    ASSUME NEW q, Ask(q), NEW x
    PROVE  LET e == [q EXCEPT !.cards = x]
           IN  /\ Ask(e) /\ e.at = q.at /\ e.kind = q.kind /\ e.front = q.front /\ e.cards = x
               /\ e.slug = q.slug /\ e.doc = q.doc /\ e.listed = q.listed
               /\ e.present = q.present /\ e.collections = q.collections
BY DEF Ask

LEMMA SlugOfAsk ==
    ASSUME NEW q, Ask(q), NEW x
    PROVE  LET e == [q EXCEPT !.slug = x]
           IN  /\ Ask(e) /\ e.at = q.at /\ e.kind = q.kind /\ e.front = q.front /\ e.cards = q.cards
               /\ e.slug = x /\ e.doc = q.doc /\ e.listed = q.listed
               /\ e.present = q.present /\ e.collections = q.collections
BY DEF Ask

LEMMA DocOfAsk ==
    ASSUME NEW q, Ask(q), NEW x
    PROVE  LET e == [q EXCEPT !.doc = x]
           IN  /\ Ask(e) /\ e.at = q.at /\ e.kind = q.kind /\ e.front = q.front /\ e.cards = q.cards
               /\ e.slug = q.slug /\ e.doc = x /\ e.listed = q.listed
               /\ e.present = q.present /\ e.collections = q.collections
BY DEF Ask

LEMMA MidwaySet ==
    ASSUME NEW q, Ask(q), NEW x
    PROVE  LET e == [q EXCEPT !.midway = x]
           IN  /\ Ask(e) /\ e.at = q.at /\ e.kind = q.kind /\ e.front = q.front /\ e.cards = q.cards
               /\ e.slug = q.slug /\ e.doc = q.doc /\ e.listed = q.listed
               /\ e.present = q.present /\ e.collections = q.collections
BY DEF Ask

LEMMA BlocksSet ==
    ASSUME NEW q, Ask(q), NEW x
    PROVE  LET e == [q EXCEPT !.blocks = x]
           IN  /\ Ask(e) /\ e.at = q.at /\ e.kind = q.kind /\ e.front = q.front /\ e.cards = q.cards
               /\ e.slug = q.slug /\ e.doc = q.doc /\ e.listed = q.listed
               /\ e.present = q.present /\ e.collections = q.collections
               /\ e.blocks = x /\ e.next = q.next
BY DEF Ask

LEMMA NextSet ==
    ASSUME NEW q, Ask(q), NEW x
    PROVE  LET e == [q EXCEPT !.next = x]
           IN  /\ Ask(e) /\ e.at = q.at /\ e.kind = q.kind /\ e.front = q.front /\ e.cards = q.cards
               /\ e.slug = q.slug /\ e.doc = q.doc /\ e.listed = q.listed
               /\ e.present = q.present /\ e.collections = q.collections
               /\ e.blocks = q.blocks /\ e.next = x
BY DEF Ask

(* A request as it begins.                                                 *)
First(at, kind, f) == [NoReq EXCEPT !.at = at, !.kind = kind, !.front = f]

LEMMA Begun ==
    ASSUME NEW at, NEW kind, NEW f
    PROVE  LET q == First(at, kind, f)
           IN  /\ Ask(q) /\ q.at = at /\ q.kind = kind /\ q.front = f /\ q.cards = {}
               /\ q.slug = NoSlug
<1> DEFINE q1 == [NoReq EXCEPT !.at = at]
           q2 == [q1 EXCEPT !.kind = kind]
           q3 == [q2 EXCEPT !.front = f]
<1>1. Ask(NoReq) /\ NoReq.cards = {} /\ NoReq.slug = NoSlug
  BY DEF Ask, NoReq
<1>2. Ask(q1) /\ q1.at = at /\ q1.cards = {} /\ q1.slug = NoSlug
  BY <1>1, AtSet
<1> HIDE DEF q1
<1>3. Ask(q2) /\ q2.at = at /\ q2.kind = kind /\ q2.cards = {} /\ q2.slug = NoSlug
  BY <1>2, KindSet
<1> HIDE DEF q2
<1>4. /\ Ask(q3) /\ q3.at = at /\ q3.kind = kind /\ q3.front = f /\ q3.cards = {}
      /\ q3.slug = NoSlug
  BY <1>3, AskedOf
<1>5. First(at, kind, f) = q3
  BY DEF First, q1, q2
<1> HIDE DEF q3
<1> QED BY <1>4, <1>5

LEMMA AddEffect ==
    ASSUME SInv, NEW r \in Requests, NEW b \in Bodies, AddCards(r, b)
    PROVE  LET f == b.front
           IN  /\ f \in Created /\ req[r] = NoReq /\ Others(r) /\ Ask(req'[r])
               /\ req'[r].at = "store" /\ req'[r].kind = "add" /\ req'[r].front = f
               /\ req'[r].cards = Existing(b.cards)
               /\ UNCHANGED <<front, holders>> /\ seen \subseteq seen'
               /\ \A q \in UnderWay(f, {"delete"}) :
                    <<"crossed", f>> \in seen' /\ <<"overlapped", f>> \in seen'
<1>1. /\ req' = [req EXCEPT ![r] = [NoReq EXCEPT !.at = "store", !.kind = "add",
                                   !.front = b.front, !.cards = Existing(b.cards)]]
      /\ b.front \in Created /\ req[r] = NoReq /\ UNCHANGED <<front, holders>>
      /\ seen \subseteq seen'
      /\ \A q \in UnderWay(b.front, {"delete"}) :
           <<"crossed", b.front>> \in seen' /\ <<"overlapped", b.front>> \in seen'
  BY DEF AddCards, Asks, Begins
<1> DEFINE q == [NoReq EXCEPT !.at = "store", !.kind = "add", !.front = b.front,
                              !.cards = Existing(b.cards)]
<1>2. /\ Ask(q) /\ q.at = "store" /\ q.kind = "add" /\ q.front = b.front
      /\ q.cards = Existing(b.cards)
  <2> DEFINE q1 == First("store", "add", b.front)
  <2>1. Ask(q1) /\ q1.at = "store" /\ q1.kind = "add" /\ q1.front = b.front
    BY Begun
  <2>2. q = [q1 EXCEPT !.cards = Existing(b.cards)]
    BY DEF First
  <2> HIDE DEF q, q1
  <2> QED BY <2>1, <2>2, CardsOfAsk
<1> HIDE DEF q
<1>3. req' = [req EXCEPT ![r] = q]
  BY <1>1 DEF q
<1> QED BY <1>1, <1>2, <1>3, Replaced

LEMMA DeleteEffect ==
    ASSUME SInv, NEW r \in Requests, NEW b \in Bodies, DeleteCards(r, b)
    PROVE  LET f == b.front
           IN  /\ f \in Created /\ req[r] = NoReq /\ Others(r) /\ Ask(req'[r])
               /\ req'[r].at = "read" /\ req'[r].kind = "delete" /\ req'[r].front = f
               /\ req'[r].cards = b.cards
               /\ OtherFronts(f) /\ Doc(front'[f])
               /\ front'[f].cards = front[f].cards \ b.cards
               /\ front'[f].collections = front[f].collections
               /\ front'[f].pages = front[f].pages
               /\ front'[f].slug = front[f].slug /\ front'[f].release = front[f].release
               /\ UNCHANGED holders /\ seen \subseteq seen'
               /\ \A q \in UnderWay(f, {"add"}) : <<"crossed", f>> \in seen'
               /\ \A q \in UnderWay(f, CardKinds) : <<"overlapped", f>> \in seen'
               /\ \A c \in b.cards \ front[f].cards : <<"strayed", f>> \in seen'
<1> DEFINE f == b.front
<1>1. /\ req' = [req EXCEPT ![r] = [NoReq EXCEPT !.at = "read", !.kind = "delete",
                                   !.front = b.front, !.cards = b.cards]]
      /\ f \in Created /\ req[r] = NoReq /\ UNCHANGED holders
      /\ front' = [front EXCEPT ![f].cards = front[f].cards \ b.cards]
  BY DEF DeleteCards, Asks, Begins
<1>2. /\ seen \subseteq seen'
      /\ \A q \in UnderWay(f, {"add"}) : <<"crossed", f>> \in seen'
      /\ \A q \in UnderWay(f, CardKinds) : <<"overlapped", f>> \in seen'
      /\ \A c \in b.cards \ front[f].cards : <<"strayed", f>> \in seen'
  BY DEF DeleteCards
<1> DEFINE q == [NoReq EXCEPT !.at = "read", !.kind = "delete", !.front = b.front,
                              !.cards = b.cards]
<1>3. Ask(q) /\ q.at = "read" /\ q.kind = "delete" /\ q.front = b.front /\ q.cards = b.cards
  <2> DEFINE q1 == First("read", "delete", b.front)
  <2>1. Ask(q1) /\ q1.at = "read" /\ q1.kind = "delete" /\ q1.front = b.front
    BY Begun
  <2>2. q = [q1 EXCEPT !.cards = b.cards]
    BY DEF First
  <2> HIDE DEF q, q1
  <2> QED BY <2>1, <2>2, CardsOfAsk
<1> HIDE DEF q
<1>4. req' = [req EXCEPT ![r] = q]
  BY <1>1 DEF q
<1>5. req'[r] = q /\ Others(r)
  BY <1>4, Replaced
<1> HIDE DEF f
<1>6. /\ OtherFronts(f) /\ Doc(front'[f]) /\ front'[f].cards = front[f].cards \ b.cards
      /\ front'[f].collections = front[f].collections
      /\ front'[f].pages = front[f].pages
      /\ front'[f].slug = front[f].slug /\ front'[f].release = front[f].release
  BY <1>1, CardsSet
<1> QED BY <1>1, <1>2, <1>3, <1>5, <1>6 DEF f

LEMMA UpdateSettingsEffect ==
    ASSUME SInv, NEW r \in Requests, NEW b \in Bodies, UpdateSettings(r, b)
    PROVE  /\ b.front \in Created /\ req[r] = NoReq /\ Others(r) /\ Ask(req'[r])
           /\ req'[r].at = "settings" /\ req'[r].kind = "settings" /\ req'[r].front = b.front
           /\ req'[r].cards = {} /\ UNCHANGED <<front, holders, seen>>
<1> DEFINE q1 == First("settings", "settings", b.front)
           q  == [q1 EXCEPT !.slug = b.slug]
<1>1. /\ req' = [req EXCEPT ![r] = q] /\ b.front \in Created /\ req[r] = NoReq
      /\ UNCHANGED <<front, holders, seen>>
  BY DEF UpdateSettings, Asks, Begins, First
<1>2. /\ Ask(q1) /\ q1.at = "settings" /\ q1.kind = "settings" /\ q1.front = b.front
      /\ q1.cards = {}
  BY Begun
<1> HIDE DEF q1
<1>3. Ask(q) /\ q.at = "settings" /\ q.kind = "settings" /\ q.front = b.front /\ q.cards = {}
  BY <1>2, SlugOfAsk
<1> HIDE DEF q
<1> QED BY <1>1, <1>3, Replaced

LEMMA PublishEffect ==
    ASSUME SInv, NEW r \in Requests, NEW b \in Bodies, PublishStoreFront(r, b)
    PROVE  /\ b.front \in Created /\ req[r] = NoReq /\ Others(r) /\ Ask(req'[r])
           /\ req'[r].at = "check" /\ req'[r].kind = "publish" /\ req'[r].front = b.front
           /\ req'[r].cards = {} /\ req'[r].slug = b.slug
           /\ front[b.front].slug # NoSlug \/ b.slug # NoSlug
           /\ UNCHANGED <<front, holders, seen>>
<1> DEFINE f  == b.front
           d  == [slug |-> front[f].slug, cards |-> front[f].cards,
                  collections |-> front[f].collections, pages |-> front[f].pages]
           m  == UnderWay(f, CardKinds) # {}
           q1 == First("check", "publish", f)
           q2 == [q1 EXCEPT !.slug = b.slug]
           q3 == [q2 EXCEPT !.doc = d]
           q  == [q3 EXCEPT !.midway = m]
<1>1. /\ f \in Created /\ req[r] = NoReq /\ UNCHANGED <<front, holders, seen>>
      /\ front[f].slug # NoSlug \/ b.slug # NoSlug
      /\ req' = [req EXCEPT ![r] =
           [NoReq EXCEPT !.at = "check", !.kind = "publish", !.front = f, !.slug = b.slug,
                         !.doc = d, !.midway = m]]
  BY DEF PublishStoreFront, Asks, Begins
<1> HIDE DEF f, d, m
<1>2. req' = [req EXCEPT ![r] = q]
  BY <1>1 DEF First
<1>3. Ask(q1) /\ q1.at = "check" /\ q1.kind = "publish" /\ q1.front = f /\ q1.cards = {}
  BY Begun
<1> HIDE DEF q1
<1>4. /\ Ask(q2) /\ q2.at = "check" /\ q2.kind = "publish" /\ q2.front = f /\ q2.cards = {}
      /\ q2.slug = b.slug
  BY <1>3, SlugOfAsk
<1> HIDE DEF q2
<1>5. /\ Ask(q3) /\ q3.at = "check" /\ q3.kind = "publish" /\ q3.front = f /\ q3.cards = {}
      /\ q3.slug = b.slug
  BY <1>4, DocOfAsk
<1> HIDE DEF q3
<1>6. /\ Ask(q) /\ q.at = "check" /\ q.kind = "publish" /\ q.front = f /\ q.cards = {}
      /\ q.slug = b.slug
  BY <1>5, MidwaySet
<1> HIDE DEF q
<1>7. req'[r] = q /\ Others(r)
  BY <1>2, Replaced
<1> QED BY <1>1, <1>6, <1>7 DEF f

LEMMA UpdatePageEffect ==
    ASSUME SInv, NEW r \in Requests, NEW b \in Bodies, UpdatePageSettings(r, b)
    PROVE  /\ b.front \in Created /\ req[r] = NoReq /\ Others(r) /\ Ask(req'[r])
           /\ req'[r].at = "validate" /\ req'[r].kind = "page" /\ req'[r].front = b.front
           /\ req'[r].cards = {} /\ UNCHANGED <<front, holders>> /\ seen \subseteq seen'
           /\ req'[r].blocks = b.blocks /\ req'[r].next = 1
<1> DEFINE q1 == First("validate", "page", b.front)
           q2 == [q1 EXCEPT !.blocks = b.blocks]
           q  == [q2 EXCEPT !.next = 1]
<1>1. /\ req' = [req EXCEPT ![r] = q] /\ b.front \in Created /\ req[r] = NoReq
      /\ UNCHANGED <<front, holders>> /\ seen \subseteq seen'
  BY DEF UpdatePageSettings, Asks, Begins, First
<1>2. /\ Ask(q1) /\ q1.at = "validate" /\ q1.kind = "page" /\ q1.front = b.front
      /\ q1.cards = {}
  BY Begun
<1> HIDE DEF q1
<1>3. /\ Ask(q2) /\ q2.at = "validate" /\ q2.kind = "page" /\ q2.front = b.front
      /\ q2.cards = {} /\ q2.blocks = b.blocks
  BY <1>2, BlocksSet
<1> HIDE DEF q2
<1>4. /\ Ask(q) /\ q.at = "validate" /\ q.kind = "page" /\ q.front = b.front /\ q.cards = {}
      /\ q.blocks = b.blocks /\ q.next = 1
  BY <1>3, NextSet
<1> HIDE DEF q
<1> QED BY <1>1, <1>4, Replaced

LEMMA CheckEffect ==
    ASSUME SInv, NEW r \in Requests, CheckRelease(r)
    PROVE  /\ req[r].at = "check" /\ Others(r) /\ UNCHANGED <<front, holders, seen>>
           /\ \/ req'[r] = NoReq
              \/ /\ Same(r) /\ req'[r].at = "release"
                 /\ req[r].doc.pages # <<>> /\ req[r].doc.cards # {}
                 /\ req[r].doc.collections # {}
<1>1. /\ req[r].at = "check" /\ UNCHANGED <<front, holders, seen>>
      /\ \/ Answered(r)
         \/ /\ req' = [req EXCEPT ![r].at = "release"]
            /\ req[r].doc.pages # <<>> /\ req[r].doc.cards # {} /\ req[r].doc.collections # {}
  BY DEF CheckRelease
<1>2. CASE Answered(r)
  BY <1>1, <1>2, Answers
<1>3. CASE req' = [req EXCEPT ![r].at = "release"]
  <2>1. Others(r) /\ Same(r) /\ req'[r].at = "release"
    BY <1>3, GoesTo
  <2>2. Answered(r) => req'[r] = NoReq
    BY Answers
  <2> QED BY <1>1, <2>1, <2>2
<1> QED BY <1>1, <1>2, <1>3

LEMMA StoreSettingsEffect ==
    ASSUME SInv, NEW r \in Requests, StoreSettings(r)
    PROVE  LET f == req[r].front
           IN  /\ req[r].at = "settings" /\ Others(r) /\ req'[r] = NoReq
               /\ f \in Created /\ UNCHANGED <<holders, seen>>
               /\ \/ UNCHANGED front
                  \/ /\ OtherFronts(f) /\ Doc(front'[f]) /\ front'[f].cards = front[f].cards
                     /\ front'[f].collections = front[f].collections /\ front'[f].pages = front[f].pages
                     /\ front'[f].release = front[f].release
                     /\ front'[f].slug = req[r].slug
                     /\ req[r].slug # NoSlug /\ ~Collides(f, req[r].slug)
<1> DEFINE f == req[r].front
<1>1. req[r].at = "settings" /\ f \in Created /\ req'[r] = NoReq /\ Others(r)
  BY Idle, Answers DEF StoreSettings
<1>2. /\ UNCHANGED <<holders, seen>>
      /\ \/ UNCHANGED front
         \/ /\ front' = [front EXCEPT ![f].slug = req[r].slug]
            /\ req[r].slug # NoSlug /\ ~Collides(f, req[r].slug)
  BY DEF StoreSettings
<1>3. ASSUME front' = [front EXCEPT ![f].slug = req[r].slug]
      PROVE  /\ OtherFronts(f) /\ Doc(front'[f]) /\ front'[f].cards = front[f].cards
             /\ front'[f].collections = front[f].collections /\ front'[f].pages = front[f].pages
             /\ front'[f].release = front[f].release /\ front'[f].slug = req[r].slug
  <2> HIDE DEF f
  <2> QED BY <1>1, <1>3, SlugSet
<1> QED BY <1>1, <1>2, <1>3

LEMMA StoreReleaseEffect ==
    ASSUME SInv, NEW r \in Requests, StoreRelease(r)
    PROVE  LET f == req[r].front
           IN  /\ req[r].at = "release" /\ Others(r) /\ req'[r] = NoReq
               /\ f \in Created /\ UNCHANGED <<holders, seen>>
               /\ \/ UNCHANGED front
                  \/ /\ OtherFronts(f) /\ Doc(front'[f]) /\ front'[f].cards = front[f].cards
                     /\ front'[f].collections = front[f].collections /\ front'[f].pages = front[f].pages
                     /\ front'[f].release = req[r].doc
                     /\ front'[f].slug =
                          IF req[r].slug = NoSlug THEN front[f].slug ELSE req[r].slug
                     /\ ~Collides(f, req[r].slug)
<1> DEFINE f == req[r].front
           s == IF req[r].slug = NoSlug THEN front[f].slug ELSE req[r].slug
           e == [[front[f] EXCEPT !.release = req[r].doc] EXCEPT !.slug = s]
<1>1. req[r].at = "release" /\ f \in Created /\ req'[r] = NoReq /\ Others(r)
  BY Idle, Answers DEF StoreRelease
<1>2. /\ UNCHANGED <<holders, seen>>
      /\ \/ UNCHANGED front
         \/ front' = [front EXCEPT ![f] = e] /\ ~Collides(f, req[r].slug)
  BY <1>1 DEF StoreRelease
<1>3. /\ Doc(e) /\ e.cards = front[f].cards /\ e.collections = front[f].collections /\ e.pages = front[f].pages
      /\ e.release = req[r].doc /\ e.slug = s
  <2> DEFINE d == [front[f] EXCEPT !.release = req[r].doc]
  <2> HIDE DEF f, s
  <2>1. Doc(front[f])
    BY <1>1 DEF SInv
  <2>2. /\ Doc(d) /\ d.cards = front[f].cards /\ d.collections = front[f].collections /\ d.pages = front[f].pages
        /\ d.release = req[r].doc
    BY <2>1, ReleaseField
  <2>3. e = [d EXCEPT !.slug = s]
    OBVIOUS
  <2> HIDE DEF d, e
  <2> QED BY <2>2, <2>3, SlugField
<1> HIDE DEF e
<1>4. CASE UNCHANGED front
  BY <1>1, <1>2, <1>4
<1>5. CASE front' = [front EXCEPT ![f] = e] /\ ~Collides(f, req[r].slug)
  <2>1. front'[f] = e /\ OtherFronts(f)
    BY <1>1, <1>5, FrontReplaced
  <2> QED BY <1>1, <1>2, <1>3, <1>5, <2>1
<1> QED BY <1>2, <1>4, <1>5

LEMMA ValidateEffect ==
    ASSUME SInv, NEW r \in Requests, ValidateBlock(r)
    PROVE  /\ req[r].at = "validate" /\ Others(r) /\ UNCHANGED <<front, holders, seen>>
           /\ \/ req'[r] = NoReq
              \/ /\ Same(r) /\ req'[r].at = "validate"
                 /\ LET n == req[r].next
                    IN  /\ n <= Len(req[r].blocks)
                        /\ BlockValid(req[r].blocks[n], req[r].front)
                        /\ req'[r].next = n + 1
                        /\ req'[r].blocks =
                             [req[r].blocks EXCEPT ![n] = Stripped(req[r].blocks[n])]
<1>1. /\ req[r].at = "validate" /\ UNCHANGED <<front, holders, seen>>
      /\ \/ Answered(r)
         \/ /\ req' = [req EXCEPT ![r].next = @ + 1, ![r].blocks[req[r].next] = Stripped(@)]
            /\ req[r].next <= Len(req[r].blocks)
            /\ BlockValid(req[r].blocks[req[r].next], req[r].front)
  BY DEF ValidateBlock
<1>2. CASE Answered(r)
  <2>1. req'[r] = NoReq /\ Others(r)
    BY <1>2, Answers
  <2>2. req[r].at = "validate" /\ UNCHANGED <<front, holders, seen>>
    BY <1>1
  <2> QED BY <2>1, <2>2
<1>3. CASE /\ req' = [req EXCEPT ![r].next = @ + 1, ![r].blocks[req[r].next] = Stripped(@)]
           /\ req[r].next <= Len(req[r].blocks)
           /\ BlockValid(req[r].blocks[req[r].next], req[r].front)
  <2> DEFINE n  == req[r].next
             q1 == [req[r] EXCEPT !.next = req[r].next + 1]
             bs == [req[r].blocks EXCEPT ![n] = Stripped(req[r].blocks[n])]
             q  == [q1 EXCEPT !.blocks = bs]
  <2>1. Ask(req[r])
    BY DEF SInv
  <2>2. req' = [req EXCEPT ![r] = q]
    BY <1>3 DEF SInv
  <2>3. /\ Ask(q1) /\ q1.at = req[r].at /\ q1.kind = req[r].kind /\ q1.front = req[r].front
        /\ q1.cards = req[r].cards /\ q1.slug = req[r].slug /\ q1.doc = req[r].doc
        /\ q1.next = n + 1
    BY <2>1, NextSet
  <2> HIDE DEF q1, bs, n
  <2>4. /\ Ask(q) /\ q.at = req[r].at /\ q.kind = req[r].kind /\ q.front = req[r].front
        /\ q.cards = req[r].cards /\ q.slug = req[r].slug /\ q.doc = req[r].doc
        /\ q.next = n + 1 /\ q.blocks = bs
    BY <2>3, BlocksSet
  <2> HIDE DEF q
  <2>5. req'[r] = q /\ Others(r)
    BY <2>2, Replaced
  <2> QED BY <1>1, <1>3, <2>4, <2>5 DEF Same, n, bs
<1> QED BY <1>1, <1>2, <1>3

LEMMA StorePageEffect ==
    ASSUME SInv, NEW r \in Requests, StorePageSetting(r) \/ AddPage(r)
    PROVE  LET f == req[r].front
           IN  /\ req[r].at \in {"validate", "addPage"} /\ Others(r)
               /\ (req'[r] = NoReq \/ (Same(r) /\ req'[r].at = "addPage"))
               /\ f \in Created /\ UNCHANGED <<holders, seen>>
               /\ \/ UNCHANGED front
                  \/ /\ OtherFronts(f) /\ Doc(front'[f]) /\ front'[f].cards = front[f].cards
                     /\ front'[f].collections = front[f].collections
                     /\ front'[f].slug = front[f].slug /\ front'[f].release = front[f].release
<1> DEFINE f == req[r].front
           ps == [front[f].pages EXCEPT ![1] = req[r].blocks]
           pa == Append(front[f].pages, req[r].blocks)
<1>1. req[r].at \in {"validate", "addPage"} /\ f \in Created
  BY Idle DEF StorePageSetting, AddPage
<1>2. /\ UNCHANGED <<holders, seen>>
      /\ Answered(r) \/ req' = [req EXCEPT ![r].at = "addPage"]
      /\ \/ UNCHANGED front
         \/ front' = [front EXCEPT ![f].pages = ps]
         \/ front' = [front EXCEPT ![f].pages = pa]
  <2>1. CASE StorePageSetting(r)
    <3>1. front' = [front EXCEPT ![f].pages[1] = req[r].blocks] =>
            front' = [front EXCEPT ![f].pages = ps]
      BY <1>1 DEF StorePageSetting
    <3> QED BY <2>1, <3>1 DEF StorePageSetting
  <2>2. CASE AddPage(r)
    BY <2>2 DEF AddPage
  <2> QED BY <2>1, <2>2
<1>3. Others(r) /\ (req'[r] = NoReq \/ (Same(r) /\ req'[r].at = "addPage"))
  BY <1>2, GoesTo, Answers
<1>4. ASSUME NEW x, front' = [front EXCEPT ![f].pages = x]
      PROVE  /\ OtherFronts(f) /\ Doc(front'[f]) /\ front'[f].cards = front[f].cards
             /\ front'[f].collections = front[f].collections
             /\ front'[f].slug = front[f].slug /\ front'[f].release = front[f].release
  <2> HIDE DEF f
  <2> QED BY <1>1, <1>4, PagesSet
<1> HIDE DEF ps, pa
<1> QED BY <1>1, <1>2, <1>3, <1>4

LEMMA CreateEffect ==
    ASSUME SInv, NEW f \in Fronts, CreateStoreFront(f)
    PROVE  /\ f \notin Created /\ Created' = Created \cup {f} /\ front'[f] = NewFront
           /\ \A g \in Created : front'[g] = front[g]
           /\ UNCHANGED <<req, holders, seen>>
BY DEF CreateStoreFront, Created

LEMMA FailEffect ==
    ASSUME SInv, NEW r \in Requests, RequestFails(r)
    PROVE  /\ req[r].at # "idle" /\ Others(r) /\ req'[r] = NoReq
           /\ UNCHANGED <<front, holders>> /\ seen \subseteq seen'
           /\ req[r].kind \in CardKinds /\ req[r].at # "store"
                => <<"cutShort", req[r].front>> \in seen'
BY Answers DEF RequestFails

-----------------------------------------------------------------------------
(* A slug names one front, and a release is found under it.                *)

(* What a publication carries: a slug, its own or the front's, and once    *)
(* checked a page, a card and a collection.                                *)
Presentable(d) == d.pages # <<>> /\ d.cards # {} /\ d.collections # {}

PubReq ==
    \A r \in Requests :
        /\ req[r].kind = "publish" => front[req[r].front].slug # NoSlug \/ req[r].slug # NoSlug
        /\ req[r].at = "release" => Presentable(req[r].doc)

SlugInv == SInv /\ PubReq /\ PublishedUnderItsSlug

(* One request begins, goes on or ends.                                    *)
RequestMoves(r) ==
    /\ Others(r)
    /\ \/ req'[r] = NoReq
       \/ /\ Ask(req'[r]) /\ Stage(req'[r])
          /\ req'[r].front \in Created /\ req'[r].cards \subseteq Cards
          /\ req'[r].kind = "publish" =>
               front[req'[r].front].slug # NoSlug \/ req'[r].slug # NoSlug
          /\ req'[r].at = "release" => Presentable(req'[r].doc)

(* One front is created, changed but for its slug and its release, or      *)
(* named and released.                                                     *)
Named(f) ==
    /\ front'[f].slug # NoSlug
    /\ front'[f].slug = front[f].slug \/ ~Collides(f, front'[f].slug)
    /\ front'[f].release = front[f].release \/ Presentable(front'[f].release)

FrontMoves ==
    \/ UNCHANGED front
    \/ \E f \in Fronts : /\ f \notin Created /\ Created' = Created \cup {f}
                         /\ front'[f] = NewFront /\ \A g \in Created : front'[g] = front[g]
    \/ \E f \in Created :
         /\ OtherFronts(f) /\ Doc(front'[f]) /\ front'[f].cards \subseteq Cards
         /\ \/ front'[f].slug = front[f].slug /\ front'[f].release = front[f].release
            \/ Named(f)

Moves == /\ DOMAIN holders' = Cards
         /\ UNCHANGED req \/ \E r \in Requests : RequestMoves(r)
         /\ FrontMoves

LEMMA NewFrontFields ==
    Doc(NewFront) /\ NewFront.cards = {} /\ NewFront.slug = NoSlug /\ NewFront.release = None
BY DEF Doc, NewFront

LEMMA SInvMoves ==
    ASSUME SInv, Moves
    PROVE  SInv'
<1>1. \A f \in Created' : Doc(front'[f]) /\ front'[f].cards \subseteq Cards
  <2>1. CASE UNCHANGED front
    BY <2>1 DEF SInv, Created
  <2>2. ASSUME NEW f \in Fronts, f \notin Created, Created' = Created \cup {f},
               front'[f] = NewFront, \A g \in Created : front'[g] = front[g]
        PROVE  \A g \in Created' : Doc(front'[g]) /\ front'[g].cards \subseteq Cards
    BY <2>2, NewFrontFields DEF SInv
  <2>3. ASSUME NEW f \in Created, OtherFronts(f), Doc(front'[f]), front'[f].cards \subseteq Cards
        PROVE  \A g \in Created' : Doc(front'[g]) /\ front'[g].cards \subseteq Cards
    BY <2>3 DEF SInv, OtherFronts
  <2> QED BY <2>1, <2>2, <2>3 DEF Moves, FrontMoves
<1>2. Created \subseteq Created'
  BY DEF Moves, FrontMoves, OtherFronts, Created
<1>3. /\ DOMAIN req' = Requests
      /\ \A r \in Requests :
           /\ Ask(req'[r])
           /\ \/ req'[r] = NoReq
              \/ Stage(req'[r]) /\ req'[r].front \in Created' /\ req'[r].cards \subseteq Cards
  <2>1. CASE UNCHANGED req
    BY <1>2, <2>1 DEF SInv
  <2>2. ASSUME NEW r \in Requests, RequestMoves(r)
        PROVE  /\ DOMAIN req' = Requests
               /\ \A p \in Requests :
                    /\ Ask(req'[p])
                    /\ \/ req'[p] = NoReq
                       \/ /\ Stage(req'[p]) /\ req'[p].front \in Created'
                          /\ req'[p].cards \subseteq Cards
    BY <1>2, <2>2, NoReqFields DEF SInv, RequestMoves, Others
  <2> QED BY <2>1, <2>2 DEF Moves
<1> QED BY <1>1, <1>3 DEF SInv, Moves

(* A slug, once given, is never lost.                                      *)
LEMMA SlugsStay ==
    ASSUME FrontMoves
    PROVE  /\ Created \subseteq Created'
           /\ \A f \in Created : front[f].slug # NoSlug => front'[f].slug # NoSlug
BY DEF FrontMoves, Named, OtherFronts, Created

LEMMA PubReqMoves ==
    ASSUME SInv, PubReq, Moves
    PROVE  PubReq'
<1>1. \A f \in Created : front[f].slug # NoSlug => front'[f].slug # NoSlug
  BY SlugsStay DEF Moves
<1>2. \A p \in Requests : req[p].kind = "publish" => req[p].front \in Created
  BY NoReqFields DEF SInv
<1>3. CASE UNCHANGED req
  BY <1>1, <1>2, <1>3 DEF PubReq
<1>4. ASSUME NEW r \in Requests, RequestMoves(r)
      PROVE  PubReq'
  BY <1>1, <1>2, <1>4, NoReqFields DEF PubReq, RequestMoves, Others
<1> QED BY <1>3, <1>4 DEF Moves

LEMMA PublishedMoves ==
    ASSUME PublishedUnderItsSlug, FrontMoves
    PROVE  PublishedUnderItsSlug'
<1> USE DEF PublishedUnderItsSlug, SlugNamesOneFront, ReleaseReachable
<1>1. CASE UNCHANGED front
  BY <1>1 DEF Created
<1>2. ASSUME NEW f \in Fronts, f \notin Created, Created' = Created \cup {f},
             front'[f] = NewFront, \A g \in Created : front'[g] = front[g]
      PROVE  PublishedUnderItsSlug'
  BY <1>2, NewFrontFields
<1>3. ASSUME NEW f \in Created, OtherFronts(f),
             front'[f].slug = front[f].slug, front'[f].release = front[f].release
      PROVE  PublishedUnderItsSlug'
  BY <1>3 DEF OtherFronts
<1>4. ASSUME NEW f \in Created, OtherFronts(f), Named(f)
      PROVE  PublishedUnderItsSlug'
  <2>1. SlugNamesOneFront'
    BY <1>4 DEF OtherFronts, Named, Collides
  <2>2. ReleaseReachable'
    BY <1>4 DEF OtherFronts, Named, Presentable
  <2> QED BY <2>1, <2>2
<1> QED BY <1>1, <1>2, <1>3, <1>4 DEF FrontMoves

(* The steps of a request after its first.                                 *)
LEMMA ContinueMoves ==
    ASSUME SInv, PubReq, NEW r \in Requests, Continue(r)
    PROVE  Moves
<1> DEFINE f == req[r].front
<1>1. req[r].at # "idle" => Stage(req[r]) /\ f \in Created /\ req[r].cards \subseteq Cards
  BY Idle
<1>2. DOMAIN holders = Cards /\ \A g \in Created : Doc(front[g]) /\ front[g].cards \subseteq Cards
  BY DEF SInv
<1>3. ASSUME Others(r), Same(r), Stage(req'[r]), req[r].at # "idle",
             req'[r].at = "release" => Presentable(req[r].doc)
      PROVE  RequestMoves(r)
  BY <1>1, <1>3 DEF RequestMoves, Same, PubReq
<1>4. ASSUME Others(r), req'[r] = NoReq
      PROVE  RequestMoves(r)
  BY <1>4 DEF RequestMoves
<1>5. ASSUME f \in Created, OtherFronts(f), Doc(front'[f]), front'[f].cards \subseteq Cards,
             front'[f].slug = front[f].slug, front'[f].release = front[f].release
      PROVE  FrontMoves
  BY <1>5 DEF FrontMoves
<1>6. ASSUME f \in Created, OtherFronts(f), Doc(front'[f]), front'[f].cards \subseteq Cards,
             Named(f)
      PROVE  FrontMoves
  BY <1>6 DEF FrontMoves
<1>7. UNCHANGED front => FrontMoves
  BY DEF FrontMoves
<1> HIDE DEF f
<1>8. CASE StoreCards(r)
  <2>1. /\ req[r].at = "store" /\ Others(r) /\ Same(r) /\ req'[r].at = "read" /\ f \in Created
        /\ OtherFronts(f) /\ Doc(front'[f]) /\ UNCHANGED holders
        /\ front'[f].cards = front[f].cards \cup req[r].cards
        /\ front'[f].slug = front[f].slug /\ front'[f].release = front[f].release
    BY <1>8, StoreCardsEffect DEF f
  <2>2. Stage(req'[r])
    BY <1>1, <2>1 DEF Stage, Same, CardKinds
  <2>3. front'[f].cards \subseteq Cards
    BY <1>1, <1>2, <2>1
  <2> QED BY <1>2, <1>3, <1>5, <2>1, <2>2, <2>3 DEF Moves
<1>9. CASE ReadStoreFront(r)
  <2>1. /\ req[r].at = "read" /\ Others(r) /\ Same(r) /\ req'[r].at = "find"
        /\ UNCHANGED <<front, holders>>
    BY <1>9, ReadEffect
  <2>2. Stage(req'[r])
    BY <1>1, <2>1 DEF Stage, Same
  <2> QED BY <1>2, <1>3, <1>7, <2>1, <2>2 DEF Moves
<1>10. CASE FindExistingCards(r)
  <2>1. /\ req[r].at = "find" /\ Others(r) /\ Same(r) /\ req'[r].at = "decide"
        /\ UNCHANGED <<front, holders>>
    BY <1>10, FindEffect
  <2>2. Stage(req'[r])
    BY <1>1, <2>1 DEF Stage, Same
  <2> QED BY <1>2, <1>3, <1>7, <2>1, <2>2 DEF Moves
<1>11. CASE DecideCollections(r)
  <2>1. /\ req[r].at = "decide" /\ Others(r) /\ UNCHANGED <<front, holders>>
        /\ req'[r] = NoReq \/ (Same(r) /\ req'[r].at \in {"unlist", "listFirst", "list"})
    BY <1>11, DecideEffect
  <2>2. Same(r) /\ req'[r].at \in {"unlist", "listFirst", "list"} => Stage(req'[r])
    BY <1>1, <2>1 DEF Stage, Same
  <2> QED BY <1>2, <1>3, <1>4, <1>7, <2>1, <2>2 DEF Moves
<1>12. CASE AddCollections(r)
  <2>1. /\ req[r].at \in {"listFirst", "list"} /\ Others(r) /\ UNCHANGED holders
        /\ (Same(r) /\ req'[r].at = "list") \/ req'[r] = NoReq
        /\ f \in Created /\ OtherFronts(f) /\ Doc(front'[f])
        /\ front'[f].cards = front[f].cards
        /\ front'[f].slug = front[f].slug /\ front'[f].release = front[f].release
    BY <1>12, AddCollectionsEffect DEF f
  <2>2. Same(r) /\ req'[r].at = "list" => Stage(req'[r])
    BY <1>1, <2>1 DEF Stage, Same
  <2>3. front'[f].cards \subseteq Cards
    BY <1>2, <2>1
  <2> QED BY <1>2, <1>3, <1>4, <1>5, <2>1, <2>2, <2>3 DEF Moves
<1>13. CASE DeleteCollections(r)
  <2>1. /\ Others(r) /\ req'[r] = NoReq /\ UNCHANGED holders
        /\ f \in Created /\ OtherFronts(f) /\ Doc(front'[f])
        /\ front'[f].cards = front[f].cards
        /\ front'[f].slug = front[f].slug /\ front'[f].release = front[f].release
    BY <1>13, DeleteCollectionsEffect DEF f
  <2>2. front'[f].cards \subseteq Cards
    BY <1>2, <2>1
  <2> QED BY <1>2, <1>4, <1>5, <2>1, <2>2 DEF Moves
<1>14. CASE StoreSettings(r)
  <2>1. Others(r) /\ req'[r] = NoReq /\ f \in Created /\ UNCHANGED holders
    BY <1>14, StoreSettingsEffect DEF f
  <2>2. \/ UNCHANGED front
        \/ /\ OtherFronts(f) /\ Doc(front'[f]) /\ front'[f].cards = front[f].cards
           /\ front'[f].release = front[f].release /\ front'[f].slug = req[r].slug
           /\ req[r].slug # NoSlug /\ ~Collides(f, req[r].slug)
    BY <1>14, StoreSettingsEffect DEF f
  <2>3. FrontMoves
    BY <1>2, <1>6, <1>7, <2>1, <2>2 DEF Named
  <2> QED BY <1>2, <1>4, <2>1, <2>3 DEF Moves
<1>15. CASE CheckRelease(r)
  <2>1. /\ req[r].at = "check" /\ Others(r) /\ UNCHANGED <<front, holders>>
        /\ \/ req'[r] = NoReq
           \/ Same(r) /\ req'[r].at = "release" /\ Presentable(req[r].doc)
    BY <1>15, CheckEffect DEF Presentable
  <2>2. Same(r) /\ req'[r].at = "release" => Stage(req'[r])
    BY <1>1, <2>1 DEF Stage, Same
  <2> QED BY <1>2, <1>3, <1>4, <1>7, <2>1, <2>2 DEF Moves
<1>16. CASE StoreRelease(r)
  <2>1. /\ req[r].at = "release" /\ Others(r) /\ req'[r] = NoReq /\ f \in Created
        /\ UNCHANGED holders
    BY <1>16, StoreReleaseEffect DEF f
  <2>2. \/ UNCHANGED front
        \/ /\ OtherFronts(f) /\ Doc(front'[f]) /\ front'[f].cards = front[f].cards
           /\ front'[f].release = req[r].doc
           /\ front'[f].slug = IF req[r].slug = NoSlug THEN front[f].slug ELSE req[r].slug
           /\ ~Collides(f, req[r].slug)
    BY <1>16, StoreReleaseEffect DEF f
  <2>3. Presentable(req[r].doc) /\ (front[f].slug # NoSlug \/ req[r].slug # NoSlug)
    BY <1>1, <2>1 DEF PubReq, Stage, f
  <2>4. FrontMoves
    BY <1>2, <1>6, <1>7, <2>1, <2>2, <2>3 DEF Named
  <2> QED BY <1>2, <1>4, <2>1, <2>4 DEF Moves
<1>17. CASE ValidateBlock(r)
  <2>1. /\ req[r].at = "validate" /\ Others(r) /\ UNCHANGED <<front, holders>>
        /\ req'[r] = NoReq \/ (Same(r) /\ req'[r].at = "validate")
    BY <1>17, ValidateEffect
  <2>2. Same(r) /\ req'[r].at = "validate" => Stage(req'[r])
    BY <1>1, <2>1 DEF Stage, Same
  <2> QED BY <1>2, <1>3, <1>4, <1>7, <2>1, <2>2 DEF Moves
<1>18. CASE StorePageSetting(r) \/ AddPage(r)
  <2>1. /\ req[r].at \in {"validate", "addPage"} /\ Others(r) /\ UNCHANGED holders
        /\ req'[r] = NoReq \/ (Same(r) /\ req'[r].at = "addPage")
        /\ f \in Created
    BY <1>18, StorePageEffect DEF f
  <2>2. \/ UNCHANGED front
        \/ /\ OtherFronts(f) /\ Doc(front'[f]) /\ front'[f].cards = front[f].cards
           /\ front'[f].slug = front[f].slug /\ front'[f].release = front[f].release
    BY <1>18, StorePageEffect DEF f
  <2>3. Same(r) /\ req'[r].at = "addPage" => Stage(req'[r])
    BY <1>1, <2>1 DEF Stage, Same
  <2>4. FrontMoves
    BY <1>2, <1>5, <1>7, <2>1, <2>2
  <2> QED BY <1>2, <1>3, <1>4, <2>1, <2>3, <2>4 DEF Moves
<1> QED BY <1>8, <1>9, <1>10, <1>11, <1>12, <1>13, <1>14, <1>15, <1>16, <1>17, <1>18 DEF Continue

(* The first step of a request, the end of one, and what others do.        *)
LEMMA BeginMoves ==
    ASSUME SInv, NEW r \in Requests, NEW b \in Bodies, Begin(r, b)
    PROVE  Moves
<1>1. DOMAIN holders = Cards /\ \A g \in Created : Doc(front[g]) /\ front[g].cards \subseteq Cards
  BY DEF SInv
<1>2. Existing(b.cards) \subseteq Cards /\ b.cards \subseteq Cards
  BY BodiesAssumption DEF Existing
<1>3. UNCHANGED front => FrontMoves
  BY DEF FrontMoves
<1>4. CASE AddCards(r, b)
  <2>1. /\ b.front \in Created /\ Others(r) /\ Ask(req'[r]) /\ req'[r].front = b.front
        /\ req'[r].at = "store" /\ req'[r].kind = "add" /\ req'[r].cards = Existing(b.cards)
        /\ UNCHANGED <<front, holders>>
    BY <1>4, AddEffect
  <2> QED BY <1>1, <1>2, <1>3, <2>1 DEF Moves, RequestMoves, Stage
<1>5. CASE DeleteCards(r, b)
  <2>1. /\ b.front \in Created /\ Others(r) /\ Ask(req'[r]) /\ req'[r].front = b.front
        /\ req'[r].at = "read" /\ req'[r].kind = "delete" /\ req'[r].cards = b.cards
        /\ UNCHANGED holders
    BY <1>5, DeleteEffect
  <2>2. /\ OtherFronts(b.front) /\ Doc(front'[b.front])
        /\ front'[b.front].cards = front[b.front].cards \ b.cards
        /\ front'[b.front].slug = front[b.front].slug
        /\ front'[b.front].release = front[b.front].release
    BY <1>5, DeleteEffect
  <2>3. FrontMoves
    BY <1>1, <2>1, <2>2 DEF FrontMoves
  <2> QED BY <1>1, <1>2, <2>1, <2>3 DEF Moves, RequestMoves, Stage, CardKinds
<1>6. CASE UpdateSettings(r, b)
  <2>1. /\ b.front \in Created /\ Others(r) /\ Ask(req'[r]) /\ req'[r].front = b.front
        /\ req'[r].at = "settings" /\ req'[r].kind = "settings" /\ req'[r].cards = {}
        /\ UNCHANGED <<front, holders>>
    BY <1>6, UpdateSettingsEffect
  <2> QED BY <1>1, <1>3, <2>1 DEF Moves, RequestMoves, Stage
<1>7. CASE PublishStoreFront(r, b)
  <2>1. /\ b.front \in Created /\ Others(r) /\ Ask(req'[r]) /\ req'[r].front = b.front
        /\ req'[r].at = "check" /\ req'[r].kind = "publish" /\ req'[r].cards = {}
        /\ front[b.front].slug # NoSlug \/ req'[r].slug # NoSlug
        /\ UNCHANGED <<front, holders>>
    BY <1>7, PublishEffect
  <2> QED BY <1>1, <1>3, <2>1 DEF Moves, RequestMoves, Stage
<1>8. CASE UpdatePageSettings(r, b)
  <2>1. /\ b.front \in Created /\ Others(r) /\ Ask(req'[r]) /\ req'[r].front = b.front
        /\ req'[r].at = "validate" /\ req'[r].kind = "page" /\ req'[r].cards = {}
        /\ UNCHANGED <<front, holders>>
    BY <1>8, UpdatePageEffect
  <2> QED BY <1>1, <1>3, <2>1 DEF Moves, RequestMoves, Stage
<1> QED BY <1>4, <1>5, <1>6, <1>7, <1>8 DEF Begin

LEMMA OtherMoves ==
    ASSUME SInv,
           \/ \E f \in Fronts : CreateStoreFront(f)
           \/ \E r \in Requests : RequestFails(r)
           \/ \E c \in Cards : \E to \in {{}} \cup {{u} : u \in Users} : CardChangesHands(c, to)
           \/ UNCHANGED vars
    PROVE  Moves
<1>1. DOMAIN holders = Cards
  BY DEF SInv
<1>2. ASSUME NEW f \in Fronts, CreateStoreFront(f)
      PROVE  Moves
  BY <1>1, <1>2, CreateEffect DEF Moves, FrontMoves
<1>3. ASSUME NEW r \in Requests, RequestFails(r)
      PROVE  Moves
  <2>1. Others(r) /\ req'[r] = NoReq /\ UNCHANGED <<front, holders>>
    BY <1>3, FailEffect
  <2> QED BY <1>1, <2>1 DEF Moves, FrontMoves, RequestMoves
<1>4. ASSUME NEW c \in Cards, NEW to, CardChangesHands(c, to)
      PROVE  Moves
  BY <1>1, <1>4 DEF CardChangesHands, Moves, FrontMoves
<1>5. CASE UNCHANGED vars
  BY <1>1, <1>5 DEF vars, Moves, FrontMoves
<1> QED BY <1>2, <1>3, <1>4, <1>5

LEMMA SlugInvInit == Init => SlugInv
<1> SUFFICES ASSUME Init PROVE SlugInv
  OBVIOUS
<1>1. Created = {}
  BY DEF Init, Created
<1>2. SInv /\ PubReq
  BY <1>1, NoReqFields DEF SInv, PubReq, Init
<1> QED BY <1>1, <1>2 DEF SlugInv, PublishedUnderItsSlug, SlugNamesOneFront, ReleaseReachable

LEMMA SlugInvNext == SlugInv /\ [Next]_vars => SlugInv'
<1> SUFFICES ASSUME SlugInv, [Next]_vars PROVE SlugInv'
  OBVIOUS
<1>1. Moves
  BY ContinueMoves, BeginMoves, OtherMoves DEF SlugInv, Next
<1> QED BY <1>1, SInvMoves, PubReqMoves, PublishedMoves DEF SlugInv, Moves

(* No two fronts ever have the same slug, and a released front is found    *)
(* under its slug with a page, a card and a collection to show             *)
(* (updateSettings, publishStoreFront and the unique index on slug).       *)
THEOREM SlugsLeadToReleases == Spec => []PublishedUnderItsSlug
<1>1. SlugInv => PublishedUnderItsSlug
  BY DEF SlugInv
<1> QED BY <1>1, SlugInvInit, SlugInvNext, PTL DEF Spec

-----------------------------------------------------------------------------
(* The collections of a front are those of its cards.  The list is derived *)
(* from what was read several awaits earlier; the proof says what each     *)
(* read still means when it is used.                                       *)
OnCards(r, f) == req[r].front = f /\ req[r].kind \in CardKinds
Adds(r, f)    == OnCards(r, f) /\ req[r].kind = "add"
Deletes(r, f) == OnCards(r, f) /\ req[r].kind = "delete"

-----------------------------------------------------------------------------
(* No card without its collection.  An addition and a deletion are never   *)
(* under way at once ...                                                   *)
NeverCrossed(f) == \A r, p \in Requests : ~(Adds(r, f) /\ Deletes(p, f))

(* ... what an addition holds covers the cards it added ...                *)
AdditionCovers(r, f) ==
    /\ req[r].cards \subseteq front[f].cards /\ req[r].at # "unlist"
    /\ req[r].at = "find" => req[r].cards \subseteq req[r].present
    /\ req[r].at \in {"decide", "listFirst", "list"} =>
         ListedFor(Existing(req[r].cards)) \subseteq req[r].collections
    /\ req[r].at \in {"find", "decide"} => req[r].listed \subseteq front[f].collections

(* ... what a deletion holds covers the cards that are left ...            *)
DeletionCovers(r, f) ==
    /\ req[r].at = "find" => front[f].cards \subseteq req[r].present
    /\ req[r].at = "decide" => ListedFor(Existing(front[f].cards)) \subseteq req[r].collections
    /\ req[r].at = "unlist" => ListedFor(Existing(front[f].cards)) \cap req[r].collections = {}

(* ... and a card not listed yet is one of an addition under way.          *)
Awaited(c, f) == \E r \in Requests : Adds(r, f) /\ req[r].at # "store" /\ c \in req[r].cards

EveryListed(f) ==
    /\ NeverCrossed(f)
    /\ \A r \in Requests : Adds(r, f) /\ req[r].at # "store" => AdditionCovers(r, f)
    /\ \A r \in Requests : Deletes(r, f) => DeletionCovers(r, f)
    /\ \A c \in Existing(front[f].cards) :
         CollectionOf[c] \in front[f].collections \/ Awaited(c, f)

-----------------------------------------------------------------------------
(* No collection without a card.  A deletion is under way alone, no card   *)
(* of the front or of a request is burned ...                              *)
Alone(f) == \A r, p \in Requests : Deletes(r, f) /\ OnCards(p, f) => p = r

Held(f) ==
    /\ \A c \in front[f].cards : holders[c] # {}
    /\ \A r \in Requests : OnCards(r, f) => \A c \in req[r].cards : holders[c] # {}

(* ... an addition lists collections of cards of the front only ...        *)
AdditionKnown(r, f) ==
    /\ req[r].at \in {"find", "decide"} => req[r].listed \subseteq ListedFor(front[f].cards)
    /\ req[r].at \in {"listFirst", "list"} =>
         req[r].collections \subseteq ListedFor(front[f].cards)

(* ... and a deletion ends by removing every collection it emptied.        *)
DeletionRemoves(r, f) ==
    /\ req[r].at \notin {"listFirst", "list"}
    /\ front[f].collections \subseteq ListedFor(front[f].cards \cup req[r].cards)
    /\ req[r].at # "unlist" => ListedFor(req[r].cards) \subseteq front[f].collections
    /\ req[r].at = "find" => req[r].present \subseteq front[f].cards
    /\ req[r].at \in {"find", "decide"} => req[r].listed = front[f].collections
    /\ req[r].at = "decide" => req[r].collections \subseteq ListedFor(front[f].cards)
    /\ req[r].at = "unlist" =>
         front[f].collections \ req[r].collections \subseteq ListedFor(front[f].cards)

NoneEmpty(f) ==
    /\ Alone(f) /\ Held(f)
    /\ (\A r \in Requests : ~Deletes(r, f))
         => front[f].collections \subseteq ListedFor(front[f].cards)
    /\ \A r \in Requests : Adds(r, f) => AdditionKnown(r, f)
    /\ \A r \in Requests : Deletes(r, f) => DeletionRemoves(r, f)

Undisturbed(f)  == Spared(f, {"crossed", "cutShort"})
NothingLost(f)  == Spared(f, {"overlapped", "cutShort", "strayed", "burned"})

Lists(f) == /\ Undisturbed(f) => EveryListed(f)
            /\ NothingLost(f) => NoneEmpty(f)

CrossedOverlaps == \A f : <<"crossed", f>> \in seen => <<"overlapped", f>> \in seen

ListInv == SInv /\ CrossedOverlaps /\ \A f \in Created : Lists(f)

-----------------------------------------------------------------------------
(* What a step that is about something else leaves of a front.             *)
Untouched(f) ==
    /\ front'[f].cards = front[f].cards /\ front'[f].collections = front[f].collections
    /\ \A p \in Requests : req'[p] = req[p] \/ (~OnCards(p, f) /\ ~OnCards(p, f)')
    /\ \A c \in Cards : holders'[c] # {} => holders[c] # {}

StillHeld(f) ==
    /\ \A c \in front[f].cards : holders[c] # {} => holders'[c] # {}
    /\ \A r \in Requests : OnCards(r, f) =>
         \A c \in req[r].cards : holders[c] # {} => holders'[c] # {}

LEMMA UntouchedRequests ==
    ASSUME NEW f, Untouched(f), NEW p \in Requests
    PROVE  /\ OnCards(p, f)' <=> OnCards(p, f)
           /\ Adds(p, f)' <=> Adds(p, f)
           /\ Deletes(p, f)' <=> Deletes(p, f)
           /\ OnCards(p, f) => req'[p] = req[p]
BY DEF Untouched, OnCards, Adds, Deletes

LEMMA ListedGrows ==
    ASSUME NEW A, NEW B, A \subseteq B
    PROVE  ListedFor(A) \subseteq ListedFor(B)
BY DEF ListedFor

LEMMA ExistingShrinks ==
    ASSUME \A c \in Cards : holders'[c] # {} => holders[c] # {},
           NEW cs, cs \subseteq Cards
    PROVE  /\ {c \in cs : holders'[c] # {}} \subseteq Existing(cs)
           /\ ListedFor({c \in cs : holders'[c] # {}}) \subseteq ListedFor(Existing(cs))
BY DEF Existing, ListedFor

LEMMA CardsOfRequest ==
    ASSUME SInv, NEW r \in Requests, NEW f, OnCards(r, f)
    PROVE  req[r].cards \subseteq Cards /\ f \in Created /\ Stage(req[r]) /\ Ask(req[r])
BY NoReqFields DEF SInv, OnCards, CardKinds

LEMMA ListedKept ==
    ASSUME SInv, NEW f \in Created, EveryListed(f), Untouched(f)
    PROVE  EveryListed(f)'
<1> DEFINE Now(cs) == {c \in cs : holders'[c] # {}}
<1>1. \A cs : cs \subseteq Cards => ListedFor(Now(cs)) \subseteq ListedFor(Existing(cs))
  BY ExistingShrinks DEF Untouched
<1>2. front[f].cards \subseteq Cards
  BY DEF SInv
<1>3. \A p \in Requests : Adds(p, f)' <=> Adds(p, f)
  BY UntouchedRequests
<1>4. \A p \in Requests : Deletes(p, f)' <=> Deletes(p, f)
  BY UntouchedRequests
<1>5. \A p \in Requests : Adds(p, f) \/ Deletes(p, f) => req'[p] = req[p]
  BY UntouchedRequests DEF Adds, Deletes
<1>6. front'[f].cards = front[f].cards /\ front'[f].collections = front[f].collections
  BY DEF Untouched
<1>7. NeverCrossed(f)'
  BY <1>3, <1>4 DEF EveryListed, NeverCrossed
<1>8. ASSUME NEW r \in Requests, Adds(r, f)', req'[r].at # "store"
      PROVE  AdditionCovers(r, f)'
  <2>1. Adds(r, f) /\ req'[r] = req[r]
    BY <1>3, <1>5, <1>8
  <2>2. AdditionCovers(r, f) /\ req[r].cards \subseteq Cards
    BY <1>8, <2>1, CardsOfRequest DEF EveryListed, Adds
  <2>3. ListedFor(Now(req[r].cards)) \subseteq ListedFor(Existing(req[r].cards))
    BY <1>1, <2>2
  <2> QED BY <1>6, <2>1, <2>2, <2>3 DEF AdditionCovers, Existing
<1>9. ASSUME NEW r \in Requests, Deletes(r, f)'
      PROVE  DeletionCovers(r, f)'
  <2>1. Deletes(r, f) /\ req'[r] = req[r]
    BY <1>4, <1>5, <1>9
  <2>2. DeletionCovers(r, f)
    BY <2>1 DEF EveryListed
  <2>3. ListedFor(Now(front[f].cards)) \subseteq ListedFor(Existing(front[f].cards))
    BY <1>1, <1>2
  <2> QED BY <1>6, <2>1, <2>2, <2>3 DEF DeletionCovers, Existing
<1>10. ASSUME NEW c \in Existing(front[f].cards)'
       PROVE  CollectionOf[c] \in front'[f].collections \/ Awaited(c, f)'
  <2>1. c \in Existing(front[f].cards)
    BY <1>2, <1>6, <1>10 DEF Existing, Untouched
  <2>2. Awaited(c, f) => Awaited(c, f)'
    BY <1>3, <1>5 DEF Awaited
  <2> QED BY <1>6, <2>1, <2>2 DEF EveryListed
<1> QED BY <1>7, <1>8, <1>9, <1>10 DEF EveryListed

LEMMA EmptyKept ==
    ASSUME SInv, NEW f \in Created, NoneEmpty(f), Untouched(f), StillHeld(f)
    PROVE  NoneEmpty(f)'
<1>1. \A p \in Requests : OnCards(p, f)' <=> OnCards(p, f)
  BY UntouchedRequests
<1>2. \A p \in Requests : Adds(p, f)' <=> Adds(p, f)
  BY UntouchedRequests
<1>3. \A p \in Requests : Deletes(p, f)' <=> Deletes(p, f)
  BY UntouchedRequests
<1>4. \A p \in Requests : OnCards(p, f) => req'[p] = req[p]
  BY UntouchedRequests
<1>5. front'[f].cards = front[f].cards /\ front'[f].collections = front[f].collections
  BY DEF Untouched
<1>6. Alone(f)'
  BY <1>1, <1>3 DEF NoneEmpty, Alone
<1>7. Held(f)'
  BY <1>1, <1>4, <1>5 DEF NoneEmpty, Held, StillHeld
<1>8. (\A r \in Requests : ~Deletes(r, f)') => front'[f].collections \subseteq ListedFor(front'[f].cards)
  BY <1>3, <1>5 DEF NoneEmpty
<1>9. ASSUME NEW r \in Requests, Adds(r, f)'
      PROVE  AdditionKnown(r, f)'
  BY <1>2, <1>4, <1>5, <1>9 DEF NoneEmpty, AdditionKnown, Adds
<1>10. ASSUME NEW r \in Requests, Deletes(r, f)'
       PROVE  DeletionRemoves(r, f)'
  BY <1>3, <1>4, <1>5, <1>10 DEF NoneEmpty, DeletionRemoves, Deletes
<1> QED BY <1>6, <1>7, <1>8, <1>9, <1>10 DEF NoneEmpty

-----------------------------------------------------------------------------
(* The steps of the card requests of a front, and EveryListed.             *)
LEMMA OtherRequests ==
    ASSUME NEW r \in Requests, Others(r), NEW f
    PROVE  \A p \in Requests : p # r =>
             /\ req'[p] = req[p] /\ (OnCards(p, f)' <=> OnCards(p, f))
             /\ (Adds(p, f)' <=> Adds(p, f)) /\ (Deletes(p, f)' <=> Deletes(p, f))
BY DEF Others, OnCards, Adds, Deletes

LEMMA SameRequest ==
    ASSUME NEW r, NEW f, Same(r)
    PROVE  /\ OnCards(r, f)' <=> OnCards(r, f)
           /\ Adds(r, f)' <=> Adds(r, f)
           /\ Deletes(r, f)' <=> Deletes(r, f)
           /\ req'[r].cards = req[r].cards
BY DEF Same, OnCards, Adds, Deletes

LEMMA NoRequest ==
    ASSUME NEW r, NEW f, req'[r] = NoReq
    PROVE  ~OnCards(r, f)' /\ ~Adds(r, f)' /\ ~Deletes(r, f)'
BY NoReqFields DEF OnCards, Adds, Deletes, CardKinds

LEMMA AddListed ==
    ASSUME SInv, NEW r \in Requests, NEW b \in Bodies, AddCards(r, b),
           EveryListed(b.front), Undisturbed(b.front)'
    PROVE  EveryListed(b.front)'
<1> DEFINE f == b.front
<1>1. /\ req[r] = NoReq /\ Others(r) /\ UNCHANGED <<front, holders>>
      /\ req'[r].at = "store" /\ req'[r].kind = "add" /\ req'[r].front = f
  BY AddEffect
<1>2. \A q \in UnderWay(f, {"delete"}) : <<"crossed", f>> \in seen'
  BY AddEffect
<1> HIDE DEF f
<1>3. \A p \in Requests : ~Deletes(p, f)
  BY <1>2 DEF Undisturbed, Spared, UnderWay, Deletes, OnCards, f
<1>4. ~Adds(r, f) /\ Adds(r, f)' /\ ~Deletes(r, f)'
  BY <1>1, NoReqFields DEF Adds, Deletes, OnCards, CardKinds
<1>5. \A p \in Requests : p # r =>
        /\ req'[p] = req[p] /\ (Adds(p, f)' <=> Adds(p, f)) /\ (Deletes(p, f)' <=> Deletes(p, f))
  BY <1>1, OtherRequests
<1>6. EveryListed(f)
  BY DEF f
<1>7. NeverCrossed(f)'
  BY <1>3, <1>4, <1>5 DEF NeverCrossed
<1>8. ASSUME NEW p \in Requests, Adds(p, f)', req'[p].at # "store"
      PROVE  AdditionCovers(p, f)'
  BY <1>1, <1>5, <1>6, <1>8 DEF EveryListed, AdditionCovers, Existing
<1>9. ASSUME NEW p \in Requests, Deletes(p, f)'
      PROVE  DeletionCovers(p, f)'
  BY <1>3, <1>4, <1>5, <1>9
<1>10. ASSUME NEW c \in Existing(front[f].cards)'
       PROVE  CollectionOf[c] \in front'[f].collections \/ Awaited(c, f)'
  BY <1>1, <1>4, <1>5, <1>6, <1>10 DEF EveryListed, Awaited, Existing
<1>11. EveryListed(f)'
  BY <1>7, <1>8, <1>9, <1>10 DEF EveryListed
<1> QED BY <1>11 DEF f

LEMMA StoreListed ==
    ASSUME SInv, NEW r \in Requests, NEW f, req[r].front = f, StoreCards(r), EveryListed(f)
    PROVE  EveryListed(f)'
<1>1. /\ req[r].at = "store" /\ Others(r) /\ Same(r) /\ req'[r].at = "read"
      /\ front'[f].cards = front[f].cards \cup req[r].cards
      /\ front'[f].collections = front[f].collections /\ UNCHANGED holders
  BY StoreCardsEffect
<1>2. Adds(r, f)
  BY <1>1, Idle DEF Stage, Adds, OnCards, CardKinds
<1>3. /\ Adds(r, f)' /\ ~Deletes(r, f)' /\ ~Deletes(r, f) /\ req'[r].cards = req[r].cards
  BY <1>1, <1>2, SameRequest DEF Adds, Deletes
<1>4. \A p \in Requests : p # r =>
        /\ req'[p] = req[p] /\ (Adds(p, f)' <=> Adds(p, f)) /\ (Deletes(p, f)' <=> Deletes(p, f))
  BY <1>1, OtherRequests
<1>5. \A p \in Requests : ~Deletes(p, f)
  BY <1>2 DEF EveryListed, NeverCrossed
<1>6. NeverCrossed(f)'
  BY <1>3, <1>4, <1>5 DEF NeverCrossed
<1>7. ASSUME NEW p \in Requests, Adds(p, f)', req'[p].at # "store"
      PROVE  AdditionCovers(p, f)'
  <2>1. CASE p = r
    BY <1>1, <1>3, <2>1 DEF AdditionCovers
  <2>2. CASE p # r
    <3>1. AdditionCovers(p, f) /\ req'[p] = req[p]
      BY <1>4, <1>7, <2>2 DEF EveryListed
    <3> QED BY <1>1, <3>1 DEF AdditionCovers, Existing
  <2> QED BY <2>1, <2>2
<1>8. ASSUME NEW p \in Requests, Deletes(p, f)'
      PROVE  DeletionCovers(p, f)'
  BY <1>3, <1>4, <1>5, <1>8
<1>9. ASSUME NEW c \in Existing(front[f].cards)'
      PROVE  CollectionOf[c] \in front'[f].collections \/ Awaited(c, f)'
  <2>1. CASE c \in req[r].cards
    BY <1>1, <1>3, <2>1 DEF Awaited
  <2>2. CASE c \notin req[r].cards
    <3>1. c \in Existing(front[f].cards)
      BY <1>1, <1>9, <2>2 DEF Existing
    <3>2. Awaited(c, f) => Awaited(c, f)'
      BY <1>1, <1>4 DEF Awaited
    <3> QED BY <1>1, <3>1, <3>2 DEF EveryListed
  <2> QED BY <2>1, <2>2
<1> QED BY <1>6, <1>7, <1>8, <1>9 DEF EveryListed

(* A step that changes neither the cards nor the collections of the front  *)
(* and keeps the request as it is, but for what it holds.                  *)
LEMMA HoldingListed ==
    ASSUME SInv, NEW r \in Requests, NEW f, req[r].front = f, EveryListed(f),
           Others(r), Same(r), req[r].at # "store", req'[r].at # "store",
           UNCHANGED <<front, holders>>,
           Adds(r, f) => AdditionCovers(r, f)', Deletes(r, f) => DeletionCovers(r, f)'
    PROVE  EveryListed(f)'
<1>1. /\ Adds(r, f)' <=> Adds(r, f)
      /\ Deletes(r, f)' <=> Deletes(r, f)
      /\ req'[r].cards = req[r].cards
  BY SameRequest
<1>2. \A p \in Requests : p # r =>
        /\ req'[p] = req[p] /\ (Adds(p, f)' <=> Adds(p, f)) /\ (Deletes(p, f)' <=> Deletes(p, f))
  BY OtherRequests
<1>3. NeverCrossed(f)'
  BY <1>1, <1>2 DEF EveryListed, NeverCrossed
<1>4. ASSUME NEW p \in Requests, Adds(p, f)', req'[p].at # "store"
      PROVE  AdditionCovers(p, f)'
  <2>1. CASE p = r
    BY <1>1, <1>4, <2>1
  <2>2. CASE p # r
    <3>1. AdditionCovers(p, f) /\ req'[p] = req[p]
      BY <1>2, <1>4, <2>2 DEF EveryListed
    <3> QED BY <3>1 DEF AdditionCovers, Existing
  <2> QED BY <2>1, <2>2
<1>5. ASSUME NEW p \in Requests, Deletes(p, f)'
      PROVE  DeletionCovers(p, f)'
  <2>1. CASE p = r
    BY <1>1, <1>5, <2>1
  <2>2. CASE p # r
    <3>1. DeletionCovers(p, f) /\ req'[p] = req[p]
      BY <1>2, <1>5, <2>2 DEF EveryListed
    <3> QED BY <3>1 DEF DeletionCovers, Existing
  <2> QED BY <2>1, <2>2
<1>6. ASSUME NEW c \in Existing(front[f].cards)'
      PROVE  CollectionOf[c] \in front'[f].collections \/ Awaited(c, f)'
  <2>1. c \in Existing(front[f].cards)
    BY <1>6 DEF Existing
  <2>2. Awaited(c, f) => Awaited(c, f)'
    BY <1>1, <1>2 DEF Awaited
  <2> QED BY <2>1, <2>2 DEF EveryListed
<1> QED BY <1>3, <1>4, <1>5, <1>6 DEF EveryListed

LEMMA ReadListed ==
    ASSUME SInv, NEW r \in Requests, NEW f, req[r].front = f, ReadStoreFront(r), EveryListed(f)
    PROVE  EveryListed(f)'
<1>1. /\ req[r].at = "read" /\ Others(r) /\ Same(r) /\ req'[r].at = "find"
      /\ req'[r].listed = front[f].collections /\ req'[r].present = front[f].cards
      /\ UNCHANGED <<front, holders>> /\ req'[r].cards = req[r].cards
  BY ReadEffect, SameRequest
<1>2. ASSUME Adds(r, f)
      PROVE  AdditionCovers(r, f)'
  <2>1. AdditionCovers(r, f)
    BY <1>1, <1>2 DEF EveryListed
  <2> QED BY <1>1, <2>1 DEF AdditionCovers
<1>3. DeletionCovers(r, f)'
  BY <1>1 DEF DeletionCovers
<1> QED BY <1>1, <1>2, <1>3, HoldingListed

LEMMA FindListed ==
    ASSUME SInv, NEW r \in Requests, NEW f, req[r].front = f, FindExistingCards(r), EveryListed(f)
    PROVE  EveryListed(f)'
<1>1. /\ req[r].at = "find" /\ Others(r) /\ Same(r) /\ req'[r].at = "decide"
      /\ req'[r].listed = req[r].listed
      /\ req'[r].collections = ListedFor(Existing(req[r].present))
      /\ UNCHANGED <<front, holders>> /\ req'[r].cards = req[r].cards
  BY FindEffect, SameRequest
<1>2. ASSUME NEW cs, cs \subseteq req[r].present
      PROVE  ListedFor(Existing(cs)) \subseteq req'[r].collections
  <2>1. Existing(cs) \subseteq Existing(req[r].present)
    BY <1>2 DEF Existing
  <2> QED BY <1>1, <2>1, ListedGrows
<1>3. ASSUME Adds(r, f)
      PROVE  AdditionCovers(r, f)'
  <2>1. AdditionCovers(r, f)
    BY <1>1, <1>3 DEF EveryListed
  <2>2. ListedFor(Existing(req[r].cards)) \subseteq req'[r].collections
    BY <1>1, <1>2, <2>1 DEF AdditionCovers
  <2> QED BY <1>1, <2>1, <2>2 DEF AdditionCovers, Existing
<1>4. ASSUME Deletes(r, f)
      PROVE  DeletionCovers(r, f)'
  <2>1. DeletionCovers(r, f)
    BY <1>4 DEF EveryListed
  <2>2. ListedFor(Existing(front[f].cards)) \subseteq req'[r].collections
    BY <1>1, <1>2, <2>1 DEF DeletionCovers
  <2> QED BY <1>1, <2>2 DEF DeletionCovers, Existing
<1> QED BY <1>1, <1>3, <1>4, HoldingListed

(* A request that ends: what waited for it is listed.                      *)
LEMMA EndingListed ==
    ASSUME SInv, NEW r \in Requests, NEW f, EveryListed(f), Others(r), req'[r] = NoReq,
           UNCHANGED <<front, holders>>,
           Adds(r, f) /\ req[r].at # "store" =>
             ListedFor(Existing(req[r].cards)) \subseteq front[f].collections
    PROVE  EveryListed(f)'
<1>1. ~Adds(r, f)' /\ ~Deletes(r, f)'
  BY NoRequest
<1>2. \A p \in Requests : p # r =>
        /\ req'[p] = req[p] /\ (Adds(p, f)' <=> Adds(p, f)) /\ (Deletes(p, f)' <=> Deletes(p, f))
  BY OtherRequests
<1>3. NeverCrossed(f)'
  BY <1>1, <1>2 DEF EveryListed, NeverCrossed
<1>4. ASSUME NEW p \in Requests, Adds(p, f)', req'[p].at # "store"
      PROVE  AdditionCovers(p, f)'
  <2>1. AdditionCovers(p, f) /\ req'[p] = req[p]
    BY <1>1, <1>2, <1>4 DEF EveryListed
  <2> QED BY <2>1 DEF AdditionCovers, Existing
<1>5. ASSUME NEW p \in Requests, Deletes(p, f)'
      PROVE  DeletionCovers(p, f)'
  <2>1. DeletionCovers(p, f) /\ req'[p] = req[p]
    BY <1>1, <1>2, <1>5 DEF EveryListed
  <2> QED BY <2>1 DEF DeletionCovers, Existing
<1>6. ASSUME NEW c \in Existing(front[f].cards)'
      PROVE  CollectionOf[c] \in front'[f].collections \/ Awaited(c, f)'
  <2>1. c \in Existing(front[f].cards) /\ holders[c] # {}
    BY <1>6 DEF Existing
  <2>2. CASE CollectionOf[c] \in front[f].collections
    BY <2>2
  <2>3. ASSUME NEW p \in Requests, Adds(p, f), req[p].at # "store", c \in req[p].cards
        PROVE  CollectionOf[c] \in front'[f].collections \/ Awaited(c, f)'
    <3>1. CASE p = r
      BY <2>1, <2>3, <3>1 DEF ListedFor, Existing
    <3>2. CASE p # r
      BY <1>2, <2>3, <3>2 DEF Awaited
    <3> QED BY <3>1, <3>2
  <2> QED BY <2>1, <2>2, <2>3 DEF EveryListed, Awaited
<1> QED BY <1>3, <1>4, <1>5, <1>6 DEF EveryListed

LEMMA DecideListed ==
    ASSUME SInv, NEW r \in Requests, NEW f, req[r].front = f, DecideCollections(r), EveryListed(f)
    PROVE  EveryListed(f)'
<1> DEFINE touched == ListedFor(Existing(req[r].cards))
           emptied == (req[r].listed \cap touched) \ req[r].collections
<1>1. /\ req[r].at = "decide" /\ Others(r) /\ UNCHANGED <<front, holders, seen>>
      /\ \/ touched \subseteq req[r].listed /\ emptied = {} /\ req'[r] = NoReq
         \/ /\ touched \subseteq req[r].listed /\ emptied # {} /\ Same(r)
            /\ req'[r].at = "unlist" /\ req'[r].collections = emptied
         \/ /\ ~(touched \subseteq req[r].listed) /\ Same(r)
            /\ req'[r].at \in {"listFirst", "list"}
            /\ req'[r].collections = req[r].listed \cup touched
  BY DecideEffect
<1>2. Adds(r, f) => AdditionCovers(r, f)
  BY <1>1 DEF EveryListed
<1>3. Adds(r, f) => touched \subseteq req[r].collections /\ req[r].listed \subseteq front[f].collections
  BY <1>1, <1>2 DEF AdditionCovers
<1>4. CASE touched \subseteq req[r].listed /\ emptied = {} /\ req'[r] = NoReq
  BY <1>1, <1>3, <1>4, EndingListed
<1>5. CASE /\ touched \subseteq req[r].listed /\ emptied # {} /\ Same(r)
           /\ req'[r].at = "unlist" /\ req'[r].collections = emptied
  <2>1. ~Adds(r, f)
    BY <1>3, <1>5
  <2>2. ASSUME Deletes(r, f)
        PROVE  DeletionCovers(r, f)'
    <3>1. ListedFor(Existing(front[f].cards)) \subseteq req[r].collections
      BY <1>1, <2>2 DEF EveryListed, DeletionCovers
    <3>2. ListedFor(Existing(front[f].cards)) \cap emptied = {}
      BY <3>1
    <3> HIDE DEF emptied
    <3> QED BY <1>1, <1>5, <3>2 DEF DeletionCovers, Existing
  <2> QED BY <1>1, <1>5, <2>1, <2>2, HoldingListed
<1>6. CASE /\ ~(touched \subseteq req[r].listed) /\ Same(r)
           /\ req'[r].at \in {"listFirst", "list"}
           /\ req'[r].collections = req[r].listed \cup touched
  <2>1. Adds(r, f) => AdditionCovers(r, f)'
    BY <1>1, <1>2, <1>6, SameRequest DEF AdditionCovers, Existing
  <2>2. DeletionCovers(r, f)'
    BY <1>6 DEF DeletionCovers
  <2> QED BY <1>1, <1>6, <2>1, <2>2, HoldingListed
<1> QED BY <1>1, <1>4, <1>5, <1>6

LEMMA AddCollectionsListed ==
    ASSUME SInv, NEW r \in Requests, NEW f, req[r].front = f, AddCollections(r), EveryListed(f)
    PROVE  EveryListed(f)'
<1>1. /\ req[r].at \in {"listFirst", "list"} /\ Others(r)
      /\ \/ /\ Same(r) /\ req'[r].at = "list" /\ req'[r].collections = req[r].collections
         \/ req'[r] = NoReq
      /\ front'[f].cards = front[f].cards
      /\ front'[f].collections = front[f].collections \cup req[r].collections
      /\ UNCHANGED holders
  BY AddCollectionsEffect
<1>2. \A p \in Requests : p # r =>
        /\ req'[p] = req[p] /\ (Adds(p, f)' <=> Adds(p, f)) /\ (Deletes(p, f)' <=> Deletes(p, f))
  BY <1>1, OtherRequests
<1>3. /\ Adds(r, f)' => /\ Adds(r, f) /\ req'[r].cards = req[r].cards /\ req'[r].at = "list"
                        /\ req'[r].collections = req[r].collections
      /\ Deletes(r, f)' => Deletes(r, f) /\ req'[r].at = "list"
  BY <1>1, SameRequest, NoRequest
<1>4. Adds(r, f) => AdditionCovers(r, f)
  BY <1>1 DEF EveryListed
<1>5. NeverCrossed(f)'
  BY <1>2, <1>3 DEF EveryListed, NeverCrossed
<1>6. ASSUME NEW p \in Requests, Adds(p, f)', req'[p].at # "store"
      PROVE  AdditionCovers(p, f)'
  <2>1. CASE p = r
    BY <1>1, <1>3, <1>4, <1>6, <2>1 DEF AdditionCovers, Existing
  <2>2. CASE p # r
    <3>1. AdditionCovers(p, f) /\ req'[p] = req[p]
      BY <1>2, <1>6, <2>2 DEF EveryListed
    <3> QED BY <1>1, <3>1 DEF AdditionCovers, Existing
  <2> QED BY <2>1, <2>2
<1>7. ASSUME NEW p \in Requests, Deletes(p, f)'
      PROVE  DeletionCovers(p, f)'
  <2>1. CASE p = r
    BY <1>3, <1>7, <2>1 DEF DeletionCovers
  <2>2. CASE p # r
    <3>1. DeletionCovers(p, f) /\ req'[p] = req[p]
      BY <1>2, <1>7, <2>2 DEF EveryListed
    <3> QED BY <1>1, <3>1 DEF DeletionCovers, Existing
  <2> QED BY <2>1, <2>2
<1>8. ASSUME NEW c \in Existing(front[f].cards)'
      PROVE  CollectionOf[c] \in front'[f].collections \/ Awaited(c, f)'
  <2>1. c \in Existing(front[f].cards) /\ holders[c] # {}
    BY <1>1, <1>8 DEF Existing
  <2>2. CASE CollectionOf[c] \in front[f].collections
    BY <1>1, <2>2
  <2>3. ASSUME NEW p \in Requests, Adds(p, f), req[p].at # "store", c \in req[p].cards
        PROVE  CollectionOf[c] \in front'[f].collections \/ Awaited(c, f)'
    <3>1. CASE p = r
      <4>1. CollectionOf[c] \in ListedFor(Existing(req[r].cards))
        BY <2>1, <2>3, <3>1 DEF ListedFor, Existing
      <4> QED BY <1>1, <1>4, <2>3, <3>1, <4>1 DEF AdditionCovers
    <3>2. CASE p # r
      BY <1>2, <2>3, <3>2 DEF Awaited
    <3> QED BY <3>1, <3>2
  <2> QED BY <2>1, <2>2, <2>3 DEF EveryListed, Awaited
<1> QED BY <1>5, <1>6, <1>7, <1>8 DEF EveryListed

LEMMA DeleteCollectionsListed ==
    ASSUME SInv, NEW r \in Requests, NEW f, req[r].front = f, DeleteCollections(r), EveryListed(f)
    PROVE  EveryListed(f)'
<1>1. /\ req[r].at = "unlist" /\ Others(r) /\ req'[r] = NoReq
      /\ front'[f].cards = front[f].cards
      /\ front'[f].collections = front[f].collections \ req[r].collections
      /\ UNCHANGED holders
  BY DeleteCollectionsEffect
<1>2. \A p \in Requests : p # r =>
        /\ req'[p] = req[p] /\ (Adds(p, f)' <=> Adds(p, f)) /\ (Deletes(p, f)' <=> Deletes(p, f))
  BY <1>1, OtherRequests
<1>3. ~Adds(r, f)' /\ ~Deletes(r, f)'
  BY <1>1, NoRequest
<1>4. Deletes(r, f)
  <2>1. OnCards(r, f)
    BY <1>1, Idle DEF Stage, OnCards
  <2>2. ~Adds(r, f)
    BY <1>1 DEF EveryListed, AdditionCovers
  <2> QED BY <2>1, <2>2 DEF Adds, Deletes, OnCards, CardKinds
<1>5. \A p \in Requests : ~Adds(p, f)
  BY <1>4 DEF EveryListed, NeverCrossed
<1>6. \A p \in Requests : ~Adds(p, f)'
  BY <1>2, <1>3, <1>5
<1>7. ASSUME NEW p \in Requests, Deletes(p, f)'
      PROVE  DeletionCovers(p, f)'
  <2>1. DeletionCovers(p, f) /\ req'[p] = req[p]
    BY <1>2, <1>3, <1>7 DEF EveryListed
  <2> QED BY <1>1, <2>1 DEF DeletionCovers, Existing
<1>8. ASSUME NEW c \in Existing(front[f].cards)'
      PROVE  CollectionOf[c] \in front'[f].collections
  <2>1. c \in Existing(front[f].cards)
    BY <1>1, <1>8 DEF Existing
  <2>2. CollectionOf[c] \in front[f].collections
    BY <1>5, <2>1 DEF EveryListed, Awaited
  <2>3. ListedFor(Existing(front[f].cards)) \cap req[r].collections = {}
    BY <1>1, <1>4 DEF EveryListed, DeletionCovers
  <2>4. CollectionOf[c] \in ListedFor(Existing(front[f].cards))
    BY <2>1 DEF ListedFor
  <2> QED BY <1>1, <2>2, <2>3, <2>4
<1>9. NeverCrossed(f)'
  BY <1>6 DEF NeverCrossed
<1> QED BY <1>6, <1>7, <1>8, <1>9 DEF EveryListed

LEMMA DeleteListed ==
    ASSUME SInv, NEW r \in Requests, NEW b \in Bodies, NEW f, b.front = f, DeleteCards(r, b),
           EveryListed(f), Undisturbed(f)'
    PROVE  EveryListed(f)'
<1>1. /\ req[r] = NoReq /\ Others(r) /\ req'[r].at = "read" /\ req'[r].kind = "delete"
      /\ req'[r].front = f
      /\ front'[f].cards = front[f].cards \ b.cards
      /\ front'[f].collections = front[f].collections /\ UNCHANGED holders
  BY DeleteEffect
<1>2. \A q \in UnderWay(f, {"add"}) : <<"crossed", f>> \in seen'
  BY DeleteEffect
<1>3. \A p \in Requests : ~Adds(p, f)
  BY <1>2 DEF Undisturbed, Spared, UnderWay, Adds, OnCards
<1>4. \A p \in Requests : p # r =>
        /\ req'[p] = req[p] /\ (Adds(p, f)' <=> Adds(p, f)) /\ (Deletes(p, f)' <=> Deletes(p, f))
  BY <1>1, OtherRequests
<1>5. \A p \in Requests : ~Adds(p, f)'
  BY <1>1, <1>3, <1>4 DEF Adds
<1>6. Existing(front[f].cards)' \subseteq Existing(front[f].cards)
  BY <1>1 DEF Existing
<1>7. ListedFor(Existing(front[f].cards)') \subseteq ListedFor(Existing(front[f].cards))
  BY <1>6, ListedGrows
<1>8. ASSUME NEW p \in Requests, Deletes(p, f)'
      PROVE  DeletionCovers(p, f)'
  <2>1. CASE p = r
    BY <1>1, <2>1 DEF DeletionCovers
  <2>2. CASE p # r
    <3>1. DeletionCovers(p, f) /\ req'[p] = req[p]
      BY <1>4, <1>8, <2>2 DEF EveryListed
    <3>2. ListedFor(Existing(front[f].cards))' \subseteq ListedFor(Existing(front[f].cards))
      BY <1>7 DEF ListedFor
    <3> QED BY <1>1, <3>1, <3>2 DEF DeletionCovers
  <2> QED BY <2>1, <2>2
<1>9. ASSUME NEW c \in Existing(front[f].cards)'
      PROVE  CollectionOf[c] \in front'[f].collections
  BY <1>1, <1>3, <1>6, <1>9 DEF EveryListed, Awaited
<1>10. NeverCrossed(f)'
  BY <1>5 DEF NeverCrossed
<1> QED BY <1>5, <1>8, <1>9, <1>10 DEF EveryListed

LEMMA FailListed ==
    ASSUME SInv, NEW r \in Requests, NEW f, req[r].front = f, RequestFails(r),
           EveryListed(f), Undisturbed(f)'
    PROVE  EveryListed(f)'
<1>1. /\ Others(r) /\ req'[r] = NoReq /\ UNCHANGED <<front, holders>>
      /\ req[r].kind \in CardKinds /\ req[r].at # "store" => <<"cutShort", f>> \in seen'
  BY FailEffect
<1>2. Adds(r, f) => req[r].at = "store"
  BY <1>1 DEF Undisturbed, Spared, Adds, OnCards
<1> QED BY <1>1, <1>2, EndingListed

-----------------------------------------------------------------------------
(* The steps of the card requests of a front, and NoneEmpty.  The request  *)
(* of the step is r: only what is said of it and of the front is new.      *)
LEMMA EmptyAround ==
    ASSUME SInv, NEW r \in Requests, NEW f, Others(r), NoneEmpty(f), UNCHANGED holders,
           front[f].cards \subseteq front'[f].cards,
           \A c \in front'[f].cards : holders[c] # {},
           OnCards(r, f)' => \A c \in req'[r].cards : holders[c] # {},
           OnCards(r, f)' => \A p \in Requests : p # r => ~Deletes(p, f),
           Deletes(r, f)' => \A p \in Requests : p # r => ~OnCards(p, f),
           \A p \in Requests : p # r /\ Deletes(p, f) =>
               front'[f].cards = front[f].cards /\ front'[f].collections = front[f].collections,
           (\A p \in Requests : ~Deletes(p, f)')
               => front'[f].collections \subseteq ListedFor(front'[f].cards),
           Adds(r, f)' => AdditionKnown(r, f)', Deletes(r, f)' => DeletionRemoves(r, f)'
    PROVE  NoneEmpty(f)'
<1>1. \A p \in Requests : p # r =>
        /\ req'[p] = req[p] /\ (OnCards(p, f)' <=> OnCards(p, f))
        /\ (Adds(p, f)' <=> Adds(p, f)) /\ (Deletes(p, f)' <=> Deletes(p, f))
  BY OtherRequests
<1>2. Alone(f)'
  <2> SUFFICES ASSUME NEW p \in Requests, NEW q \in Requests, Deletes(p, f)', OnCards(q, f)'
               PROVE  q = p
    BY DEF Alone
  <2>1. CASE p = r
    BY <1>1, <2>1
  <2>2. CASE p # r /\ q = r
    BY <1>1, <2>2
  <2>3. CASE p # r /\ q # r
    BY <1>1, <2>3 DEF NoneEmpty, Alone
  <2> QED BY <2>1, <2>2, <2>3
<1>3. Held(f)'
  <2> SUFFICES ASSUME NEW p \in Requests, OnCards(p, f)'
               PROVE  \A c \in req'[p].cards : holders'[c] # {}
    BY DEF Held
  <2>1. CASE p = r
    BY <2>1
  <2>2. CASE p # r
    BY <1>1, <2>2 DEF NoneEmpty, Held
  <2> QED BY <2>1, <2>2
<1>4. ListedFor(front[f].cards) \subseteq ListedFor(front'[f].cards)
  BY ListedGrows
<1>5. ASSUME NEW p \in Requests, Adds(p, f)'
      PROVE  AdditionKnown(p, f)'
  <2>1. CASE p = r
    BY <1>5, <2>1
  <2>2. CASE p # r
    <3>1. AdditionKnown(p, f) /\ req'[p] = req[p]
      BY <1>1, <1>5, <2>2 DEF NoneEmpty
    <3>2. ListedFor(front[f].cards) \subseteq ListedFor(front[f].cards)'
      BY <1>4 DEF ListedFor
    <3> QED BY <3>1, <3>2 DEF AdditionKnown
  <2> QED BY <2>1, <2>2
<1>6. ASSUME NEW p \in Requests, Deletes(p, f)'
      PROVE  DeletionRemoves(p, f)'
  <2>1. CASE p = r
    BY <1>6, <2>1
  <2>2. CASE p # r
    <3>1. DeletionRemoves(p, f) /\ req'[p] = req[p] /\ Deletes(p, f)
      BY <1>1, <1>6, <2>2 DEF NoneEmpty
    <3>2. front'[f].cards = front[f].cards /\ front'[f].collections = front[f].collections
      BY <2>2, <3>1
    <3> QED BY <3>1, <3>2 DEF DeletionRemoves, ListedFor
  <2> QED BY <2>1, <2>2
<1> QED BY <1>2, <1>3, <1>5, <1>6 DEF NoneEmpty, ListedFor

LEMMA AddEmpty ==
    ASSUME SInv, NEW r \in Requests, NEW b \in Bodies, NEW f, b.front = f, AddCards(r, b),
           NoneEmpty(f), NothingLost(f)'
    PROVE  NoneEmpty(f)'
<1>1. /\ req[r] = NoReq /\ Others(r) /\ UNCHANGED <<front, holders>>
      /\ req'[r].at = "store" /\ req'[r].kind = "add" /\ req'[r].front = f
      /\ req'[r].cards = Existing(b.cards)
  BY AddEffect
<1>2. \A q \in UnderWay(f, {"delete"}) : <<"overlapped", f>> \in seen'
  BY AddEffect
<1>3. \A p \in Requests : ~Deletes(p, f)
  BY <1>2 DEF NothingLost, Spared, UnderWay, Deletes, OnCards
<1>4. Adds(r, f)' /\ ~Deletes(r, f)'
  BY <1>1 DEF Adds, Deletes, OnCards, CardKinds
<1>5. \A c \in req'[r].cards : holders[c] # {}
  BY <1>1 DEF Existing
<1>6. AdditionKnown(r, f)'
  BY <1>1 DEF AdditionKnown
<1>7. /\ \A c \in front[f].cards : holders[c] # {}
      /\ front[f].collections \subseteq ListedFor(front[f].cards)
  BY <1>3 DEF NoneEmpty, Held
<1> QED BY <1>1, <1>3, <1>4, <1>5, <1>6, <1>7, EmptyAround

LEMMA StoreEmpty ==
    ASSUME SInv, NEW r \in Requests, NEW f, req[r].front = f, StoreCards(r), NoneEmpty(f)
    PROVE  NoneEmpty(f)'
<1>1. /\ req[r].at = "store" /\ Others(r) /\ Same(r) /\ req'[r].at = "read"
      /\ front'[f].cards = front[f].cards \cup req[r].cards
      /\ front'[f].collections = front[f].collections /\ UNCHANGED holders
  BY StoreCardsEffect
<1>2. Adds(r, f) /\ OnCards(r, f) /\ ~Deletes(r, f)
  BY <1>1, Idle DEF Stage, Adds, Deletes, OnCards, CardKinds
<1>3. Adds(r, f)' /\ ~Deletes(r, f)' /\ req'[r].cards = req[r].cards
  BY <1>1, <1>2, SameRequest
<1>4. \A p \in Requests : ~Deletes(p, f)
  BY <1>2 DEF NoneEmpty, Alone
<1>5. AdditionKnown(r, f)'
  BY <1>1 DEF AdditionKnown
<1>6. \A c \in front'[f].cards \cup req'[r].cards : holders[c] # {}
  BY <1>1, <1>2, <1>3 DEF NoneEmpty, Held
<1>7. front'[f].collections \subseteq ListedFor(front'[f].cards)
  <2>1. front[f].collections \subseteq ListedFor(front[f].cards)
    BY <1>4 DEF NoneEmpty
  <2>2. ListedFor(front[f].cards) \subseteq ListedFor(front'[f].cards)
    BY <1>1, ListedGrows
  <2> QED BY <1>1, <2>1, <2>2
<1> QED BY <1>1, <1>3, <1>4, <1>5, <1>6, <1>7, EmptyAround

(* A step that leaves the front and the holders, and the request its cards.*)
LEMMA HoldingEmpty ==
    ASSUME SInv, NEW r \in Requests, NEW f, OnCards(r, f), NoneEmpty(f),
           Others(r), Same(r), UNCHANGED <<front, holders>>,
           Adds(r, f) => AdditionKnown(r, f)', Deletes(r, f) => DeletionRemoves(r, f)'
    PROVE  NoneEmpty(f)'
<1>1. /\ OnCards(r, f)' /\ (Adds(r, f)' <=> Adds(r, f)) /\ (Deletes(r, f)' <=> Deletes(r, f))
      /\ req'[r].cards = req[r].cards
  BY SameRequest
<1>2. \A p \in Requests : p # r => (Deletes(p, f)' <=> Deletes(p, f))
  BY OtherRequests
<1>3. /\ \A p \in Requests : p # r => ~Deletes(p, f)
      /\ Deletes(r, f) => \A p \in Requests : p # r => ~OnCards(p, f)
  BY DEF NoneEmpty, Alone
<1>4. /\ \A c \in front[f].cards : holders[c] # {}
      /\ \A c \in req[r].cards : holders[c] # {}
  BY DEF NoneEmpty, Held
<1>5. (\A p \in Requests : ~Deletes(p, f)')
        => front'[f].collections \subseteq ListedFor(front'[f].cards)
  BY <1>1, <1>2 DEF NoneEmpty
<1> QED BY <1>1, <1>3, <1>4, <1>5, EmptyAround

LEMMA ReadEmpty ==
    ASSUME SInv, NEW r \in Requests, NEW f, req[r].front = f, ReadStoreFront(r), NoneEmpty(f)
    PROVE  NoneEmpty(f)'
<1>1. /\ req[r].at = "read" /\ Others(r) /\ Same(r) /\ req'[r].at = "find"
      /\ req'[r].listed = front[f].collections /\ req'[r].present = front[f].cards
      /\ UNCHANGED <<front, holders>> /\ req'[r].cards = req[r].cards
  BY ReadEffect, SameRequest
<1>2. OnCards(r, f)
  BY <1>1, Idle DEF Stage, OnCards
<1>3. ASSUME Adds(r, f)
      PROVE  AdditionKnown(r, f)'
  <2>1. \A p \in Requests : ~Deletes(p, f)
    BY <1>2, <1>3 DEF NoneEmpty, Alone, Adds, Deletes
  <2>2. front[f].collections \subseteq ListedFor(front[f].cards)
    BY <2>1 DEF NoneEmpty
  <2> QED BY <1>1, <2>2 DEF AdditionKnown, ListedFor
<1>4. ASSUME Deletes(r, f)
      PROVE  DeletionRemoves(r, f)'
  BY <1>1, <1>4 DEF NoneEmpty, DeletionRemoves, ListedFor
<1> QED BY <1>1, <1>2, <1>3, <1>4, HoldingEmpty

LEMMA FindEmpty ==
    ASSUME SInv, NEW r \in Requests, NEW f, req[r].front = f, FindExistingCards(r), NoneEmpty(f)
    PROVE  NoneEmpty(f)'
<1>1. /\ req[r].at = "find" /\ Others(r) /\ Same(r) /\ req'[r].at = "decide"
      /\ req'[r].listed = req[r].listed
      /\ req'[r].collections = ListedFor(Existing(req[r].present))
      /\ UNCHANGED <<front, holders>> /\ req'[r].cards = req[r].cards
  BY FindEffect, SameRequest
<1>2. OnCards(r, f)
  BY <1>1, Idle DEF Stage, OnCards
<1>3. ASSUME Adds(r, f)
      PROVE  AdditionKnown(r, f)'
  <2>1. AdditionKnown(r, f)
    BY <1>3 DEF NoneEmpty
  <2> QED BY <1>1, <2>1 DEF AdditionKnown, ListedFor
<1>4. ASSUME Deletes(r, f)
      PROVE  DeletionRemoves(r, f)'
  <2>1. DeletionRemoves(r, f)
    BY <1>4 DEF NoneEmpty
  <2>2. Existing(req[r].present) \subseteq front[f].cards
    BY <1>1, <2>1 DEF DeletionRemoves, Existing
  <2>3. req'[r].collections \subseteq ListedFor(front[f].cards)
    BY <1>1, <2>2, ListedGrows
  <2> QED BY <1>1, <2>1, <2>3 DEF DeletionRemoves, ListedFor
<1> QED BY <1>1, <1>2, <1>3, <1>4, HoldingEmpty

(* When a deletion decides, what it removes is all it emptied.             *)
LEMMA DeletionDecides ==
    ASSUME NEW r \in Requests, NEW f, Deletes(r, f), NoneEmpty(f), req[r].at = "decide"
    PROVE  LET touched == ListedFor(Existing(req[r].cards))
               emptied == (req[r].listed \cap touched) \ req[r].collections
           IN  /\ touched \subseteq req[r].listed
               /\ front[f].collections \ emptied \subseteq ListedFor(front[f].cards)
<1>1. DeletionRemoves(r, f)
  BY DEF NoneEmpty
<1>2. Existing(req[r].cards) = req[r].cards
  BY DEF NoneEmpty, Held, Deletes, Existing
<1>3. ListedFor(req[r].cards) \subseteq req[r].listed /\ req[r].listed = front[f].collections
  BY <1>1 DEF DeletionRemoves
<1>4. ListedFor(front[f].cards \cup req[r].cards)
        = ListedFor(front[f].cards) \cup ListedFor(req[r].cards)
  BY DEF ListedFor
<1>5. /\ front[f].collections \subseteq ListedFor(front[f].cards) \cup ListedFor(req[r].cards)
      /\ req[r].collections \subseteq ListedFor(front[f].cards)
  BY <1>1, <1>4 DEF DeletionRemoves
<1> QED BY <1>2, <1>3, <1>5

LEMMA EndingEmpty ==
    ASSUME SInv, NEW r \in Requests, NEW f, NoneEmpty(f), Others(r), req'[r] = NoReq,
           UNCHANGED <<front, holders>>,
           Deletes(r, f) => front[f].collections \subseteq ListedFor(front[f].cards)
    PROVE  NoneEmpty(f)'
<1>1. ~OnCards(r, f)' /\ ~Adds(r, f)' /\ ~Deletes(r, f)'
  BY NoRequest
<1>2. \A p \in Requests : p # r => (Deletes(p, f)' <=> Deletes(p, f))
  BY OtherRequests
<1>3. \A c \in front[f].cards : holders[c] # {}
  BY DEF NoneEmpty, Held
<1>4. (\A p \in Requests : ~Deletes(p, f)')
        => front'[f].collections \subseteq ListedFor(front'[f].cards)
  BY <1>2 DEF NoneEmpty
<1> QED BY <1>1, <1>3, <1>4, EmptyAround

LEMMA DecideEmpty ==
    ASSUME SInv, NEW r \in Requests, NEW f, req[r].front = f, DecideCollections(r),
           NoneEmpty(f), EveryListed(f)
    PROVE  NoneEmpty(f)'
<1> DEFINE touched == ListedFor(Existing(req[r].cards))
           emptied == (req[r].listed \cap touched) \ req[r].collections
<1>1. /\ req[r].at = "decide" /\ Others(r) /\ UNCHANGED <<front, holders, seen>>
      /\ \/ touched \subseteq req[r].listed /\ emptied = {} /\ req'[r] = NoReq
         \/ /\ touched \subseteq req[r].listed /\ emptied # {} /\ Same(r)
            /\ req'[r].at = "unlist" /\ req'[r].collections = emptied
         \/ /\ ~(touched \subseteq req[r].listed) /\ Same(r)
            /\ req'[r].at \in {"listFirst", "list"}
            /\ req'[r].collections = req[r].listed \cup touched
  BY DecideEffect
<1>2. OnCards(r, f)
  BY <1>1, Idle DEF Stage, OnCards
<1>3. Deletes(r, f) => /\ touched \subseteq req[r].listed
                       /\ front[f].collections \ emptied \subseteq ListedFor(front[f].cards)
  BY <1>1, DeletionDecides
<1>4. CASE touched \subseteq req[r].listed /\ emptied = {} /\ req'[r] = NoReq
  <2>1. Deletes(r, f) => front[f].collections \subseteq ListedFor(front[f].cards)
    BY <1>3, <1>4
  <2> QED BY <1>1, <1>4, <2>1, EndingEmpty
<1>5. CASE /\ touched \subseteq req[r].listed /\ emptied # {} /\ Same(r)
           /\ req'[r].at = "unlist" /\ req'[r].collections = emptied
  <2>1. AdditionKnown(r, f)'
    BY <1>5 DEF AdditionKnown
  <2>2. ASSUME Deletes(r, f)
        PROVE  DeletionRemoves(r, f)'
    <3>1. DeletionRemoves(r, f) /\ req'[r].cards = req[r].cards
      BY <1>5, <2>2, SameRequest DEF NoneEmpty
    <3>2. front[f].collections \ req'[r].collections \subseteq ListedFor(front[f].cards)
      BY <1>3, <1>5, <2>2
    <3> HIDE DEF touched, emptied
    <3> QED BY <1>1, <1>5, <3>1, <3>2 DEF DeletionRemoves, ListedFor
  <2> QED BY <1>1, <1>2, <1>5, <2>1, <2>2, HoldingEmpty
<1>6. CASE /\ ~(touched \subseteq req[r].listed) /\ Same(r)
           /\ req'[r].at \in {"listFirst", "list"}
           /\ req'[r].collections = req[r].listed \cup touched
  <2>1. ~Deletes(r, f)
    BY <1>3, <1>6
  <2>2. Adds(r, f)
    BY <1>2, <2>1 DEF Adds, Deletes, OnCards, CardKinds
  <2>3. req[r].cards \subseteq front[f].cards
    BY <1>1, <2>2 DEF EveryListed, AdditionCovers
  <2>4. touched \subseteq ListedFor(front[f].cards)
    <3>1. Existing(req[r].cards) \subseteq front[f].cards
      BY <2>3 DEF Existing
    <3> QED BY <3>1, ListedGrows
  <2>5. req[r].listed \subseteq ListedFor(front[f].cards)
    BY <1>1, <2>2 DEF NoneEmpty, AdditionKnown
  <2>6. req'[r].collections \subseteq ListedFor(front[f].cards)
    BY <1>6, <2>4, <2>5
  <2> HIDE DEF touched
  <2>7. AdditionKnown(r, f)'
    BY <1>1, <1>6, <2>6 DEF AdditionKnown, ListedFor
  <2> QED BY <1>1, <1>2, <1>6, <2>1, <2>7, HoldingEmpty
<1> QED BY <1>1, <1>4, <1>5, <1>6

LEMMA AddCollectionsEmpty ==
    ASSUME SInv, NEW r \in Requests, NEW f, req[r].front = f, AddCollections(r), NoneEmpty(f)
    PROVE  NoneEmpty(f)'
<1>1. /\ req[r].at \in {"listFirst", "list"} /\ Others(r)
      /\ \/ /\ Same(r) /\ req'[r].at = "list" /\ req'[r].collections = req[r].collections
         \/ req'[r] = NoReq
      /\ front'[f].cards = front[f].cards
      /\ front'[f].collections = front[f].collections \cup req[r].collections
      /\ UNCHANGED holders
  BY AddCollectionsEffect
<1>2. OnCards(r, f)
  BY <1>1, Idle DEF Stage, OnCards
<1>3. Adds(r, f) /\ ~Deletes(r, f)
  BY <1>1, <1>2 DEF NoneEmpty, DeletionRemoves, Adds, Deletes, OnCards, CardKinds
<1>4. \A p \in Requests : ~Deletes(p, f)
  BY <1>2, <1>3 DEF NoneEmpty, Alone
<1>5. front[f].collections \cup req[r].collections \subseteq ListedFor(front[f].cards)
  BY <1>1, <1>3, <1>4 DEF NoneEmpty, AdditionKnown
<1>6. front'[f].collections \subseteq ListedFor(front'[f].cards)
  BY <1>1, <1>5
<1>7. ~Deletes(r, f)' /\ (OnCards(r, f)' => req'[r].cards = req[r].cards)
  BY <1>1, <1>3, SameRequest, NoRequest
<1>8. ASSUME Adds(r, f)'
      PROVE  AdditionKnown(r, f)'
  <2>1. req'[r].at = "list" /\ req'[r].collections = req[r].collections
    BY <1>1, <1>8, NoRequest
  <2> QED BY <1>1, <1>5, <2>1 DEF AdditionKnown, ListedFor
<1>9. /\ \A c \in front'[f].cards : holders[c] # {}
      /\ OnCards(r, f)' => \A c \in req'[r].cards : holders[c] # {}
  BY <1>1, <1>2, <1>7 DEF NoneEmpty, Held
<1> QED BY <1>1, <1>4, <1>6, <1>7, <1>8, <1>9, EmptyAround

LEMMA DeleteCollectionsEmpty ==
    ASSUME SInv, NEW r \in Requests, NEW f, req[r].front = f, DeleteCollections(r),
           NoneEmpty(f), EveryListed(f)
    PROVE  NoneEmpty(f)'
<1>1. /\ req[r].at = "unlist" /\ Others(r) /\ req'[r] = NoReq
      /\ front'[f].cards = front[f].cards
      /\ front'[f].collections = front[f].collections \ req[r].collections
      /\ UNCHANGED holders
  BY DeleteCollectionsEffect
<1>2. OnCards(r, f)
  BY <1>1, Idle DEF Stage, OnCards
<1>3. Deletes(r, f)
  BY <1>1, <1>2 DEF EveryListed, AdditionCovers, Adds, Deletes, OnCards, CardKinds
<1>4. \A p \in Requests : p # r => ~OnCards(p, f)
  BY <1>3 DEF NoneEmpty, Alone
<1>5. \A p \in Requests : p # r => ~Deletes(p, f)
  BY <1>4 DEF Deletes
<1>6. front'[f].collections \subseteq ListedFor(front'[f].cards)
  BY <1>1, <1>3 DEF NoneEmpty, DeletionRemoves
<1>7. ~OnCards(r, f)' /\ ~Adds(r, f)' /\ ~Deletes(r, f)'
  BY <1>1, NoRequest
<1>8. \A c \in front'[f].cards : holders[c] # {}
  BY <1>1 DEF NoneEmpty, Held
<1> QED BY <1>1, <1>5, <1>6, <1>7, <1>8, EmptyAround

LEMMA DeleteEmpty ==
    ASSUME SInv, NEW r \in Requests, NEW b \in Bodies, NEW f, b.front = f, DeleteCards(r, b),
           NoneEmpty(f), EveryListed(f), NothingLost(f)'
    PROVE  NoneEmpty(f)'
<1>1. /\ req[r] = NoReq /\ Others(r) /\ req'[r].at = "read" /\ req'[r].kind = "delete"
      /\ req'[r].front = f /\ req'[r].cards = b.cards
      /\ front'[f].cards = front[f].cards \ b.cards
      /\ front'[f].collections = front[f].collections /\ UNCHANGED holders
  BY DeleteEffect
<1>2. /\ \A q \in UnderWay(f, CardKinds) : <<"overlapped", f>> \in seen'
      /\ \A c \in b.cards \ front[f].cards : <<"strayed", f>> \in seen'
  BY DeleteEffect
<1>3. \A p \in Requests : ~OnCards(p, f)
  BY <1>2 DEF NothingLost, Spared, UnderWay, OnCards
<1>4. b.cards \subseteq front[f].cards
  BY <1>2 DEF NothingLost, Spared
<1>5. Deletes(r, f)' /\ ~Adds(r, f)' /\ \A p \in Requests : p # r => ~OnCards(p, f)'
  BY <1>1, <1>3, OtherRequests DEF Deletes, Adds, OnCards, CardKinds
<1>6. \A p \in Requests : p # r => ~Adds(p, f)' /\ ~Deletes(p, f)'
  BY <1>5 DEF Adds, Deletes
<1>7. \A c \in front[f].cards : holders[c] # {}
  BY DEF NoneEmpty, Held
<1>8. Alone(f)'
  BY <1>5, <1>6 DEF Alone
<1>9. Held(f)'
  BY <1>1, <1>4, <1>5, <1>7 DEF Held
<1>10. DeletionRemoves(r, f)'
  <2>1. front[f].collections \subseteq ListedFor(front[f].cards)
    BY <1>3 DEF NoneEmpty, Deletes
  <2>2. front'[f].cards \cup b.cards = front[f].cards
    BY <1>1, <1>4
  <2>3. front'[f].collections \subseteq ListedFor(front'[f].cards \cup b.cards)
    BY <1>1, <2>1, <2>2
  <2>4. ListedFor(b.cards) \subseteq front[f].collections
    <3>1. \A c \in front[f].cards : CollectionOf[c] \in front[f].collections
      BY <1>3, <1>7 DEF EveryListed, Awaited, Adds, Existing
    <3> QED BY <1>4, <3>1 DEF ListedFor
  <2> QED BY <1>1, <2>3, <2>4 DEF DeletionRemoves, ListedFor
<1> QED BY <1>5, <1>6, <1>8, <1>9, <1>10 DEF NoneEmpty

LEMMA FailEmpty ==
    ASSUME SInv, NEW r \in Requests, NEW f, req[r].front = f, RequestFails(r),
           NoneEmpty(f), NothingLost(f)'
    PROVE  NoneEmpty(f)'
<1>1. /\ req[r].at # "idle" /\ Others(r) /\ req'[r] = NoReq /\ UNCHANGED <<front, holders>>
      /\ req[r].kind \in CardKinds /\ req[r].at # "store" => <<"cutShort", f>> \in seen'
  BY FailEffect
<1>2. ~Deletes(r, f)
  BY <1>1, Idle DEF NothingLost, Spared, Deletes, OnCards, Stage, CardKinds
<1> QED BY <1>1, <1>2, EndingEmpty

-----------------------------------------------------------------------------
(* The invariant is kept, front by front.                                  *)
LEMMA SeenGrows ==
    ASSUME CrossedOverlaps, [Next]_vars
    PROVE  seen \subseteq seen' /\ CrossedOverlaps'
<1>1. ASSUME NEW r \in Requests, NEW b \in Bodies, AddCards(r, b)
      PROVE  seen \subseteq seen' /\ CrossedOverlaps'
  BY <1>1 DEF AddCards, CrossedOverlaps
<1>2. ASSUME NEW r \in Requests, NEW b \in Bodies, DeleteCards(r, b)
      PROVE  seen \subseteq seen' /\ CrossedOverlaps'
  BY <1>2 DEF DeleteCards, CrossedOverlaps, UnderWay, CardKinds
<1>3. ASSUME NEW r \in Requests, NEW b \in Bodies, UpdatePageSettings(r, b)
      PROVE  seen \subseteq seen' /\ CrossedOverlaps'
  BY <1>3 DEF UpdatePageSettings, CrossedOverlaps
<1>4. ASSUME NEW r \in Requests, NEW b \in Bodies,
             UpdateSettings(r, b) \/ PublishStoreFront(r, b)
      PROVE  seen \subseteq seen' /\ CrossedOverlaps'
  BY <1>4 DEF UpdateSettings, PublishStoreFront, CrossedOverlaps
<1>5. ASSUME NEW r \in Requests, Continue(r)
      PROVE  seen \subseteq seen' /\ CrossedOverlaps'
  BY <1>5 DEF Continue, StoreCards, ReadStoreFront, FindExistingCards, DecideCollections,
              AddCollections, DeleteCollections, StoreSettings, CheckRelease, StoreRelease,
              ValidateBlock, StorePageSetting, AddPage, CrossedOverlaps
<1>6. ASSUME NEW r \in Requests, RequestFails(r)
      PROVE  seen \subseteq seen' /\ CrossedOverlaps'
  BY <1>6 DEF RequestFails, CrossedOverlaps
<1>7. ASSUME NEW f \in Fronts, CreateStoreFront(f)
      PROVE  seen \subseteq seen' /\ CrossedOverlaps'
  BY <1>7 DEF CreateStoreFront, CrossedOverlaps
<1>8. ASSUME NEW c \in Cards, NEW to, CardChangesHands(c, to)
      PROVE  seen \subseteq seen' /\ CrossedOverlaps'
  BY <1>8 DEF CardChangesHands, CrossedOverlaps
<1>9. CASE UNCHANGED vars
  BY <1>9 DEF vars, CrossedOverlaps
<1> QED BY <1>1, <1>2, <1>3, <1>4, <1>5, <1>6, <1>7, <1>8, <1>9 DEF Next, Begin

LEMMA NothingForgotten ==
    ASSUME seen \subseteq seen', CrossedOverlaps, NEW f
    PROVE  /\ Undisturbed(f)' => Undisturbed(f)
           /\ NothingLost(f)' => NothingLost(f)
           /\ NothingLost(f) => Undisturbed(f)
BY DEF Undisturbed, NothingLost, Spared, CrossedOverlaps

(* What the invariant says of a front that had nothing go wrong so far.    *)
LEMMA Stepped ==
    ASSUME seen \subseteq seen', CrossedOverlaps, NEW f, Lists(f),
           Undisturbed(f)' /\ EveryListed(f) => EveryListed(f)',
           NothingLost(f)' /\ EveryListed(f) /\ NoneEmpty(f) => NoneEmpty(f)'
    PROVE  Lists(f)'
BY NothingForgotten DEF Lists

LEMMA Elsewhere ==
    ASSUME SInv, CrossedOverlaps, seen \subseteq seen', NEW f \in Created, Lists(f),
           NEW r \in Requests, Others(r), ~OnCards(r, f), ~OnCards(r, f)', UNCHANGED holders,
           front'[f].cards = front[f].cards, front'[f].collections = front[f].collections
    PROVE  Lists(f)'
<1>1. Untouched(f) /\ StillHeld(f)
  BY DEF Untouched, StillHeld, Others
<1> QED BY <1>1, Stepped, ListedKept, EmptyKept

LEMMA BeginLists ==
    ASSUME SInv, CrossedOverlaps, seen \subseteq seen', NEW f \in Created, Lists(f),
           NEW r \in Requests, NEW b \in Bodies, Begin(r, b)
    PROVE  Lists(f)'
<1>1. CASE AddCards(r, b)
  <2>1. CASE b.front = f
    BY <1>1, <2>1, Stepped, AddListed, AddEmpty
  <2>2. CASE b.front # f
    <3>1. /\ Others(r) /\ UNCHANGED <<front, holders>> /\ req[r] = NoReq
          /\ req'[r].front = b.front
      BY <1>1, AddEffect
    <3>2. ~OnCards(r, f) /\ ~OnCards(r, f)'
      BY <2>2, <3>1, NoReqFields DEF OnCards, CardKinds
    <3> QED BY <3>1, <3>2, Elsewhere
  <2> QED BY <2>1, <2>2
<1>2. CASE DeleteCards(r, b)
  <2>1. CASE b.front = f
    BY <1>2, <2>1, Stepped, DeleteListed, DeleteEmpty
  <2>2. CASE b.front # f
    <3>1. /\ Others(r) /\ UNCHANGED holders /\ req[r] = NoReq
          /\ req'[r].front = b.front /\ OtherFronts(b.front)
      BY <1>2, DeleteEffect
    <3>2. ~OnCards(r, f) /\ ~OnCards(r, f)' /\ front'[f] = front[f]
      BY <2>2, <3>1, NoReqFields DEF OnCards, CardKinds, OtherFronts
    <3> QED BY <3>1, <3>2, Elsewhere
  <2> QED BY <2>1, <2>2
<1>3. CASE UpdateSettings(r, b) \/ PublishStoreFront(r, b) \/ UpdatePageSettings(r, b)
  <2>1. /\ Others(r) /\ UNCHANGED <<front, holders>> /\ req[r] = NoReq
        /\ req'[r].kind \notin CardKinds
    BY <1>3, UpdateSettingsEffect, PublishEffect, UpdatePageEffect DEF CardKinds
  <2>2. ~OnCards(r, f) /\ ~OnCards(r, f)'
    BY <2>1, NoReqFields DEF OnCards, CardKinds
  <2> QED BY <2>1, <2>2, Elsewhere
<1> QED BY <1>1, <1>2, <1>3 DEF Begin

CardStep(r) ==
    \/ StoreCards(r) \/ ReadStoreFront(r) \/ FindExistingCards(r) \/ DecideCollections(r)
    \/ AddCollections(r) \/ DeleteCollections(r)

LEMMA CardStepLists ==
    ASSUME SInv, CrossedOverlaps, seen \subseteq seen', NEW f \in Created, Lists(f),
           NEW r \in Requests, CardStep(r)
    PROVE  Lists(f)'
<1>1. CASE req[r].front = f
  <2>1. EveryListed(f) => EveryListed(f)'
    BY <1>1, StoreListed, ReadListed, FindListed, DecideListed, AddCollectionsListed,
       DeleteCollectionsListed DEF CardStep
  <2>2. EveryListed(f) /\ NoneEmpty(f) => NoneEmpty(f)'
    BY <1>1, StoreEmpty, ReadEmpty, FindEmpty, DecideEmpty, AddCollectionsEmpty,
       DeleteCollectionsEmpty DEF CardStep
  <2> QED BY <2>1, <2>2, Stepped
<1>2. CASE req[r].front # f
  <2>1. /\ Others(r) /\ UNCHANGED holders
        /\ Same(r) \/ req'[r] = NoReq
        /\ front'[f].cards = front[f].cards /\ front'[f].collections = front[f].collections
    <3>1. CASE StoreCards(r)
      BY <1>2, <3>1, StoreCardsEffect DEF OtherFronts
    <3>2. CASE ReadStoreFront(r)
      BY <3>2, ReadEffect
    <3>3. CASE FindExistingCards(r)
      BY <3>3, FindEffect
    <3>4. CASE DecideCollections(r)
      BY <3>4, DecideEffect
    <3>5. CASE AddCollections(r)
      BY <1>2, <3>5, AddCollectionsEffect DEF OtherFronts
    <3>6. CASE DeleteCollections(r)
      BY <1>2, <3>6, DeleteCollectionsEffect DEF OtherFronts
    <3> QED BY <3>1, <3>2, <3>3, <3>4, <3>5, <3>6 DEF CardStep
  <2>2. ~OnCards(r, f) /\ ~OnCards(r, f)'
    BY <1>2, <2>1, SameRequest, NoRequest DEF OnCards
  <2> QED BY <2>1, <2>2, Elsewhere
<1> QED BY <1>1, <1>2

LEMMA ContinueLists ==
    ASSUME SInv, CrossedOverlaps, seen \subseteq seen', NEW f \in Created, Lists(f),
           NEW r \in Requests, Continue(r)
    PROVE  Lists(f)'
<1>1. CASE CardStep(r)
  BY <1>1, CardStepLists
<1>2. ASSUME Others(r), UNCHANGED holders, Same(r) \/ req'[r] = NoReq,
             req[r].at \in {"settings", "check", "release", "validate", "addPage"},
             front'[f].cards = front[f].cards, front'[f].collections = front[f].collections
      PROVE  Lists(f)'
  <2>1. req[r].kind \notin CardKinds
    BY <1>2, Idle DEF Stage, CardKinds
  <2>2. ~OnCards(r, f) /\ ~OnCards(r, f)'
    BY <1>2, <2>1, SameRequest, NoRequest DEF OnCards
  <2> QED BY <1>2, <2>2, Elsewhere
<1>3. CASE StoreSettings(r)
  BY <1>2, <1>3, StoreSettingsEffect DEF OtherFronts
<1>4. CASE CheckRelease(r)
  BY <1>2, <1>4, CheckEffect
<1>5. CASE StoreRelease(r)
  BY <1>2, <1>5, StoreReleaseEffect DEF OtherFronts
<1>6. CASE ValidateBlock(r)
  BY <1>2, <1>6, ValidateEffect
<1>7. CASE StorePageSetting(r) \/ AddPage(r)
  BY <1>2, <1>7, StorePageEffect DEF OtherFronts
<1> QED BY <1>1, <1>3, <1>4, <1>5, <1>6, <1>7 DEF Continue, CardStep

LEMMA FailLists ==
    ASSUME SInv, CrossedOverlaps, seen \subseteq seen', NEW f \in Created, Lists(f),
           NEW r \in Requests, RequestFails(r)
    PROVE  Lists(f)'
<1>1. CASE req[r].front = f
  BY <1>1, Stepped, FailListed, FailEmpty
<1>2. CASE req[r].front # f
  <2>1. Others(r) /\ req'[r] = NoReq /\ UNCHANGED <<front, holders>>
    BY FailEffect
  <2>2. ~OnCards(r, f) /\ ~OnCards(r, f)'
    BY <1>2, <2>1, NoRequest DEF OnCards
  <2> QED BY <2>1, <2>2, Elsewhere
<1> QED BY <1>1, <1>2

(* A card that is burned is noted for every front that names it.           *)
LEMMA HandsLists ==
    ASSUME SInv, CrossedOverlaps, seen \subseteq seen', NEW f \in Created, Lists(f),
           NEW c \in Cards, NEW to, CardChangesHands(c, to)
    PROVE  Lists(f)'
<1>1. /\ UNCHANGED <<front, req>> /\ holders[c] # {} /\ DOMAIN holders = Cards
      /\ holders' = [holders EXCEPT ![c] = to]
  BY DEF CardChangesHands, SInv
<1>2. Untouched(f)
  BY <1>1 DEF Untouched
<1>3. ASSUME NothingLost(f)'
      PROVE  StillHeld(f)
  <2>1. CASE to # {}
    BY <1>1, <2>1 DEF StillHeld, SInv, NoReq
  <2>2. CASE to = {}
    <3>1. f \notin Naming(c)
      BY <1>3, <2>2 DEF CardChangesHands, NothingLost, Spared
    <3>2. \A d \in Cards : d # c => holders'[d] = holders[d]
      BY <1>1
    <3>3. \A r \in Requests : OnCards(r, f) => req[r].cards \subseteq Cards
      BY CardsOfRequest
    <3>4. front[f].cards \subseteq Cards
      BY DEF SInv
    <3> QED BY <3>1, <3>2, <3>3, <3>4 DEF StillHeld, Naming, OnCards
  <2> QED BY <2>1, <2>2
<1> QED BY <1>2, <1>3, Stepped, ListedKept, EmptyKept

LEMMA CreateLists ==
    ASSUME SInv, NEW f \in Fronts, CreateStoreFront(f)
    PROVE  Lists(f)'
<1>1. /\ f \notin Created /\ front'[f] = NewFront /\ UNCHANGED <<req, holders>>
  BY CreateEffect
<1>2. \A r \in Requests : ~OnCards(r, f)
  BY <1>1, CardsOfRequest
<1>3. \A r \in Requests : ~OnCards(r, f)' /\ ~Adds(r, f)' /\ ~Deletes(r, f)'
  BY <1>1, <1>2 DEF OnCards, Adds, Deletes
<1>4. NewFront.cards = {} /\ NewFront.collections = {}
  BY DEF NewFront
<1>5. EveryListed(f)'
  BY <1>1, <1>3, <1>4 DEF EveryListed, NeverCrossed, Existing
<1>6. NoneEmpty(f)'
  BY <1>1, <1>3, <1>4 DEF NoneEmpty, Alone, Held
<1> QED BY <1>5, <1>6 DEF Lists

LEMMA ListInvInit == Init => ListInv
<1> SUFFICES ASSUME Init PROVE ListInv
  OBVIOUS
<1>1. SInv
  BY SlugInvInit DEF SlugInv
<1>2. Created = {} /\ seen = {}
  BY DEF Init, Created
<1> QED BY <1>1, <1>2 DEF ListInv, CrossedOverlaps

LEMMA ListInvNext == SlugInv /\ ListInv /\ [Next]_vars => ListInv'
<1> SUFFICES ASSUME SlugInv, ListInv, [Next]_vars PROVE ListInv'
  OBVIOUS
<1>1. SInv' /\ seen \subseteq seen' /\ CrossedOverlaps'
  BY SlugInvNext, SeenGrows DEF SlugInv, ListInv
<1>2. SInv /\ CrossedOverlaps /\ \A f \in Created : Lists(f)
  BY DEF ListInv
<1>3. ASSUME NEW f \in Created
      PROVE  Lists(f)'
  <2>1. CASE UNCHANGED vars
    BY <1>2, <2>1, Stepped, ListedKept, EmptyKept DEF vars, Untouched, StillHeld
  <2>2. ASSUME NEW g \in Fronts, CreateStoreFront(g)
        PROVE  Lists(f)'
    <3>1. front'[f] = front[f] /\ UNCHANGED <<req, holders>>
      BY <1>2, <2>2, CreateEffect
    <3>2. Untouched(f) /\ StillHeld(f)
      BY <3>1 DEF Untouched, StillHeld
    <3> QED BY <1>1, <1>2, <3>2, Stepped, ListedKept, EmptyKept
  <2> QED BY <1>1, <1>2, <2>1, <2>2, BeginLists, ContinueLists, FailLists, HandsLists DEF Next
<1>4. ASSUME NEW f \in Created', f \notin Created
      PROVE  Lists(f)'
  <2>1. \A g \in Fronts : CreateStoreFront(g) => Created' = Created \cup {g}
    BY <1>2, CreateEffect
  <2>2. \E g \in Fronts : CreateStoreFront(g)
    <3>1. ASSUME NEW r \in Requests, Continue(r) \/ RequestFails(r)
          PROVE  Created' = Created
      BY <3>1 DEF Continue, RequestFails, StoreCards, ReadStoreFront, FindExistingCards,
                  DecideCollections, AddCollections, DeleteCollections, StoreSettings,
                  CheckRelease, StoreRelease, ValidateBlock, StorePageSetting, AddPage, Created
    <3>2. ASSUME NEW r \in Requests, NEW b \in Bodies, Begin(r, b)
          PROVE  Created' = Created
      BY <3>2 DEF Begin, AddCards, DeleteCards, UpdateSettings, PublishStoreFront,
                  UpdatePageSettings, Created
    <3> QED BY <3>1, <3>2, <1>4 DEF Next, CardChangesHands, vars, Created
  <2> QED BY <1>2, <1>4, <2>1, <2>2, CreateLists
<1> QED BY <1>1, <1>3, <1>4 DEF ListInv

(* Once no card request is under way, the list is exactly what the cards   *)
(* of the front call for.                                                  *)
LEMMA ListInvFollows == ListInv => CollectionsFollowCards
<1> SUFFICES ASSUME ListInv PROVE CollectionsFollowCards
  OBVIOUS
<1>1. ASSUME NEW f \in Created, Resting(f)
      PROVE  \A r \in Requests : ~OnCards(r, f) /\ ~Adds(r, f) /\ ~Deletes(r, f)
  BY <1>1 DEF Resting, UnderWay, OnCards, Adds, Deletes
<1>2. CollectionOfEveryCardListed
  <2> SUFFICES ASSUME NEW f \in Created, Resting(f), Undisturbed(f)
               PROVE  ListedFor(Existing(front[f].cards)) \subseteq front[f].collections
    BY DEF CollectionOfEveryCardListed, Undisturbed
  <2>1. EveryListed(f)
    BY DEF ListInv, Lists
  <2>2. \A c \in Existing(front[f].cards) : CollectionOf[c] \in front[f].collections
    BY <1>1, <2>1 DEF EveryListed, Awaited
  <2> QED BY <2>2 DEF ListedFor
<1>3. NoEmptyCollectionListed
  <2> SUFFICES ASSUME NEW f \in Created, Resting(f), NothingLost(f)
               PROVE  front[f].collections \subseteq ListedFor(Existing(front[f].cards))
    BY DEF NoEmptyCollectionListed, NothingLost
  <2>1. NoneEmpty(f)
    BY DEF ListInv, Lists
  <2>2. Existing(front[f].cards) = front[f].cards
    BY <2>1 DEF NoneEmpty, Held, Existing
  <2>3. front[f].collections \subseteq ListedFor(front[f].cards)
    BY <1>1, <2>1 DEF NoneEmpty
  <2> QED BY <2>2, <2>3
<1> QED BY <1>2, <1>3 DEF CollectionsFollowCards

(* A front at rest lists the collection of every card it has and no        *)
(* other, however its card requests overlapped, unless one of the events   *)
(* named befell it (addCards, deleteCards and updateCollectionsByCards).   *)
THEOREM ListsFollowCards == Spec => []CollectionsFollowCards
<1> USE SlugInvInit, SlugInvNext
<1>1. Init => SlugInv /\ ListInv
  BY ListInvInit
<1>2. SlugInv /\ ListInv /\ [Next]_vars => (SlugInv /\ ListInv)'
  BY ListInvNext
<1> QED BY <1>1, <1>2, ListInvFollows, PTL DEF Spec

-----------------------------------------------------------------------------
(* The pages of a front.  Everything a front and a request hold has its    *)
(* type; the collections of a request once it read or found them.          *)
FrontsTyped ==
    /\ Created \subseteq Fronts
    /\ holders \in [Cards -> SUBSET Users]
    /\ dropped \in [Fronts -> SUBSET Cards]
    /\ \A f \in Created : front[f].collections \subseteq Collections
    /\ \A r \in Requests :
         /\ req[r].at \in {"find", "decide"} => req[r].listed \subseteq Collections
         /\ req[r].at = "find" => req[r].present \subseteq Cards
         /\ req[r].at \in {"decide", "listFirst", "list", "unlist"}
              => req[r].collections \subseteq Collections

(* A block that was validated names cards that the front has or had.       *)
Known(f) == front[f].cards \cup dropped[f]

BlockSound(blk, f) ==
    /\ blk.type \in DOMAIN RequiredParts /\ blk.parts = RequiredParts[blk.type]
    /\ blk.cards = None \/ blk.cards \subseteq Known(f)

PageRequestSound(r) ==
    /\ req[r].blocks \in Seq(Blocks)
    /\ req[r].next \in 1..(Len(req[r].blocks) + 1)
    /\ \A j \in 1..(req[r].next - 1) : BlockSound(req[r].blocks[j], req[r].front)
    /\ req[r].at = "addPage" => req[r].next = Len(req[r].blocks) + 1

FrontPagesSound(f) ==
    /\ front[f].pages \in Seq(Seq(Blocks))
    /\ \A i \in DOMAIN front[f].pages : \A j \in DOMAIN front[f].pages[i] :
         BlockSound(front[f].pages[i][j], f)

PagesSound ==
    /\ \A f \in Created : FrontPagesSound(f)
    /\ \A r \in Requests : req[r].kind = "page" => PageRequestSound(r)

(* Page requests that were never under way at once on a front are one at a *)
(* time, and the one that adds the page has seen that there is none.       *)
OnPages(r, f) == req[r].front = f /\ req[r].kind = "page"

PagesAlone ==
    \A f \in Created : Spared(f, {"pagedTogether"}) =>
        /\ \A r, q \in Requests : OnPages(r, f) /\ OnPages(q, f) => r = q
        /\ Len(front[f].pages) <= 1
        /\ \A r \in Requests : OnPages(r, f) /\ req[r].at = "addPage" => front[f].pages = <<>>

PagesInv == FrontsTyped /\ PagesSound /\ PagesAlone

-----------------------------------------------------------------------------
(* Types.                                                                  *)
LEMMA ListedTyped ==
    ASSUME NEW cs \in SUBSET Cards
    PROVE  ListedFor(cs) \subseteq Collections /\ ListedFor(Existing(cs)) \subseteq Collections
BY FrontsAssumption DEF ListedFor, Existing

(* A step that is about none of it, but for one request.                   *)
LEMMA TypedElsewhere ==
    ASSUME SInv, FrontsTyped, NEW r \in Requests, Others(r), UNCHANGED <<holders, dropped>>,
           Created' = Created,
           \A f \in Created : front'[f].collections \subseteq Collections,
           req'[r].at \in {"find", "decide"} => req'[r].listed \subseteq Collections,
           req'[r].at = "find" => req'[r].present \subseteq Cards,
           req'[r].at \in {"decide", "listFirst", "list", "unlist"}
             => req'[r].collections \subseteq Collections
    PROVE  FrontsTyped'
<1>1. \A p \in Requests :
         /\ req'[p].at \in {"find", "decide"} => req'[p].listed \subseteq Collections
         /\ req'[p].at = "find" => req'[p].present \subseteq Cards
         /\ req'[p].at \in {"decide", "listFirst", "list", "unlist"}
              => req'[p].collections \subseteq Collections
  BY DEF FrontsTyped, Others
<1> QED BY <1>1 DEF FrontsTyped

LEMMA ContinueTyped ==
    ASSUME SInv, FrontsTyped, NEW r \in Requests, Continue(r)
    PROVE  FrontsTyped'
<1> DEFINE f == req[r].front
<1>1. /\ holders \in [Cards -> SUBSET Users] /\ dropped \in [Fronts -> SUBSET Cards]
      /\ \A g \in Created : front[g].collections \subseteq Collections /\ front[g].cards \subseteq Cards
      /\ req[r].cards \subseteq Cards
  BY NoReqFields DEF FrontsTyped, SInv
<1>2. UNCHANGED front => Created' = Created
  BY DEF Created
<1>3. NoReq.at = "idle"
  BY DEF NoReq
<1>4. CASE StoreCards(r)
  <2>1. /\ Others(r) /\ req'[r].at = "read" /\ f \in Created /\ OtherFronts(f)
        /\ front'[f].collections = front[f].collections /\ UNCHANGED holders
    BY <1>4, StoreCardsEffect
  <2>2. dropped' = [dropped EXCEPT ![f] = @ \ req[r].cards]
    BY <1>4 DEF StoreCards
  <2>3. dropped' \in [Fronts -> SUBSET Cards]
    BY <1>1, <2>2
  <2>4. \A p \in Requests :
           /\ req'[p].at \in {"find", "decide"} => req'[p].listed \subseteq Collections
           /\ req'[p].at = "find" => req'[p].present \subseteq Cards
           /\ req'[p].at \in {"decide", "listFirst", "list", "unlist"}
                => req'[p].collections \subseteq Collections
    BY <2>1 DEF FrontsTyped, Others
  <2>5. Created' = Created /\ \A g \in Created : front'[g].collections \subseteq Collections
    BY <1>1, <2>1 DEF OtherFronts
  <2> QED BY <2>1, <2>3, <2>4, <2>5 DEF FrontsTyped
<1>5. CASE ReadStoreFront(r)
  <2>1. /\ Others(r) /\ req'[r].at = "find" /\ UNCHANGED <<front, holders, dropped>>
        /\ req'[r].listed = front[f].collections /\ req'[r].present = front[f].cards
        /\ f \in Created
    BY <1>5, ReadEffect, Idle DEF ReadStoreFront
  <2> QED BY <1>1, <1>2, <2>1, TypedElsewhere
<1>6. CASE FindExistingCards(r)
  <2>1. /\ req[r].at = "find" /\ Others(r) /\ req'[r].at = "decide"
        /\ UNCHANGED <<front, holders, dropped>> /\ req'[r].listed = req[r].listed
        /\ req'[r].collections = ListedFor(Existing(req[r].present))
    BY <1>6, FindEffect DEF FindExistingCards
  <2>2. req[r].listed \subseteq Collections /\ req[r].present \subseteq Cards
    BY <2>1 DEF FrontsTyped
  <2>3. ListedFor(Existing(req[r].present)) \subseteq Collections
    BY <2>2, ListedTyped
  <2> QED BY <1>1, <1>2, <2>1, <2>2, <2>3, TypedElsewhere
<1>7. CASE DecideCollections(r)
  <2> DEFINE touched == ListedFor(Existing(req[r].cards))
             emptied == (req[r].listed \cap touched) \ req[r].collections
  <2>1. /\ req[r].at = "decide" /\ Others(r) /\ UNCHANGED <<front, holders, dropped>>
        /\ \/ req'[r] = NoReq
           \/ /\ req'[r].at \in {"listFirst", "list", "unlist"}
              /\ req'[r].collections \in {emptied, req[r].listed \cup touched}
    BY <1>7, DecideEffect DEF DecideCollections
  <2>2. req[r].listed \subseteq Collections /\ touched \subseteq Collections
    BY <1>1, <2>1, ListedTyped DEF FrontsTyped
  <2> HIDE DEF touched
  <2> QED BY <1>1, <1>2, <1>3, <2>1, <2>2, TypedElsewhere
<1>8. CASE AddCollections(r)
  <2>1. /\ req[r].at \in {"listFirst", "list"} /\ Others(r)
        /\ \/ req'[r].at = "list" /\ req'[r].collections = req[r].collections
           \/ req'[r] = NoReq
        /\ f \in Created /\ OtherFronts(f) /\ UNCHANGED <<holders, dropped>>
        /\ front'[f].collections = front[f].collections \cup req[r].collections
    BY <1>8, AddCollectionsEffect DEF AddCollections
  <2>2. req[r].collections \subseteq Collections
    BY <2>1 DEF FrontsTyped
  <2>3. Created' = Created /\ \A g \in Created : front'[g].collections \subseteq Collections
    BY <1>1, <2>1, <2>2 DEF OtherFronts
  <2> QED BY <1>3, <2>1, <2>2, <2>3, TypedElsewhere
<1>9. CASE DeleteCollections(r)
  <2>1. /\ Others(r) /\ req'[r] = NoReq
        /\ f \in Created /\ OtherFronts(f) /\ UNCHANGED <<holders, dropped>>
        /\ front'[f].collections = front[f].collections \ req[r].collections
    BY <1>9, DeleteCollectionsEffect DEF DeleteCollections
  <2>2. Created' = Created /\ \A g \in Created : front'[g].collections \subseteq Collections
    BY <1>1, <2>1 DEF OtherFronts
  <2> QED BY <1>3, <2>1, <2>2, TypedElsewhere
<1>10. CASE StoreSettings(r) \/ StoreRelease(r)
  <2>1. /\ Others(r) /\ req'[r] = NoReq /\ f \in Created /\ UNCHANGED <<holders, dropped>>
        /\ \/ UNCHANGED front
           \/ OtherFronts(f) /\ front'[f].collections = front[f].collections
    BY <1>10, StoreSettingsEffect, StoreReleaseEffect DEF StoreSettings, StoreRelease
  <2>2. Created' = Created /\ \A g \in Created : front'[g].collections \subseteq Collections
    BY <1>1, <1>2, <2>1 DEF OtherFronts
  <2> QED BY <1>3, <2>1, <2>2, TypedElsewhere
<1>11. CASE CheckRelease(r) \/ ValidateBlock(r)
  <2>1. /\ Others(r) /\ UNCHANGED <<front, holders, dropped>>
        /\ req'[r] = NoReq \/ req'[r].at \in {"release", "validate"}
    BY <1>11, CheckEffect, ValidateEffect DEF CheckRelease, ValidateBlock
  <2> QED BY <1>1, <1>2, <1>3, <2>1, TypedElsewhere
<1>12. CASE StorePageSetting(r) \/ AddPage(r)
  <2>1. /\ Others(r) /\ f \in Created /\ UNCHANGED <<holders, dropped>>
        /\ req'[r] = NoReq \/ req'[r].at = "addPage"
        /\ \/ UNCHANGED front
           \/ OtherFronts(f) /\ front'[f].collections = front[f].collections
    BY <1>12, StorePageEffect DEF StorePageSetting, AddPage
  <2>2. Created' = Created /\ \A g \in Created : front'[g].collections \subseteq Collections
    BY <1>1, <1>2, <2>1 DEF OtherFronts
  <2> QED BY <1>3, <2>1, <2>2, TypedElsewhere
<1> QED BY <1>4, <1>5, <1>6, <1>7, <1>8, <1>9, <1>10, <1>11, <1>12 DEF Continue

LEMMA BeginTyped ==
    ASSUME SInv, FrontsTyped, NEW r \in Requests, NEW b \in Bodies, Begin(r, b)
    PROVE  FrontsTyped'
<1>1. /\ Others(r) /\ b.front \in Created /\ UNCHANGED holders
      /\ req'[r].at \in {"store", "read", "settings", "check", "validate"}
      /\ \/ UNCHANGED front
         \/ OtherFronts(b.front) /\ front'[b.front].collections = front[b.front].collections
  BY AddEffect, DeleteEffect, UpdateSettingsEffect, PublishEffect, UpdatePageEffect DEF Begin
<1>2. Created' = Created /\ \A g \in Created : front'[g].collections \subseteq Collections
  BY <1>1 DEF OtherFronts, FrontsTyped, Created
<1>3. CASE UNCHANGED dropped
  BY <1>1, <1>2, <1>3, TypedElsewhere
<1>4. CASE DeleteCards(r, b)
  <2>1. dropped' \in [Fronts -> SUBSET Cards]
    <3>1. dropped' = [dropped EXCEPT ![b.front] = @ \cup (b.cards \cap front[b.front].cards)]
      BY <1>4 DEF DeleteCards
    <3>2. b.cards \subseteq Cards /\ dropped \in [Fronts -> SUBSET Cards]
      BY BodiesAssumption DEF FrontsTyped
    <3> QED BY <3>1, <3>2
  <2>2. \A p \in Requests :
           /\ req'[p].at \in {"find", "decide"} => req'[p].listed \subseteq Collections
           /\ req'[p].at = "find" => req'[p].present \subseteq Cards
           /\ req'[p].at \in {"decide", "listFirst", "list", "unlist"}
                => req'[p].collections \subseteq Collections
    BY <1>1 DEF FrontsTyped, Others
  <2> QED BY <1>1, <1>2, <2>1, <2>2 DEF FrontsTyped
<1> QED BY <1>3, <1>4 DEF Begin, AddCards, UpdateSettings, PublishStoreFront, UpdatePageSettings

LEMMA OthersTyped ==
    ASSUME SInv, FrontsTyped,
           \/ \E f \in Fronts : CreateStoreFront(f)
           \/ \E r \in Requests : RequestFails(r)
           \/ \E c \in Cards : \E to \in {{}} \cup {{u} : u \in Users} : CardChangesHands(c, to)
           \/ UNCHANGED vars
    PROVE  FrontsTyped'
<1>1. ASSUME NEW f \in Fronts, CreateStoreFront(f)
      PROVE  FrontsTyped'
  <2>1. /\ Created' = Created \cup {f} /\ front'[f] = NewFront
        /\ \A g \in Created : front'[g] = front[g]
        /\ UNCHANGED <<req, holders, dropped>>
    BY <1>1, CreateEffect DEF CreateStoreFront
  <2>2. NewFront.collections = {}
    BY DEF NewFront
  <2> QED BY <2>1, <2>2 DEF FrontsTyped
<1>2. ASSUME NEW r \in Requests, RequestFails(r)
      PROVE  FrontsTyped'
  <2>1. Others(r) /\ req'[r] = NoReq /\ UNCHANGED <<front, holders, dropped>>
    BY <1>2, FailEffect DEF RequestFails
  <2>2. NoReq.at = "idle" /\ Created' = Created
    BY <2>1 DEF NoReq, Created
  <2>3. \A g \in Created : front'[g].collections \subseteq Collections
    BY <2>1 DEF FrontsTyped
  <2> QED BY <2>1, <2>2, <2>3, TypedElsewhere
<1>3. ASSUME NEW c \in Cards, NEW to \in SUBSET Users, CardChangesHands(c, to)
      PROVE  FrontsTyped'
  BY <1>3 DEF CardChangesHands, FrontsTyped, Created
<1>4. CASE UNCHANGED vars
  BY <1>4 DEF vars, FrontsTyped, Created
<1> QED BY <1>1, <1>2, <1>3, <1>4

LEMMA NextFrontsTyped ==
    ASSUME SInv, FrontsTyped, [Next]_vars
    PROVE  FrontsTyped'
BY ContinueTyped, BeginTyped, OthersTyped DEF Next

-----------------------------------------------------------------------------
(* What the validation lets through names cards the front has.             *)
LEMMA StrippedSound ==
    ASSUME NEW blk \in Blocks, NEW f, BlockValid(blk, f)
    PROVE  Stripped(blk) \in Blocks /\ BlockSound(Stripped(blk), f)
<1> DEFINE keeps == "collectibles" \in RequiredParts[blk.type]
           cs    == IF keeps /\ blk.type # "digital_collection" THEN blk.cards ELSE None
           ks    == IF keeps THEN blk.collections ELSE None
           ps    == blk.parts \cap RequiredParts[blk.type]
<1>1. blk.type \in DOMAIN RequiredParts /\ RequiredParts[blk.type] \subseteq blk.parts
  BY DEF BlockValid
<1>2. cs = None \/ cs \subseteq front[f].cards
  BY DEF BlockValid, ExistCardsInStoreFront
<1>3. Stripped(blk) = [blk EXCEPT !.cards = cs, !.collections = ks, !.parts = ps]
  BY DEF Stripped
<1>4. ps = RequiredParts[blk.type] /\ ps \in SUBSET STRING
  BY <1>1 DEF Blocks
<1>5. cs \in {None} \cup SUBSET Cards /\ ks \in {None} \cup SUBSET Collections
  BY DEF Blocks
<1> HIDE DEF cs, ks, ps
<1>6. Stripped(blk) = [type |-> blk.type, parts |-> ps, cards |-> cs, collections |-> ks,
                       placed |-> blk.placed]
  BY <1>3 DEF Blocks
<1>7. Stripped(blk) \in Blocks
  BY <1>4, <1>5, <1>6 DEF Blocks
<1> QED BY <1>1, <1>2, <1>4, <1>6, <1>7 DEF BlockSound, Known

LEMMA SoundStays ==
    ASSUME NEW blk, NEW f, BlockSound(blk, f), Known(f) \subseteq Known(f)'
    PROVE  BlockSound(blk, f)'
BY DEF BlockSound

LEMMA PageRequestsStand ==
    ASSUME SInv, NEW r \in Requests, req[r].kind = "page"
    PROVE  req[r].front \in Created /\ req[r].at \in {"validate", "addPage"}
BY NoReqFields DEF SInv, Stage, CardKinds

(* A front knows every card it ever had.                                   *)
LEMMA KnownGrows ==
    ASSUME SInv, FrontsTyped, [Next]_vars, NEW f \in Created
    PROVE  Known(f) \subseteq Known(f)'
<1>1. f \in Fronts /\ dropped \in [Fronts -> SUBSET Cards] /\ Created \subseteq Fronts
  BY DEF FrontsTyped
<1>2. ASSUME front'[f].cards = front[f].cards, UNCHANGED dropped
      PROVE  Known(f) \subseteq Known(f)'
  BY <1>2 DEF Known
<1>3. ASSUME NEW r \in Requests, StoreCards(r)
      PROVE  Known(f) \subseteq Known(f)'
  <2> DEFINE g == req[r].front
  <2>1. /\ g \in Created /\ OtherFronts(g) /\ front'[g].cards = front[g].cards \cup req[r].cards
    BY <1>3, StoreCardsEffect
  <2>2. dropped' = [dropped EXCEPT ![g] = dropped[g] \ req[r].cards]
    BY <1>3 DEF StoreCards
  <2> HIDE DEF g
  <2>3. CASE f = g
    BY <1>1, <2>1, <2>2, <2>3 DEF Known
  <2>4. CASE f # g
    BY <1>1, <2>1, <2>2, <2>4 DEF Known, OtherFronts
  <2> QED BY <2>3, <2>4
<1>4. ASSUME NEW r \in Requests, NEW b \in Bodies, DeleteCards(r, b)
      PROVE  Known(f) \subseteq Known(f)'
  <2> DEFINE g == b.front
  <2>1. /\ g \in Created /\ OtherFronts(g) /\ front'[g].cards = front[g].cards \ b.cards
    BY <1>4, DeleteEffect
  <2>2. dropped' = [dropped EXCEPT ![g] = dropped[g] \cup (b.cards \cap front[g].cards)]
    BY <1>4 DEF DeleteCards
  <2> HIDE DEF g
  <2>3. CASE f = g
    BY <1>1, <2>1, <2>2, <2>3 DEF Known
  <2>4. CASE f # g
    BY <1>1, <2>1, <2>2, <2>4 DEF Known, OtherFronts
  <2> QED BY <2>3, <2>4
<1>5. ASSUME NEW r \in Requests, NEW b \in Bodies, Begin(r, b), ~DeleteCards(r, b)
      PROVE  Known(f) \subseteq Known(f)'
  <2>1. UNCHANGED <<front, dropped>>
    BY <1>5 DEF Begin, AddCards, UpdateSettings, PublishStoreFront, UpdatePageSettings
  <2> QED BY <1>2, <2>1
<1>6. ASSUME NEW r \in Requests, Continue(r), ~StoreCards(r)
      PROVE  Known(f) \subseteq Known(f)'
  <2>1. UNCHANGED dropped
    BY <1>6 DEF Continue, ReadStoreFront, FindExistingCards, DecideCollections,
                AddCollections, DeleteCollections, StoreSettings, CheckRelease, StoreRelease,
                ValidateBlock, StorePageSetting, AddPage
  <2>2. \/ UNCHANGED front
        \/ OtherFronts(req[r].front) /\ front'[req[r].front].cards = front[req[r].front].cards
    BY <1>6, ReadEffect, FindEffect, DecideEffect, AddCollectionsEffect,
       DeleteCollectionsEffect, StoreSettingsEffect, CheckEffect, StoreReleaseEffect,
       ValidateEffect, StorePageEffect DEF Continue
  <2>3. front'[f].cards = front[f].cards
    BY <2>2 DEF OtherFronts
  <2> QED BY <1>2, <2>1, <2>3
<1>7. ASSUME NEW g \in Fronts, CreateStoreFront(g)
      PROVE  Known(f) \subseteq Known(f)'
  <2>1. front'[f] = front[f] /\ UNCHANGED dropped
    BY <1>7, CreateEffect DEF CreateStoreFront
  <2> QED BY <1>2, <2>1
<1>8. ASSUME \/ \E r \in Requests : RequestFails(r)
             \/ \E c \in Cards : \E to \in {{}} \cup {{u} : u \in Users} : CardChangesHands(c, to)
             \/ UNCHANGED vars
      PROVE  Known(f) \subseteq Known(f)'
  BY <1>2, <1>8 DEF RequestFails, CardChangesHands, vars
<1> QED BY <1>3, <1>4, <1>5, <1>6, <1>7, <1>8 DEF Next

(* A step that is not about pages leaves them sound.                       *)
LEMMA PagesLeft ==
    ASSUME SInv, PagesSound, PagesAlone, seen \subseteq seen',
           \A f \in Created : /\ f \in Created' /\ front'[f].pages = front[f].pages
                              /\ Known(f) \subseteq Known(f)',
           \A f \in Created' : f \notin Created => front'[f].pages = <<>>,
           \A r \in Requests : req'[r].kind = "page" => req'[r] = req[r]
    PROVE  PagesSound' /\ PagesAlone'
<1>1. ASSUME NEW f \in Created'
      PROVE  FrontPagesSound(f)'
  <2>1. CASE f \in Created
    BY <2>1 DEF PagesSound, FrontPagesSound, BlockSound
  <2>2. CASE f \notin Created
    <3>1. front'[f].pages = <<>>
      BY <2>2
    <3>2. <<>> \in Seq(Seq(Blocks)) /\ DOMAIN <<>> = {}
      OBVIOUS
    <3> QED BY <3>1, <3>2 DEF FrontPagesSound
  <2> QED BY <2>1, <2>2
<1>2. ASSUME NEW r \in Requests, req'[r].kind = "page"
      PROVE  PageRequestSound(r)'
  <2>1. req'[r] = req[r] /\ PageRequestSound(r) /\ req[r].front \in Created
    BY <1>2, PageRequestsStand DEF PagesSound
  <2> QED BY <2>1, SoundStays DEF PageRequestSound
<1>3. PagesSound'
  BY <1>1, <1>2 DEF PagesSound
<1>4. PagesAlone'
  <2> SUFFICES ASSUME NEW f \in Created', Spared(f, {"pagedTogether"})'
               PROVE  /\ \A r, q \in Requests : OnPages(r, f)' /\ OnPages(q, f)' => r = q
                      /\ Len(front'[f].pages) <= 1
                      /\ \A r \in Requests : OnPages(r, f)' /\ req'[r].at = "addPage"
                           => front'[f].pages = <<>>
    BY DEF PagesAlone
  <2>1. Spared(f, {"pagedTogether"})
    BY DEF Spared
  <2>2. \A r \in Requests : OnPages(r, f)' => OnPages(r, f) /\ req'[r] = req[r] /\ f \in Created
    BY PageRequestsStand DEF OnPages
  <2>3. CASE f \in Created
    BY <2>1, <2>2, <2>3 DEF PagesAlone
  <2>4. CASE f \notin Created
    <3>1. front'[f].pages = <<>>
      BY <2>4
    <3> QED BY <2>2, <2>4, <3>1
  <2> QED BY <2>3, <2>4
<1> QED BY <1>3, <1>4

-----------------------------------------------------------------------------
(* A request that sets a page, its blocks as they are now.                 *)
LEMMA PageBegun ==
    ASSUME SInv, PagesInv, NEW r \in Requests, NEW b \in Bodies, UpdatePageSettings(r, b),
           seen \subseteq seen'
    PROVE  PagesSound' /\ PagesAlone'
<1> DEFINE f == b.front
<1>1. /\ f \in Created /\ req[r] = NoReq /\ Others(r) /\ UNCHANGED <<front, dropped>>
      /\ req'[r].at = "validate" /\ req'[r].kind = "page" /\ req'[r].front = f
      /\ req'[r].blocks = b.blocks /\ req'[r].next = 1
  BY UpdatePageEffect DEF UpdatePageSettings
<1>2. \A q \in UnderWay(f, {"page"}) : <<"pagedTogether", f>> \in seen'
  BY DEF UpdatePageSettings
<1> HIDE DEF f
<1>3. Created' = Created /\ \A g \in Created : Known(g)' = Known(g) /\ front'[g] = front[g]
  BY <1>1 DEF Known, Created
<1>4. PageRequestSound(r)'
  <2>1. b.blocks \in Seq(Blocks)
    BY BlocksAssumption
  <2>2. 1 \in 1..(Len(b.blocks) + 1) /\ 1..(1 - 1) = {}
    BY <2>1
  <2> QED BY <1>1, <2>1, <2>2 DEF PageRequestSound
<1>5. ASSUME NEW p \in Requests, p # r, req'[p].kind = "page"
      PROVE  PageRequestSound(p)'
  <2>1. req'[p] = req[p] /\ PageRequestSound(p) /\ req[p].front \in Created
    BY <1>1, <1>5, PageRequestsStand DEF PagesInv, PagesSound, Others
  <2> QED BY <1>3, <2>1 DEF PageRequestSound, BlockSound
<1>6. PagesSound'
  <2>1. \A g \in Created : FrontPagesSound(g)'
    BY <1>3 DEF PagesInv, PagesSound, FrontPagesSound, BlockSound
  <2> QED BY <1>3, <1>4, <1>5, <2>1 DEF PagesSound
<1>7. PagesAlone'
  <2> SUFFICES ASSUME NEW g \in Created, Spared(g, {"pagedTogether"})'
               PROVE  /\ \A p, q \in Requests : OnPages(p, g)' /\ OnPages(q, g)' => p = q
                      /\ Len(front'[g].pages) <= 1
                      /\ \A p \in Requests : OnPages(p, g)' /\ req'[p].at = "addPage"
                           => front'[g].pages = <<>>
    BY <1>3 DEF PagesAlone
  <2>1. /\ \A p, q \in Requests : OnPages(p, g) /\ OnPages(q, g) => p = q
        /\ Len(front[g].pages) <= 1
        /\ \A p \in Requests : OnPages(p, g) /\ req[p].at = "addPage" => front[g].pages = <<>>
    BY DEF PagesInv, PagesAlone, Spared
  <2>2. \A p \in Requests : p # r => (OnPages(p, g)' <=> OnPages(p, g)) /\ req'[p] = req[p]
    BY <1>1 DEF OnPages, Others
  <2>3. g = f => \A p \in Requests : ~OnPages(p, g)
    BY <1>2 DEF Spared, UnderWay, OnPages
  <2>4. OnPages(r, g)' => g = f /\ req'[r].at # "addPage"
    BY <1>1 DEF OnPages
  <2> QED BY <1>3, <2>1, <2>2, <2>3, <2>4
<1> QED BY <1>6, <1>7

(* A step of a request that sets a page, and leaves the pages as they are. *)
LEMMA PageRequestMoves ==
    ASSUME SInv, PagesInv, NEW r \in Requests, Others(r), UNCHANGED <<front, dropped, seen>>,
           req[r].kind = "page",
           \/ req'[r] = NoReq
           \/ /\ req'[r].kind = "page" /\ req'[r].front = req[r].front
              /\ PageRequestSound(r)'
              /\ req'[r].at = "addPage" => front[req[r].front].pages = <<>>
    PROVE  PagesSound' /\ PagesAlone'
<1>1. NoReq.kind = "none"
  BY NoReqFields
<1>2. Created' = Created /\ \A g \in Created : Known(g)' = Known(g) /\ front'[g] = front[g]
  BY DEF Known, Created
<1>3. ASSUME NEW p \in Requests, p # r, req'[p].kind = "page"
      PROVE  PageRequestSound(p)'
  <2>1. req'[p] = req[p] /\ PageRequestSound(p) /\ req[p].front \in Created
    BY <1>3, PageRequestsStand DEF PagesInv, PagesSound, Others
  <2> QED BY <1>2, <2>1 DEF PageRequestSound, BlockSound
<1>4. PagesSound'
  <2>1. \A g \in Created : FrontPagesSound(g)'
    BY <1>2 DEF PagesInv, PagesSound, FrontPagesSound, BlockSound
  <2> QED BY <1>1, <1>2, <1>3, <2>1 DEF PagesSound
<1>5. \A p \in Requests, g \in Created :
         /\ OnPages(p, g)' => OnPages(p, g)
         /\ OnPages(p, g)' /\ req'[p].at = "addPage"
              => req[p].at = "addPage" \/ front[g].pages = <<>>
  BY <1>1 DEF OnPages, Others
<1>6. PagesAlone'
  BY <1>2, <1>5 DEF PagesInv, PagesAlone, Spared
<1> QED BY <1>4, <1>6

LEMMA PageValidated ==
    ASSUME SInv, PagesInv, NEW r \in Requests, ValidateBlock(r)
    PROVE  PagesSound' /\ PagesAlone'
<1> DEFINE q  == req[r]
           n  == req[r].next
           bs == req[r].blocks
           f  == req[r].front
           s  == Stripped(req[r].blocks[n])
<1>1. /\ req[r].at = "validate" /\ Others(r) /\ UNCHANGED <<front, dropped, seen>>
      /\ \/ req'[r] = NoReq
         \/ /\ Same(r) /\ req'[r].at = "validate"
            /\ n <= Len(bs) /\ BlockValid(bs[n], f)
            /\ req'[r].next = n + 1 /\ req'[r].blocks = [bs EXCEPT ![n] = s]
  BY ValidateEffect DEF ValidateBlock
<1>2. req[r].kind = "page" /\ f \in Created
  BY <1>1, Idle DEF Stage, CardKinds
<1>3. PageRequestSound(r)
  BY <1>2 DEF PagesInv, PagesSound
<1>4. ASSUME n <= Len(bs), BlockValid(bs[n], f), Same(r), req'[r].at = "validate",
             req'[r].next = n + 1, req'[r].blocks = [bs EXCEPT ![n] = s]
      PROVE  PageRequestSound(r)'
  <2>1. /\ bs \in Seq(Blocks) /\ n \in 1..Len(bs) /\ bs[n] \in Blocks
        /\ \A j \in 1..(n - 1) : BlockSound(bs[j], f)
    BY <1>3, <1>4 DEF PageRequestSound
  <2>2. s \in Blocks /\ BlockSound(s, f)
    BY <1>4, <2>1, StrippedSound
  <2> DEFINE cs == [bs EXCEPT ![n] = s]
  <2> HIDE DEF s, n, bs, f
  <2>3. cs \in Seq(Blocks) /\ Len(cs) = Len(bs) /\ \A j \in 1..Len(bs) : j # n => cs[j] = bs[j]
    BY <2>1, <2>2
  <2>4. cs[n] = s
    BY <2>1
  <2> HIDE DEF cs
  <2>5. \A j \in 1..n : BlockSound(cs[j], f)
    BY <2>1, <2>2, <2>3, <2>4
  <2>6. n + 1 \in 1..(Len(cs) + 1) /\ (n + 1) - 1 = n
    BY <2>1, <2>3
  <2>7. req'[r].blocks = cs /\ req'[r].next = n + 1 /\ req'[r].front = f
    BY <1>4 DEF cs, Same, f
  <2>8. \A j \in 1..n :
           /\ cs[j].type \in DOMAIN RequiredParts /\ cs[j].parts = RequiredParts[cs[j].type]
           /\ cs[j].cards = None \/ cs[j].cards \subseteq front'[f].cards \cup dropped'[f]
    BY <1>1, <2>5 DEF BlockSound, Known
  <2> QED BY <1>4, <2>3, <2>6, <2>7, <2>8 DEF PageRequestSound, BlockSound, Known
<1> HIDE DEF n, bs, f, s
<1>5. Same(r) => req'[r].kind = "page" /\ req'[r].front = req[r].front
  BY <1>2 DEF Same
<1> QED BY <1>1, <1>2, <1>4, <1>5, PageRequestMoves

(* The blocks of a request, all validated, become a page.                  *)
LEMMA PageStored ==
    ASSUME SInv, PagesInv, NEW r \in Requests, NEW f \in Created, f = req[r].front,
           req[r].kind = "page", Others(r), req'[r] = NoReq, UNCHANGED <<dropped, seen>>,
           NEW ps \in Seq(Seq(Blocks)), front' = [front EXCEPT ![f].pages = ps],
           \A i \in DOMAIN ps : \A j \in DOMAIN ps[i] : BlockSound(ps[i][j], f),
           Spared(f, {"pagedTogether"}) => Len(ps) <= 1
    PROVE  PagesSound' /\ PagesAlone'
<1>1. NoReq.kind = "none"
  BY NoReqFields
<1>2. /\ OtherFronts(f) /\ front'[f].pages = ps /\ front'[f].cards = front[f].cards
  BY PagesSet
<1>3. Created' = Created /\ \A g \in Created : Known(g)' = Known(g)
  BY <1>2 DEF Known, OtherFronts
<1>4. ASSUME NEW p \in Requests, req'[p].kind = "page"
      PROVE  PageRequestSound(p)'
  <2>1. req'[p] = req[p] /\ PageRequestSound(p) /\ req[p].front \in Created
    BY <1>1, <1>4, PageRequestsStand DEF PagesInv, PagesSound, Others
  <2> QED BY <1>3, <2>1 DEF PageRequestSound, BlockSound
<1>5. FrontPagesSound(f)'
  BY <1>2, <1>3 DEF FrontPagesSound, BlockSound
<1>6. \A g \in Created : g # f => FrontPagesSound(g)'
  <2> SUFFICES ASSUME NEW g \in Created, g # f PROVE FrontPagesSound(g)'
    OBVIOUS
  <2>1. FrontPagesSound(g) /\ front'[g] = front[g] /\ Known(g)' = Known(g)
    BY <1>2, <1>3 DEF PagesInv, PagesSound, OtherFronts
  <2> QED BY <2>1 DEF FrontPagesSound, BlockSound
<1>7. PagesSound'
  BY <1>3, <1>4, <1>5, <1>6 DEF PagesSound
<1>8. PagesAlone'
  <2> SUFFICES ASSUME NEW g \in Created, Spared(g, {"pagedTogether"})'
               PROVE  /\ \A p, q \in Requests : OnPages(p, g)' /\ OnPages(q, g)' => p = q
                      /\ Len(front'[g].pages) <= 1
                      /\ \A p \in Requests : OnPages(p, g)' /\ req'[p].at = "addPage"
                           => front'[g].pages = <<>>
    BY <1>3 DEF PagesAlone
  <2>1. Spared(g, {"pagedTogether"})
    BY DEF Spared
  <2>2. /\ \A p, q \in Requests : OnPages(p, g) /\ OnPages(q, g) => p = q
        /\ Len(front[g].pages) <= 1
        /\ \A p \in Requests : OnPages(p, g) /\ req[p].at = "addPage" => front[g].pages = <<>>
    BY <2>1 DEF PagesInv, PagesAlone
  <2>3. \A p \in Requests : OnPages(p, g)' => p # r /\ OnPages(p, g) /\ req'[p] = req[p]
    BY <1>1 DEF OnPages, Others
  <2>4. CASE g = f
    <3>1. OnPages(r, f)
      BY DEF OnPages
    <3>2. \A p \in Requests : ~OnPages(p, g)'
      BY <2>2, <2>3, <2>4, <3>1
    <3> QED BY <1>2, <2>1, <2>4, <3>2
  <2>5. CASE g # f
    <3>1. front'[g] = front[g]
      BY <1>2, <2>5 DEF OtherFronts
    <3> QED BY <2>2, <2>3, <3>1
  <2> QED BY <2>4, <2>5
<1> QED BY <1>7, <1>8

LEMMA FirstSet ==
    ASSUME NEW S, NEW s \in Seq(S), NEW e \in S
    PROVE  LET t == [s EXCEPT ![1] = e]
           IN  /\ t \in Seq(S) /\ Len(t) = Len(s) /\ DOMAIN t = DOMAIN s
               /\ \A i \in DOMAIN s : t[i] = IF i = 1 THEN e ELSE s[i]
<1> DEFINE t == [s EXCEPT ![1] = e]
<1>1. DOMAIN t = DOMAIN s /\ \A i \in DOMAIN s : t[i] = IF i = 1 THEN e ELSE s[i]
  OBVIOUS
<1>2. DOMAIN s = 1..Len(s) /\ Len(s) \in Nat /\ \A i \in 1..Len(s) : s[i] \in S
  OBVIOUS
<1>3. t = [i \in 1..Len(s) |-> IF i = 1 THEN e ELSE s[i]]
  BY <1>1, <1>2
<1> HIDE DEF t
<1>4. t \in Seq(S) /\ Len(t) = Len(s)
  BY <1>2, <1>3
<1> QED BY <1>1, <1>4 DEF t

LEMMA PageSet ==
    ASSUME SInv, PagesInv, NEW r \in Requests, StorePageSetting(r)
    PROVE  PagesSound' /\ PagesAlone'
<1> DEFINE f  == req[r].front
           bs == req[r].blocks
           pg == front[f].pages
           ps == [pg EXCEPT ![1] = bs]
<1>1. /\ req[r].at = "validate" /\ req[r].next > Len(bs) /\ UNCHANGED <<dropped, seen>>
      /\ \/ pg # <<>> /\ front' = [front EXCEPT ![f].pages[1] = bs] /\ Answered(r)
         \/ pg = <<>> /\ UNCHANGED front /\ req' = [req EXCEPT ![r].at = "addPage"]
  BY DEF StorePageSetting
<1>2. req[r].kind = "page" /\ f \in Created
  BY <1>1, Idle DEF Stage, CardKinds
<1>3. PageRequestSound(r) /\ FrontPagesSound(f)
  BY <1>2 DEF PagesInv, PagesSound
<1>4. /\ bs \in Seq(Blocks) /\ req[r].next = Len(bs) + 1
      /\ \A j \in 1..Len(bs) : BlockSound(bs[j], f)
  <2>1. bs \in Seq(Blocks) /\ req[r].next \in 1..(Len(bs) + 1) /\ Len(bs) \in Nat
    BY <1>3 DEF PageRequestSound
  <2>2. req[r].next = Len(bs) + 1 /\ req[r].next - 1 = Len(bs)
    BY <1>1, <2>1
  <2> QED BY <1>3, <2>1, <2>2 DEF PageRequestSound
<1>5. CASE pg # <<>> /\ front' = [front EXCEPT ![f].pages[1] = bs] /\ Answered(r)
  <2>1. pg \in Seq(Seq(Blocks))
    BY <1>3 DEF FrontPagesSound
  <2>2. front' = [front EXCEPT ![f].pages = ps]
    BY <1>2, <1>5
  <2>3. \A i \in DOMAIN pg : \A j \in DOMAIN pg[i] : BlockSound(pg[i][j], f)
    BY <1>3 DEF FrontPagesSound
  <2> HIDE DEF pg, bs
  <2>4. /\ ps \in Seq(Seq(Blocks)) /\ Len(ps) = Len(pg) /\ DOMAIN ps = DOMAIN pg
        /\ \A i \in DOMAIN pg : ps[i] = IF i = 1 THEN bs ELSE pg[i]
    BY <1>4, <2>1, FirstSet
  <2>5. DOMAIN bs = 1..Len(bs)
    BY <1>4
  <2>6. \A i \in DOMAIN ps : \A j \in DOMAIN ps[i] : BlockSound(ps[i][j], f)
    BY <1>4, <2>3, <2>4, <2>5
  <2>7. Spared(f, {"pagedTogether"}) => Len(pg) <= 1
    BY <1>2 DEF PagesInv, PagesAlone, pg
  <2>8. req'[r] = NoReq /\ Others(r)
    BY <1>5, Answers
  <2> HIDE DEF ps, f
  <2> QED BY <1>1, <1>2, <2>2, <2>4, <2>6, <2>7, <2>8, PageStored DEF f
<1>6. CASE pg = <<>> /\ UNCHANGED front /\ req' = [req EXCEPT ![r].at = "addPage"]
  <2>1. /\ Others(r) /\ Same(r) /\ req'[r].at = "addPage" /\ req'[r].blocks = bs
        /\ req'[r].next = req[r].next
    BY <1>6, GoesTo
  <2>2. req'[r].kind = "page" /\ req'[r].front = f
    BY <1>2, <2>1 DEF Same
  <2>3. PageRequestSound(r)'
    BY <1>1, <1>3, <1>4, <1>6, <2>1, <2>2 DEF PageRequestSound, BlockSound, Known
  <2> QED BY <1>1, <1>2, <1>6, <2>1, <2>2, <2>3, PageRequestMoves
<1> QED BY <1>1, <1>5, <1>6

LEMMA PageAdded ==
    ASSUME SInv, PagesInv, NEW r \in Requests, AddPage(r)
    PROVE  PagesSound' /\ PagesAlone'
<1> DEFINE f  == req[r].front
           bs == req[r].blocks
           pg == front[f].pages
           ps == Append(pg, bs)
<1>1. /\ req[r].at = "addPage" /\ UNCHANGED <<dropped, seen>> /\ Answered(r)
      /\ front' = [front EXCEPT ![f].pages = ps]
  BY DEF AddPage
<1>2. req[r].kind = "page" /\ f \in Created
  BY <1>1, Idle DEF Stage, CardKinds
<1>3. PageRequestSound(r) /\ FrontPagesSound(f)
  BY <1>2 DEF PagesInv, PagesSound
<1>4. bs \in Seq(Blocks) /\ \A j \in DOMAIN bs : BlockSound(bs[j], f)
  <2>1. bs \in Seq(Blocks) /\ req[r].next = Len(bs) + 1
    BY <1>1, <1>3 DEF PageRequestSound
  <2>2. req[r].next - 1 = Len(bs) /\ DOMAIN bs = 1..Len(bs)
    BY <2>1
  <2> QED BY <1>3, <2>1, <2>2 DEF PageRequestSound
<1>5. /\ pg \in Seq(Seq(Blocks))
      /\ \A i \in DOMAIN pg : \A j \in DOMAIN pg[i] : BlockSound(pg[i][j], f)
  BY <1>3 DEF FrontPagesSound
<1>6. Spared(f, {"pagedTogether"}) => pg = <<>>
  BY <1>1, <1>2 DEF PagesInv, PagesAlone, OnPages
<1>7. req'[r] = NoReq /\ Others(r)
  BY <1>1, Answers
<1> HIDE DEF pg, bs
<1>8. /\ ps \in Seq(Seq(Blocks)) /\ Len(ps) = Len(pg) + 1 /\ DOMAIN ps = 1..(Len(pg) + 1)
      /\ \A i \in 1..Len(pg) : ps[i] = pg[i]
  BY <1>4, <1>5
<1>9. ps[Len(pg) + 1] = bs /\ DOMAIN pg = 1..Len(pg) /\ Len(pg) \in Nat
  BY <1>4, <1>5
<1> HIDE DEF ps
<1>10. \A i \in DOMAIN ps : \A j \in DOMAIN ps[i] : BlockSound(ps[i][j], f)
  <2> SUFFICES ASSUME NEW i \in DOMAIN ps PROVE \A j \in DOMAIN ps[i] : BlockSound(ps[i][j], f)
    OBVIOUS
  <2>1. i \in 1..Len(pg) \/ i = Len(pg) + 1
    BY <1>8, <1>9
  <2> QED BY <1>4, <1>5, <1>8, <1>9, <2>1
<1>11. pg = <<>> => Len(pg) = 0
  OBVIOUS
<1>12. Spared(f, {"pagedTogether"}) => Len(ps) <= 1
  BY <1>6, <1>8, <1>11
<1> HIDE DEF f
<1> QED BY <1>1, <1>2, <1>7, <1>8, <1>10, <1>12, PageStored DEF f

-----------------------------------------------------------------------------
(* Every step.                                                             *)
LEMMA PagesContinue ==
    ASSUME SInv, PagesInv, CrossedOverlaps, NEW r \in Requests, Continue(r)
    PROVE  PagesSound' /\ PagesAlone'
<1>1. CASE ValidateBlock(r) \/ StorePageSetting(r) \/ AddPage(r)
  BY <1>1, PageValidated, PageSet, PageAdded
<1>2. CASE /\ Continue(r) /\ ~ValidateBlock(r) /\ ~StorePageSetting(r) /\ ~AddPage(r)
  <2> DEFINE f == req[r].front
  <2>1. [Next]_vars
    BY DEF Next
  <2>2. /\ Others(r) /\ req[r].at # "idle" /\ req[r].at \notin {"validate", "addPage"}
        /\ req'[r] = NoReq \/ Same(r)
        /\ UNCHANGED front \/ (OtherFronts(f) /\ front'[f].pages = front[f].pages)
    BY <1>2, StoreCardsEffect, ReadEffect, FindEffect, DecideEffect, AddCollectionsEffect,
       DeleteCollectionsEffect, StoreSettingsEffect, CheckEffect, StoreReleaseEffect
       DEF Continue
  <2>3. req[r].kind # "page"
    BY <2>2, PageRequestsStand
  <2>4. \A p \in Requests : req'[p].kind = "page" => req'[p] = req[p]
    BY <2>2, <2>3, NoReqFields DEF Others, Same
  <2>5. Created' = Created /\ \A g \in Created : front'[g].pages = front[g].pages
    BY <2>2 DEF OtherFronts, Created
  <2>6. \A g \in Created : Known(g) \subseteq Known(g)'
    BY <2>1, KnownGrows DEF PagesInv
  <2> QED BY <2>1, <2>4, <2>5, <2>6, SeenGrows, PagesLeft DEF PagesInv
<1> QED BY <1>1, <1>2

LEMMA PagesBegin ==
    ASSUME SInv, PagesInv, CrossedOverlaps, NEW r \in Requests, NEW b \in Bodies, Begin(r, b)
    PROVE  PagesSound' /\ PagesAlone'
<1>1. [Next]_vars
  BY DEF Next
<1>2. seen \subseteq seen'
  BY <1>1, SeenGrows
<1>3. CASE UpdatePageSettings(r, b)
  BY <1>2, <1>3, PageBegun
<1>4. CASE ~UpdatePageSettings(r, b)
  <2> DEFINE f == b.front
  <2>1. /\ Others(r) /\ req'[r].kind \in {"add", "delete", "settings", "publish"}
        /\ UNCHANGED front \/ (OtherFronts(f) /\ front'[f].pages = front[f].pages)
    BY <1>4, AddEffect, DeleteEffect, UpdateSettingsEffect, PublishEffect DEF Begin
  <2>2. \A p \in Requests : req'[p].kind = "page" => req'[p] = req[p]
    BY <2>1 DEF Others
  <2>3. Created' = Created /\ \A g \in Created : front'[g].pages = front[g].pages
    BY <2>1 DEF OtherFronts, Created
  <2>4. \A g \in Created : Known(g) \subseteq Known(g)'
    BY <1>1, KnownGrows DEF PagesInv
  <2> QED BY <1>2, <2>2, <2>3, <2>4, PagesLeft DEF PagesInv
<1> QED BY <1>3, <1>4

LEMMA PagesOther ==
    ASSUME SInv, PagesInv, CrossedOverlaps,
           \/ \E f \in Fronts : CreateStoreFront(f)
           \/ \E r \in Requests : RequestFails(r)
           \/ \E c \in Cards : \E to \in {{}} \cup {{u} : u \in Users} : CardChangesHands(c, to)
           \/ UNCHANGED vars
    PROVE  PagesSound' /\ PagesAlone'
<1>1. [Next]_vars
  BY DEF Next
<1>2. seen \subseteq seen' /\ \A g \in Created : Known(g) \subseteq Known(g)'
  BY <1>1, SeenGrows, KnownGrows DEF PagesInv
<1>3. ASSUME NEW f \in Fronts, CreateStoreFront(f)
      PROVE  PagesSound' /\ PagesAlone'
  <2>1. /\ f \notin Created /\ Created' = Created \cup {f} /\ front'[f] = NewFront
        /\ \A g \in Created : front'[g] = front[g]
        /\ UNCHANGED req
    BY <1>3, CreateEffect
  <2>2. NewFront.pages = <<>>
    BY DEF NewFront
  <2>3. \A g \in Created' : g \notin Created => front'[g].pages = <<>>
    BY <2>1, <2>2
  <2> QED BY <1>2, <2>1, <2>3, PagesLeft DEF PagesInv
<1>4. ASSUME NEW r \in Requests, RequestFails(r)
      PROVE  PagesSound' /\ PagesAlone'
  <2>1. Others(r) /\ req'[r] = NoReq /\ UNCHANGED front
    BY <1>4, FailEffect
  <2>2. Created' = Created /\ \A p \in Requests : req'[p].kind = "page" => req'[p] = req[p]
    BY <2>1, NoReqFields DEF Others, Created
  <2> QED BY <1>2, <2>1, <2>2, PagesLeft DEF PagesInv
<1>5. ASSUME \/ \E c \in Cards : \E to \in {{}} \cup {{u} : u \in Users} : CardChangesHands(c, to)
             \/ UNCHANGED vars
      PROVE  PagesSound' /\ PagesAlone'
  <2>1. UNCHANGED <<front, req>>
    BY <1>5 DEF CardChangesHands, vars
  <2>2. Created' = Created
    BY <2>1 DEF Created
  <2> QED BY <1>2, <2>1, <2>2, PagesLeft DEF PagesInv
<1> QED BY <1>3, <1>4, <1>5

LEMMA PagesInvInit == Init => PagesInv
<1> SUFFICES ASSUME Init PROVE PagesInv
  OBVIOUS
<1>1. Created = {} /\ \A r \in Requests : req[r] = NoReq
  BY DEF Init, Created
<1>2. FrontsTyped
  <2>1. holders = [c \in Cards |-> {FirstHolder[c]}] /\ dropped = [f \in Fronts |-> {}]
    BY DEF Init
  <2>2. holders \in [Cards -> SUBSET Users] /\ dropped \in [Fronts -> SUBSET Cards]
    BY <2>1, FrontsAssumption
  <2> QED BY <1>1, <2>2, NoReqFields DEF FrontsTyped
<1> QED BY <1>1, <1>2, NoReqFields DEF PagesInv, PagesSound, PagesAlone

LEMMA PagesInvNext == SlugInv /\ ListInv /\ PagesInv /\ [Next]_vars => PagesInv'
<1> SUFFICES ASSUME SlugInv, ListInv, PagesInv, [Next]_vars PROVE PagesInv'
  OBVIOUS
<1>1. SInv /\ CrossedOverlaps
  BY DEF ListInv
<1>2. FrontsTyped'
  BY <1>1, NextFrontsTyped DEF PagesInv
<1>3. PagesSound' /\ PagesAlone'
  BY <1>1, PagesContinue, PagesBegin, PagesOther DEF Next
<1> QED BY <1>2, <1>3 DEF PagesInv

LEMMA PagesInvFollows == SlugInv /\ PagesInv => PagesOfTheFront
<1> SUFFICES ASSUME SlugInv, PagesInv PROVE PagesOfTheFront
  OBVIOUS
<1>1. TypeOK
  <2>1. \A r \in Requests : req[r].at # "idle" => req[r].front \in Created
    BY Idle DEF SlugInv
  <2>2. \A f \in Created : front[f].cards \subseteq Cards
    BY DEF SlugInv, SInv
  <2>3. \A f \in Created : \A i \in DOMAIN front[f].pages : \A j \in DOMAIN front[f].pages[i] :
           BlockSound(front[f].pages[i][j], f)
    BY DEF PagesInv, PagesSound, FrontPagesSound
  <2> QED BY <2>1, <2>2, <2>3 DEF TypeOK, PagesInv, FrontsTyped, BlockSound
<1>2. OnePageOfAName
  BY DEF PagesInv, PagesAlone, OnePageOfAName
<1>3. BlocksNameCardsOfTheFront
  BY DEF PagesInv, PagesSound, FrontPagesSound, BlockSound, Known, BlocksNameCardsOfTheFront
<1> QED BY <1>1, <1>2, <1>3 DEF PagesOfTheFront

(* The pages of a front are made of validated blocks that name its cards,  *)
(* and a front has one page of a name unless two requests that set it were *)
(* under way at once (PageBlockSettingsPipe and storePageSetting).         *)
THEOREM PagesStayOfTheFront == Spec => []PagesOfTheFront
<1> DEFINE Inv == SlugInv /\ ListInv /\ PagesInv
<1>1. Init => Inv
  BY SlugInvInit, ListInvInit, PagesInvInit
<1>2. Inv /\ [Next]_vars => Inv'
  BY SlugInvNext, ListInvNext, PagesInvNext
<1>3. Inv => PagesOfTheFront
  BY PagesInvFollows
<1> QED BY <1>1, <1>2, <1>3, PTL DEF Spec

-----------------------------------------------------------------------------
(* What a release shows.  It is a copy: what it counts depends on the copy *)
(* and on the cards that still exist.                                      *)
DocTyped(d) == d.cards \subseteq Cards /\ d.collections \subseteq Collections

Counted(d) == ListedFor(Existing(d.cards)) \subseteq d.collections

OnRelease(r) == req[r].at \in {"check", "release"}

ReleaseSound(f) ==
    /\ DocTyped(front[f].release)
    /\ f \notin midway /\ Undisturbed(f) => Counted(front[f].release)

CopySound(r) ==
    /\ DocTyped(req[r].doc)
    /\ ~req[r].midway /\ Undisturbed(req[r].front) => Counted(req[r].doc)

ReleasesSound ==
    /\ \A f \in Created : front[f].release # None => ReleaseSound(f)
    /\ \A r \in Requests : OnRelease(r) => CopySound(r)

(* A copy goes on as it is, or is the front's as it is now; a release      *)
(* stays, or is the copy of a request.                                     *)
CopyMoves(r) ==
    \/ ~OnRelease(r)'
    \/ /\ OnRelease(r) /\ req'[r].doc = req[r].doc
       /\ req'[r].midway = req[r].midway /\ req'[r].front = req[r].front
    \/ LET f == req'[r].front
       IN  /\ f \in Created /\ req'[r].doc.cards = front[f].cards
           /\ req'[r].doc.collections = front[f].collections
           /\ ~req'[r].midway => Resting(f)

ReleaseMoves(f) ==
    \/ front'[f].release = None
    \/ f \in Created /\ front'[f].release = front[f].release /\ (f \in midway' <=> f \in midway)
    \/ \E r \in Requests : /\ OnRelease(r) /\ req[r].front = f /\ front'[f].release = req[r].doc
                           /\ req[r].midway => f \in midway'

Unreleased == (\A f \in Created : f \in Created' /\ front'[f].release = front[f].release) /\ UNCHANGED midway

LEMMA PublishCopies ==
    ASSUME SInv, NEW r \in Requests, NEW b \in Bodies, PublishStoreFront(r, b)
    PROVE  CopyMoves(r)
<1> DEFINE f == b.front
           d == [slug |-> front[f].slug, cards |-> front[f].cards,
                 collections |-> front[f].collections, pages |-> front[f].pages]
           m == UnderWay(f, CardKinds) # {}
           q == [NoReq EXCEPT !.at = "check", !.kind = "publish", !.front = f, !.slug = b.slug,
                              !.doc = d, !.midway = m]
<1>1. f \in Created /\ req' = [req EXCEPT ![r] = q]
  BY DEF PublishStoreFront, Asks, Begins
<1>2. d.cards = front[f].cards /\ d.collections = front[f].collections
  OBVIOUS
<1>3. ~m => Resting(f)
  BY DEF Resting
<1> HIDE DEF f, d, m
<1>4. q.front = f /\ q.doc = d /\ q.midway = m
  BY DEF NoReq
<1> HIDE DEF q
<1>5. req'[r] = q
  BY <1>1, Replaced
<1> QED BY <1>1, <1>2, <1>3, <1>4, <1>5 DEF CopyMoves

LEMMA CheckCopies ==
    ASSUME SInv, NEW r \in Requests, CheckRelease(r)
    PROVE  CopyMoves(r)
<1>1. req[r].at = "check" /\ (Answered(r) \/ req' = [req EXCEPT ![r].at = "release"])
  BY DEF CheckRelease
<1>2. CASE Answered(r)
  BY <1>2, Answers, NoReqFields DEF CopyMoves, OnRelease
<1>3. CASE req' = [req EXCEPT ![r].at = "release"]
  <2>1. Same(r)
    BY <1>3, GoesTo
  <2>2. Ask(req[r]) /\ DOMAIN req = Requests
    BY DEF SInv
  <2>3. req'[r].midway = req[r].midway
    BY <1>3, <2>2 DEF Ask
  <2> QED BY <1>1, <2>1, <2>3 DEF CopyMoves, OnRelease, Same
<1> QED BY <1>1, <1>2, <1>3

LEMMA StoreReleases ==
    ASSUME SInv, NEW r \in Requests, StoreRelease(r), NEW f \in Created'
    PROVE  ReleaseMoves(f)
<1>1. OnRelease(r) /\ req[r].front \in Created
  BY StoreReleaseEffect DEF OnRelease
<1>2. CASE UNCHANGED <<front, midway>>
  BY <1>2 DEF ReleaseMoves, Created
<1>3. CASE ~UNCHANGED <<front, midway>>
  <2> DEFINE g == req[r].front
  <2>1. midway' = IF req[r].midway THEN midway \cup {g} ELSE midway \ {g}
    BY <1>3 DEF StoreRelease
  <2>2. ~Collides(g, req[r].slug)
    BY <1>3 DEF StoreRelease
  <2>3. \/ UNCHANGED front
        \/ OtherFronts(g) /\ front'[g].release = req[r].doc
    BY StoreReleaseEffect
  <2>4. front' = [front EXCEPT ![g].release = req[r].doc,
                               ![g].slug = IF req[r].slug = NoSlug THEN @ ELSE req[r].slug]
    BY <1>3 DEF StoreRelease
  <2>5. OtherFronts(g) /\ front'[g].release = req[r].doc
    <3>1. Doc(front[g]) /\ g \in DOMAIN front
      BY <1>1 DEF SInv, Created
    <3> HIDE DEF g
    <3> QED BY <2>3, <2>4, <3>1 DEF Doc, OtherFronts, Created
  <2>6. CASE f = g
    BY <1>1, <2>1, <2>5, <2>6 DEF ReleaseMoves
  <2>7. CASE f # g
    BY <2>1, <2>5, <2>7 DEF ReleaseMoves, OtherFronts
  <2> QED BY <2>6, <2>7
<1> QED BY <1>2, <1>3

LEMMA UnreleasedMoves ==
    ASSUME Created' = Created, Unreleased, NEW f \in Created'
    PROVE  ReleaseMoves(f)
BY DEF Unreleased, ReleaseMoves

(* The other steps of a request.                                           *)
LEMMA ContinueCopies ==
    ASSUME SInv, NEW r \in Requests, Continue(r), ~CheckRelease(r), ~StoreRelease(r)
    PROVE  Others(r) /\ ~OnRelease(r)' /\ Created' = Created /\ Unreleased
<1> DEFINE f == req[r].front
<1>0. UNCHANGED midway
  BY DEF Continue, StoreCards, ReadStoreFront, FindExistingCards, DecideCollections, AddCollections,
         DeleteCollections, StoreSettings, ValidateBlock, StorePageSetting, AddPage
<1>1. UNCHANGED front => Created' = Created /\ Unreleased
  BY <1>0 DEF Unreleased, Created
<1>2. f \in Created /\ OtherFronts(f) /\ front'[f].release = front[f].release => Created' = Created /\ Unreleased
  BY <1>0 DEF Unreleased, OtherFronts
<1>3. \A at \in {"read", "find", "decide", "unlist", "listFirst", "list", "validate", "addPage"} :
         req'[r].at = at => ~OnRelease(r)'
  BY DEF OnRelease
<1>4. req'[r] = NoReq => ~OnRelease(r)'
  BY NoReqFields DEF OnRelease
<1>5. CASE StoreCards(r)
  BY <1>2, <1>3, <1>5, StoreCardsEffect
<1>6. CASE ReadStoreFront(r) \/ FindExistingCards(r) \/ DecideCollections(r)
  BY <1>1, <1>3, <1>4, <1>6, ReadEffect, FindEffect, DecideEffect
<1>7. CASE AddCollections(r) \/ DeleteCollections(r)
  BY <1>2, <1>3, <1>4, <1>7, AddCollectionsEffect, DeleteCollectionsEffect
<1>8. CASE StoreSettings(r)
  BY <1>1, <1>2, <1>4, <1>8, StoreSettingsEffect
<1>9. CASE ValidateBlock(r)
  BY <1>1, <1>3, <1>4, <1>9, ValidateEffect
<1>10. CASE StorePageSetting(r) \/ AddPage(r)
  BY <1>1, <1>2, <1>3, <1>4, <1>10, StorePageEffect
<1> QED BY <1>5, <1>6, <1>7, <1>8, <1>9, <1>10 DEF Continue

LEMMA BeginCopies ==
    ASSUME SInv, NEW r \in Requests, NEW b \in Bodies, Begin(r, b), ~PublishStoreFront(r, b)
    PROVE  Others(r) /\ ~OnRelease(r)' /\ Created' = Created /\ Unreleased
<1>0. UNCHANGED midway
  BY DEF Begin, AddCards, DeleteCards, UpdateSettings, UpdatePageSettings
<1>1. UNCHANGED front => Created' = Created /\ Unreleased
  BY <1>0 DEF Unreleased, Created
<1>2. CASE AddCards(r, b)
  BY <1>1, <1>2, AddEffect DEF OnRelease
<1>3. CASE DeleteCards(r, b)
  <2>1. /\ b.front \in Created /\ Others(r) /\ req'[r].at = "read"
        /\ OtherFronts(b.front) /\ front'[b.front].release = front[b.front].release
    BY <1>3, DeleteEffect
  <2>2. Created' = Created /\ Unreleased
    BY <1>0, <2>1 DEF Unreleased, OtherFronts
  <2> QED BY <2>1, <2>2 DEF OnRelease
<1>4. CASE UpdateSettings(r, b)
  BY <1>1, <1>4, UpdateSettingsEffect DEF OnRelease
<1>5. CASE UpdatePageSettings(r, b)
  BY <1>1, <1>5, UpdatePageEffect DEF OnRelease
<1> QED BY <1>2, <1>3, <1>4, <1>5 DEF Begin

(* A card that is gone stays so.                                           *)
LEMMA CardsOnlyGo ==
    ASSUME SInv, [Next]_vars
    PROVE  \A c \in Cards : holders'[c] # {} => holders[c] # {}
<1>1. ASSUME NEW c \in Cards, NEW to, CardChangesHands(c, to)
      PROVE  \A x \in Cards : holders'[x] # {} => holders[x] # {}
  BY <1>1 DEF CardChangesHands, SInv
<1>2. (\E r \in Requests : Continue(r) \/ RequestFails(r)) \/ (\E r \in Requests, b \in Bodies : Begin(r, b))
        \/ (\E f \in Fronts : CreateStoreFront(f)) \/ UNCHANGED vars => UNCHANGED holders
  BY DEF Continue, StoreCards, ReadStoreFront, FindExistingCards, DecideCollections, AddCollections,
         DeleteCollections, StoreSettings, CheckRelease, StoreRelease, ValidateBlock, StorePageSetting,
         AddPage, RequestFails, Begin, AddCards, DeleteCards, UpdateSettings, PublishStoreFront,
         UpdatePageSettings, CreateStoreFront, vars
<1> QED BY <1>1, <1>2 DEF Next

LEMMA CopiesMove ==
    ASSUME SInv, [Next]_vars
    PROVE  /\ \A r \in Requests : CopyMoves(r)
           /\ \A f \in Created' : ReleaseMoves(f)
<1>1. \A r \in Requests : req'[r] = req[r] => CopyMoves(r)
  BY DEF CopyMoves, OnRelease
<1>2. \A r \in Requests : Others(r) /\ CopyMoves(r) => \A p \in Requests : CopyMoves(p)
  BY <1>1 DEF Others
<1>3. Created' = Created /\ Unreleased => \A f \in Created' : ReleaseMoves(f)
  BY UnreleasedMoves
<1>4. UNCHANGED <<front, midway>> => \A f \in Created' : ReleaseMoves(f)
  BY <1>3 DEF Unreleased, Created
<1>5. ASSUME NEW r \in Requests, Continue(r) PROVE (\A p \in Requests : CopyMoves(p)) /\ \A f \in Created' : ReleaseMoves(f)
  <2>1. CASE CheckRelease(r)
    <3>1. Others(r) /\ CopyMoves(r)
      BY <2>1, CheckCopies, CheckEffect
    <3>2. UNCHANGED <<front, midway>>
      BY <2>1 DEF CheckRelease
    <3> QED BY <1>2, <1>4, <3>1, <3>2
  <2>2. CASE StoreRelease(r)
    <3>1. Others(r) /\ CopyMoves(r)
      BY <2>2, StoreReleaseEffect, NoReqFields DEF CopyMoves, OnRelease
    <3> QED BY <1>2, <2>2, <3>1, StoreReleases
  <2>3. CASE ~CheckRelease(r) /\ ~StoreRelease(r)
    BY <1>2, <1>3, <1>5, <2>3, ContinueCopies DEF CopyMoves
  <2> QED BY <2>1, <2>2, <2>3
<1>6. ASSUME NEW r \in Requests, NEW b \in Bodies, Begin(r, b)
      PROVE  (\A p \in Requests : CopyMoves(p)) /\ \A f \in Created' : ReleaseMoves(f)
  <2>1. CASE PublishStoreFront(r, b)
    <3>1. Others(r) /\ CopyMoves(r)
      BY <2>1, PublishCopies, PublishEffect
    <3>2. UNCHANGED <<front, midway>>
      BY <2>1 DEF PublishStoreFront
    <3> QED BY <1>2, <1>4, <3>1, <3>2
  <2>2. CASE ~PublishStoreFront(r, b)
    BY <1>2, <1>3, <1>6, <2>2, BeginCopies DEF CopyMoves
  <2> QED BY <2>1, <2>2
<1>7. ASSUME NEW r \in Requests, RequestFails(r)
      PROVE  (\A p \in Requests : CopyMoves(p)) /\ \A f \in Created' : ReleaseMoves(f)
  <2>1. Others(r) /\ req'[r] = NoReq /\ UNCHANGED front
    BY <1>7, FailEffect
  <2>2. UNCHANGED midway
    BY <1>7 DEF RequestFails
  <2>3. CopyMoves(r)
    BY <2>1, NoReqFields DEF CopyMoves, OnRelease
  <2> QED BY <1>2, <1>4, <2>1, <2>2, <2>3
<1>8. ASSUME NEW f \in Fronts, CreateStoreFront(f)
      PROVE  (\A p \in Requests : CopyMoves(p)) /\ \A g \in Created' : ReleaseMoves(g)
  <2>1. /\ Created' = Created \cup {f} /\ front'[f] = NewFront /\ \A g \in Created : front'[g] = front[g]
        /\ UNCHANGED req
    BY <1>8, CreateEffect
  <2>2. UNCHANGED midway
    BY <1>8 DEF CreateStoreFront
  <2>3. ASSUME NEW g \in Created' PROVE ReleaseMoves(g)
    BY <2>1, <2>2, NewFrontFields DEF ReleaseMoves
  <2> QED BY <1>1, <2>1, <2>3
<1>9. (\E c \in Cards : \E to \in {{}} \cup {{u} : u \in Users} : CardChangesHands(c, to)) \/ UNCHANGED vars
        => UNCHANGED <<front, midway, req>>
  BY DEF CardChangesHands, vars
<1> QED BY <1>1, <1>4, <1>5, <1>6, <1>7, <1>8, <1>9 DEF Next

LEMMA ReleasesSoundNext ==
    ASSUME SlugInv, ListInv, FrontsTyped, ReleasesSound, [Next]_vars
    PROVE  ReleasesSound'
<1>1. SInv /\ CrossedOverlaps /\ seen \subseteq seen'
  BY SeenGrows DEF ListInv
<1>2. /\ \A r \in Requests : CopyMoves(r)
      /\ \A f \in Created' : ReleaseMoves(f)
  BY <1>1, CopiesMove
<1> DEFINE SparedLater(f) == \A e \in {"crossed", "cutShort"} : <<e, f>> \notin seen'
           CountedLater(d) == ListedFor({c \in d.cards : holders'[c] # {}}) \subseteq d.collections
<1>3. \A f : SparedLater(f) => Undisturbed(f)
  BY <1>1 DEF Undisturbed, Spared
<1>4. \A d : DocTyped(d) /\ Counted(d) => CountedLater(d)
  <2>1. SUFFICES ASSUME NEW d, DocTyped(d), Counted(d) PROVE CountedLater(d)
    OBVIOUS
  <2>2. ListedFor({c \in d.cards : holders'[c] # {}}) \subseteq ListedFor(Existing(d.cards))
    BY <1>1, <2>1, CardsOnlyGo, ExistingShrinks DEF DocTyped
  <2> QED BY <2>1, <2>2 DEF Counted
<1>5. ASSUME NEW r \in Requests, OnRelease(r)'
      PROVE  CopySound(r)'
  <2> DEFINE d == req'[r].doc
             f == req'[r].front
  <2>1. ASSUME DocTyped(d), ~req'[r].midway /\ SparedLater(f) => CountedLater(d)
        PROVE  CopySound(r)'
    BY <2>1 DEF CopySound, DocTyped, Counted, Existing, ListedFor, Undisturbed, Spared
  <2>2. CASE /\ OnRelease(r) /\ req'[r].doc = req[r].doc
             /\ req'[r].midway = req[r].midway /\ req'[r].front = req[r].front
    <3>1. CopySound(r)
      BY <2>2 DEF ReleasesSound
    <3> HIDE DEF CountedLater, SparedLater
    <3>2. DocTyped(d) /\ (~req'[r].midway /\ SparedLater(f) => CountedLater(d))
      BY <1>3, <1>4, <2>2, <3>1 DEF CopySound
    <3> QED BY <2>1, <3>2
  <2>3. CASE /\ f \in Created /\ d.cards = front[f].cards /\ d.collections = front[f].collections
             /\ ~req'[r].midway => Resting(f)
    <3>1. DocTyped(d)
      BY <1>1, <2>3 DEF DocTyped, SInv, FrontsTyped
    <3>2. Resting(f) /\ Undisturbed(f) => Counted(d)
      <4>1. CollectionOfEveryCardListed
        BY ListInvFollows DEF CollectionsFollowCards
      <4> QED BY <2>3, <4>1 DEF CollectionOfEveryCardListed, Undisturbed, Counted
    <3> HIDE DEF CountedLater, SparedLater, d, f
    <3> QED BY <1>3, <1>4, <2>1, <2>3, <3>1, <3>2
  <2> QED BY <1>2, <1>5, <2>2, <2>3 DEF CopyMoves
<1>6. ASSUME NEW f \in Created', front'[f].release # None
      PROVE  ReleaseSound(f)'
  <2> DEFINE d == front'[f].release
  <2>1. ASSUME DocTyped(d), f \notin midway' /\ SparedLater(f) => CountedLater(d)
        PROVE  ReleaseSound(f)'
    BY <2>1 DEF ReleaseSound, DocTyped, Counted, Existing, ListedFor, Undisturbed, Spared
  <2>2. CASE f \in Created /\ front'[f].release = front[f].release /\ (f \in midway' <=> f \in midway)
    <3>1. ReleaseSound(f)
      BY <1>6, <2>2 DEF ReleasesSound
    <3> HIDE DEF CountedLater, SparedLater
    <3>2. DocTyped(d) /\ (f \notin midway' /\ SparedLater(f) => CountedLater(d))
      BY <1>3, <1>4, <2>2, <3>1 DEF ReleaseSound
    <3> QED BY <2>1, <3>2
  <2>3. ASSUME NEW r \in Requests, OnRelease(r), req[r].front = f, front'[f].release = req[r].doc,
               req[r].midway => f \in midway'
        PROVE  ReleaseSound(f)'
    <3>1. CopySound(r)
      BY <2>3 DEF ReleasesSound
    <3> HIDE DEF CountedLater, SparedLater
    <3>2. DocTyped(d) /\ (f \notin midway' /\ SparedLater(f) => CountedLater(d))
      BY <1>3, <1>4, <2>3, <3>1 DEF CopySound
    <3> QED BY <2>1, <3>2
  <2> QED BY <1>2, <1>6, <2>2, <2>3 DEF ReleaseMoves
<1> QED BY <1>5, <1>6 DEF ReleasesSound

-----------------------------------------------------------------------------
(* The sums, as Marketplace_proofs has them.  What holds of a subset of a  *)
(* finite set whenever it holds of the smaller ones holds of all: the      *)
(* subsets it holds of are given as a set.                                 *)
LEMMA SubsetsBySize ==
    ASSUME NEW S, IsFiniteSet(S), NEW Q,
           \A T \in SUBSET S : (\A U \in SUBSET T : U # T => U \in Q) => T \in Q
    PROVE  \A T \in SUBSET S : T \in Q
<1> SUFFICES ASSUME NEW W \in SUBSET S, W \notin Q PROVE FALSE
  OBVIOUS
<1> DEFINE Bad == {T \in SUBSET S : T \notin Q}
<1>1. IsWellFoundedOn(StrictSubsetOrdering(S), FiniteSubsetsOf(S))
  BY FS_StrictSubsetOrderingWellFounded
<1>2. Bad \subseteq FiniteSubsetsOf(S) /\ Bad # {}
  <2>1. \A T \in SUBSET S : IsFiniteSet(T)
    BY FS_Subset
  <2> QED BY <2>1 DEF FiniteSubsetsOf
<1>3. PICK T \in Bad : \A U \in Bad : <<U, T>> \notin StrictSubsetOrdering(S)
  <2> HIDE DEF Bad
  <2> QED BY <1>1, <1>2, WFMin
<1>4. \A U \in SUBSET T : U # T => U \in Q
  BY <1>3 DEF StrictSubsetOrdering
<1> QED BY <1>3, <1>4

-----------------------------------------------------------------------------
(* The sums of the model are folds over the subsets of a set: g is the fold *)
(* that adds up the numbers v.                                              *)
IsSum(g, v, S) ==
    g = [s \in SUBSET S |-> IF s = {} THEN 0
                            ELSE v[CHOOSE x \in s : TRUE] + g[s \ {CHOOSE x \in s : TRUE}]]

LEMMA AddsSame ==
    ASSUME NEW v, NEW S, IsFiniteSet(S), NEW g, IsSum(g, v, S),
           NEW T, NEW h, IsSum(h, v, T)
    PROVE  \A s \in SUBSET S : s \in SUBSET T => g[s] = h[s]
<1> DEFINE Q == {s \in SUBSET S : s \in SUBSET T => g[s] = h[s]}
<1>1. ASSUME NEW s \in SUBSET S, \A r \in SUBSET s : r # s => r \in Q
      PROVE  s \in Q
  <2> SUFFICES ASSUME s \in SUBSET T PROVE g[s] = h[s]
    OBVIOUS
  <2>1. CASE s = {}
    BY <2>1 DEF IsSum
  <2>2. CASE s # {}
    <3> DEFINE x == CHOOSE y \in s : TRUE
    <3>1. x \in s
      BY <2>2
    <3>2. g[s] = v[x] + g[s \ {x}] /\ h[s] = v[x] + h[s \ {x}]
      BY <2>2 DEF IsSum
    <3> HIDE DEF x
    <3>3. s \ {x} \in Q /\ s \ {x} \in SUBSET T
      BY <1>1, <3>1
    <3> QED BY <3>2, <3>3
  <2> QED BY <2>1, <2>2
<1> HIDE DEF Q
<1>2. \A s \in SUBSET S : s \in Q
  BY <1>1, SubsetsBySize
<1> QED BY <1>2 DEF Q

LEMMA AddsExists ==
    ASSUME NEW v, NEW S, IsFiniteSet(S)
    PROVE  \E g : IsSum(g, v, S)
<1> DEFINE Q == {s \in SUBSET S : \E g : IsSum(g, v, s)}
<1>1. ASSUME NEW T \in SUBSET S, \A r \in SUBSET T : r # T => r \in Q
      PROVE  T \in Q
  <2> DEFINE fold(r) == CHOOSE h : IsSum(h, v, r)
             g == [s \in SUBSET T |->
                     IF s = {} THEN 0
                     ELSE v[CHOOSE x \in s : TRUE]
                            + fold(s \ {CHOOSE x \in s : TRUE})[s \ {CHOOSE x \in s : TRUE}]]
  <2>1. ASSUME NEW r \in SUBSET T, r # T
        PROVE  g[r] = fold(r)[r]
    <3>1. IsSum(fold(r), v, r)
      BY <1>1, <2>1
    <3>2. CASE r = {}
      BY <3>1, <3>2 DEF IsSum
    <3>3. CASE r # {}
      <4> DEFINE x == CHOOSE y \in r : TRUE
                 q == r \ {x}
      <4>1. x \in r
        BY <3>3
      <4>2. g[r] = v[x] + fold(q)[q]
        BY <3>3
      <4>3. fold(r)[r] = v[x] + fold(r)[q]
        <5> HIDE DEF fold
        <5> QED BY <3>1, <3>3 DEF IsSum
      <4> HIDE DEF x
      <4>4. q \in SUBSET T /\ q # T /\ q \in SUBSET r
        BY <4>1
      <4>5. IsSum(fold(q), v, q)
        BY <1>1, <4>4
      <4>6. IsFiniteSet(q)
        BY <4>4, FS_Subset
      <4> HIDE DEF fold, q, g
      <4>7. fold(q)[q] = fold(r)[q]
        BY <3>1, <4>4, <4>5, <4>6, AddsSame
      <4> QED BY <4>2, <4>3, <4>7
    <3> QED BY <3>2, <3>3
  <2>2. ASSUME NEW s \in SUBSET T, s # {}
        PROVE  LET x == CHOOSE y \in s : TRUE
               IN  fold(s \ {x})[s \ {x}] = g[s \ {x}]
    <3> DEFINE x == CHOOSE y \in s : TRUE
    <3>1. x \in s
      BY <2>2
    <3> HIDE DEF x, g, fold
    <3>2. s \ {x} \in SUBSET T /\ s \ {x} # T
      BY <3>1
    <3>3. fold(s \ {x})[s \ {x}] = g[s \ {x}]
      BY <2>1, <3>2
    <3> QED BY <3>3 DEF x
  <2>3. IsSum(g, v, T)
    <3> DEFINE w(s) == IF s = {} THEN 0
                       ELSE v[CHOOSE x \in s : TRUE] + g[s \ {CHOOSE x \in s : TRUE}]
    <3>1. \A s \in SUBSET T : g[s] = w(s)
      <4> SUFFICES ASSUME NEW s \in SUBSET T PROVE g[s] = w(s)
        OBVIOUS
      <4>1. CASE s = {}
        BY <4>1
      <4>2. CASE s # {}
        <5>1. g[s] = v[CHOOSE x \in s : TRUE]
                       + fold(s \ {CHOOSE x \in s : TRUE})[s \ {CHOOSE x \in s : TRUE}]
          BY <4>2
        <5> HIDE DEF g, fold
        <5> QED BY <4>2, <5>1, <2>2
      <4> QED BY <4>1, <4>2
    <3>2. g = [s \in SUBSET T |-> g[s]]
      OBVIOUS
    <3> HIDE DEF g, fold
    <3> QED BY <3>1, <3>2 DEF IsSum
  <2> QED BY <2>3
<1> HIDE DEF Q
<1>2. \A s \in SUBSET S : s \in Q
  BY <1>1, SubsetsBySize
<1> QED BY <1>2 DEF Q

LEMMA AddsNat ==
    ASSUME NEW S, IsFiniteSet(S), NEW v, \A x \in S : v[x] \in Nat, NEW g, IsSum(g, v, S)
    PROVE  \A s \in SUBSET S : g[s] \in Nat
<1> DEFINE Q == {s \in SUBSET S : g[s] \in Nat}
<1>1. ASSUME NEW s \in SUBSET S, \A r \in SUBSET s : r # s => r \in Q
      PROVE  s \in Q
  <2>1. CASE s = {}
    BY <2>1 DEF IsSum
  <2>2. CASE s # {}
    <3> DEFINE x == CHOOSE y \in s : TRUE
    <3>1. x \in s
      BY <2>2
    <3>2. g[s] = v[x] + g[s \ {x}]
      BY <2>2 DEF IsSum
    <3> HIDE DEF x
    <3>3. s \ {x} \in Q /\ v[x] \in Nat
      BY <1>1, <3>1
    <3> QED BY <3>2, <3>3
  <2> QED BY <2>1, <2>2
<1> HIDE DEF Q
<1>2. \A s \in SUBSET S : s \in Q
  BY <1>1, SubsetsBySize
<1> QED BY <1>2 DEF Q

(* Whichever element the fold chose, any can be taken out of the sum.      *)
LEMMA AddsRemove ==
    ASSUME NEW S, IsFiniteSet(S), NEW v, \A x \in S : v[x] \in Nat, NEW g, IsSum(g, v, S)
    PROVE  \A s \in SUBSET S : \A x \in s : g[s] = v[x] + g[s \ {x}]
<1> DEFINE Q == {s \in SUBSET S : \A x \in s : g[s] = v[x] + g[s \ {x}]}
<1>1. ASSUME NEW s \in SUBSET S, \A r \in SUBSET s : r # s => r \in Q
      PROVE  s \in Q
  <2> SUFFICES ASSUME NEW x \in s PROVE g[s] = v[x] + g[s \ {x}]
    OBVIOUS
  <2> DEFINE c == CHOOSE y \in s : TRUE
  <2>1. c \in s /\ g[s] = v[c] + g[s \ {c}]
    BY DEF IsSum
  <2> HIDE DEF c
  <2>2. CASE c = x
    BY <2>1, <2>2
  <2>3. CASE c # x
    <3>1. g[s \ {c}] = v[x] + g[(s \ {c}) \ {x}]
      <4>1. s \ {c} \in SUBSET s /\ s \ {c} # s /\ x \in s \ {c}
        BY <2>1, <2>3
      <4> QED BY <1>1, <4>1
    <3>2. g[s \ {x}] = v[c] + g[(s \ {x}) \ {c}]
      <4>1. s \ {x} \in SUBSET s /\ s \ {x} # s /\ c \in s \ {x}
        BY <2>1, <2>3
      <4> QED BY <1>1, <4>1
    <3>3. (s \ {c}) \ {x} = (s \ {x}) \ {c}
      OBVIOUS
    <3>4. v[c] \in Nat /\ v[x] \in Nat /\ g[(s \ {c}) \ {x}] \in Nat
      <4>1. (s \ {c}) \ {x} \in SUBSET S
        OBVIOUS
      <4> QED BY <2>1, <4>1, AddsNat
    <3> DEFINE m == g[(s \ {c}) \ {x}]
    <3>5. g[s \ {x}] = v[c] + m
      BY <3>2, <3>3
    <3>6. g[s] = v[c] + (v[x] + m) /\ m \in Nat
      BY <2>1, <3>1, <3>4
    <3> HIDE DEF m
    <3> QED BY <3>4, <3>5, <3>6
  <2> QED BY <2>2, <2>3
<1> HIDE DEF Q
<1>2. \A s \in SUBSET S : s \in Q
  BY <1>1, SubsetsBySize
<1> QED BY <1>2 DEF Q

(* The sum of the values of a function on a set.                           *)
SumOver(v, S) == MapThenSumSet(LAMBDA x : v[x], S)

LEMMA SumIsFold ==
    ASSUME NEW v, NEW S, IsFiniteSet(S)
    PROVE  \E g : IsSum(g, v, S) /\ SumOver(v, S) = g[S]
<1>1. \E g : IsSum(g, v, S)
  BY AddsExists
<1>2. SumOver(v, S) = (CHOOSE g : IsSum(g, v, S))[S]
  BY DEF SumOver, MapThenSumSet, MapThenFoldSet, IsSum
<1>3. IsSum(CHOOSE g : IsSum(g, v, S), v, S)
  BY <1>1
<1> QED BY <1>2, <1>3

(* One can be taken out, and there is nothing else to know.                *)
LEMMA SumParts ==
    ASSUME NEW S, IsFiniteSet(S), NEW v, \A x \in S : v[x] \in Nat
    PROVE  /\ SumOver(v, S) \in Nat
           /\ SumOver(v, {}) = 0
           /\ \A x \in S : SumOver(v, S) = v[x] + SumOver(v, S \ {x})
<1>1. PICK g : IsSum(g, v, S) /\ SumOver(v, S) = g[S]
  BY SumIsFold
<1>2. \A s \in SUBSET S : g[s] \in Nat
  BY <1>1, AddsNat
<1>3. SumOver(v, {}) = 0
  <2>1. PICK h : IsSum(h, v, {}) /\ SumOver(v, {}) = h[{}]
    BY SumIsFold, FS_EmptySet
  <2> QED BY <2>1 DEF IsSum
<1>4. ASSUME NEW x \in S PROVE SumOver(v, S) = v[x] + SumOver(v, S \ {x})
  <2>1. IsFiniteSet(S \ {x}) /\ S \ {x} \in SUBSET S
    BY FS_Subset
  <2>2. PICK h : IsSum(h, v, S \ {x}) /\ SumOver(v, S \ {x}) = h[S \ {x}]
    BY <2>1, SumIsFold
  <2>3. h[S \ {x}] = g[S \ {x}]
    <3> DEFINE D == S \ {x}
    <3>1. IsFiniteSet(D) /\ D \in SUBSET D /\ D \in SUBSET S /\ IsSum(h, v, D)
      BY <2>1, <2>2
    <3> HIDE DEF D
    <3>2. \A s \in SUBSET D : s \in SUBSET S => h[s] = g[s]
      BY <1>1, <3>1, AddsSame
    <3>3. h[D] = g[D]
      BY <3>1, <3>2
    <3> QED BY <3>3 DEF D
  <2>4. g[S] = v[x] + g[S \ {x}]
    BY <1>1, AddsRemove
  <2> QED BY <1>1, <2>2, <2>3, <2>4
<1> QED BY <1>1, <1>2, <1>3, <1>4

(* The sum depends on the values on the set.                               *)
LEMMA SumSame ==
    ASSUME NEW S, IsFiniteSet(S), NEW v, NEW w, \A x \in S : v[x] \in Nat /\ w[x] = v[x]
    PROVE  SumOver(v, S) = SumOver(w, S)
<1> DEFINE Q == {s \in SUBSET S : SumOver(v, s) = SumOver(w, s)}
<1>1. ASSUME NEW s \in SUBSET S, \A r \in SUBSET s : r # s => r \in Q
      PROVE  s \in Q
  <2>1. IsFiniteSet(s) /\ (\A x \in s : v[x] \in Nat) /\ \A x \in s : w[x] \in Nat
    BY FS_Subset
  <2>2. CASE s = {}
    <3>1. SumOver(v, {}) = 0 /\ SumOver(w, {}) = 0
      BY <2>1, SumParts
    <3> QED BY <2>2, <3>1
  <2>3. ASSUME NEW x \in s PROVE SumOver(v, s) = SumOver(w, s)
    <3>1. SumOver(v, s) = v[x] + SumOver(v, s \ {x}) /\ SumOver(w, s) = w[x] + SumOver(w, s \ {x})
      BY <2>1, SumParts
    <3>2. s \ {x} \in Q
      BY <1>1
    <3> QED BY <3>1, <3>2
  <2> QED BY <2>2, <2>3
<1> HIDE DEF Q
<1>2. \A s \in SUBSET S : s \in Q
  BY <1>1, SubsetsBySize
<1> QED BY <1>2 DEF Q

-----------------------------------------------------------------------------
(* What the collections count is what there is.                            *)
InCollections(S, W) == {c \in S : CollectionOf[c] \in W}

OfCollection(S, k) == {c \in S : CollectionOf[c] = k}

LEMMA CountedOnceEach ==
    ASSUME NEW S, IsFiniteSet(S), NEW K, IsFiniteSet(K),
           NEW v, \A k \in K : v[k] = Cardinality(OfCollection(S, k))
    PROVE  \A W \in SUBSET K : SumOver(v, W) = Cardinality(InCollections(S, W))
<1> DEFINE Q == {W \in SUBSET K : SumOver(v, W) = Cardinality(InCollections(S, W))}
<1>1. \A k : IsFiniteSet(OfCollection(S, k)) /\ Cardinality(OfCollection(S, k)) \in Nat
  BY FS_Subset, FS_CardinalityType DEF OfCollection
<1>2. \A W : IsFiniteSet(InCollections(S, W)) /\ Cardinality(InCollections(S, W)) \in Nat
  BY FS_Subset, FS_CardinalityType DEF InCollections
<1>3. ASSUME NEW W \in SUBSET K, \A U \in SUBSET W : U # W => U \in Q
      PROVE  W \in Q
  <2>1. CASE W = {}
    <3>1. InCollections(S, W) = {} /\ Cardinality({}) = 0
      BY <2>1, FS_EmptySet DEF InCollections
    <3>2. SumOver(v, {}) = 0
      BY SumParts, FS_EmptySet
    <3> QED BY <2>1, <3>1, <3>2
  <2>2. ASSUME NEW k \in W
        PROVE  SumOver(v, W) = Cardinality(InCollections(S, W))
    <3> DEFINE U == W \ {k}
    <3>1. U \in SUBSET W /\ U # W /\ k \in K /\ U = W \ {k}
      OBVIOUS
    <3> HIDE DEF U
    <3>2. SumOver(v, U) = Cardinality(InCollections(S, U))
      BY <1>3, <3>1
    <3>3. v[k] = Cardinality(OfCollection(S, k)) /\ \A x \in W : v[x] \in Nat
      BY <1>1, <3>1
    <3>4. SumOver(v, W) = v[k] + SumOver(v, U)
      <4>1. IsFiniteSet(W)
        BY FS_Subset
      <4> QED BY <3>1, <3>3, <4>1, SumParts
    <3>5. InCollections(S, W) = OfCollection(S, k) \cup InCollections(S, U) /\ OfCollection(S, k) \cap InCollections(S, U) = {}
      BY <3>1 DEF InCollections, OfCollection
    <3>6. Cardinality(InCollections(S, W)) = Cardinality(OfCollection(S, k)) + Cardinality(InCollections(S, U))
      <4>1. Cardinality(OfCollection(S, k) \cup InCollections(S, U))
              = Cardinality(OfCollection(S, k)) + Cardinality(InCollections(S, U)) - Cardinality(OfCollection(S, k) \cap InCollections(S, U))
        BY <1>1, <1>2, FS_Union
      <4>2. Cardinality(OfCollection(S, k) \cap InCollections(S, U)) = 0
        BY <3>5, FS_EmptySet
      <4> QED BY <1>1, <1>2, <3>5, <4>1, <4>2
    <3> QED BY <3>2, <3>3, <3>4, <3>6
  <2> QED BY <2>1, <2>2
<1> HIDE DEF Q
<1>4. \A W \in SUBSET K : W \in Q
  BY <1>3, SubsetsBySize
<1> QED BY <1>4 DEF Q

LEMMA ShownAreCounted ==
    ASSUME NEW d, DocTyped(d), Counted(d)
    PROVE  MapThenSumSet(LAMBDA k : ShownCollections(d)[k], d.collections) = Cardinality(ShownCards(d))
<1> DEFINE S == Existing(d.cards)
           K == d.collections
           v == ShownCollections(d)
<1>1. IsFiniteSet(S) /\ IsFiniteSet(K)
  BY FrontsAssumption, FS_Subset DEF DocTyped, Existing
<1>2. \A c \in S : CollectionOf[c] \in K
  BY DEF Counted, ListedFor
<1>3. CollectionsListByIds(K) = K
  BY DEF CollectionsListByIds, DocTyped
<1>4. CardsByIdsAndCollectionIds(d.cards, K) = S
  BY <1>2 DEF CardsByIdsAndCollectionIds
<1>5. \A k \in K : v[k] = Cardinality(OfCollection(S, k))
  BY <1>3, <1>4 DEF ShownCollections, OfCollection
<1>6. SumOver(v, K) = MapThenSumSet(LAMBDA k : ShownCollections(d)[k], d.collections)
  BY DEF SumOver
<1>7. ShownCards(d) = S
  BY DEF ShownCards
<1> HIDE DEF S, K, v
<1>8. SumOver(v, K) = Cardinality(InCollections(S, K))
  BY <1>1, <1>5, CountedOnceEach
<1>9. InCollections(S, K) = S
  BY <1>2 DEF InCollections
<1> QED BY <1>6, <1>7, <1>8, <1>9 DEF K

LEMMA ReleasesFollow == ReleasesSound => EveryShownCardCounted
<1> SUFFICES ASSUME ReleasesSound PROVE EveryShownCardCounted
  OBVIOUS
<1>1. ASSUME NEW f \in Created, Shown(f, None, TRUE) # None, f \notin midway, Undisturbed(f)
      PROVE  MapThenSumSet(LAMBDA k : ShownCollections(Shown(f, None, TRUE))[k], Shown(f, None, TRUE).collections)
               = Cardinality(ShownCards(Shown(f, None, TRUE)))
  <2>1. DocTyped(Shown(f, None, TRUE)) /\ Counted(Shown(f, None, TRUE))
    BY <1>1 DEF Shown, ReleasesSound, ReleaseSound
  <2> QED BY <2>1, ShownAreCounted
<1> QED BY <1>1 DEF EveryShownCardCounted, Undisturbed

LEMMA ReleasesSoundInit == Init => ReleasesSound
<1> SUFFICES ASSUME Init PROVE ReleasesSound
  OBVIOUS
<1>1. Created = {} /\ \A r \in Requests : req[r] = NoReq
  BY DEF Init, Created
<1> QED BY <1>1, NoReqFields DEF ReleasesSound, OnRelease

(* The collections a released front shows count every card it shows, each  *)
(* once, whatever became of the cards and of the front since, unless the   *)
(* release was read amid a card request or of a front where two of them    *)
(* crossed or one was cut short (publishStoreFront, getCollections).       *)
THEOREM ShownCardsStayCounted == Spec => []EveryShownCardCounted
<1> DEFINE Inv == SlugInv /\ ListInv /\ PagesInv /\ ReleasesSound
<1>1. Init => Inv
  BY SlugInvInit, ListInvInit, PagesInvInit, ReleasesSoundInit
<1>2. Inv /\ [Next]_vars => Inv'
  BY SlugInvNext, ListInvNext, PagesInvNext, ReleasesSoundNext DEF PagesInv
<1>3. Inv => EveryShownCardCounted
  BY ReleasesFollow
<1> QED BY <1>1, <1>2, <1>3, PTL DEF Spec
=============================================================================
